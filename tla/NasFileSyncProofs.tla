------------------------- MODULE NasFileSyncProofs -------------------------
(***************************************************************************)
(* The types of NasFileSync, and AvailableMeansThere, for any number of    *)
(* requests, attempts, duplicates and troubles.  The argument: only a      *)
(* handler changes where the content is, and the next row it saves says    *)
(* where it has put it.                                                    *)
(*                                                                         *)
(* Then NobodyLeftSyncing and ActiveFileInPlace: of a file that nothing    *)
(* has disturbed a SYNCING row has a job that carries it to its end.       *)
(*                                                                         *)
(* Last, the queue the jobs are in implements JobQueue.                    *)
(***************************************************************************)
EXTENDS NasFileSync, SequenceTheorems, TLAPS

(* A job that can run again has attempts left, and the one that runs is     *)
(* active.                                                                  *)
Books ==
  /\ jobs \in Seq(JobRecords) /\ run \in 0..Len(jobs) /\ pc \in Steps
  /\ run = 0 <=> pc = "idle"
  /\ run # 0 => Job.state = "active"
  /\ \A i \in 1..Len(jobs) : jobs[i].state \in {"waiting", "active"}
                               => jobs[i].throws <= MaxAttempts

(* Every lease and every trash_metadata row was asked for.                  *)
Asked ==
  /\ requests \in 0..MaxRequests
  /\ metas \subseteq 1..requests /\ purging \in 0..requests
  /\ row \in Rows /\ row.lease <= requests
  /\ nasCopy \in Rows /\ nasCopy.lease <= requests
  /\ leaseCopy \in Rows /\ leaseCopy.lease <= requests
  /\ download \in {"idle", "reading", "leased", "closing"}
  /\ download = "reading" => leaseCopy.lease < requests /\ Available(leaseCopy)
  /\ download = "closing" => leaseCopy.lease > 0

Data ==
  /\ file \in Files /\ fileCopy \in Files /\ purgeCopy \in Files
  /\ at \in Keys /\ active \subseteq Folders
  /\ duplicates \in 0..MaxDuplicates /\ troubles \in 0..MaxTroubles
  /\ stale \in BOOLEAN /\ interrupted \in BOOLEAN /\ late \in BOOLEAN

Undisturbed == ~stale /\ ~interrupted /\ active = Folders

(* Between the move and the save the content is at the target.              *)
SavedNext == Undisturbed /\ pc = "save" => at = Target

(* A job is turned back only when a folder was deleted.                     *)
TurnedBack == pc \in {"revert", "revertFile", "revertRow"} => active # Folders

IndInv ==
  /\ Books
  /\ Asked
  /\ Data
  /\ AvailableMeansThere
  /\ SavedNext
  /\ TurnedBack

-----------------------------------------------------------------------------
(* Keys.                                                                    *)

LEMMA KeyTypes ==
  /\ UploadKey \in Keys /\ Gone \in Keys
  /\ NoRow \in Rows /\ NoRow.lease = 0 /\ NoRow.status = "NONE"
  BY NasAssumption, EmptySeq DEF NasAssumption, UploadKey, Gone, NoRow, Row, Key, Keys,
     Rows, Stamp

(* The key of a row is a key.                                               *)
LEMMA RowTypes ==
  ASSUME NEW r \in Rows
  PROVE  r.key \in Keys /\ r.lease \in Nat
  BY KeyTypes, NasAssumption DEF NasAssumption, Rows, NoRow, Row

(* The paths that requests and handlers compute are keys.                   *)
LEMMA PathTypes ==
  /\ \A n \in Names : NewObjectKey(n) \in Keys
  /\ \A k \in Keys, n \in Names : RenameTarget(k, n) \in Keys
  /\ \A k \in Keys, d \in Folders : MoveTarget(k, d) \in Keys
  /\ \A k \in Keys, d \in Folders : RestorePath(k, d) \in Keys
  /\ \A k \in Keys, m \in Nat : TrashPath(k, m) \in Keys
<1>1. \A n \in Names : NewObjectKey(n) \in Keys
  BY DEF NewObjectKey, Key, Keys, NullStamp
<1>2. ASSUME NEW k \in Keys
      PROVE  /\ k.prefix \in Seq(Int) /\ k.name \in Names
             /\ k.dir \in Folders \cup {"none", "trash", "gone"}
  BY DEF Keys
<1>3. ASSUME NEW k \in Keys
      PROVE  SubSeq(k.prefix, 1, IF k.prefix = <<>> THEN 0 ELSE 1) \in Seq(Int)
  <2>1. CASE k.prefix = <<>>
    BY <2>1, SubSeqEmpty, EmptySeq, <1>2
  <2>2. CASE k.prefix # <<>>
    <3>1. Len(k.prefix) \in Nat /\ Len(k.prefix) >= 1
      BY <2>2, <1>2, LenProperties, EmptySeq
    <3>2. SubSeq(k.prefix, 1, 1) \in Seq(Int)
      BY <3>1, <1>2, SubSeqProperties
    <3> QED BY <3>2, <2>2
  <2> QED BY <2>1, <2>2
<1>4. ASSUME NEW k \in Keys, NEW m \in Nat  PROVE <<m>> \o k.prefix \in Seq(Int)
  <2>1. <<m>> \in Seq(Int)
    OBVIOUS
  <2> QED BY <2>1, <1>2, ConcatProperties
<1>5. ASSUME NEW k \in Keys
      PROVE  (IF k.prefix = <<>> THEN <<>> ELSE Tail(k.prefix)) \in Seq(Int)
  BY <1>2, HeadTailProperties, EmptySeq
<1>6. \A k \in Keys, n \in Names : RenameTarget(k, n) \in Keys
  BY <1>2, <1>3 DEF RenameTarget, Key, Keys
<1>7. \A k \in Keys, d \in Folders : MoveTarget(k, d) \in Keys
  BY <1>2 DEF MoveTarget, Key, Keys
<1>8. \A k \in Keys, d \in Folders : RestorePath(k, d) \in Keys
  BY <1>2, <1>5 DEF RestorePath, Key, Keys
<1>9. \A k \in Keys, m \in Nat : TrashPath(k, m) \in Keys
  BY <1>2, <1>4 DEF TrashPath, Key, Keys
<1> QED BY <1>1, <1>6, <1>7, <1>8, <1>9

(* The job that runs is a job, and its handler moves to a key.              *)
LEMMA JobTypes ==
  ASSUME Books, run # 0
  PROVE  /\ run \in 1..Len(jobs) /\ Job \in JobRecords /\ Job.state = "active"
         /\ Job.throws <= MaxAttempts
  <1>1. run \in 1..Len(jobs)
    BY LenProperties DEF Books
  <1> QED BY <1>1, ElementOfSeq DEF Books, Job

LEMMA TargetType ==
  ASSUME Books, run # 0, nasCopy \in Rows
  PROVE  Target \in Keys
  <1>1. Job.src \in Keys /\ Job.dst \in Keys /\ Job.to \in Folders
        /\ Job.dst.name \in Names
    BY JobTypes DEF JobRecords, Keys
  <1>2. nasCopy.key \in Keys
    BY RowTypes
  <1>3. RenameTarget(Job.src, Job.dst.name) \in Keys
        /\ RestorePath(nasCopy.key, Job.to) \in Keys
    BY <1>1, <1>2, PathTypes
  <1> QED BY <1>1, <1>3 DEF Target

-----------------------------------------------------------------------------
(* Books: what each way of ending a step does to the jobs.                  *)

LEMMA JobsAreRecords ==
  ASSUME Books, NEW i \in 1..Len(jobs)
  PROVE  jobs[i] \in JobRecords
  BY ElementOfSeq DEF Books

(* A job added at the end disturbs none of the others.                      *)
LEMMA AppendBooks ==
  ASSUME Books, NEW j \in JobRecords, j.state = "waiting", j.throws = 0,
         jobs' = Append(jobs, j), UNCHANGED <<run, pc>>
  PROVE  Books' /\ (run # 0 => Job' = Job)
<1>1. /\ jobs' \in Seq(JobRecords) /\ Len(jobs') = Len(jobs) + 1
      /\ \A i \in 1..Len(jobs) : jobs'[i] = jobs[i]
      /\ jobs'[Len(jobs) + 1] = j
  BY AppendProperties DEF Books
<1>2. Len(jobs) \in Nat
  BY LenProperties DEF Books
<1>3. run # 0 => Job' = Job
  BY <1>1, JobTypes DEF Job
<1>4. \A i \in 1..Len(jobs') : jobs'[i].state \in {"waiting", "active"}
                                 => jobs'[i].throws <= MaxAttempts
  BY <1>1, <1>2, NasAssumption DEF Books, NasAssumption
<1> QED
  BY <1>1, <1>2, <1>3, <1>4 DEF Books

(* A step of a handler that goes on.                                        *)
LEMMA GoToBooks ==
  ASSUME Books, run # 0, NEW s \in Steps \ {"idle"}, GoTo(s)
  PROVE  Books' /\ Job' = Job
  BY DEF Books, GoTo, Job

(* One job changes its state or its throws.                                 *)
LEMMA SetBooks ==
  ASSUME Books, NEW i \in 1..Len(jobs), NEW j \in JobRecords,
         j.state \in {"waiting", "active"} => j.throws <= MaxAttempts,
         jobs' = [jobs EXCEPT ![i] = j]
  PROVE  /\ jobs' \in Seq(JobRecords) /\ Len(jobs') = Len(jobs) /\ jobs'[i] = j
         /\ \A k \in 1..Len(jobs') : jobs'[k].state \in {"waiting", "active"}
                                       => jobs'[k].throws <= MaxAttempts
<1>1. /\ jobs' \in Seq(JobRecords) /\ Len(jobs') = Len(jobs) /\ jobs'[i] = j
      /\ \A k \in 1..Len(jobs) : jobs'[k] = IF k = i THEN j ELSE jobs[k]
  BY ExceptSeq DEF Books
<1> QED BY <1>1 DEF Books

(* A job that is done.                                                      *)
LEMMA FinishBooks ==
  ASSUME Books, run # 0, Finish
  PROVE  Books'
<1>1. /\ run \in 1..Len(jobs) /\ Job \in JobRecords
  BY JobTypes
<1> DEFINE j == [Job EXCEPT !.state = "done"]
<1>2. j \in JobRecords /\ j.state = "done"
  BY <1>1 DEF JobRecords
<1>3. jobs' = [jobs EXCEPT ![run] = j]
  BY DEF Finish, SetState, Job
<1> HIDE DEF j
<1>4. /\ jobs' \in Seq(JobRecords) /\ Len(jobs') = Len(jobs)
      /\ \A k \in 1..Len(jobs') : jobs'[k].state \in {"waiting", "active"}
                                    => jobs'[k].throws <= MaxAttempts
  BY <1>1, <1>2, <1>3, SetBooks
<1>5. run' = 0 /\ pc' = "idle"
  BY DEF Finish
<1> QED
  BY <1>4, <1>5, LenProperties DEF Books, Steps

(* A job that throws waits again only while it has attempts left.           *)
LEMMA ThrowBooks ==
  ASSUME Books, run # 0, Throw
  PROVE  Books'
<1>1. /\ run \in 1..Len(jobs) /\ Job \in JobRecords /\ Job.throws <= MaxAttempts
  BY JobTypes
<1> DEFINE n == Job.throws + 1
           s == IF n <= MaxAttempts THEN "waiting" ELSE "failed"
           j == [Job EXCEPT !.throws = n, !.state = s]
<1>2. n \in 0..MaxAttempts + 1 /\ s \in {"waiting", "failed"}
      /\ (s = "waiting" => n <= MaxAttempts)
  BY <1>1, NasAssumption DEF NasAssumption, JobRecords
<1>3. j \in JobRecords /\ (j.state \in {"waiting", "active"} => j.throws <= MaxAttempts)
  <2> HIDE DEF n, s
  <2> QED BY <1>1, <1>2 DEF JobRecords
<1>4. jobs' = [jobs EXCEPT ![run] = j]
  BY DEF Throw, Job
<1> HIDE DEF j
<1>5. /\ jobs' \in Seq(JobRecords) /\ Len(jobs') = Len(jobs)
      /\ \A k \in 1..Len(jobs') : jobs'[k].state \in {"waiting", "active"}
                                    => jobs'[k].throws <= MaxAttempts
  BY <1>1, <1>3, <1>4, SetBooks
<1>6. run' = 0 /\ pc' = "idle"
  BY DEF Throw
<1> QED
  BY <1>5, <1>6, LenProperties DEF Books, Steps

(* A job that a request registers.                                          *)
LEMMA EnqueueBooks ==
  ASSUME Books, file \in Files, requests' \in 1..MaxRequests,
         NEW kind \in Kinds, NEW src \in Keys, NEW dst \in Keys,
         NEW to \in Folders, NEW m \in 0..MaxRequests,
         Enqueue(kind, src, dst, to, m), UNCHANGED <<run, pc>>
  PROVE  Books' /\ (run # 0 => Job' = Job)
<1> DEFINE j == [kind |-> kind, src |-> src, dst |-> dst, from |-> file.dir,
                 to |-> to, meta |-> m, asked |-> requests', state |-> "waiting",
                 throws |-> 0]
<1>1. j \in JobRecords /\ j.state = "waiting" /\ j.throws = 0
  BY NasAssumption DEF NasAssumption, JobRecords, Files
<1>2. jobs' = Append(jobs, j)
  BY DEF Enqueue
<1> HIDE DEF j
<1> QED BY <1>1, <1>2, AppendBooks

(* Who asks something of the file keeps the books, and the running job stays. *)
LEMMA RequestBooks ==
  ASSUME IndInv, Request
  PROVE  Books' /\ (run # 0 => Job' = Job)
<1> USE DEF IndInv
<1>1. /\ Accept => requests' \in 1..MaxRequests
      /\ requests \in 0..MaxRequests /\ metas \subseteq 1..requests
      /\ purging \in 0..requests
      /\ row.key \in Keys /\ file \in Files /\ file.dir \in Folders
      /\ Gone \in Keys
  BY NasAssumption, RowTypes, KeyTypes DEF NasAssumption, Accept, Asked, Data, Files
<1>2. ASSUME UNCHANGED <<jobs, run, pc>>  PROVE Books' /\ (run # 0 => Job' = Job)
  BY <1>2 DEF Books, Job
<1>3. ASSUME NEW n \in Names, RequestRename(n)  PROVE Books' /\ (run # 0 => Job' = Job)
  <2>1. NewObjectKey(n) \in Keys
    BY <1>1, PathTypes
  <2>2. Accept /\ Enqueue("rename", row.key, NewObjectKey(n), file.dir, 0)
        /\ UNCHANGED <<run, pc>>
    BY <1>3 DEF RequestRename
  <2> QED BY <1>1, <2>1, <2>2, EnqueueBooks, NasAssumption DEF NasAssumption, Kinds
<1>4. ASSUME NEW d \in Folders, RequestMove(d)  PROVE Books' /\ (run # 0 => Job' = Job)
  <2>1. MoveTarget(row.key, d) \in Keys
    BY <1>1, PathTypes
  <2>2. Accept /\ Enqueue("move", row.key, MoveTarget(row.key, d), d, 0)
        /\ UNCHANGED <<run, pc>>
    BY <1>4 DEF RequestMove
  <2> QED BY <1>1, <2>1, <2>2, EnqueueBooks, NasAssumption DEF NasAssumption, Kinds
<1>5. CASE RequestDelete
  <2>1. Accept /\ Enqueue("trash", row.key, TrashPath(row.key, requests'), file.dir, 0)
        /\ UNCHANGED <<run, pc>>
    BY <1>5 DEF RequestDelete
  <2>2. TrashPath(row.key, requests') \in Keys
    BY <1>1, <2>1, PathTypes
  <2> QED BY <1>1, <2>1, <2>2, EnqueueBooks, NasAssumption DEF NasAssumption, Kinds
<1>6. ASSUME NEW m \in metas, NEW d \in Folders, RequestRestore(m, d)
      PROVE  Books' /\ (run # 0 => Job' = Job)
  <2>1. Accept /\ Enqueue("restore", Gone, Gone, d, m) /\ UNCHANGED <<run, pc>>
    BY <1>6 DEF RequestRestore, rowVars
  <2>2. m \in 0..MaxRequests
    BY <1>1, NasAssumption DEF NasAssumption
  <2> QED BY <1>1, <2>1, <2>2, EnqueueBooks DEF Kinds
<1>7. ASSUME NEW m \in metas, RequestPurge(m)  PROVE Books' /\ (run # 0 => Job' = Job)
  BY <1>2, <1>7 DEF RequestPurge
<1>8. CASE SavePurged
  BY <1>2, <1>8 DEF SavePurged
<1>9. CASE QueuePurge
  <2>1. purging # 0 /\ Enqueue("purge", Gone, Gone, file.dir, purging)
        /\ UNCHANGED <<run, pc, requests>>
    BY <1>9 DEF QueuePurge, boundVars
  <2>2. requests' \in 1..MaxRequests /\ purging \in 0..MaxRequests
    BY <1>1, <2>1, NasAssumption DEF NasAssumption
  <2> QED BY <1>1, <2>1, <2>2, EnqueueBooks DEF Kinds
<1>10. ASSUME NEW d \in Folders, TrashFolder(d)  PROVE Books' /\ (run # 0 => Job' = Job)
  BY <1>2, <1>10 DEF TrashFolder
<1> QED BY <1>3, <1>4, <1>5, <1>6, <1>7, <1>8, <1>9, <1>10 DEF Request

(* A job the recovery registers a second time.                              *)
LEMMA DuplicateBooks ==
  ASSUME IndInv, NEW i \in DOMAIN jobs, Duplicate(i)
  PROVE  Books' /\ (run # 0 => Job' = Job)
<1> DEFINE j == [jobs[i] EXCEPT !.throws = 0]
<1>1. jobs[i] \in JobRecords
  <2>1. i \in 1..Len(jobs)
    BY LenProperties DEF IndInv, Books
  <2> QED BY <2>1, JobsAreRecords DEF IndInv
<1>2. j \in JobRecords /\ j.state = "waiting" /\ j.throws = 0
  <2>1. jobs[i].state = "waiting" /\ 0 \in 0..MaxAttempts + 1
    BY NasAssumption DEF NasAssumption, Duplicate
  <2> QED BY <1>1, <2>1 DEF JobRecords
<1>3. jobs' = Append(jobs, j) /\ UNCHANGED <<run, pc>>
  BY DEF Duplicate
<1> HIDE DEF j
<1> QED BY <1>2, <1>3, AppendBooks DEF IndInv

(* A job that is started.                                                   *)
LEMMA StartBooks ==
  ASSUME IndInv, NEW i \in DOMAIN jobs, StartJob(i)
  PROVE  Books' /\ pc' \in {"meta", "file", "row"}
<1> DEFINE j == [jobs[i] EXCEPT !.state = "active"]
<1>1. i \in 1..Len(jobs) /\ Books
  BY LenProperties DEF IndInv, Books
<1>2. jobs[i] \in JobRecords /\ jobs[i].state = "waiting" /\ jobs[i].throws <= MaxAttempts
  BY <1>1, JobsAreRecords DEF StartJob, Books
<1>3. j \in JobRecords /\ j.state = "active" /\ j.throws <= MaxAttempts
  BY <1>2 DEF JobRecords
<1>4. jobs' = [jobs EXCEPT ![i] = j]
  BY DEF StartJob, SetState
<1> HIDE DEF j
<1>5. /\ jobs' \in Seq(JobRecords) /\ Len(jobs') = Len(jobs) /\ jobs'[i] = j
      /\ \A k \in 1..Len(jobs') : jobs'[k].state \in {"waiting", "active"}
                                    => jobs'[k].throws <= MaxAttempts
  BY <1>1, <1>3, <1>4, SetBooks
<1>6. run' = i /\ i # 0 /\ pc' \in {"meta", "file", "row"}
  BY <1>1 DEF StartJob
<1>7. Job' = j
  BY <1>5, <1>6 DEF Job
<1> QED BY <1>1, <1>3, <1>5, <1>6, <1>7, LenProperties DEF Books, Steps

(* A crash gives the running job back.                                      *)
LEMMA CrashBooks ==
  ASSUME IndInv, Crash
  PROVE  Books' /\ pc' = "idle"
<1>1. Books /\ Len(jobs) \in Nat /\ DOMAIN jobs = 1..Len(jobs)
      /\ jobs \in [1..Len(jobs) -> JobRecords]
  BY LenProperties, SeqDef DEF IndInv, Books
<1>2. jobs' = [i \in 1..Len(jobs) |->
                 IF i = run THEN [jobs[i] EXCEPT !.state = "waiting"] ELSE jobs[i]]
  BY <1>1 DEF Crash
<1>3. ASSUME NEW i \in 1..Len(jobs)
      PROVE  /\ jobs'[i] \in JobRecords
             /\ jobs'[i].state \in {"waiting", "active"} => jobs'[i].throws <= MaxAttempts
  <2>1. jobs[i] \in JobRecords
    BY JobsAreRecords, <1>1
  <2>2. i = run => jobs[i].throws <= MaxAttempts
    BY <1>1, JobTypes DEF Job
  <2>3. CASE i = run
    <3>1. jobs'[i] = [jobs[i] EXCEPT !.state = "waiting"]
      BY <1>2, <2>3
    <3> QED BY <2>1, <2>2, <2>3, <3>1 DEF JobRecords
  <2>4. CASE i # run
    <3>1. jobs'[i] = jobs[i]
      BY <1>2, <2>4
    <3> QED BY <1>1, <2>1, <3>1 DEF Books
  <2> QED BY <2>3, <2>4
<1>4. jobs' \in Seq(JobRecords) /\ Len(jobs') = Len(jobs)
  <2>1. jobs' \in [1..Len(jobs) -> JobRecords]
    BY <1>2, <1>3
  <2> QED BY <1>1, <2>1, SeqDef, LenProperties
<1>5. run' = 0 /\ pc' = "idle"
  BY DEF Crash
<1> QED BY <1>1, <1>3, <1>4, <1>5 DEF Books, Steps

(* What a step of a handler does to the jobs: it goes on, is done or throws. *)
LEMMA HandleBooks ==
  ASSUME IndInv, Handle
  PROVE  Books' /\ run # 0 /\ (pc' # "idle" => run' = run /\ Job' = Job)
<1>1. run # 0
  BY DEF IndInv, Books, Handle, ReadMeta, ReadFile, CheckFolder, ReadRow, Move, SaveRow,
     ReadMovedFile, RevertFile, RevertRow, SaveFile, DeleteMeta, DeleteContent,
     DeleteRow, PermanentDelete, At
<1> DEFINE Good == Books' /\ (pc' # "idle" => run' = run /\ Job' = Job)
<1>2. ASSUME NEW s \in Steps \ {"idle"}, GoTo(s)  PROVE Good
  BY <1>1, <1>2, GoToBooks DEF IndInv, GoTo
<1>3. ASSUME Finish  PROVE Good
  BY <1>1, <1>3, FinishBooks DEF IndInv, Finish
<1>4. ASSUME Throw  PROVE Good
  BY <1>1, <1>4, ThrowBooks DEF IndInv, Throw
<1> SUFFICES Good
  BY <1>1
<1> HIDE DEF Good
<1>5. CASE ReadMeta
  BY <1>2, <1>3, <1>5 DEF ReadMeta, Steps
<1>6. CASE ReadFile
  BY <1>2, <1>6 DEF ReadFile, Steps
<1>7. CASE CheckFolder
  BY <1>2, <1>3, <1>7 DEF CheckFolder, Steps
<1>8. CASE ReadRow
  BY <1>2, <1>3, <1>4, <1>8 DEF ReadRow, Steps
<1>9. CASE Move
  BY <1>2, <1>4, <1>9 DEF Move, Steps
<1>10. CASE SaveRow
  BY <1>2, <1>3, <1>10 DEF SaveRow, AfterSave, Steps
<1>11. CASE ReadMovedFile
  BY <1>2, <1>4, <1>11 DEF ReadMovedFile, Steps
<1>12. CASE RevertFile
  BY <1>2, <1>12 DEF RevertFile, Steps
<1>13. CASE RevertRow
  BY <1>3, <1>13 DEF RevertRow
<1>14. CASE SaveFile
  BY <1>2, <1>14 DEF SaveFile, Steps
<1>15. CASE DeleteMeta
  BY <1>3, <1>15 DEF DeleteMeta
<1>16. CASE DeleteContent
  BY <1>2, <1>4, <1>16 DEF DeleteContent, Steps
<1>17. CASE DeleteRow
  BY <1>2, <1>17 DEF DeleteRow, Steps
<1>18. CASE PermanentDelete
  BY <1>2, <1>4, <1>18 DEF PermanentDelete, Steps
<1> QED
  BY <1>5, <1>6, <1>7, <1>8, <1>9, <1>10, <1>11, <1>12, <1>13, <1>14, <1>15, <1>16,
     <1>17, <1>18 DEF Handle

LEMMA BooksStep ==
  ASSUME IndInv, Next
  PROVE  Books'
<1>1. CASE Request
  BY <1>1, RequestBooks
<1>2. CASE Download
  BY <1>2 DEF IndInv, Books, Job, Download, DownloadRead, DownloadLease, DownloadEnd,
     DownloadReturn
<1>3. ASSUME NEW i \in DOMAIN jobs, StartJob(i)  PROVE Books'
  BY <1>3, StartBooks
<1>4. ASSUME NEW i \in DOMAIN jobs, Duplicate(i)  PROVE Books'
  BY <1>4, DuplicateBooks
<1>5. CASE Handle
  BY <1>5, HandleBooks
<1>6. CASE Fail
  BY <1>6, ThrowBooks DEF Fail, IndInv
<1>7. CASE Crash
  BY <1>7, CrashBooks
<1> QED BY <1>1, <1>2, <1>3, <1>4, <1>5, <1>6, <1>7 DEF Next

-----------------------------------------------------------------------------
(* Rows.                                                                    *)

(* What is saved over a row is a row.                                       *)
LEMMA RowUpdates ==
  ASSUME NEW r \in Rows
  PROVE  /\ [r EXCEPT !.status = "SYNCING"] \in Rows
         /\ [r EXCEPT !.status = "SYNCING"].lease = r.lease
         /\ [r EXCEPT !.status = "AVAILABLE"] \in Rows
         /\ [r EXCEPT !.status = "AVAILABLE"].lease = r.lease
         /\ \A k \in Keys : LET s == [r EXCEPT !.key = k, !.status = "AVAILABLE"]
                            IN  s \in Rows /\ s.lease = r.lease /\ s.key = k
         /\ \A l \in 0..MaxRequests : LET s == [r EXCEPT !.lease = l]
                IN  /\ r.status # "NONE" => s \in Rows
                    /\ s.lease = l /\ s.key = r.key /\ s.status = r.status
<1>1. /\ r.key \in Keys /\ r.lease \in 0..MaxRequests
      /\ r = [key |-> r.key, status |-> r.status, lease |-> r.lease]
      /\ r.status # "NONE" => r.status \in {"AVAILABLE", "SYNCING"}
  BY KeyTypes, NasAssumption DEF NasAssumption, Rows, NoRow, Row
<1> QED BY <1>1 DEF Rows

(* Only requests add leases and metadata, one each.                         *)
LEMMA AskedStep ==
  ASSUME IndInv, Next
  PROVE  Asked'
<1>1. Asked /\ MaxRequests \in Nat
  BY NasAssumption DEF NasAssumption, IndInv
<1>2. /\ row.lease \in Nat /\ nasCopy.lease \in Nat /\ leaseCopy.lease \in Nat
      /\ row.key \in Keys
      /\ requests \in Nat /\ requests <= MaxRequests
      /\ \A n \in Nat : n <= requests => n \in 0..MaxRequests
      /\ NoRow \in Rows /\ NoRow.lease = 0
  BY <1>1, RowTypes, KeyTypes DEF Asked
<1>3. ASSUME Accept
      PROVE  /\ requests' \in 0..MaxRequests /\ requests' = requests + 1
             /\ requests' \in 1..requests' /\ metas \subseteq 1..requests'
             /\ purging \in 0..requests' /\ \A m \in metas : m \in 0..requests'
             /\ row.lease < requests' /\ nasCopy.lease <= requests'
             /\ leaseCopy.lease <= requests' /\ leaseCopy.lease < requests'
  BY <1>1, <1>2, <1>3 DEF Asked, Accept
<1> DEFINE Same == UNCHANGED <<requests, metas, purging, row, nasCopy, leaseCopy, download>>
<1>4. ASSUME Same  PROVE Asked'
  BY <1>1, <1>4 DEF Asked, Available
<1>5. ASSUME NEW n \in Names, RequestRename(n)  PROVE Asked'
  <2>1. Accept /\ row' = Row(NewObjectKey(n), "SYNCING", row.lease)
        /\ UNCHANGED <<metas, purging, nasCopy, leaseCopy, download>>
    BY <1>5 DEF RequestRename, copyVars, purgeVars, downloadVars
  <2>2. row' \in Rows /\ row'.lease = row.lease
    BY <1>2, <2>1, PathTypes, <1>1 DEF Row, Rows, Asked
  <2> QED BY <1>1, <1>2, <1>3, <2>1, <2>2 DEF Asked, Available
<1>6. ASSUME NEW d \in Folders, RequestMove(d)  PROVE Asked'
  <2>1. Accept /\ row' = [row EXCEPT !.status = "SYNCING"]
        /\ UNCHANGED <<metas, purging, nasCopy, leaseCopy, download>>
    BY <1>6 DEF RequestMove, copyVars, purgeVars, downloadVars
  <2>2. row' \in Rows /\ row'.lease = row.lease
    BY <2>1, <1>1, RowUpdates DEF Asked
  <2> QED BY <1>1, <1>2, <1>3, <2>1, <2>2 DEF Asked, Available
<1>7. CASE RequestDelete
  <2>1. Accept /\ row' = [row EXCEPT !.status = "SYNCING"]
        /\ metas' = metas \cup {requests'}
        /\ UNCHANGED <<purging, nasCopy, leaseCopy, download>>
    BY <1>7 DEF RequestDelete, copyVars, purgeVars, downloadVars
  <2>2. row' \in Rows /\ row'.lease = row.lease
    BY <2>1, <1>1, RowUpdates DEF Asked
  <2> QED BY <1>1, <1>2, <1>3, <2>1, <2>2 DEF Asked, Available
<1>8. ASSUME NEW m \in metas, NEW d \in Folders, RequestRestore(m, d)  PROVE Asked'
  <2>1. Accept /\ UNCHANGED <<metas, purging, row, nasCopy, leaseCopy, download>>
    BY <1>8 DEF RequestRestore, rowVars, copyVars, purgeVars, downloadVars
  <2> QED BY <1>1, <1>2, <1>3, <2>1 DEF Asked, Available
<1>9. ASSUME NEW m \in metas, RequestPurge(m)  PROVE Asked'
  <2>1. Accept /\ purging' = m /\ UNCHANGED <<metas, row, nasCopy, leaseCopy, download>>
    BY <1>9 DEF RequestPurge, rowVars, copyVars, downloadVars
  <2> QED BY <1>1, <1>2, <1>3, <2>1 DEF Asked, Available
<1>10. CASE SavePurged
  BY <1>4, <1>10 DEF SavePurged, copyVars, downloadVars, boundVars
<1>11. CASE QueuePurge
  <2>1. metas' \subseteq metas /\ purging' = 0
        /\ UNCHANGED <<requests, row, nasCopy, leaseCopy, download>>
    BY <1>11 DEF QueuePurge, copyVars, downloadVars, boundVars
  <2> QED BY <1>1, <1>2, <2>1 DEF Asked, Available
<1>12. ASSUME NEW d \in Folders, TrashFolder(d)  PROVE Asked'
  BY <1>4, <1>12 DEF TrashFolder, copyVars, purgeVars, downloadVars, boundVars
<1>13. CASE DownloadRead
  <2>1. Accept /\ Available(row) /\ download' = "reading" /\ leaseCopy' = row
        /\ UNCHANGED <<metas, purging, row, nasCopy>>
    BY <1>13 DEF DownloadRead, Editable, rowVars, copyVars, purgeVars
  <2> QED BY <1>1, <1>2, <1>3, <2>1 DEF Asked, Available
<1>14. CASE DownloadLease
  <2>1. download = "reading" /\ download' = "leased" /\ leaseCopy' = NoRow
        /\ row' = [leaseCopy EXCEPT !.lease = leaseCopy.lease + 1]
        /\ UNCHANGED <<requests, metas, purging, nasCopy>>
    BY <1>14 DEF DownloadLease, copyVars, purgeVars, boundVars
  <2>2. leaseCopy.lease + 1 <= requests /\ leaseCopy.lease + 1 \in 0..MaxRequests
        /\ leaseCopy.status # "NONE" /\ leaseCopy \in Rows
    BY <1>1, <1>2, <2>1 DEF Asked, Available
  <2>3. row' \in Rows /\ row'.lease = leaseCopy.lease + 1
    BY <2>1, <2>2, RowUpdates
  <2> QED BY <1>1, <1>2, <2>1, <2>2, <2>3 DEF Asked, Available
<1>15. CASE DownloadEnd
  <2>1. /\ UNCHANGED <<requests, metas, purging, row, nasCopy>>
        /\ \/ row.lease > 0 /\ download' = "closing" /\ leaseCopy' = row
           \/ download' = "idle" /\ leaseCopy' = leaseCopy
    BY <1>15 DEF DownloadEnd, rowVars, copyVars, purgeVars, boundVars
  <2> QED BY <1>1, <1>2, <2>1 DEF Asked, Available
<1>16. CASE DownloadReturn
  <2>1. download = "closing" /\ download' = "idle" /\ leaseCopy' = NoRow
        /\ row' = [leaseCopy EXCEPT !.lease = leaseCopy.lease - 1]
        /\ UNCHANGED <<requests, metas, purging, nasCopy>>
    BY <1>16 DEF DownloadReturn, copyVars, purgeVars, boundVars
  <2>2. leaseCopy \in Rows /\ leaseCopy.lease > 0 /\ leaseCopy.lease <= requests
    BY <1>1, <2>1 DEF Asked
  <2>3. leaseCopy.lease - 1 <= requests /\ leaseCopy.lease - 1 \in 0..MaxRequests
    BY <1>2, <2>2
  <2>4. leaseCopy.status # "NONE"
    BY <2>2, <1>2 DEF Rows, NoRow, Row
  <2>5. row' \in Rows /\ row'.lease = leaseCopy.lease - 1
    BY <2>1, <2>2, <2>3, <2>4, RowUpdates
  <2> QED BY <1>1, <1>2, <2>1, <2>3, <2>5 DEF Asked, Available
<1>17. ASSUME NEW i \in DOMAIN jobs, StartJob(i)  PROVE Asked'
  BY <1>4, <1>17 DEF StartJob, rowVars, copyVars, purgeVars, downloadVars, boundVars
<1>18. ASSUME NEW i \in DOMAIN jobs, Duplicate(i)  PROVE Asked'
  BY <1>4, <1>18 DEF Duplicate, rowVars, copyVars, purgeVars, downloadVars
<1>19. CASE Handle
  <2>1. run # 0 /\ Books
    BY <1>19, HandleBooks DEF IndInv
  <2>2. UNCHANGED <<requests, purging, leaseCopy, download>>
    BY <1>19 DEF Handle, ReadMeta, ReadFile, CheckFolder, ReadRow, Move, SaveRow,
       ReadMovedFile, RevertFile, RevertRow, SaveFile, DeleteMeta, DeleteContent,
       DeleteRow, PermanentDelete, rowVars, purgeVars, downloadVars, boundVars
  <2>3. metas' \subseteq metas
    BY <1>19 DEF Handle, ReadMeta, ReadFile, CheckFolder, ReadRow, Move, SaveRow,
       ReadMovedFile, RevertFile, RevertRow, SaveFile, DeleteMeta, DeleteContent,
       DeleteRow, PermanentDelete, rowVars
  <2>4. nasCopy' \in {nasCopy, row}
    BY <1>19 DEF Handle, ReadMeta, ReadFile, CheckFolder, ReadRow, Move, SaveRow,
       ReadMovedFile, RevertFile, RevertRow, SaveFile, DeleteMeta, DeleteContent,
       DeleteRow, PermanentDelete, copyVars
  <2>5. row' \in Rows /\ row'.lease <= requests
    <3>1. CASE SaveRow
      <4>1. row' = [nasCopy EXCEPT !.key = Target, !.status = "AVAILABLE"]
        BY <3>1 DEF SaveRow
      <4>2. Target \in Keys
        BY <1>1, <2>1, TargetType DEF Asked
      <4> QED BY <1>1, <4>1, <4>2, RowUpdates DEF Asked
    <3>2. CASE RevertRow
      <4>1. row' = [nasCopy EXCEPT !.status = "AVAILABLE"]
        BY <3>2 DEF RevertRow
      <4> QED BY <1>1, <4>1, RowUpdates DEF Asked
    <3>3. CASE DeleteRow
      BY <1>2, <3>3 DEF DeleteRow
    <3>4. CASE UNCHANGED row
      BY <1>1, <3>4 DEF Asked
    <3> QED
      BY <1>19, <3>1, <3>2, <3>3, <3>4 DEF Handle, ReadMeta, ReadFile, CheckFolder,
         ReadRow, Move, ReadMovedFile, RevertFile, SaveFile, DeleteMeta, DeleteContent,
         PermanentDelete, rowVars
  <2> QED BY <1>1, <2>2, <2>3, <2>4, <2>5 DEF Asked, Available
<1>20. CASE Fail
  BY <1>4, <1>20 DEF Fail, rowVars, copyVars, purgeVars, downloadVars
<1>21. CASE Crash
  <2>1. purging' = 0 /\ download' = "idle" /\ leaseCopy' = NoRow
        /\ UNCHANGED <<requests, metas, row, nasCopy>>
    BY <1>21 DEF Crash, rowVars, copyVars
  <2> QED BY <1>1, <1>2, <2>1 DEF Asked, Available
<1> QED
  BY <1>5, <1>6, <1>7, <1>8, <1>9, <1>10, <1>11, <1>12, <1>13, <1>14, <1>15, <1>16,
     <1>17, <1>18, <1>19, <1>20, <1>21 DEF Next, Request, Download

LEMMA DataStep ==
  ASSUME IndInv, Next
  PROVE  Data'
<1>1. Data /\ Asked /\ Books /\ MaxDuplicates \in Nat /\ MaxTroubles \in Nat
  BY NasAssumption DEF NasAssumption, IndInv
<1> DEFINE Counted == duplicates' \in 0..MaxDuplicates /\ troubles' \in 0..MaxTroubles
           Flags == /\ stale' \in BOOLEAN /\ interrupted' \in BOOLEAN
                    /\ late' \in BOOLEAN
           Whole == /\ file' \in Files /\ fileCopy' \in Files /\ purgeCopy' \in Files
                    /\ at' \in Keys /\ active' \subseteq Folders
<1>2. ASSUME Request  PROVE Data'
  <2>1. Counted /\ Flags /\ fileCopy' \in Files /\ at' \in Keys
    BY <1>1, <1>2 DEF Data, Request, RequestRename, RequestMove, RequestDelete,
       RequestRestore, RequestPurge, SavePurged, QueuePurge, TrashFolder, Accept,
       rowVars, copyVars, purgeVars, downloadVars, boundVars, historyVars
  <2>2. file' \in Files /\ purgeCopy' \in Files /\ active' \subseteq Folders
    BY <1>1, <1>2 DEF Data, Request, RequestRename, RequestMove, RequestDelete,
       RequestRestore, RequestPurge, SavePurged, QueuePurge, TrashFolder, Files,
       rowVars, purgeVars
  <2> QED BY <2>1, <2>2 DEF Data
<1>3. ASSUME Download  PROVE Data'
  <2>1. Counted /\ Whole
    BY <1>1, <1>3 DEF Data, Download, DownloadRead, DownloadLease, DownloadEnd,
       DownloadReturn, rowVars, copyVars, purgeVars, boundVars
  <2>2. Flags
    BY <1>1, <1>3 DEF Data, Download, DownloadRead, DownloadLease, DownloadEnd,
       DownloadReturn, historyVars
  <2> QED BY <2>1, <2>2 DEF Data
<1>4. ASSUME NEW i \in DOMAIN jobs, StartJob(i)  PROVE Data'
  <2>1. Counted /\ Whole
    BY <1>1, <1>4 DEF Data, StartJob, rowVars, copyVars, purgeVars, boundVars
  <2>2. Flags
    BY <1>1, <1>4 DEF Data, StartJob
  <2> QED BY <2>1, <2>2 DEF Data
<1>5. ASSUME NEW i \in DOMAIN jobs, Duplicate(i)  PROVE Data'
  BY <1>1, <1>5 DEF Data, Duplicate, rowVars, copyVars, purgeVars, historyVars
<1>6. ASSUME Handle  PROVE Data'
  <2>1. Counted /\ Flags /\ active' \subseteq Folders /\ purgeCopy' \in Files
    BY <1>1, <1>6 DEF Data, Handle, ReadMeta, ReadFile, CheckFolder, ReadRow, Move,
       SaveRow, ReadMovedFile, RevertFile, RevertRow, SaveFile, DeleteMeta,
       DeleteContent, DeleteRow, PermanentDelete, rowVars, purgeVars, boundVars,
       historyVars
  <2>2. fileCopy' \in Files
    BY <1>1, <1>6 DEF Data, Handle, ReadMeta, ReadFile, CheckFolder, ReadRow, Move,
       SaveRow, ReadMovedFile, RevertFile, RevertRow, SaveFile, DeleteMeta,
       DeleteContent, DeleteRow, PermanentDelete, copyVars
  <2>3. run # 0
    BY <1>6, HandleBooks
  <2>4. Job.from \in Folders /\ Job.to \in Folders
    BY <1>1, <2>3, JobTypes DEF JobRecords
  <2>5. file' \in Files
    BY <1>1, <1>6, <2>4 DEF Data, Handle, ReadMeta, ReadFile, CheckFolder, ReadRow, Move,
       SaveRow, ReadMovedFile, RevertFile, RevertRow, SaveFile, DeleteMeta,
       DeleteContent, DeleteRow, PermanentDelete, Files, rowVars
  <2>6. at' \in Keys
    <3>1. Target \in Keys /\ Gone \in Keys
      BY <1>1, <2>3, TargetType, KeyTypes DEF Asked
    <3> QED
      BY <1>1, <1>6, <3>1 DEF Data, Handle, ReadMeta, ReadFile, CheckFolder, ReadRow,
         Move, SaveRow, ReadMovedFile, RevertFile, RevertRow, SaveFile, DeleteMeta,
         DeleteContent, DeleteRow, PermanentDelete, rowVars
  <2> QED BY <2>1, <2>2, <2>5, <2>6 DEF Data
<1>7. ASSUME Fail  PROVE Data'
  <2>1. Counted /\ Whole
    BY <1>1, <1>7 DEF Data, Fail, Trouble, rowVars, copyVars, purgeVars
  <2>2. Flags
    BY <1>1, <1>7 DEF Data, Fail, Interrupt
  <2> QED BY <2>1, <2>2 DEF Data
<1>8. ASSUME Crash  PROVE Data'
  <2>1. Counted /\ Whole
    BY <1>1, <1>8 DEF Data, Crash, Trouble, rowVars, copyVars
  <2>2. Flags
    BY <1>1, <1>8 DEF Data, Crash, Interrupt
  <2> QED BY <2>1, <2>2 DEF Data
<1> QED BY <1>2, <1>3, <1>4, <1>5, <1>6, <1>7, <1>8 DEF Next

-----------------------------------------------------------------------------
(* Where the content is.                                                    *)

(* Requests leave the content where it is and make no row AVAILABLE; a      *)
(* download copies rows; a handler moves the content and then saves where.  *)
LEMMA PlaceStep ==
  ASSUME IndInv, Next
  PROVE  AvailableMeansThere' /\ SavedNext' /\ TurnedBack'
<1>1. /\ Books /\ Asked /\ Data /\ AvailableMeansThere /\ SavedNext /\ TurnedBack
  BY DEF IndInv
<1> DEFINE Good == AvailableMeansThere' /\ SavedNext' /\ TurnedBack'
<1>2. ASSUME UNCHANGED <<at, pc, interrupted, nasCopy>>, run # 0 => Job' = Job,
             stale' = FALSE => stale = FALSE, active' \subseteq active,
             stale' = FALSE /\ row'.status = "AVAILABLE"
               => row.status = "AVAILABLE" /\ row'.key = row.key
      PROVE  Good
  <2>1. pc = "save" => run # 0
    BY <1>1 DEF Books
  <2>2. pc = "save" => Target' = Target
    BY <1>2, <2>1 DEF Target
  <2>3. active' = Folders => active = Folders
    BY <1>1, <1>2 DEF Data
  <2>4. AvailableMeansThere'
    BY <1>1, <1>2, <2>3 DEF AvailableMeansThere, Available, Data
  <2>5. SavedNext'
    BY <1>1, <1>2, <2>2, <2>3 DEF SavedNext, Undisturbed, Data
  <2>6. TurnedBack'
    BY <1>1, <1>2, <2>3 DEF TurnedBack
  <2> QED BY <2>4, <2>5, <2>6
<1> SUFFICES Good
  OBVIOUS
<1> HIDE DEF Good
<1>3. CASE Request
  <2>1. run # 0 => Job' = Job
    BY <1>3, RequestBooks
  <2>2. UNCHANGED <<at, pc, interrupted, nasCopy, stale>> /\ active' \subseteq active
    BY <1>3 DEF Request, RequestRename, RequestMove, RequestDelete,
       RequestRestore, RequestPurge, SavePurged, QueuePurge, TrashFolder,
       rowVars, copyVars, historyVars
  <2>3. row' = row \/ row'.status = "SYNCING"
    <3>1. [row EXCEPT !.status = "SYNCING"].status = "SYNCING"
      BY <1>1 DEF Asked, Rows, NoRow, Row
    <3>2. ASSUME NEW n \in Names, RequestRename(n)  PROVE row'.status = "SYNCING"
      BY <3>2 DEF RequestRename, Row
    <3>3. ASSUME NEW d \in Folders, RequestMove(d)  PROVE row'.status = "SYNCING"
      BY <3>1, <3>3 DEF RequestMove
    <3>4. CASE RequestDelete
      BY <3>1, <3>4 DEF RequestDelete
    <3> QED
      BY <1>3, <3>2, <3>3, <3>4 DEF Request, RequestRestore, RequestPurge, SavePurged,
         QueuePurge, TrashFolder, rowVars
  <2> QED BY <1>2, <2>1, <2>2, <2>3
<1>4. CASE Download
  <2>1. run # 0 => Job' = Job
    BY <1>4 DEF Download, DownloadRead, DownloadLease, DownloadEnd, DownloadReturn, Job
  <2>2. UNCHANGED <<at, pc, interrupted, nasCopy, active>>
    BY <1>4 DEF Download, DownloadRead, DownloadLease, DownloadEnd, DownloadReturn,
       rowVars, copyVars, historyVars
  <2>3. \/ UNCHANGED <<row, stale>>
        \/ /\ stale' = (stale \/ row # leaseCopy)
           /\ row'.key = leaseCopy.key /\ row'.status = leaseCopy.status
    <3>1. \A l \in Int : LET s == [leaseCopy EXCEPT !.lease = l]
                         IN  s.key = leaseCopy.key /\ s.status = leaseCopy.status
      BY <1>1 DEF Asked, Rows, NoRow, Row
    <3>2. leaseCopy.lease \in Int
      BY <1>1, RowTypes DEF Asked
    <3>3. CASE DownloadLease
      BY <3>1, <3>2, <3>3 DEF DownloadLease
    <3>4. CASE DownloadReturn
      BY <3>1, <3>2, <3>4 DEF DownloadReturn
    <3> QED
      BY <1>4, <3>3, <3>4 DEF Download, DownloadRead, DownloadEnd, rowVars, historyVars
  <2>4. (stale' = FALSE => stale = FALSE)
        /\ (stale' = FALSE /\ row'.status = "AVAILABLE"
              => row.status = "AVAILABLE" /\ row'.key = row.key)
    BY <1>1, <2>3 DEF Data
  <2> QED BY <1>2, <2>1, <2>2, <2>4
<1>5. ASSUME NEW i \in DOMAIN jobs, Duplicate(i)  PROVE Good
  <2>1. run # 0 => Job' = Job
    BY <1>5, DuplicateBooks
  <2>2. UNCHANGED <<at, pc, interrupted, nasCopy, active, row, stale>>
    BY <1>5 DEF Duplicate, rowVars, copyVars, historyVars
  <2> QED BY <1>2, <2>1, <2>2
<1>6. ASSUME NEW i \in DOMAIN jobs, StartJob(i)  PROVE Good
  <2>1. pc' \in {"meta", "file", "row"}
    BY <1>6, StartBooks
  <2>2. UNCHANGED <<at, row, active, stale, interrupted>> /\ run = 0
    BY <1>6 DEF StartJob, rowVars
  <2>3. pc = "idle"
    BY <1>1, <2>2 DEF Books
  <2> QED
    BY <1>1, <2>1, <2>2, <2>3 DEF Good, AvailableMeansThere, SavedNext, TurnedBack,
       Available
<1>7. CASE Fail \/ Crash
  <2>1. pc' = "idle"
    BY <1>7, CrashBooks DEF IndInv, Fail, Throw
  <2>2. UNCHANGED <<at, row, active, stale>>
    BY <1>7 DEF Fail, Crash, rowVars
  <2>3. interrupted' = (interrupted \/ pc \in {"save", "deleteRow"})
    BY <1>7 DEF Fail, Crash, Interrupt
  <2>4. interrupted' = FALSE => interrupted = FALSE /\ pc \notin {"save", "deleteRow"}
    BY <1>1, <2>3 DEF Data
  <2> QED
    BY <1>1, <2>1, <2>2, <2>4 DEF Good, AvailableMeansThere, SavedNext, TurnedBack,
       Available, Data
<1>8. CASE Handle
  <2>1. UNCHANGED <<active, stale, interrupted>>
    BY <1>8 DEF Handle, ReadMeta, ReadFile, CheckFolder, ReadRow, Move, SaveRow,
       ReadMovedFile, RevertFile, RevertRow, SaveFile, DeleteMeta, DeleteContent,
       DeleteRow, PermanentDelete, rowVars, historyVars
  <2>2. run # 0 /\ (pc' # "idle" => run' = run /\ Job' = Job)
    BY <1>8, HandleBooks
  <2>3. Job.to \in Folders
    BY <1>1, <2>2, JobTypes DEF JobRecords
  <2>4. CASE Move
    <3>1. \/ pc' = "save" /\ at' = Target /\ UNCHANGED nasCopy
          \/ pc' = "idle" /\ UNCHANGED at
      BY <2>4 DEF Move, GoTo, Throw, copyVars
    <3>2. UNCHANGED row /\ pc = "move"
      BY <2>4 DEF Move, At
    <3>3. pc' = "save" => Target' = Target
      BY <2>2, <3>1 DEF Target
    <3> QED
      BY <1>1, <2>1, <3>1, <3>2, <3>3 DEF Good, AvailableMeansThere, SavedNext,
         TurnedBack, Undisturbed, Available
  <2>5. CASE SaveRow
    <3>1. row' = [nasCopy EXCEPT !.key = Target, !.status = "AVAILABLE"]
      BY <2>5 DEF SaveRow
    <3>2. Target \in Keys
      BY <1>1, <2>2, TargetType DEF Asked
    <3>3. row'.key = Target
      BY <1>1, <3>1, <3>2, RowUpdates DEF Asked
    <3>4. pc = "save" /\ pc' \in {"saveFile", "idle"} /\ UNCHANGED at
      BY <2>5 DEF SaveRow, At, AfterSave, GoTo, Finish
    <3> QED
      BY <1>1, <2>1, <3>3, <3>4 DEF Good, AvailableMeansThere, SavedNext,
         TurnedBack, Undisturbed, Available, Data
  <2>6. CASE DeleteContent
    <3>1. \/ pc' = "deleteRow"
          \/ pc' = "idle" /\ UNCHANGED at
      BY <2>6 DEF DeleteContent, GoTo, Throw
    <3>2. UNCHANGED row /\ pc = "delete"
      BY <2>6 DEF DeleteContent, At
    <3> QED
      BY <1>1, <2>1, <3>1, <3>2 DEF Good, AvailableMeansThere, SavedNext,
         TurnedBack, Undisturbed, Available
  <2>7. CASE DeleteRow
    <3>1. row'.status = "NONE" /\ pc' = "permanent"
      BY <2>7, KeyTypes DEF DeleteRow, GoTo
    <3> QED
      BY <3>1 DEF Good, AvailableMeansThere, SavedNext, TurnedBack, Available
  <2>8. CASE CheckFolder
    <3>1. pc = "folder" /\ UNCHANGED <<at, row>>
          /\ \/ pc' \in {"move", "row", "idle"}
             \/ pc' = "revert" /\ Job.to \notin active
      BY <2>8 DEF CheckFolder, At, GoTo, Finish, rowVars
    <3> QED
      BY <1>1, <2>1, <2>3, <3>1 DEF Good, AvailableMeansThere, SavedNext,
         TurnedBack, Undisturbed, Available
  <2>9. CASE ReadMovedFile \/ RevertFile \/ RevertRow
    <3>1. pc \in {"revert", "revertFile", "revertRow"} /\ pc' # "save"
      BY <2>9 DEF ReadMovedFile, RevertFile, RevertRow, At, GoTo, Throw, Finish
    <3> QED
      BY <1>1, <2>1, <3>1 DEF Good, AvailableMeansThere, SavedNext, TurnedBack,
         Undisturbed
  <2>10. CASE ReadMeta \/ ReadFile \/ ReadRow \/ SaveFile \/ DeleteMeta \/ PermanentDelete
    <3>1. UNCHANGED <<at, row>>
      BY <2>10 DEF ReadMeta, ReadFile, ReadRow, SaveFile, DeleteMeta, PermanentDelete,
         rowVars
    <3>2. pc \notin {"save", "deleteRow"}
          /\ pc' \notin {"save", "deleteRow", "revert", "revertFile", "revertRow"}
      BY <2>10 DEF ReadMeta, ReadFile, ReadRow, SaveFile, DeleteMeta, PermanentDelete,
         At, GoTo, Throw, Finish
    <3> QED
      BY <1>1, <2>1, <3>1, <3>2 DEF Good, AvailableMeansThere, SavedNext, TurnedBack,
         Available
  <2> QED BY <1>8, <2>4, <2>5, <2>6, <2>7, <2>8, <2>9, <2>10 DEF Handle
<1> QED BY <1>3, <1>4, <1>5, <1>6, <1>7, <1>8 DEF Next

-----------------------------------------------------------------------------

LEMMA InitInd == Init => IndInv
<1> SUFFICES ASSUME Init  PROVE IndInv
  OBVIOUS
<1> USE NasAssumption, KeyTypes DEF NasAssumption, Init
<1>1. Books
  BY EmptySeq DEF Books, Steps
<1>2. Asked
  <2>1. row \in Rows /\ row.lease = 0
    BY DEF Rows, Row
  <2> QED BY <2>1 DEF Asked
<1>3. Data
  <2>1. file \in Files /\ fileCopy \in Files /\ purgeCopy \in Files
    BY DEF Files
  <2>2. stale \in BOOLEAN /\ interrupted \in BOOLEAN /\ late \in BOOLEAN
    OBVIOUS
  <2> QED BY <2>1, <2>2 DEF Data
<1>4. AvailableMeansThere /\ SavedNext /\ TurnedBack
  BY DEF AvailableMeansThere, SavedNext, TurnedBack, Row
<1> QED BY <1>1, <1>2, <1>3, <1>4 DEF IndInv

LEMMA StepInd == IndInv /\ [Next]_vars => IndInv'
<1> SUFFICES ASSUME IndInv, [Next]_vars  PROVE IndInv'
  OBVIOUS
<1>1. CASE Next
  BY <1>1, BooksStep, AskedStep, DataStep, PlaceStep DEF IndInv
<1>2. CASE UNCHANGED vars
  <2>1. Books' /\ Asked' /\ Data'
    BY <1>2 DEF IndInv, Books, Job, Asked, Data, Available, vars, rowVars, copyVars,
       purgeVars, downloadVars, boundVars, historyVars
  <2>2. AvailableMeansThere' /\ SavedNext' /\ TurnedBack'
    BY <1>2 DEF IndInv, AvailableMeansThere, SavedNext, TurnedBack, Undisturbed, Target,
       Job, Available, vars, rowVars, copyVars, historyVars
  <2> QED BY <2>1, <2>2 DEF IndInv
<1> QED BY <1>1, <1>2

LEMMA Invariance == Spec => []IndInv
  BY InitInd, StepInd, PTL DEF Spec

(* Every variable keeps its type: no lease is returned that was not taken,  *)
(* no metadata row names a request that was not made, and no job is handed  *)
(* out again that has used up its attempts.                                 *)
THEOREM TypeCorrect == Spec => []TypeOK
<1>1. IndInv => TypeOK
  <2> SUFFICES ASSUME IndInv  PROVE TypeOK
    OBVIOUS
  <2>1. requests <= MaxRequests /\ requests \in Nat /\ MaxRequests \in Nat
    BY NasAssumption DEF NasAssumption, IndInv, Asked
  <2>2. metas \subseteq 1..MaxRequests /\ purging \in 0..MaxRequests
    BY <2>1 DEF IndInv, Asked
  <2> QED BY <2>1, <2>2 DEF TypeOK, IndInv, Books, Asked, Data
<1> QED BY <1>1, Invariance, PTL

(* While nothing was disturbed, an AVAILABLE row names the place where the  *)
(* NAS has the content, whatever jobs run and in whatever order.            *)
THEOREM ContentIsWhereRowSays == Spec => []AvailableMeansThere
<1>1. IndInv => AvailableMeansThere
  BY DEF IndInv
<1> QED BY <1>1, Invariance, PTL

-----------------------------------------------------------------------------
(* NobodyLeftSyncing and ActiveFileInPlace.                                 *)
(*                                                                          *)
(* Jobs first: what identifies them, and the order in which they run.       *)

JobIds == DOMAIN jobs
MoveKinds == {"rename", "move", "trash"}
Pending(i) == jobs[i].state \in {"waiting", "active"}

(* Where the handler of a job that is not a restore moves the content.      *)
TargetOf(j) == IF j.kind = "rename" THEN RenameTarget(j.src, j.dst.name) ELSE j.dst

(* Jobs of one event: the one of the request and those of the recovery.     *)
Twins(i, j) == /\ jobs[i].asked = jobs[j].asked
               /\ jobs[i].kind # "purge" /\ jobs[j].kind # "purge"

OneActive == \A i \in JobIds : jobs[i].state = "active" => i = run
AskedBefore == \A i \in JobIds : jobs[i].asked <= requests
RestoresLater ==
  \A i \in JobIds : jobs[i].kind = "restore" => jobs[i].meta < jobs[i].asked
TwinsAgree ==
  \A i, j \in JobIds : Twins(i, j) =>
    /\ jobs[i].kind = jobs[j].kind /\ jobs[i].src = jobs[j].src
    /\ jobs[i].dst = jobs[j].dst /\ jobs[i].from = jobs[j].from
    /\ jobs[i].to = jobs[j].to /\ jobs[i].meta = jobs[j].meta
    /\ duplicates = 0 => i = j
LaterWait ==
  run # 0 /\ ~late =>
    \A j \in JobIds : jobs[j].asked > jobs[run].asked => jobs[j].state = "waiting"

Order == OneActive /\ AskedBefore /\ RestoresLater /\ TwinsAgree /\ LaterWait

(* The steps each kind of handler takes, and those that have found a row.   *)
RestoreSteps == {"file", "folder", "row", "move", "save", "saveFile"}
TurningBack == {"revert", "revertFile", "revertRow"}
MoveSteps == {"row", "folder", "move", "save"} \cup TurningBack
PurgeSteps == {"file", "row", "delete", "deleteRow", "permanent", "deleteMeta"}

StepsOfKind ==
  run # 0 =>
    /\ Job.kind \in MoveKinds => pc \in MoveSteps
    /\ Job.kind \in MoveKinds /\ pc \in {"folder"} \cup TurningBack => Job.kind = "move"
    /\ Job.kind = "restore" => pc \in RestoreSteps \cup {"meta", "deleteMeta"}
    /\ Job.kind = "purge" => pc \in PurgeSteps
HasRow == \/ pc \in {"move", "save", "delete", "deleteRow"} \cup TurningBack
          \/ pc = "folder" /\ Job.kind = "move"
LostRow == pc = "permanent" \/ (pc = "deleteMeta" /\ Job.kind = "purge")
RowsFound ==
  /\ HasRow => nasCopy # NoRow
  /\ HasRow /\ ~stale => row # NoRow
  /\ LostRow /\ ~stale => row = NoRow

Places == StepsOfKind /\ RowsFound

-----------------------------------------------------------------------------
(* What a step does to the jobs.                                            *)

SameJob(i) ==
  /\ jobs'[i].kind = jobs[i].kind /\ jobs'[i].src = jobs[i].src
  /\ jobs'[i].dst = jobs[i].dst /\ jobs'[i].from = jobs[i].from
  /\ jobs'[i].to = jobs[i].to /\ jobs'[i].meta = jobs[i].meta
  /\ jobs'[i].asked = jobs[i].asked
SameState(i) == jobs'[i].state = jobs[i].state

(* A new job, waiting, at n.                                                *)
Adds(n) ==
  /\ n \notin JobIds /\ n # 0 /\ JobIds' = JobIds \cup {n}
  /\ \A i \in JobIds : SameJob(i) /\ SameState(i)
  /\ jobs'[n].state = "waiting" /\ UNCHANGED <<run, pc>>

(* The running job is over, or waits again.                                 *)
Ends(states) ==
  /\ run \in JobIds /\ JobIds' = JobIds /\ run' = 0 /\ pc' = "idle"
  /\ \A i \in JobIds : SameJob(i) /\ (i # run => SameState(i))
  /\ jobs'[run].state \in states

LEMMA JobFacts ==
  ASSUME Books
  PROVE  /\ JobIds = 1..Len(jobs) /\ 0 \notin JobIds
         /\ run # 0 => run \in JobIds
         /\ \A i \in JobIds : /\ jobs[i] \in JobRecords /\ jobs[i].asked \in Nat
                              /\ jobs[i].meta \in Nat
<1>1. JobIds = 1..Len(jobs) /\ Len(jobs) \in Nat
  BY LenProperties DEF Books, JobIds
<1>2. \A i \in JobIds : jobs[i] \in JobRecords
  BY <1>1, JobsAreRecords
<1>3. \A i \in JobIds : jobs[i].asked \in Nat /\ jobs[i].meta \in Nat
  BY <1>2, NasAssumption DEF NasAssumption, JobRecords
<1> QED BY <1>1, <1>2, <1>3, JobTypes

LEMMA AppendDoes ==
  ASSUME Books, NEW j, j \in JobRecords, j.state = "waiting",
         jobs' = Append(jobs, j), UNCHANGED <<run, pc>>
  PROVE  \E n : Adds(n) /\ jobs'[n] = j
<1> DEFINE n == Len(jobs) + 1
<1>1. /\ Len(jobs) \in Nat /\ jobs' \in Seq(JobRecords) /\ Len(jobs') = n
      /\ \A i \in 1..Len(jobs) : jobs'[i] = jobs[i]
      /\ jobs'[n] = j
  BY AppendProperties, LenProperties DEF Books
<1>2. JobIds = 1..Len(jobs) /\ JobIds' = 1..n
  BY <1>1, LenProperties DEF Books, JobIds
<1>3. n \notin JobIds /\ n # 0 /\ JobIds' = JobIds \cup {n}
  BY <1>1, <1>2
<1>4. \A i \in JobIds : jobs'[i] = jobs[i]
  BY <1>1, <1>2
<1> QED BY <1>1, <1>3, <1>4 DEF Adds, SameJob, SameState

LEMMA EnqueueDoes ==
  ASSUME Books, file \in Files, requests' \in 1..MaxRequests,
         NEW kind \in Kinds, NEW src \in Keys, NEW dst \in Keys,
         NEW to \in Folders, NEW m \in 0..MaxRequests,
         Enqueue(kind, src, dst, to, m), UNCHANGED <<run, pc>>
  PROVE  \E n : /\ Adds(n)
                /\ jobs'[n].kind = kind /\ jobs'[n].src = src /\ jobs'[n].dst = dst
                /\ jobs'[n].from = file.dir /\ jobs'[n].to = to /\ jobs'[n].meta = m
                /\ jobs'[n].asked = requests'
<1> DEFINE j == [kind |-> kind, src |-> src, dst |-> dst, from |-> file.dir,
                 to |-> to, meta |-> m, asked |-> requests', state |-> "waiting",
                 throws |-> 0]
<1>1. j \in JobRecords
  BY NasAssumption DEF NasAssumption, JobRecords, Files
<1>2. /\ j.state = "waiting" /\ j.kind = kind /\ j.src = src /\ j.dst = dst
      /\ j.from = file.dir /\ j.to = to /\ j.meta = m /\ j.asked = requests'
  OBVIOUS
<1>3. jobs' = Append(jobs, j)
  BY DEF Enqueue
<1> HIDE DEF j
<1>4. \E n : Adds(n) /\ jobs'[n] = j
  BY <1>1, <1>2, <1>3, AppendDoes
<1> QED BY <1>2, <1>4

LEMMA DuplicateDoes ==
  ASSUME Books, NEW i \in JobIds, Duplicate(i)
  PROVE  /\ jobs[i].state = "waiting" /\ jobs[i].kind # "purge"
         /\ \E n : /\ Adds(n)
                   /\ jobs'[n].kind = jobs[i].kind /\ jobs'[n].src = jobs[i].src
                   /\ jobs'[n].dst = jobs[i].dst /\ jobs'[n].from = jobs[i].from
                   /\ jobs'[n].to = jobs[i].to /\ jobs'[n].meta = jobs[i].meta
                   /\ jobs'[n].asked = jobs[i].asked
<1> DEFINE j == [jobs[i] EXCEPT !.throws = 0]
<1>1. jobs[i] \in JobRecords /\ jobs[i].state = "waiting" /\ jobs[i].kind # "purge"
  BY JobFacts DEF Duplicate
<1>2. /\ j \in JobRecords /\ j.state = "waiting" /\ j.kind = jobs[i].kind
      /\ j.src = jobs[i].src /\ j.dst = jobs[i].dst /\ j.from = jobs[i].from
      /\ j.to = jobs[i].to /\ j.meta = jobs[i].meta /\ j.asked = jobs[i].asked
  BY <1>1, NasAssumption DEF NasAssumption, JobRecords
<1>3. jobs' = Append(jobs, j) /\ UNCHANGED <<run, pc>>
  BY DEF Duplicate
<1> HIDE DEF j
<1>4. \E n : Adds(n) /\ jobs'[n] = j
  BY <1>2, <1>3, AppendDoes
<1> QED BY <1>1, <1>2, <1>4

(* A state of one job is changed.                                           *)
LEMMA StateSet ==
  ASSUME Books, NEW i \in JobIds, NEW j, jobs' = [jobs EXCEPT ![i] = j],
         /\ j.kind = jobs[i].kind /\ j.src = jobs[i].src /\ j.dst = jobs[i].dst
         /\ j.from = jobs[i].from /\ j.to = jobs[i].to /\ j.meta = jobs[i].meta
         /\ j.asked = jobs[i].asked
  PROVE  /\ JobIds' = JobIds /\ jobs'[i] = j
         /\ \A k \in JobIds : SameJob(k) /\ (k # i => SameState(k))
<1>1. JobIds' = JobIds /\ jobs'[i] = j /\ \A k \in JobIds : k # i => jobs'[k] = jobs[k]
  BY DEF JobIds
<1> QED BY <1>1 DEF SameJob, SameState

LEMMA FinishDoes ==
  ASSUME Books, run # 0, Finish
  PROVE  Ends({"done"})
<1> DEFINE j == [jobs[run] EXCEPT !.state = "done"]
<1>1. run \in JobIds /\ jobs[run] \in JobRecords
  BY JobFacts
<1>2. /\ j.kind = jobs[run].kind /\ j.src = jobs[run].src /\ j.dst = jobs[run].dst
      /\ j.from = jobs[run].from /\ j.to = jobs[run].to /\ j.meta = jobs[run].meta
      /\ j.asked = jobs[run].asked /\ j.state = "done"
  BY <1>1 DEF JobRecords
<1>3. jobs' = [jobs EXCEPT ![run] = j] /\ run' = 0 /\ pc' = "idle"
  BY DEF Finish, SetState
<1> HIDE DEF j
<1> QED BY <1>1, <1>2, <1>3, StateSet DEF Ends

LEMMA ThrowDoes ==
  ASSUME Books, run # 0, Throw
  PROVE  Ends({"waiting", "failed"})
<1> DEFINE n == Job.throws + 1
           s == IF n <= MaxAttempts THEN "waiting" ELSE "failed"
           j == [jobs[run] EXCEPT !.throws = n, !.state = s]
<1>1. run \in JobIds /\ jobs[run] \in JobRecords
  BY JobFacts
<1>2. /\ j.kind = jobs[run].kind /\ j.src = jobs[run].src /\ j.dst = jobs[run].dst
      /\ j.from = jobs[run].from /\ j.to = jobs[run].to /\ j.meta = jobs[run].meta
      /\ j.asked = jobs[run].asked /\ j.state \in {"waiting", "failed"}
  BY <1>1 DEF JobRecords
<1>3. jobs' = [jobs EXCEPT ![run] = j] /\ run' = 0 /\ pc' = "idle"
  BY DEF Throw
<1> HIDE DEF j
<1> QED BY <1>1, <1>2, <1>3, StateSet DEF Ends

LEMMA StartDoes ==
  ASSUME Books, NEW i \in JobIds, StartJob(i)
  PROVE  /\ run = 0 /\ run' = i /\ JobIds' = JobIds
         /\ jobs[i].state = "waiting" /\ jobs'[i].state = "active"
         /\ \A k \in JobIds : SameJob(k) /\ (k # i => SameState(k))
         /\ pc' = IF jobs[i].kind = "restore" THEN "meta"
                  ELSE IF jobs[i].kind = "purge" THEN "file" ELSE "row"
<1> DEFINE j == [jobs[i] EXCEPT !.state = "active"]
<1>1. jobs[i] \in JobRecords
  BY JobFacts
<1>2. /\ j.kind = jobs[i].kind /\ j.src = jobs[i].src /\ j.dst = jobs[i].dst
      /\ j.from = jobs[i].from /\ j.to = jobs[i].to /\ j.meta = jobs[i].meta
      /\ j.asked = jobs[i].asked /\ j.state = "active"
  BY <1>1 DEF JobRecords
<1>3. jobs' = [jobs EXCEPT ![i] = j]
  BY DEF StartJob, SetState
<1> HIDE DEF j
<1> QED BY <1>2, <1>3, StateSet DEF StartJob

LEMMA CrashDoes ==
  ASSUME Books, Crash
  PROVE  /\ JobIds' = JobIds /\ run' = 0 /\ pc' = "idle"
         /\ \A i \in JobIds : /\ SameJob(i) /\ (i # run => SameState(i))
                              /\ i = run => jobs'[i].state = "waiting"
<1>1. jobs' = [i \in JobIds |->
                 IF i = run THEN [jobs[i] EXCEPT !.state = "waiting"] ELSE jobs[i]]
      /\ run' = 0 /\ pc' = "idle"
  BY DEF Crash, JobIds
<1>2. JobIds' = JobIds
  BY <1>1 DEF JobIds
<1>3. ASSUME NEW i \in JobIds
      PROVE  /\ SameJob(i) /\ (i # run => SameState(i))
             /\ i = run => jobs'[i].state = "waiting"
  <2>1. jobs[i] \in JobRecords
    BY JobFacts
  <2> QED BY <1>1, <2>1 DEF SameJob, SameState, JobRecords
<1> QED BY <1>1, <1>2, <1>3

(* A step of a handler goes on or ends the run.                             *)
LEMMA HandleDoes ==
  ASSUME IndInv, Handle
  PROVE  /\ run # 0
         /\ \/ UNCHANGED <<jobs, run>> /\ pc' # "idle"
            \/ Ends({"done"})
            \/ Ends({"waiting", "failed"})
<1>1. run # 0 /\ Books
  BY HandleBooks DEF IndInv
<1>2. \/ \E s \in Steps \ {"idle"} : GoTo(s)
      \/ Finish \/ Throw
  BY DEF Handle, ReadMeta, ReadFile, CheckFolder, ReadRow, Move, SaveRow,
     ReadMovedFile, RevertFile, RevertRow, SaveFile, DeleteMeta, DeleteContent,
     DeleteRow, PermanentDelete, AfterSave, Steps
<1> QED BY <1>1, <1>2, FinishDoes, ThrowDoes DEF GoTo

(* What a request does to the jobs.                                         *)
RequestAdds ==
  \E n : /\ Adds(n) /\ jobs'[n].asked = requests'
         /\ jobs'[n].kind = "restore" => jobs'[n].meta < requests'
         /\ jobs'[n].kind # "purge" => requests' > requests
LEMMA RequestDoes ==
  ASSUME IndInv, Request
  PROVE  /\ requests' \in Nat /\ requests <= requests'
         /\ UNCHANGED <<duplicates, late>>
         /\ UNCHANGED <<jobs, run, pc>> \/ RequestAdds
<1> USE DEF IndInv
<1>1. /\ requests \in 0..MaxRequests /\ metas \subseteq 1..requests
      /\ purging \in 0..requests /\ MaxRequests \in Nat
      /\ row.key \in Keys /\ file \in Files /\ file.dir \in Folders
      /\ Gone \in Keys /\ Books
  BY NasAssumption, RowTypes, KeyTypes DEF NasAssumption, Asked, Data, Files
<1>2. Accept => requests' \in 1..MaxRequests /\ requests' = requests + 1
  BY <1>1 DEF Accept
<1>3. /\ requests' \in Nat /\ requests <= requests' /\ UNCHANGED <<duplicates, late>>
  BY <1>1, <1>2 DEF Request, RequestRename, RequestMove, RequestDelete, RequestRestore,
     RequestPurge, SavePurged, QueuePurge, TrashFolder, boundVars, historyVars
<1>4. ASSUME NEW n \in Names, RequestRename(n)  PROVE RequestAdds
  <2>1. NewObjectKey(n) \in Keys
    BY PathTypes
  <2>2. Accept /\ Enqueue("rename", row.key, NewObjectKey(n), file.dir, 0)
        /\ UNCHANGED <<run, pc>>
    BY <1>4 DEF RequestRename
  <2>3. \E k : Adds(k) /\ jobs'[k].kind = "rename" /\ jobs'[k].asked = requests'
    BY <1>1, <1>2, <2>1, <2>2, EnqueueDoes DEF Kinds
  <2> QED BY <1>1, <1>2, <2>2, <2>3 DEF RequestAdds
<1>5. ASSUME NEW d \in Folders, RequestMove(d)  PROVE RequestAdds
  <2>1. MoveTarget(row.key, d) \in Keys
    BY <1>1, PathTypes
  <2>2. Accept /\ Enqueue("move", row.key, MoveTarget(row.key, d), d, 0)
        /\ UNCHANGED <<run, pc>>
    BY <1>5 DEF RequestMove
  <2>3. \E k : Adds(k) /\ jobs'[k].kind = "move" /\ jobs'[k].asked = requests'
    BY <1>1, <1>2, <2>1, <2>2, EnqueueDoes DEF Kinds
  <2> QED BY <1>1, <1>2, <2>2, <2>3 DEF RequestAdds
<1>6. ASSUME RequestDelete  PROVE RequestAdds
  <2>1. Accept /\ Enqueue("trash", row.key, TrashPath(row.key, requests'), file.dir, 0)
        /\ UNCHANGED <<run, pc>>
    BY <1>6 DEF RequestDelete
  <2>2. TrashPath(row.key, requests') \in Keys
    BY <1>1, <1>2, <2>1, PathTypes
  <2>3. \E k : Adds(k) /\ jobs'[k].kind = "trash" /\ jobs'[k].asked = requests'
    BY <1>1, <1>2, <2>1, <2>2, EnqueueDoes DEF Kinds
  <2> QED BY <1>1, <1>2, <2>1, <2>3 DEF RequestAdds
<1>7. ASSUME NEW m \in metas, NEW d \in Folders, RequestRestore(m, d)  PROVE RequestAdds
  <2>1. Accept /\ Enqueue("restore", Gone, Gone, d, m) /\ UNCHANGED <<run, pc>>
    BY <1>7 DEF RequestRestore, rowVars
  <2>2. m \in 0..MaxRequests /\ m < requests + 1
    BY <1>1
  <2>3. \E k : Adds(k) /\ jobs'[k].meta = m /\ jobs'[k].asked = requests'
    BY <1>1, <1>2, <2>1, <2>2, EnqueueDoes DEF Kinds
  <2> QED BY <1>1, <1>2, <2>1, <2>2, <2>3 DEF RequestAdds
<1>8. ASSUME QueuePurge  PROVE RequestAdds
  <2>1. purging # 0 /\ Enqueue("purge", Gone, Gone, file.dir, purging)
        /\ UNCHANGED <<run, pc, requests>>
    BY <1>8 DEF QueuePurge, boundVars
  <2>2. requests' \in 1..MaxRequests /\ purging \in 0..MaxRequests
    BY <1>1, <2>1
  <2>3. \E k : Adds(k) /\ jobs'[k].kind = "purge" /\ jobs'[k].asked = requests'
    BY <1>1, <2>1, <2>2, EnqueueDoes DEF Kinds
  <2> QED BY <2>3 DEF RequestAdds
<1>9. ASSUME \/ \E m \in metas : RequestPurge(m)
             \/ SavePurged
             \/ \E d \in Folders : TrashFolder(d)
      PROVE  UNCHANGED <<jobs, run, pc>>
  BY <1>9 DEF RequestPurge, SavePurged, TrashFolder
<1> QED BY <1>3, <1>4, <1>5, <1>6, <1>7, <1>8, <1>9 DEF Request

LEMMA DownloadDoes ==
  ASSUME IndInv, Download
  PROVE  /\ UNCHANGED <<jobs, run, pc, duplicates, late>>
         /\ requests' \in Nat /\ requests <= requests'
<1>1. requests \in Nat
  BY DEF IndInv, Asked
<1> QED
  BY <1>1 DEF Download, DownloadRead, DownloadLease, DownloadEnd, DownloadReturn, Accept,
     boundVars, historyVars

-----------------------------------------------------------------------------
(* The order of jobs.                                                       *)

LEMMA OrderKept ==
  ASSUME Books, Order, JobIds' = JobIds, UNCHANGED duplicates,
         requests \in Nat, requests' \in Nat, requests <= requests',
         \A i \in JobIds : SameJob(i),
         \A i \in JobIds : jobs'[i].state = "active" => i = run',
         LaterWait'
  PROVE  Order'
<1>1. \A i \in JobIds : jobs[i].asked \in Nat
  BY JobFacts
<1>2. OneActive'
  BY DEF OneActive
<1>3. AskedBefore' /\ RestoresLater'
  BY <1>1 DEF Order, AskedBefore, RestoresLater, SameJob
<1>4. TwinsAgree'
  BY DEF Order, TwinsAgree, Twins, SameJob
<1> QED BY <1>2, <1>3, <1>4 DEF Order

LEMMA OrderEnds ==
  ASSUME Books, Order, UNCHANGED <<duplicates, requests>>, requests \in Nat,
         Ends({"done"}) \/ Ends({"waiting", "failed"})
  PROVE  Order'
<1>1. \A i \in JobIds : jobs'[i].state = "active" => i = run'
  BY DEF Ends, SameState, Order, OneActive
<1>2. LaterWait'
  BY DEF Ends, LaterWait
<1> QED BY <1>1, <1>2, OrderKept DEF Ends

LEMMA OrderStays ==
  ASSUME Books, Order, UNCHANGED <<jobs, run, late, duplicates>>,
         requests \in Nat, requests' \in Nat, requests <= requests'
  PROVE  Order'
<1>1. JobIds' = JobIds /\ \A i \in JobIds : SameJob(i)
  BY DEF JobIds, SameJob
<1>2. \A i \in JobIds : jobs'[i].state = "active" => i = run'
  BY DEF Order, OneActive
<1>3. LaterWait'
  BY <1>1 DEF Order, LaterWait
<1> QED BY <1>1, <1>2, <1>3, OrderKept

(* A job is added whose twins, if it has any, are those of another.         *)
LEMMA OrderAdds ==
  ASSUME Books, Order, UNCHANGED late, requests \in Nat, requests' \in Nat,
         requests <= requests', NEW n, Adds(n), jobs'[n].asked \in Nat,
         jobs'[n].asked <= requests',
         jobs'[n].kind = "restore" => jobs'[n].meta < jobs'[n].asked,
         duplicates' = 0 => duplicates = 0,
         \A i \in JobIds : jobs[i].asked = jobs'[n].asked /\ jobs[i].kind # "purge"
                             /\ jobs'[n].kind # "purge" =>
           /\ jobs[i].kind = jobs'[n].kind /\ jobs[i].src = jobs'[n].src
           /\ jobs[i].dst = jobs'[n].dst /\ jobs[i].from = jobs'[n].from
           /\ jobs[i].to = jobs'[n].to /\ jobs[i].meta = jobs'[n].meta
           /\ duplicates' # 0
  PROVE  Order'
<1>1. \A i \in JobIds : jobs[i].asked \in Nat /\ SameJob(i) /\ SameState(i)
  BY JobFacts DEF Adds
<1>2. /\ JobIds' = JobIds \cup {n} /\ n \notin JobIds /\ run' = run
      /\ jobs'[n].state = "waiting"
      /\ run # 0 => run \in JobIds
  BY JobFacts DEF Adds
<1>3. OneActive'
  BY <1>1, <1>2 DEF Order, OneActive, SameState
<1>4. AskedBefore'
  BY <1>1, <1>2 DEF Order, AskedBefore, SameJob
<1>5. RestoresLater'
  BY <1>1, <1>2 DEF Order, RestoresLater, SameJob
<1>6. LaterWait'
  <2> SUFFICES ASSUME run # 0, ~late, NEW j \in JobIds', jobs'[j].asked > jobs'[run].asked
               PROVE  jobs'[j].state = "waiting"
    BY <1>2 DEF LaterWait
  <2>1. run \in JobIds /\ jobs'[run].asked = jobs[run].asked
    BY <1>1, <1>2 DEF SameJob
  <2>2. CASE j \in JobIds
    BY <1>1, <2>1, <2>2 DEF Order, LaterWait, SameJob, SameState
  <2> QED BY <1>2, <2>2
<1>7. TwinsAgree'
  <2> SUFFICES ASSUME NEW i \in JobIds', NEW j \in JobIds', Twins(i, j)'
               PROVE  /\ jobs'[i].kind = jobs'[j].kind /\ jobs'[i].src = jobs'[j].src
                      /\ jobs'[i].dst = jobs'[j].dst /\ jobs'[i].from = jobs'[j].from
                      /\ jobs'[i].to = jobs'[j].to /\ jobs'[i].meta = jobs'[j].meta
                      /\ duplicates' = 0 => i = j
    BY DEF TwinsAgree
  <2>1. CASE i \in JobIds /\ j \in JobIds
    BY <1>1, <2>1 DEF Order, TwinsAgree, Twins, SameJob
  <2>2. CASE i = n /\ j = n
    BY <2>2
  <2>3. CASE i = n /\ j \in JobIds
    BY <1>1, <2>3 DEF Twins, SameJob
  <2>4. CASE i \in JobIds /\ j = n
    BY <1>1, <2>4 DEF Twins, SameJob
  <2> QED BY <1>2, <2>1, <2>2, <2>3, <2>4
<1> QED BY <1>3, <1>4, <1>5, <1>6, <1>7 DEF Order

LEMMA OrderStep ==
  ASSUME IndInv, Order, Next
  PROVE  Order'
<1>1. Books /\ requests \in Nat
  BY DEF IndInv, Asked
<1>2. CASE Request
  <2>1. /\ requests' \in Nat /\ requests <= requests' /\ UNCHANGED <<duplicates, late>>
        /\ UNCHANGED <<jobs, run, pc>> \/ RequestAdds
    BY <1>2, RequestDoes
  <2>2. CASE UNCHANGED <<jobs, run, pc>>
    BY <1>1, <2>1, <2>2, OrderStays
  <2>3. CASE RequestAdds
    <3>1. PICK n : /\ Adds(n) /\ jobs'[n].asked = requests'
                   /\ jobs'[n].kind = "restore" => jobs'[n].meta < requests'
                   /\ jobs'[n].kind # "purge" => requests' > requests
      BY <2>3 DEF RequestAdds
    <3>2. \A i \in JobIds : jobs[i].asked \in Nat /\ jobs[i].asked <= requests
      BY <1>1, JobFacts DEF Order, AskedBefore
    <3>3. \A i \in JobIds : ~(jobs[i].asked = jobs'[n].asked /\ jobs'[n].kind # "purge")
      BY <1>1, <2>1, <3>1, <3>2
    <3> QED BY <1>1, <2>1, <3>1, <3>3, OrderAdds
  <2> QED BY <2>1, <2>2, <2>3
<1>3. CASE Download
  BY <1>1, <1>3, DownloadDoes, OrderStays
<1>4. ASSUME NEW i \in JobIds, StartJob(i)  PROVE Order'
  <2>1. /\ run = 0 /\ run' = i /\ JobIds' = JobIds
        /\ \A k \in JobIds : SameJob(k) /\ (k # i => SameState(k))
    BY <1>1, <1>4, StartDoes
  <2>2. /\ UNCHANGED <<duplicates, requests>>
        /\ late' = (late \/ \E j \in JobIds :
                      jobs[j].asked > jobs[i].asked /\ jobs[j].state # "waiting")
    BY <1>4 DEF StartJob, boundVars, JobIds
  <2>3. \A k \in JobIds : jobs'[k].state = "active" => k = run'
    BY <1>1, <2>1, JobFacts DEF Order, OneActive, SameState
  <2>4. LaterWait'
    <3> SUFFICES ASSUME ~late', NEW j \in JobIds, jobs'[j].asked > jobs'[i].asked
                 PROVE  jobs'[j].state = "waiting"
      BY <2>1 DEF LaterWait
    <3>1. jobs[j].asked > jobs[i].asked
      BY <2>1 DEF SameJob
    <3>2. late \in BOOLEAN
      BY DEF IndInv, Data
    <3>3. ~\E k \in JobIds : jobs[k].asked > jobs[i].asked /\ jobs[k].state # "waiting"
      BY <2>2, <3>2
    <3>4. jobs[j].state = "waiting"
      BY <3>1, <3>3
    <3>5. jobs[j].asked \in Nat /\ jobs[i].asked \in Nat
      BY <1>1, JobFacts
    <3>6. j # i
      BY <3>1, <3>5
    <3> QED BY <2>1, <3>4, <3>6 DEF SameState
  <2> QED BY <1>1, <2>1, <2>2, <2>3, <2>4, OrderKept
<1>5. ASSUME NEW i \in JobIds, Duplicate(i)  PROVE Order'
  <2>1. PICK n : /\ Adds(n)
                 /\ jobs'[n].kind = jobs[i].kind /\ jobs'[n].src = jobs[i].src
                 /\ jobs'[n].dst = jobs[i].dst /\ jobs'[n].from = jobs[i].from
                 /\ jobs'[n].to = jobs[i].to /\ jobs'[n].meta = jobs[i].meta
                 /\ jobs'[n].asked = jobs[i].asked
    BY <1>1, <1>5, DuplicateDoes
  <2>2. UNCHANGED <<requests, late>> /\ duplicates' # 0
    BY <1>5 DEF Duplicate, historyVars, IndInv, Data
  <2>3. /\ jobs[i].asked \in Nat /\ jobs[i].asked <= requests
        /\ jobs[i].kind = "restore" => jobs[i].meta < jobs[i].asked
    BY <1>1, JobFacts DEF Order, AskedBefore, RestoresLater
  <2>4. \A k \in JobIds : jobs[k].asked = jobs[i].asked /\ jobs[k].kind # "purge"
                            /\ jobs[i].kind # "purge" =>
           /\ jobs[k].kind = jobs[i].kind /\ jobs[k].src = jobs[i].src
           /\ jobs[k].dst = jobs[i].dst /\ jobs[k].from = jobs[i].from
           /\ jobs[k].to = jobs[i].to /\ jobs[k].meta = jobs[i].meta
    BY DEF Order, TwinsAgree, Twins
  <2> QED BY <1>1, <2>1, <2>2, <2>3, <2>4, OrderAdds
<1>6. CASE Handle
  <2>1. /\ \/ UNCHANGED <<jobs, run>>
           \/ Ends({"done"})
           \/ Ends({"waiting", "failed"})
    BY <1>6, HandleDoes
  <2>2. UNCHANGED <<duplicates, requests, late>>
    BY <1>6 DEF Handle, ReadMeta, ReadFile, CheckFolder, ReadRow, Move, SaveRow,
       ReadMovedFile, RevertFile, RevertRow, SaveFile, DeleteMeta, DeleteContent,
       DeleteRow, PermanentDelete, boundVars, historyVars
  <2> QED BY <1>1, <2>1, <2>2, OrderEnds, OrderStays
<1>7. CASE Fail
  <2>1. Ends({"waiting", "failed"})
    BY <1>1, <1>7, ThrowDoes DEF Fail
  <2>2. UNCHANGED <<duplicates, requests>>
    BY <1>7 DEF Fail
  <2> QED BY <1>1, <2>1, <2>2, OrderEnds
<1>8. CASE Crash
  <2>1. /\ JobIds' = JobIds /\ run' = 0
        /\ \A i \in JobIds : /\ SameJob(i) /\ (i # run => SameState(i))
                             /\ i = run => jobs'[i].state = "waiting"
    BY <1>1, <1>8, CrashDoes
  <2>2. UNCHANGED <<duplicates, requests>>
    BY <1>8 DEF Crash
  <2>3. \A i \in JobIds : jobs'[i].state = "active" => i = run'
    BY <2>1 DEF SameState, Order, OneActive
  <2>4. LaterWait'
    BY <2>1 DEF LaterWait
  <2> QED BY <1>1, <2>1, <2>2, <2>3, <2>4, OrderKept
<1> QED BY <1>2, <1>3, <1>4, <1>5, <1>6, <1>7, <1>8 DEF Next, JobIds

-----------------------------------------------------------------------------
(* The steps of the handlers, and the row they have found.                  *)

LEMMA StatusFacts ==
  /\ NoRow.status = "NONE" /\ NoRow.lease = 0
  /\ \A r \in Rows : r # NoRow => r.status \in {"AVAILABLE", "SYNCING"}
  /\ \A k, l : Row(k, "SYNCING", l) # NoRow
  BY DEF NoRow, Row, Rows

(* Requests and downloads that save the row they have just read neither     *)
(* make a row nor take one away.                                            *)
LEMMA RowStays ==
  ASSUME IndInv, Request \/ Download, ~stale'
  PROVE  ~stale /\ (row' = NoRow <=> row = NoRow)
<1>1. /\ row \in Rows /\ leaseCopy \in Rows /\ stale \in BOOLEAN
      /\ row.lease \in Nat /\ leaseCopy.lease \in Nat
      /\ download = "reading" => Available(leaseCopy)
      /\ download = "closing" => leaseCopy.lease > 0
  BY RowTypes DEF IndInv, Asked, Data
<1>2. Editable => row # NoRow
  BY StatusFacts DEF Editable, Available
<1>3. [row EXCEPT !.status = "SYNCING"] # NoRow
  BY <1>1, StatusFacts DEF Rows, NoRow, Row
<1>4. ASSUME Request  PROVE ~stale /\ (row' = NoRow <=> row = NoRow)
  <2>1. ~stale
    BY <1>4 DEF Request, RequestRename, RequestMove, RequestDelete, RequestRestore,
       RequestPurge, SavePurged, QueuePurge, TrashFolder, historyVars
  <2>2. \/ row' = row
        \/ Editable /\ row' = [row EXCEPT !.status = "SYNCING"]
        \/ Editable /\ \E n : row' = Row(NewObjectKey(n), "SYNCING", row.lease)
    BY <1>4 DEF Request, RequestRename, RequestMove, RequestDelete, RequestRestore,
       RequestPurge, SavePurged, QueuePurge, TrashFolder, rowVars
  <2> QED BY <1>2, <1>3, <2>1, <2>2, StatusFacts
<1>5. ASSUME DownloadLease \/ DownloadReturn  PROVE ~stale /\ (row' = NoRow <=> row = NoRow)
  <2>1. stale' = (stale \/ row # leaseCopy)
    BY <1>5 DEF DownloadLease, DownloadReturn
  <2>2. ~stale /\ row = leaseCopy
    BY <1>1, <2>1
  <2>3. row.status # "NONE"
    BY <1>1, <1>5, <2>2, StatusFacts DEF DownloadLease, DownloadReturn, Available
  <2>4. \A l : [row EXCEPT !.lease = l].status = row.status
    BY <1>1 DEF Rows, NoRow, Row
  <2>5. row'.status = row.status
    BY <1>5, <2>2, <2>4 DEF DownloadLease, DownloadReturn
  <2> QED BY <2>2, <2>3, <2>5, StatusFacts
<1>6. ASSUME DownloadRead \/ DownloadEnd  PROVE ~stale /\ (row' = NoRow <=> row = NoRow)
  BY <1>6 DEF DownloadRead, DownloadEnd, rowVars, historyVars
<1> QED BY <1>4, <1>5, <1>6 DEF Download

LEMMA PlacesStep ==
  ASSUME IndInv, Books', Places, Next
  PROVE  Places'
<1>1. Books /\ StepsOfKind /\ RowsFound
  BY DEF IndInv, Places
<1>2. ASSUME pc' = "idle"  PROVE Places'
  BY <1>2 DEF Books, Places, StepsOfKind, RowsFound, HasRow, LostRow, TurningBack
<1>3. ASSUME UNCHANGED <<run, pc, nasCopy>>, run # 0 => Job' = Job,
             ~stale' => ~stale /\ (row' = NoRow <=> row = NoRow)
      PROVE  Places'
  <2>1. pc # "idle" => run # 0
    BY <1>1 DEF Books
  <2>2. StepsOfKind'
    BY <1>1, <1>3 DEF StepsOfKind
  <2>3. RowsFound'
    BY <1>1, <1>3, <2>1 DEF RowsFound, HasRow, LostRow, TurningBack
  <2> QED BY <2>2, <2>3 DEF Places
<1>4. CASE Request
  <2>1. UNCHANGED <<run, pc, nasCopy>>
    BY <1>4 DEF Request, RequestRename, RequestMove, RequestDelete, RequestRestore,
       RequestPurge, SavePurged, QueuePurge, TrashFolder, copyVars
  <2> QED BY <1>3, <1>4, <2>1, RequestBooks, RowStays
<1>5. CASE Download
  <2>1. UNCHANGED <<run, pc, nasCopy, jobs>>
    BY <1>5 DEF Download, DownloadRead, DownloadLease, DownloadEnd, DownloadReturn, copyVars
  <2> QED BY <1>3, <1>5, <2>1, RowStays DEF Job
<1>6. ASSUME NEW i \in JobIds, Duplicate(i)  PROVE Places'
  <2>1. run # 0 => Job' = Job
    BY <1>6, DuplicateBooks DEF JobIds
  <2>2. UNCHANGED <<run, pc, nasCopy, row, stale>>
    BY <1>6 DEF Duplicate, rowVars, copyVars, historyVars
  <2> QED BY <1>3, <2>1, <2>2
<1>7. ASSUME NEW i \in JobIds, StartJob(i)  PROVE Places'
  <2>1. /\ run' = i /\ SameJob(i)
        /\ pc' = IF jobs[i].kind = "restore" THEN "meta"
                 ELSE IF jobs[i].kind = "purge" THEN "file" ELSE "row"
    BY <1>1, <1>7, StartDoes
  <2>2. Job'.kind = jobs[i].kind
    BY <2>1 DEF Job, SameJob
  <2>3. StepsOfKind'
    BY <2>1, <2>2 DEF StepsOfKind, MoveKinds, MoveSteps, TurningBack, RestoreSteps,
       PurgeSteps
  <2>4. RowsFound'
    BY <2>1 DEF RowsFound, HasRow, LostRow, TurningBack
  <2> QED BY <2>3, <2>4 DEF Places
<1>8. CASE Fail \/ Crash
  BY <1>2, <1>8 DEF Fail, Throw, Crash
<1>9. CASE Handle
  <2> SUFFICES ASSUME pc' # "idle"  PROVE Places'
    BY <1>2
  <2>1. run # 0 /\ run' = run /\ Job' = Job /\ UNCHANGED stale
    BY <1>9, HandleBooks DEF Handle, ReadMeta, ReadFile, CheckFolder, ReadRow, Move, SaveRow,
       ReadMovedFile, RevertFile, RevertRow, SaveFile, DeleteMeta, DeleteContent,
       DeleteRow, PermanentDelete, historyVars
  <2>2. /\ row \in Rows /\ nasCopy \in Rows /\ Job.kind \in Kinds
    BY <1>1, <2>1, JobTypes DEF IndInv, Asked, JobRecords
  <2>3. CASE ReadMeta
    BY <1>1, <2>1, <2>3 DEF ReadMeta, At, GoTo, Finish, rowVars, copyVars, Places, StepsOfKind,
       RowsFound, HasRow, LostRow, MoveKinds, MoveSteps, TurningBack, RestoreSteps, PurgeSteps
  <2>4. CASE ReadFile
    BY <1>1, <2>1, <2>4 DEF ReadFile, At, GoTo, rowVars, Places, StepsOfKind,
       RowsFound, HasRow, LostRow, MoveKinds, MoveSteps, TurningBack, RestoreSteps, PurgeSteps
  <2>5. CASE CheckFolder
    BY <1>1, <2>1, <2>5 DEF CheckFolder, At, GoTo, Finish, rowVars, copyVars, Places,
       StepsOfKind, RowsFound, HasRow, LostRow, MoveKinds, MoveSteps, TurningBack,
       RestoreSteps, PurgeSteps
  <2>6. CASE ReadRow
    BY <1>1, <2>1, <2>6 DEF ReadRow, At, GoTo, Finish, Throw, rowVars, Places,
       StepsOfKind, RowsFound, HasRow, LostRow, MoveKinds, MoveSteps, TurningBack,
       RestoreSteps, PurgeSteps
  <2>7. CASE Move
    BY <1>1, <2>1, <2>7 DEF Move, At, GoTo, Throw, copyVars, Places,
       StepsOfKind, RowsFound, HasRow, LostRow, MoveKinds, MoveSteps, TurningBack,
       RestoreSteps, PurgeSteps
  <2>8. CASE SaveRow
    BY <1>1, <2>1, <2>8 DEF SaveRow, AfterSave, At, GoTo, Finish, Places, StepsOfKind,
       RowsFound, HasRow, LostRow, MoveKinds, MoveSteps, TurningBack, RestoreSteps, PurgeSteps
  <2>9. CASE ReadMovedFile \/ RevertFile
    BY <1>1, <2>1, <2>9 DEF ReadMovedFile, RevertFile, At, GoTo, Throw, rowVars, copyVars,
       Places, StepsOfKind, RowsFound, HasRow, LostRow, MoveKinds, MoveSteps, TurningBack,
       RestoreSteps, PurgeSteps
  <2>10. CASE RevertRow \/ DeleteMeta
    BY <2>10 DEF RevertRow, DeleteMeta, Finish
  <2>11. CASE SaveFile
    BY <1>1, <2>1, <2>11 DEF SaveFile, At, GoTo, copyVars, Places, StepsOfKind,
       RowsFound, HasRow, LostRow, MoveKinds, MoveSteps, TurningBack, RestoreSteps, PurgeSteps
  <2>12. CASE DeleteContent
    BY <1>1, <2>1, <2>12 DEF DeleteContent, At, GoTo, Throw, copyVars, Places, StepsOfKind,
       RowsFound, HasRow, LostRow, MoveKinds, MoveSteps, TurningBack, RestoreSteps, PurgeSteps
  <2>13. CASE DeleteRow
    BY <1>1, <2>1, <2>13 DEF DeleteRow, At, GoTo, copyVars, Places, StepsOfKind,
       RowsFound, HasRow, LostRow, MoveKinds, MoveSteps, TurningBack, RestoreSteps, PurgeSteps
  <2>14. CASE PermanentDelete
    BY <1>1, <2>1, <2>14 DEF PermanentDelete, At, GoTo, Throw, copyVars, Places, StepsOfKind,
       RowsFound, HasRow, LostRow, MoveKinds, MoveSteps, TurningBack, RestoreSteps, PurgeSteps
  <2> QED
    BY <1>9, <2>3, <2>4, <2>5, <2>6, <2>7, <2>8, <2>9, <2>10, <2>11, <2>12, <2>13, <2>14
       DEF Handle
<1> QED BY <1>4, <1>5, <1>6, <1>7, <1>8, <1>9 DEF Next, JobIds

-----------------------------------------------------------------------------
(* Who carries a SYNCING row to its end.                                    *)

(* Steps after which a handler is sure to succeed.                          *)
Committed == {"save", "saveFile", "revertFile", "revertRow", "deleteMeta"}

(* No job has been overtaken by one that a later request has registered.    *)
Overtaken ==
  \E i, j \in JobIds :
    /\ jobs[i].state = "waiting" /\ jobs[j].asked > jobs[i].asked
    /\ jobs[j].state = "done" \/ (j = run /\ pc \in Committed)

(* Quiet, of a file that is not being purged from the NAS: what was quiet   *)
(* at the end was quiet all the time.                                       *)
Calm == Quiet /\ row # NoRow /\ pc # "deleteRow" /\ ~Overtaken

(* The metadata that the running restore is about to delete, and the rest.  *)
Deleting == IF run # 0 /\ pc = "deleteMeta" THEN {Job.meta} ELSE {}
Left == metas \ Deleting

Restoring == run # 0 /\ Job.kind = "restore" /\ pc \in RestoreSteps

(* A purge that will take the content away is under way.                    *)
Purges(p) ==
  /\ jobs[p].kind = "purge" /\ Pending(p)
  /\ p = run => \/ pc \in {"file", "row"}
                \/ pc = "delete" /\ nasCopy.key = at
WillPurge == purging # 0 \/ \E p \in JobIds : Purges(p)

Syncing(r) == r.status = "SYNCING"

(* c, or the other job of its event, is being handled.                      *)
Running(c) == run # 0 /\ Twins(c, run)

Renames(j) ==
  /\ row.key = j.dst /\ file.state # "TRASHED" /\ Left = {}
  /\ file.state = "ACTIVE" => file.name = j.dst.name /\ file.dir = j.src.dir
Moves(j, turned) ==
  /\ row.key = j.src /\ file.state # "TRASHED" /\ Left = {}
  /\ j.dst = MoveTarget(j.src, j.to) /\ j.from = j.src.dir
  /\ file.state = "ACTIVE" =>
       /\ file.name = j.src.name
       /\ file.dir = IF turned THEN j.from ELSE j.to
  /\ file.state = "DELETED" => WillPurge
Trashes(j) ==
  /\ row.key = j.src /\ row.lease = 0 /\ j.dst.name = j.src.name
  /\ file.state # "ACTIVE"
  /\ file.state = "TRASHED" => file.name = j.src.name
  /\ Left \subseteq {j.asked}

(* No later request of a change of place.                                   *)
Newest(c) ==
  /\ jobs[c].kind \in MoveKinds
  /\ \A j \in JobIds : jobs[j].kind \in MoveKinds => jobs[j].asked <= jobs[c].asked

(* c is the job the row has been SYNCING for: the content is at its source, *)
(* and the row and the file are as its request has left them.               *)
Carries(c) ==
  /\ Syncing(row) /\ Newest(c) /\ Pending(c)
  /\ at = IF Running(c) /\ pc = "save" THEN TargetOf(jobs[c]) ELSE jobs[c].src
  /\ TargetOf(jobs[c]) # jobs[c].src
  /\ jobs[c].kind = "rename" => Renames(jobs[c])
  /\ jobs[c].kind = "move" => Moves(jobs[c], c = run /\ pc = "revertRow")
  /\ jobs[c].kind = "trash" => Trashes(jobs[c])

(* A move into a deleted folder has given up on a file that is DELETED; the *)
(* purge will take the row away.                                            *)
Doomed ==
  /\ Syncing(row) /\ at = row.key /\ file.state = "DELETED" /\ metas = {}
  /\ WillPurge /\ active # Folders
  /\ \A i \in JobIds : jobs[i].kind \in MoveKinds => ~Pending(i)
  /\ pc # "save" /\ ~Restoring

(* The other job of its event has done its work.                            *)
Spent(i) ==
  /\ duplicates # 0 /\ at = TargetOf(jobs[i]) /\ at # jobs[i].src
  /\ \E j \in JobIds : Twins(i, j) /\ jobs[j].state = "done"
  /\ i = run => pc \in {"row", "folder", "move"}

SyncingIsCarried == Syncing(row) => Doomed \/ \E c \in JobIds : Carries(c)
AvailableIsRight ==
  Available(row) =>
    /\ pc # "save" => at = row.key
    /\ file.state = "ACTIVE" => row.key.dir = file.dir /\ row.key.name = file.name
    /\ file.state = "TRASHED" => row.key.name = file.name
MovesAreUseful ==
  \A i \in JobIds : jobs[i].kind \in MoveKinds /\ Pending(i) => Carries(i) \/ Spent(i)
MetaOfTrashed ==
  /\ file.state = "ACTIVE" => Left = {}
  /\ \A m, n \in Left : m = n
RestoreIsRight ==
  Restoring =>
    /\ file.state # "ACTIVE" /\ metas \subseteq {Job.meta}
    /\ Syncing(row) => /\ pc # "save"
                       /\ \E c \in JobIds : Carries(c) /\ jobs[c].asked = Job.meta
    /\ pc # "file" /\ fileCopy.state = "TRASHED" => fileCopy.name = row.key.name
    /\ pc \in {"move", "save"} => nasCopy.key = row.key
    /\ pc = "save" => at = Target /\ Available(row)
    /\ pc = "saveFile" => Available(row) /\ row.key.dir = Job.to
MoveIsRight ==
  run # 0 /\ Job.kind \in MoveKinds =>
    /\ pc \in {"save"} \cup TurningBack => Carries(run)
    /\ pc \in TurningBack => active # Folders
    /\ Carries(run) /\ pc # "row" /\ Job.kind = "move" => nasCopy.key = Job.src
    /\ pc = "revertFile" => fileCopy.state = "ACTIVE" /\ fileCopy.name = Job.src.name

World == SyncingIsCarried /\ AvailableIsRight /\ MovesAreUseful /\ MetaOfTrashed
InStep == World /\ RestoreIsRight /\ MoveIsRight

SettleInv == Order /\ Places /\ (Calm => InStep)

(* What was quiet was quiet before: troubles and the history only grow, and *)
(* folders are only deleted.                                                *)
LEMMA QuietBefore ==
  ASSUME IndInv, Next, Quiet'
  PROVE  /\ Quiet /\ UNCHANGED troubles /\ active' \subseteq active
         /\ duplicates' = 0 => duplicates = 0
<1>1. /\ troubles \in Nat /\ duplicates \in Nat /\ active \subseteq Folders
      /\ stale \in BOOLEAN /\ late \in BOOLEAN
  BY NasAssumption DEF NasAssumption, IndInv, Data
<1> DEFINE Fewer == /\ UNCHANGED troubles /\ active' \subseteq active
                    /\ duplicates' = duplicates \/ duplicates' = duplicates + 1
                    /\ ~stale' => ~stale
                    /\ ~late' => ~late
<1> SUFFICES Fewer
  <2>1. active' = Folders => active = Folders
    BY <1>1
  <2>2. duplicates' = 0 => duplicates = 0
    BY <1>1
  <2> QED BY <2>1, <2>2 DEF Quiet
<1>2. CASE Request
  BY <1>2 DEF Request, RequestRename, RequestMove, RequestDelete, RequestRestore,
     RequestPurge, SavePurged, QueuePurge, TrashFolder, rowVars, boundVars, historyVars
<1>3. CASE Download
  <2>1. UNCHANGED <<troubles, active, duplicates, late>>
    BY <1>3 DEF Download, DownloadRead, DownloadLease, DownloadEnd, DownloadReturn,
       rowVars, boundVars, historyVars
  <2>2. ~stale' => ~stale
    BY <1>3, RowStays
  <2> QED BY <2>1, <2>2
<1>4. ASSUME NEW i \in JobIds, StartJob(i)  PROVE Fewer
  <2>1. UNCHANGED <<troubles, active, duplicates, stale>>
    BY <1>4 DEF StartJob, rowVars, boundVars
  <2>2. ~late' => ~late
    BY <1>1, <1>4 DEF StartJob
  <2> QED BY <2>1, <2>2
<1>5. ASSUME NEW i \in JobIds, Duplicate(i)  PROVE Fewer
  BY <1>5 DEF Duplicate, rowVars, historyVars
<1>6. CASE Handle
  BY <1>6 DEF Handle, ReadMeta, ReadFile, CheckFolder, ReadRow, Move, SaveRow,
     ReadMovedFile, RevertFile, RevertRow, SaveFile, DeleteMeta, DeleteContent,
     DeleteRow, PermanentDelete, rowVars, boundVars, historyVars
<1>7. ~Fail /\ ~Crash
  <2>1. ~Trouble
    BY <1>1 DEF Quiet, Trouble
  <2> QED BY <2>1 DEF Fail, Crash
<1> QED BY <1>2, <1>3, <1>4, <1>5, <1>6, <1>7 DEF Next, JobIds

(* A row that is gone stays so.                                             *)
LEMMA RowBefore ==
  ASSUME IndInv, Order, Places, Next, Quiet, Quiet', row' # NoRow
  PROVE  row # NoRow
<1>1. ~stale /\ ~stale'
  BY DEF Quiet
<1>2. CASE Request \/ Download
  BY <1>1, <1>2, RowStays
<1>3. ASSUME SaveRow \/ RevertRow  PROVE row # NoRow
  <2>1. HasRow
    BY <1>3 DEF SaveRow, RevertRow, At, HasRow, TurningBack
  <2> QED BY <1>1, <2>1 DEF Places, RowsFound
<1>4. ~DeleteRow
  BY DEF DeleteRow
<1>5. ASSUME Handle, ~SaveRow, ~RevertRow, ~DeleteRow  PROVE row # NoRow
  BY <1>5 DEF Handle, ReadMeta, ReadFile, CheckFolder, ReadRow, Move,
     ReadMovedFile, RevertFile, SaveFile, DeleteMeta, DeleteContent,
     PermanentDelete, rowVars
<1>6. ASSUME NEW i \in JobIds, StartJob(i) \/ Duplicate(i)  PROVE row # NoRow
  BY <1>6 DEF StartJob, Duplicate, rowVars
<1>7. CASE Fail \/ Crash
  BY <1>7 DEF Fail, Crash, rowVars
<1> QED BY <1>2, <1>3, <1>4, <1>5, <1>6, <1>7 DEF Next, JobIds

(* The running job goes on, or is over, or throws: a committed one does not *)
(* throw.                                                                   *)
LEMMA CommittedEnds ==
  ASSUME IndInv, Places, Handle, pc \in Committed
  PROVE  \/ UNCHANGED <<jobs, run>> /\ pc' \in Committed
         \/ Ends({"done"})
<1>1. run # 0 /\ Books
  BY HandleBooks DEF IndInv
<1>2. \/ \E s \in Committed : GoTo(s)
      \/ Finish
  BY DEF Handle, ReadMeta, ReadFile, CheckFolder, ReadRow, Move, SaveRow,
     ReadMovedFile, RevertFile, RevertRow, SaveFile, DeleteMeta, DeleteContent,
     DeleteRow, PermanentDelete, AfterSave, At, Committed
<1> QED BY <1>1, <1>2, FinishDoes DEF GoTo

LEMMA OvertakenStays ==
  ASSUME IndInv, Order, Places, Next, ~late', ~Fail, ~Crash, Overtaken
  PROVE  Overtaken'
<1>1. Books
  BY DEF IndInv
<1>2. PICK i \in JobIds, j \in JobIds :
        /\ jobs[i].state = "waiting" /\ jobs[j].asked > jobs[i].asked
        /\ jobs[j].state = "done" \/ (j = run /\ pc \in Committed)
  BY DEF Overtaken
<1>3. i # j
  BY <1>1, <1>2, JobFacts
<1>4. ASSUME /\ i \in JobIds' /\ j \in JobIds' /\ SameJob(i) /\ SameJob(j) /\ SameState(i)
             /\ jobs[j].state = "done" => SameState(j)
             /\ jobs[j].state # "done" =>
                  \/ jobs'[j].state = "done"
                  \/ run' = run /\ pc' \in Committed
      PROVE  Overtaken'
  BY <1>2, <1>4 DEF Overtaken, SameJob, SameState
<1>5. CASE UNCHANGED <<jobs, run, pc>>
  BY <1>2, <1>4, <1>5 DEF JobIds, SameJob, SameState
<1>6. ASSUME NEW n, Adds(n)  PROVE Overtaken'
  BY <1>2, <1>4, <1>6 DEF Adds
<1>7. CASE Request
  BY <1>5, <1>6, <1>7, RequestDoes DEF RequestAdds
<1>8. CASE Download
  BY <1>5, <1>8, DownloadDoes
<1>9. ASSUME NEW k \in JobIds, StartJob(k)  PROVE Overtaken'
  <2>1. /\ run = 0 /\ JobIds' = JobIds /\ jobs[k].state = "waiting"
        /\ \A l \in JobIds : SameJob(l) /\ (l # k => SameState(l))
    BY <1>1, <1>9, StartDoes
  <2>2. jobs[j].state = "done" /\ j # k
    BY <1>1, <1>2, <2>1, JobFacts
  <2>3. i # k
    <3>1. late' = (late \/ \E l \in JobIds :
                      jobs[l].asked > jobs[k].asked /\ jobs[l].state # "waiting")
      BY <1>9 DEF StartJob, JobIds
    <3>2. late \in BOOLEAN
      BY DEF IndInv, Data
    <3>3. ~\E l \in JobIds : jobs[l].asked > jobs[k].asked /\ jobs[l].state # "waiting"
      BY <3>1, <3>2
    <3> QED BY <1>2, <2>2, <3>3
  <2> QED BY <1>4, <2>1, <2>2, <2>3
<1>10. ASSUME NEW k \in JobIds, Duplicate(k)  PROVE Overtaken'
  BY <1>1, <1>6, <1>10, DuplicateDoes
<1>11. CASE Handle
  <2>1. run # 0 /\ run \in JobIds /\ jobs[run].state = "active"
    BY <1>1, <1>11, HandleDoes, JobFacts, JobTypes DEF Job
  <2>2. i # run
    BY <1>2, <2>1
  <2>3. CASE pc \in Committed
    <3>1. CASE UNCHANGED <<jobs, run>> /\ pc' \in Committed
      BY <1>2, <1>4, <3>1 DEF JobIds, SameJob, SameState
    <3>2. CASE Ends({"done"})
      BY <1>2, <1>4, <2>1, <2>2, <3>2 DEF Ends
    <3> QED BY <1>11, <2>3, <3>1, <3>2, CommittedEnds
  <2>4. CASE pc \notin Committed
    <3>1. jobs[j].state = "done" /\ j # run
      BY <1>2, <2>1, <2>4
    <3>2. CASE UNCHANGED <<jobs, run>>
      BY <1>4, <3>1, <3>2 DEF JobIds, SameJob, SameState
    <3>3. CASE Ends({"done"}) \/ Ends({"waiting", "failed"})
      BY <1>4, <2>2, <3>1, <3>3 DEF Ends
    <3> QED BY <1>11, <3>2, <3>3, HandleDoes
  <2> QED BY <2>3, <2>4
<1> QED BY <1>7, <1>8, <1>9, <1>10, <1>11 DEF Next, JobIds

LEMMA CalmBefore ==
  ASSUME IndInv, Order, Places, Next, Calm'
  PROVE  Calm /\ ~Fail /\ ~Crash
<1>1. Quiet /\ Quiet' /\ UNCHANGED troubles
  BY QuietBefore DEF Calm
<1>2. ~Fail /\ ~Crash
  BY <1>1, NasAssumption DEF NasAssumption, IndInv, Data, Fail, Crash, Trouble
<1>3. row # NoRow
  BY <1>1, RowBefore DEF Calm
<1>4. ~Overtaken
  BY <1>1, <1>2, OvertakenStays DEF Calm, Quiet
<1>5. pc # "deleteRow"
  <2> SUFFICES ASSUME pc = "deleteRow"  PROVE FALSE
    OBVIOUS
  <2>1. CASE Handle
    <3>1. DeleteRow
      BY <2>1 DEF Handle, ReadMeta, ReadFile, CheckFolder, ReadRow, Move, SaveRow,
         ReadMovedFile, RevertFile, RevertRow, SaveFile, DeleteMeta, DeleteContent,
         DeleteRow, PermanentDelete, At
    <3> QED BY <3>1 DEF DeleteRow, Calm
  <2>2. ASSUME NEW i \in JobIds, StartJob(i)  PROVE FALSE
    BY <2>2 DEF StartJob, IndInv, Books
  <2>3. ASSUME NEW i \in JobIds, Duplicate(i)  PROVE pc' = pc
    BY <2>3 DEF Duplicate
  <2>4. CASE Request \/ Download
    <3>1. pc' = pc
      BY <2>4, RequestDoes, DownloadDoes DEF RequestAdds, Adds
    <3> QED BY <3>1 DEF Calm
  <2> QED BY <1>2, <2>1, <2>2, <2>3, <2>4 DEF Next, JobIds, Calm
<1> QED BY <1>1, <1>2, <1>3, <1>4, <1>5 DEF Calm

-----------------------------------------------------------------------------
(* Steps that leave the row, the content and the moves alone.               *)

JobsFrame ==
  /\ \A i \in JobIds : i \in JobIds' /\ SameJob(i)
  /\ \A i \in JobIds' : i \notin JobIds => jobs'[i].kind \notin MoveKinds
  /\ \A i \in JobIds : jobs[i].kind \in MoveKinds /\ Pending(i)' => Pending(i)
  /\ \A i \in JobIds : jobs[i].state = "done" => jobs'[i].state = "done"
StepFrame ==
  \/ UNCHANGED <<run, pc>>
  \/ pc \notin {"save", "revertRow"} /\ pc' \notin {"save", "revertRow"}
Frame ==
  /\ row'.key = row.key /\ row'.status = row.status
  /\ Syncing(row) /\ row.lease = 0 => row'.lease = 0
  /\ at' = at
  /\ \/ file' = file
     \/ file'.state = "DELETED" /\ WillPurge'
  /\ Left' \subseteq Left
  /\ WillPurge /\ (at = row.key \/ pc = "save") => WillPurge'
  /\ JobsFrame /\ StepFrame

LEMMA CarriesStays ==
  ASSUME Books, Frame, NEW c \in JobIds, Carries(c), Pending(c)'
  PROVE  Carries(c)'
<1>1. /\ c \in JobIds' /\ SameJob(c) /\ (run # 0 => run \in JobIds /\ SameJob(run))
      /\ jobs'[c].kind = jobs[c].kind
  BY JobFacts DEF Frame, JobsFrame, SameJob
<1>2. Syncing(row)' /\ row'.key = row.key /\ at' = at /\ Left' \subseteq Left
  BY DEF Frame, Carries, Syncing
<1>3. Newest(c)'
  <2>1. ASSUME NEW j \in JobIds', jobs'[j].kind \in MoveKinds
        PROVE  jobs'[j].asked <= jobs'[c].asked
    <3>1. j \in JobIds /\ SameJob(j)
      BY <2>1 DEF Frame, JobsFrame
    <3> QED BY <1>1, <2>1, <3>1 DEF Carries, Newest, SameJob
  <2> QED BY <1>1, <2>1 DEF Carries, Newest
<1>4. TargetOf(jobs[c])' = TargetOf(jobs[c]) /\ jobs'[c].src = jobs[c].src
  BY <1>1 DEF TargetOf, SameJob
<1>5. (Running(c) /\ pc = "save")' <=> (Running(c) /\ pc = "save")
  BY <1>1 DEF Frame, StepFrame, Running, Twins, SameJob
<1>6. (c = run /\ pc = "revertRow")' <=> (c = run /\ pc = "revertRow")
  BY DEF Frame, StepFrame
<1>7. /\ at' = IF (Running(c) /\ pc = "save")' THEN TargetOf(jobs[c])' ELSE jobs'[c].src
      /\ TargetOf(jobs[c])' # jobs'[c].src
  BY <1>2, <1>4, <1>5 DEF Carries
<1>8. jobs[c].kind = "rename" => Renames(jobs[c])'
  BY <1>1, <1>2 DEF Carries, Renames, Frame, SameJob
<1>9. ASSUME jobs[c].kind = "move"
      PROVE  Moves(jobs[c], c = run /\ pc = "revertRow")'
  <2>1. Moves(jobs[c], c = run /\ pc = "revertRow")
    BY <1>9 DEF Carries
  <2>2. WillPurge => WillPurge'
    <3>1. at = row.key \/ pc = "save"
      BY <2>1 DEF Carries, Moves
    <3> QED BY <3>1 DEF Frame
  <2>3. /\ jobs'[c].src = jobs[c].src /\ jobs'[c].dst = jobs[c].dst
        /\ jobs'[c].from = jobs[c].from /\ jobs'[c].to = jobs[c].to
    BY <1>1 DEF SameJob
  <2>4. CASE file' = file
    BY <1>2, <1>6, <2>1, <2>2, <2>3, <2>4 DEF Moves
  <2>5. CASE file'.state = "DELETED" /\ WillPurge'
    BY <1>2, <2>1, <2>3, <2>5 DEF Moves
  <2> QED BY <2>4, <2>5 DEF Frame
<1>10. jobs[c].kind = "trash" => Trashes(jobs[c])'
  BY <1>1, <1>2 DEF Carries, Trashes, Frame, SameJob
<1> QED BY <1>1, <1>2, <1>3, <1>7, <1>8, <1>9, <1>10 DEF Carries

LEMMA SpentStays ==
  ASSUME Frame, NEW i \in JobIds, jobs[i].kind \in MoveKinds, Spent(i), duplicates' # 0,
         i = run' => pc' \in {"row", "folder", "move"}
  PROVE  Spent(i)'
<1>1. \A j \in JobIds : j \in JobIds' /\ SameJob(j)
  BY DEF Frame, JobsFrame
<1>2. at' = at /\ TargetOf(jobs[i])' = TargetOf(jobs[i]) /\ jobs'[i].src = jobs[i].src
  BY <1>1 DEF TargetOf, SameJob, Frame
<1>3. PICK j \in JobIds : Twins(i, j) /\ jobs[j].state = "done"
  BY DEF Spent
<1>4. Twins(i, j)'
  BY <1>1, <1>3 DEF Twins, SameJob
<1>5. jobs'[j].state = "done" /\ j \in JobIds'
  BY <1>1, <1>3 DEF Frame, JobsFrame
<1> QED BY <1>1, <1>2, <1>4, <1>5 DEF Spent

(* Doomed, too, stays, while the handler that runs is none that moves.      *)
LEMMA DoomedStays ==
  ASSUME Frame, Doomed, metas' \subseteq metas, active' # Folders,
         pc' # "save", ~Restoring'
  PROVE  Doomed'
<1>1. WillPurge'
  BY DEF Doomed, Frame
<1>2. Syncing(row)' /\ at' = row'.key /\ file'.state = "DELETED" /\ metas' = {}
  BY DEF Doomed, Frame, Syncing
<1>3. \A i \in JobIds' : jobs'[i].kind \in MoveKinds => ~Pending(i)'
  BY DEF Doomed, Frame, JobsFrame, SameJob
<1> QED BY <1>1, <1>2, <1>3 DEF Doomed

LEMMA WorldStays ==
  ASSUME Books, Frame, World, metas' \subseteq metas,
         active # Folders => active' # Folders, duplicates # 0 => duplicates' # 0,
         \A c \in JobIds : Carries(c) => Pending(c)',
         \A i \in JobIds : Spent(i) /\ Pending(i) /\ jobs[i].kind \in MoveKinds /\ i = run'
                             => pc' \in {"row", "folder", "move"},
         Doomed => pc' # "save" /\ ~Restoring'
  PROVE  World'
<1>1. SyncingIsCarried'
  <2>1. \A c \in JobIds : Carries(c) => c \in JobIds' /\ Carries(c)'
    BY CarriesStays DEF Frame, JobsFrame
  <2>2. Doomed => Doomed'
    BY DoomedStays DEF Doomed
  <2>3. Syncing(row)' => Syncing(row)
    BY DEF Frame, Syncing
  <2> QED BY <2>1, <2>2, <2>3 DEF World, SyncingIsCarried
<1>2. AvailableIsRight'
  <2>1. file' = file \/ file'.state = "DELETED"
    BY DEF Frame
  <2>2. Available(row)' => Available(row)
    BY DEF Frame, Available
  <2>3. pc' # "save" => pc # "save"
    BY DEF Frame, StepFrame
  <2> QED BY <2>1, <2>2, <2>3 DEF World, AvailableIsRight, Frame
<1>3. MovesAreUseful'
  <2> SUFFICES ASSUME NEW i \in JobIds', jobs'[i].kind \in MoveKinds, Pending(i)'
               PROVE  Carries(i)' \/ Spent(i)'
    BY DEF MovesAreUseful
  <2>1. i \in JobIds /\ jobs[i].kind \in MoveKinds /\ Pending(i)
    BY DEF Frame, JobsFrame, SameJob
  <2>2. CASE Carries(i)
    BY <2>1, <2>2, CarriesStays
  <2>3. CASE Spent(i)
    <3>1. duplicates' # 0
      BY <2>3 DEF Spent
    <3> QED BY <2>1, <2>3, <3>1, SpentStays
  <2> QED BY <2>1, <2>2, <2>3 DEF World, MovesAreUseful
<1>4. MetaOfTrashed'
  BY DEF World, MetaOfTrashed, Frame
<1> QED BY <1>1, <1>2, <1>3, <1>4 DEF World

(* A step of somebody else, while a handler is where it is.                 *)
LEMMA HandlerStays ==
  ASSUME Books, InStep, UNCHANGED <<run, pc, nasCopy, fileCopy, at>>,
         row'.key = row.key, row'.status = row.status,
         file' = file \/ file'.state = "DELETED",
         metas' \subseteq metas, active' \subseteq active, active \subseteq Folders,
         \A c \in JobIds : c \in JobIds' /\ SameJob(c) /\ SameState(c),
         \A c \in JobIds : Carries(c) => Carries(c)'
  PROVE  /\ Restoring' => Restoring
         /\ RestoreIsRight' /\ MoveIsRight'
<1>1. World /\ RestoreIsRight /\ MoveIsRight
  BY DEF InStep
<1>2. run # 0 => /\ run \in JobIds /\ SameJob(run) /\ Job = jobs[run] /\ Job' = jobs'[run]
                 /\ Pending(run)
  BY JobFacts, JobTypes DEF Job, Pending
<1>3. Restoring' => Restoring
  BY <1>2 DEF Restoring, SameJob
<1>4. RestoreIsRight'
  <2> SUFFICES ASSUME Restoring'  PROVE RestoreIsRight'
    BY DEF RestoreIsRight
  <2>1. /\ Restoring /\ run # 0 /\ Job'.meta = Job.meta /\ Job'.to = Job.to
        /\ Job'.kind = "restore" /\ Job.kind = "restore"
    BY <1>2, <1>3 DEF Restoring, SameJob
  <2>2. /\ file'.state # "ACTIVE" /\ metas' \subseteq {Job'.meta}
        /\ Syncing(row)' <=> Syncing(row)
        /\ Available(row)' <=> Available(row)
    BY <1>1, <2>1 DEF RestoreIsRight, Syncing, Available
  <2>3. Target' = Target
    BY <2>1 DEF Target
  <2>4. ASSUME Syncing(row)
        PROVE  pc # "save" /\ \E c \in JobIds' : Carries(c)' /\ jobs'[c].asked = Job'.meta
    <3>1. PICK c \in JobIds : Carries(c) /\ jobs[c].asked = Job.meta
      BY <1>1, <2>1, <2>4 DEF RestoreIsRight
    <3>2. c \in JobIds' /\ Carries(c)' /\ jobs'[c].asked = jobs[c].asked
      BY <3>1 DEF SameJob
    <3> QED BY <1>1, <2>1, <2>4, <3>1, <3>2 DEF RestoreIsRight
  <2> QED BY <1>1, <2>1, <2>2, <2>3, <2>4 DEF RestoreIsRight
<1>5. MoveIsRight'
  <2> SUFFICES ASSUME run # 0, Job'.kind \in MoveKinds  PROVE MoveIsRight'
    BY DEF MoveIsRight
  <2>1. /\ Job'.kind = Job.kind /\ Job'.src = Job.src /\ run \in JobIds
    BY <1>2 DEF SameJob
  <2>2. Carries(run) => Carries(run)'
    BY <2>1
  <2>3. pc \in TurningBack => active' # Folders
    BY <1>1, <2>1 DEF MoveIsRight
  <2>4. ASSUME Carries(run)'  PROVE Carries(run)
    <3>1. CASE Spent(run)
      <4>1. at # jobs[run].src /\ pc # "save"
        BY <3>1 DEF Spent
      <4>2. at' = jobs'[run].src
        BY <2>4, <4>1 DEF Carries
      <4> QED BY <1>2, <2>1, <4>1, <4>2
    <3> QED BY <1>1, <1>2, <2>1, <3>1 DEF World, MovesAreUseful
  <2> QED BY <1>1, <2>1, <2>2, <2>3, <2>4 DEF MoveIsRight
<1> QED BY <1>3, <1>4, <1>5

LEMMA BystanderStep ==
  ASSUME Books, Frame, InStep, metas' \subseteq metas,
         active' \subseteq active, active \subseteq Folders,
         duplicates # 0 => duplicates' # 0,
         UNCHANGED <<run, pc, nasCopy, fileCopy>>,
         \A c \in JobIds : SameState(c)
  PROVE  InStep'
<1>1. \A c \in JobIds : c \in JobIds' /\ SameJob(c) /\ (Pending(c) => Pending(c)')
  BY DEF Frame, JobsFrame, Pending, SameState
<1>2. \A c \in JobIds : Carries(c) => Carries(c)'
  <2>1. \A c \in JobIds : Carries(c) => Pending(c)'
    BY <1>1 DEF Carries
  <2> QED BY <2>1, CarriesStays
<1>3. /\ Restoring' => Restoring
      /\ RestoreIsRight' /\ MoveIsRight'
  BY <1>1, <1>2, HandlerStays DEF Frame
<1>4. World'
  <2>1. \A c \in JobIds : Carries(c) => Pending(c)'
    BY <1>1 DEF Carries
  <2>2. \A i \in JobIds : Spent(i) /\ i = run' => pc' \in {"row", "folder", "move"}
    BY DEF Spent
  <2>3. Doomed => pc' # "save" /\ ~Restoring'
    BY <1>3 DEF Doomed
  <2> QED BY <2>1, <2>2, <2>3, WorldStays DEF InStep
<1> QED BY <1>3, <1>4 DEF InStep

(* What holds in a calm state, with its types.                              *)
Now == IndInv /\ Order /\ Places /\ Calm /\ InStep

LEMMA NowFacts ==
  ASSUME Now
  PROVE  /\ Books /\ World /\ RestoreIsRight /\ MoveIsRight
         /\ SyncingIsCarried /\ AvailableIsRight /\ MovesAreUseful /\ MetaOfTrashed
         /\ row \in Rows /\ nasCopy \in Rows /\ leaseCopy \in Rows
         /\ row.status \in {"AVAILABLE", "SYNCING"} /\ row.key \in Keys
         /\ file \in Files /\ fileCopy \in Files
         /\ active \subseteq Folders /\ duplicates \in Nat
         /\ requests \in Nat /\ requests \in 0..MaxRequests
         /\ MaxRequests \in Nat /\ purging \in 0..requests
         /\ metas \subseteq 1..requests /\ ~stale /\ ~late
         /\ duplicates = 0 \/ active = Folders
         /\ run # 0 => /\ run \in JobIds /\ Job = jobs[run] /\ jobs[run].state = "active"
                       /\ Pending(run) /\ jobs[run] \in JobRecords
<1>1. /\ Books /\ Asked /\ Data /\ InStep
  BY DEF Now, IndInv
<1>2. row # NoRow /\ Quiet
  BY DEF Now, Calm
<1>3. row.status \in {"AVAILABLE", "SYNCING"} /\ row.key \in Keys
  BY <1>1, <1>2, StatusFacts, RowTypes DEF Asked
<1>4. run # 0 => /\ run \in JobIds /\ Job = jobs[run] /\ jobs[run].state = "active"
                 /\ Pending(run) /\ jobs[run] \in JobRecords
  BY <1>1, JobFacts, JobTypes DEF Job, Pending
<1>5. /\ MaxRequests \in Nat /\ duplicates \in Nat /\ requests \in Nat
      /\ requests \in 0..MaxRequests
  BY <1>1, NasAssumption DEF NasAssumption, Data, Asked
<1> QED BY <1>1, <1>2, <1>3, <1>4, <1>5 DEF Asked, Data, InStep, World, Quiet

(* A step that does not touch the handler's variables.                      *)
LEMMA AsideFrame ==
  ASSUME Books, UNCHANGED <<run, pc, at, nasCopy>>, metas' \subseteq metas,
         row'.key = row.key, row'.status = row.status,
         Syncing(row) /\ row.lease = 0 => row'.lease = 0,
         file' = file \/ (file'.state = "DELETED" /\ WillPurge'),
         \A i \in JobIds : i \in JobIds' /\ SameJob(i) /\ SameState(i),
         \A i \in JobIds' : i \notin JobIds => jobs'[i].kind \notin MoveKinds,
         purging # 0 => WillPurge'
  PROVE  Frame
<1>1. run # 0 => run \in JobIds /\ Job'.meta = Job.meta
  BY JobFacts DEF Job, SameJob
<1>2. Deleting' = Deleting
  BY <1>1 DEF Deleting
<1>3. Left' \subseteq Left
  BY <1>2 DEF Left
<1>4. \A p \in JobIds : Purges(p) => Purges(p)'
  BY DEF Purges, Pending, SameJob, SameState
<1>5. WillPurge => WillPurge'
  BY <1>4 DEF WillPurge
<1>6. JobsFrame
  BY DEF JobsFrame, Pending, SameState
<1> QED BY <1>3, <1>5, <1>6 DEF Frame, StepFrame

LEMMA RestoreRequestSettles ==
  ASSUME Now, NEW m \in metas, NEW d \in Folders, RequestRestore(m, d)
  PROVE  InStep'
<1> Books /\ InStep /\ active \subseteq Folders
  BY NowFacts DEF Now
<1>1. /\ Accept /\ Enqueue("restore", Gone, Gone, d, m)
      /\ UNCHANGED <<run, pc, file, row, at, metas, active, nasCopy, fileCopy, purging,
                     duplicates>>
  BY DEF RequestRestore, rowVars, copyVars, purgeVars
<1>2. requests' \in 1..MaxRequests /\ m \in 0..MaxRequests /\ Gone \in Keys
  BY <1>1, NowFacts, KeyTypes DEF Accept
<1>3. PICK n : Adds(n) /\ jobs'[n].kind = "restore"
  BY <1>1, <1>2, NowFacts, EnqueueDoes DEF Kinds
<1>4. /\ \A i \in JobIds : i \in JobIds' /\ SameJob(i) /\ SameState(i)
      /\ \A i \in JobIds' : i \notin JobIds => jobs'[i].kind \notin MoveKinds
  BY <1>3 DEF Adds, MoveKinds
<1>5. purging # 0 => WillPurge'
  BY <1>1 DEF WillPurge
<1>6. Frame
  BY <1>1, <1>4, <1>5, AsideFrame
<1> QED BY <1>1, <1>4, <1>6, BystanderStep

LEMMA PurgeRequestSettles ==
  ASSUME Now, NEW m \in metas, RequestPurge(m)
  PROVE  InStep'
<1> Books /\ InStep /\ active \subseteq Folders
  BY NowFacts DEF Now
<1>1. /\ purging' = m
      /\ UNCHANGED <<run, pc, jobs, file, row, at, metas, active, nasCopy, fileCopy,
                     duplicates>>
  BY DEF RequestPurge, rowVars, copyVars
<1>2. /\ \A i \in JobIds : i \in JobIds' /\ SameJob(i) /\ SameState(i)
      /\ \A i \in JobIds' : i \notin JobIds => jobs'[i].kind \notin MoveKinds
  BY <1>1 DEF SameJob, SameState, JobIds
<1>3. m # 0
  BY NowFacts
<1>4. WillPurge'
  BY <1>1, <1>3 DEF WillPurge
<1>5. Frame
  BY <1>1, <1>2, <1>4, AsideFrame
<1> QED BY <1>1, <1>2, <1>5, BystanderStep

LEMMA SavePurgedSettles ==
  ASSUME Now, SavePurged
  PROVE  InStep'
<1> Books /\ InStep /\ active \subseteq Folders
  BY NowFacts DEF Now
<1>1. /\ purging # 0 /\ purgeCopy' = [purgeCopy EXCEPT !.state = "DELETED"]
      /\ file' = purgeCopy'
      /\ UNCHANGED <<run, pc, jobs, row, at, metas, active, nasCopy, fileCopy,
                     duplicates, purging>>
  BY DEF SavePurged, copyVars, boundVars
<1>2. /\ \A i \in JobIds : i \in JobIds' /\ SameJob(i) /\ SameState(i)
      /\ \A i \in JobIds' : i \notin JobIds => jobs'[i].kind \notin MoveKinds
  BY <1>1 DEF SameJob, SameState, JobIds
<1>3. file'.state = "DELETED"
  BY <1>1 DEF Now, IndInv, Data, Files
<1>4. WillPurge'
  BY <1>1 DEF WillPurge
<1>5. Frame
  BY <1>1, <1>2, <1>3, <1>4, AsideFrame
<1> QED BY <1>1, <1>2, <1>5, BystanderStep

LEMMA QueuePurgeSettles ==
  ASSUME Now, QueuePurge
  PROVE  InStep'
<1> Books /\ InStep /\ active \subseteq Folders
  BY NowFacts DEF Now
<1>1. /\ purging # 0 /\ metas' = metas \ {purging}
      /\ Enqueue("purge", Gone, Gone, file.dir, purging)
      /\ UNCHANGED <<run, pc, file, row, at, active, nasCopy, fileCopy, duplicates,
                     requests>>
  BY DEF QueuePurge, copyVars, boundVars
<1>2. requests' \in 1..MaxRequests /\ purging \in 0..MaxRequests /\ Gone \in Keys
      /\ file.dir \in Folders
  BY <1>1, NowFacts, KeyTypes DEF Files
<1>3. PICK n : Adds(n) /\ jobs'[n].kind = "purge"
  BY <1>1, <1>2, NowFacts, EnqueueDoes DEF Kinds
<1>4. /\ \A i \in JobIds : i \in JobIds' /\ SameJob(i) /\ SameState(i)
      /\ \A i \in JobIds' : i \notin JobIds => jobs'[i].kind \notin MoveKinds
  BY <1>3 DEF Adds, MoveKinds
<1>5. n # run'
  BY <1>1, <1>3, JobFacts DEF Adds
<1>6. Purges(n)' /\ n \in JobIds'
  BY <1>3, <1>5 DEF Adds, Purges, Pending
<1>7. WillPurge'
  BY <1>6 DEF WillPurge
<1>8. Frame
  BY <1>1, <1>4, <1>7, AsideFrame
<1> QED BY <1>1, <1>4, <1>8, BystanderStep

LEMMA TrashFolderSettles ==
  ASSUME Now, NEW d \in Folders, TrashFolder(d)
  PROVE  InStep'
<1> Books /\ InStep /\ active \subseteq Folders
  BY NowFacts DEF Now
<1>1. /\ active' \subseteq active
      /\ UNCHANGED <<run, pc, jobs, file, row, at, metas, nasCopy, fileCopy, purging,
                     duplicates>>
  BY DEF TrashFolder, copyVars, purgeVars, boundVars
<1>2. /\ \A i \in JobIds : i \in JobIds' /\ SameJob(i) /\ SameState(i)
      /\ \A i \in JobIds' : i \notin JobIds => jobs'[i].kind \notin MoveKinds
  BY <1>1 DEF SameJob, SameState, JobIds
<1>3. purging # 0 => WillPurge'
  BY <1>1 DEF WillPurge
<1>4. Frame
  BY <1>1, <1>2, <1>3, AsideFrame
<1> QED BY <1>1, <1>2, <1>4, BystanderStep

(* A download changes the lease only, and returns none that is 0.           *)
LEMMA DownloadSettles ==
  ASSUME Now, Download, ~stale'
  PROVE  InStep'
<1> Books /\ InStep /\ active \subseteq Folders
  BY NowFacts DEF Now
<1>1. UNCHANGED <<run, pc, jobs, file, at, metas, active, nasCopy, fileCopy, purging,
                  duplicates>>
  BY DEF Download, DownloadRead, DownloadLease, DownloadEnd, DownloadReturn, rowVars,
     copyVars, purgeVars, boundVars
<1>2. /\ \A i \in JobIds : i \in JobIds' /\ SameJob(i) /\ SameState(i)
      /\ \A i \in JobIds' : i \notin JobIds => jobs'[i].kind \notin MoveKinds
  BY <1>1 DEF SameJob, SameState, JobIds
<1>3. purging # 0 => WillPurge'
  BY <1>1 DEF WillPurge
<1>4. /\ row'.key = row.key /\ row'.status = row.status
      /\ Syncing(row) /\ row.lease = 0 => row'.lease = 0
  <2>1. CASE row' = row
    BY <2>1
  <2>2. CASE DownloadLease \/ DownloadReturn
    <3>1. stale' = (stale \/ row # leaseCopy) /\ stale \in BOOLEAN
      BY <2>2 DEF DownloadLease, DownloadReturn, Now, IndInv, Data
    <3>2. leaseCopy = row
      BY <3>1
    <3>3. \A l : [row EXCEPT !.lease = l].key = row.key
                 /\ [row EXCEPT !.lease = l].status = row.status
      BY NowFacts DEF Rows, NoRow, Row
    <3>4. row'.key = row.key /\ row'.status = row.status
      BY <2>2, <3>2, <3>3 DEF DownloadLease, DownloadReturn
    <3>5. ~(Syncing(row) /\ row.lease = 0)
      BY <2>2, <3>2 DEF DownloadLease, DownloadReturn, Now, IndInv, Asked, Syncing, Available
    <3> QED BY <3>4, <3>5
  <2> QED
    BY <2>1, <2>2 DEF Download, DownloadRead, DownloadEnd, rowVars
<1>5. Frame
  BY <1>1, <1>2, <1>3, <1>4, AsideFrame
<1> QED BY <1>1, <1>2, <1>5, BystanderStep

-----------------------------------------------------------------------------
(* Requests of a change of place.                                           *)

(* Nobody carries a row that is AVAILABLE.                                  *)
LEMMA EditableFacts ==
  ASSUME Now, Editable
  PROVE  /\ file.state = "ACTIVE" /\ Available(row) /\ ~Restoring /\ Left = {}
         /\ at = row.key /\ row.key.dir = file.dir /\ row.key.name = file.name
         /\ pc \notin {"save"} \cup TurningBack
         /\ \A i \in JobIds : jobs[i].kind \in MoveKinds /\ Pending(i) => Spent(i)
<1>1. file.state = "ACTIVE" /\ Available(row) /\ ~Syncing(row)
  BY DEF Editable, Available, Syncing
<1>2. ~Restoring /\ Left = {}
  BY <1>1, NowFacts DEF RestoreIsRight, MetaOfTrashed
<1>3. \A i : ~Carries(i)
  BY <1>1 DEF Carries
<1>4. pc \notin {"save"} \cup TurningBack
  <2> SUFFICES ASSUME pc \in {"save"} \cup TurningBack  PROVE FALSE
    OBVIOUS
  <2>1. run # 0 /\ Job \in JobRecords
    BY NowFacts, JobTypes DEF Books, TurningBack
  <2>2. Job.kind \in Kinds
    BY <2>1 DEF JobRecords
  <2>3. CASE Job.kind \in MoveKinds
    BY <1>3, <2>1, <2>3, NowFacts DEF MoveIsRight
  <2>4. CASE Job.kind = "restore"
    BY <1>2, <2>1, <2>4 DEF Restoring, RestoreSteps, TurningBack, Now, Places, StepsOfKind
  <2>5. CASE Job.kind = "purge"
    BY <2>1, <2>5 DEF PurgeSteps, TurningBack, Now, Places, StepsOfKind
  <2> QED BY <2>2, <2>3, <2>4, <2>5 DEF Kinds, MoveKinds
<1>5. at = row.key /\ row.key.dir = file.dir /\ row.key.name = file.name
  BY <1>1, <1>4, NowFacts DEF AvailableIsRight
<1>6. \A i \in JobIds : jobs[i].kind \in MoveKinds /\ Pending(i) => Spent(i)
  BY <1>3, NowFacts DEF MovesAreUseful
<1> QED BY <1>1, <1>2, <1>4, <1>5, <1>6

(* The job of the newest request carries the row, whatever jobs are left.   *)
LEMMA NewMoveSettles ==
  ASSUME Now, Editable, NEW n, Adds(n), requests' = requests + 1,
         jobs'[n].kind \in MoveKinds, jobs'[n].asked = requests',
         UNCHANGED <<at, active, duplicates>>,
         Syncing(row)', jobs'[n].src = at, TargetOf(jobs'[n]) # at,
         jobs'[n].kind = "rename" => Renames(jobs[n])',
         jobs'[n].kind = "move" => Moves(jobs[n], FALSE)',
         jobs'[n].kind = "trash" => Trashes(jobs[n])',
         file'.state = "ACTIVE" => Left' = {}, \A k, m \in Left' : k = m
  PROVE  InStep'
<1>1. /\ n \notin JobIds /\ n \in JobIds' /\ JobIds' = JobIds \cup {n}
      /\ run' = run /\ pc' = pc /\ jobs'[n].state = "waiting"
      /\ \A i \in JobIds : SameJob(i) /\ SameState(i)
  BY DEF Adds
<1>2. \A i \in JobIds : jobs'[i].asked \in Nat /\ jobs'[i].asked < jobs'[n].asked
  <2>1. \A i \in JobIds : jobs[i].asked \in Nat /\ jobs[i].asked <= requests
    BY NowFacts, JobFacts DEF Now, Order, AskedBefore
  <2>2. \A i \in JobIds : jobs'[i].asked = jobs[i].asked
    BY <1>1 DEF SameJob
  <2> QED BY <2>1, <2>2, NowFacts
<1>3. run # 0 => run \in JobIds /\ Job = jobs[run] /\ SameJob(run) /\ Job' = jobs'[run]
  BY <1>1, NowFacts DEF Job
<1>4. run # n
  BY <1>1, <1>3, JobFacts, NowFacts DEF Adds
<1>5. Carries(n)'
  <2>1. Newest(n)'
    <3>1. \A j \in JobIds' : jobs'[j].asked <= jobs'[n].asked
      BY <1>1, <1>2, NowFacts
    <3> QED BY <3>1 DEF Newest
  <2>2. ~Running(n)'
    BY <1>1, <1>2, <1>3, NowFacts DEF Running, Twins
  <2>3. Pending(n)' /\ ~(n = run)'
    BY <1>1, <1>4 DEF Pending
  <2>4. at' = jobs'[n].src /\ TargetOf(jobs[n])' # jobs'[n].src
    BY DEF TargetOf
  <2>5. jobs'[n].kind = "move" => Moves(jobs[n], n = run /\ pc = "revertRow")'
    BY <2>3
  <2> QED BY <2>1, <2>2, <2>3, <2>4, <2>5 DEF Carries
<1>6. \A i \in JobIds : jobs'[i].kind \in MoveKinds /\ Pending(i)' => Spent(i)'
  <2> SUFFICES ASSUME NEW i \in JobIds, jobs'[i].kind \in MoveKinds, Pending(i)'
               PROVE  Spent(i)'
    OBVIOUS
  <2>1. Spent(i)
    BY <1>1, EditableFacts DEF SameJob, SameState, Pending
  <2>2. PICK j \in JobIds : Twins(i, j) /\ jobs[j].state = "done"
    BY <2>1 DEF Spent
  <2>3. Twins(i, j)' /\ jobs'[j].state = "done" /\ j \in JobIds'
    BY <1>1, <2>2 DEF Twins, SameJob, SameState
  <2>4. TargetOf(jobs[i])' = TargetOf(jobs[i]) /\ jobs'[i].src = jobs[i].src
    BY <1>1 DEF TargetOf, SameJob
  <2> QED BY <1>1, <2>1, <2>3, <2>4 DEF Spent
<1>7. World'
  <2>1. ~Available(row)'
    BY DEF Available, Syncing
  <2>2. SyncingIsCarried' /\ AvailableIsRight'
    BY <1>1, <1>5, <2>1 DEF SyncingIsCarried, AvailableIsRight
  <2>3. MovesAreUseful'
    BY <1>1, <1>5, <1>6 DEF MovesAreUseful
  <2> QED BY <2>2, <2>3 DEF World, MetaOfTrashed
<1>8. RestoreIsRight'
  <2>1. ~Restoring'
    BY <1>1, <1>3, EditableFacts DEF Restoring, SameJob
  <2> QED BY <2>1 DEF RestoreIsRight
<1>9. MoveIsRight'
  <2>1. pc' \notin {"save"} \cup TurningBack /\ pc' # "revertFile"
    BY <1>1, EditableFacts DEF TurningBack
  <2>2. run' # 0 => ~Carries(run)'
    <3> SUFFICES ASSUME run # 0, Newest(run)'  PROVE FALSE
      BY <1>1 DEF Carries
    <3>1. jobs'[n].asked <= jobs'[run].asked
      BY <1>1 DEF Newest
    <3> QED BY <1>2, <1>3, <3>1, NowFacts
  <2> QED BY <2>1, <2>2 DEF MoveIsRight
<1> QED BY <1>7, <1>8, <1>9 DEF InStep

LEMMA LeftSame ==
  ASSUME Books, UNCHANGED <<run, pc, metas>>, \A i \in JobIds : SameJob(i)
  PROVE  Left' = Left
<1>1. run # 0 => run \in JobIds /\ Job'.meta = Job.meta
  BY JobFacts DEF Job, SameJob
<1> QED BY <1>1 DEF Left, Deleting

LEMMA RenameRequestSettles ==
  ASSUME Now, NEW m \in Names, RequestRename(m)
  PROVE  InStep'
<1>1. /\ Accept /\ Editable /\ m # file.name /\ UNCHANGED <<run, pc, metas>>
      /\ Enqueue("rename", row.key, NewObjectKey(m), file.dir, 0)
      /\ UNCHANGED <<at, active, duplicates>>
  BY DEF RequestRename
<1>2. /\ requests' = requests + 1 /\ requests' \in 1..MaxRequests
      /\ NewObjectKey(m) \in Keys /\ file.dir \in Folders
  <2>1. requests' = requests + 1 /\ requests' \in 1..MaxRequests
    BY <1>1, NowFacts DEF Accept
  <2>2. file.dir \in Folders
    BY NowFacts DEF Files
  <2> QED BY <2>1, <2>2, PathTypes
<1>3. PICK n : /\ Adds(n)
               /\ jobs'[n].kind = "rename" /\ jobs'[n].src = row.key
               /\ jobs'[n].dst = NewObjectKey(m) /\ jobs'[n].asked = requests'
  BY <1>1, <1>2, NowFacts, EnqueueDoes, NasAssumption DEF NasAssumption, Kinds
<1>4. /\ file.state = "ACTIVE" /\ Left = {} /\ at = row.key
      /\ row.key.dir = file.dir /\ row.key.name = file.name
  BY <1>1, EditableFacts
<1>5. row'.key = NewObjectKey(m) /\ row'.status = "SYNCING" /\ NewObjectKey(m).name = m
  BY DEF RequestRename, Row, NewObjectKey, Key
<1>6. file'.state = "ACTIVE" /\ file'.name = m /\ file'.dir = file.dir
  BY <1>4, NowFacts DEF RequestRename, Files
<1>7. Left' = {}
  BY <1>1, <1>3, <1>4, NowFacts, LeftSame DEF Adds
<1>8. TargetOf(jobs'[n]).name = m
  BY <1>3, <1>5 DEF TargetOf, RenameTarget, Key
<1>9. TargetOf(jobs'[n]) # at
  BY <1>1, <1>4, <1>8
<1>10. Renames(jobs[n])'
  BY <1>3, <1>4, <1>5, <1>6, <1>7 DEF Renames
<1>11. Syncing(row)' /\ jobs'[n].kind \in MoveKinds
  BY <1>3, <1>5 DEF Syncing, MoveKinds
<1> QED
  BY <1>1, <1>2, <1>3, <1>4, <1>7, <1>9, <1>10, <1>11, NewMoveSettles

LEMMA MoveRequestSettles ==
  ASSUME Now, NEW d \in Folders, RequestMove(d)
  PROVE  InStep'
<1>1. /\ Accept /\ Editable /\ d # file.dir /\ UNCHANGED <<run, pc, metas>>
      /\ Enqueue("move", row.key, MoveTarget(row.key, d), d, 0)
      /\ UNCHANGED <<at, active, duplicates>>
  BY DEF RequestMove
<1>2. /\ requests' = requests + 1 /\ requests' \in 1..MaxRequests
      /\ MoveTarget(row.key, d) \in Keys
  <2>1. requests' = requests + 1 /\ requests' \in 1..MaxRequests
    BY <1>1, NowFacts DEF Accept
  <2>2. row.key \in Keys
    BY NowFacts DEF Rows
  <2> QED BY <2>1, <2>2, PathTypes
<1>3. PICK n : /\ Adds(n)
               /\ jobs'[n].kind = "move" /\ jobs'[n].src = row.key
               /\ jobs'[n].dst = MoveTarget(row.key, d) /\ jobs'[n].from = file.dir
               /\ jobs'[n].to = d /\ jobs'[n].asked = requests'
  BY <1>1, <1>2, NowFacts, EnqueueDoes, NasAssumption DEF NasAssumption, Kinds
<1>4. /\ file.state = "ACTIVE" /\ Left = {} /\ at = row.key
      /\ row.key.dir = file.dir /\ row.key.name = file.name
  BY <1>1, EditableFacts
<1>5. row'.key = row.key /\ row'.status = "SYNCING" /\ MoveTarget(row.key, d).dir = d
  BY NowFacts DEF RequestMove, Rows, NoRow, Row, MoveTarget, Key
<1>6. file'.state = "ACTIVE" /\ file'.name = file.name /\ file'.dir = d
  BY <1>4, NowFacts DEF RequestMove, Files
<1>7. Left' = {}
  BY <1>1, <1>3, <1>4, NowFacts, LeftSame DEF Adds
<1>8. TargetOf(jobs'[n]).dir = d
  BY <1>3, <1>5 DEF TargetOf
<1>9. TargetOf(jobs'[n]) # at
  BY <1>1, <1>4, <1>8
<1>10. Moves(jobs[n], FALSE)'
  BY <1>3, <1>4, <1>5, <1>6, <1>7 DEF Moves
<1>11. Syncing(row)' /\ jobs'[n].kind \in MoveKinds
  BY <1>3, <1>5 DEF Syncing, MoveKinds
<1> QED
  BY <1>1, <1>2, <1>3, <1>4, <1>7, <1>9, <1>10, <1>11, NewMoveSettles

LEMMA DeleteRequestSettles ==
  ASSUME Now, RequestDelete
  PROVE  InStep'
<1>1. /\ Accept /\ Editable /\ row.lease = 0 /\ UNCHANGED <<run, pc>>
      /\ metas' = metas \cup {requests'}
      /\ Enqueue("trash", row.key, TrashPath(row.key, requests'), file.dir, 0)
      /\ UNCHANGED <<at, active, duplicates>>
  BY DEF RequestDelete
<1>2. /\ requests' = requests + 1 /\ requests' \in 1..MaxRequests /\ requests' \in Nat
      /\ TrashPath(row.key, requests') \in Keys /\ file.dir \in Folders
  <2>1. requests' = requests + 1 /\ requests' \in 1..MaxRequests /\ requests' \in Nat
    BY <1>1, NowFacts DEF Accept
  <2>2. file.dir \in Folders /\ row.key \in Keys
    BY NowFacts DEF Files
  <2> QED BY <2>1, <2>2, PathTypes
<1>3. PICK n : /\ Adds(n)
               /\ jobs'[n].kind = "trash" /\ jobs'[n].src = row.key
               /\ jobs'[n].dst = TrashPath(row.key, requests')
               /\ jobs'[n].asked = requests'
  BY <1>1, <1>2, NowFacts, EnqueueDoes, NasAssumption DEF NasAssumption, Kinds
<1>4. /\ file.state = "ACTIVE" /\ Left = {} /\ at = row.key
      /\ row.key.dir = file.dir /\ row.key.name = file.name
  BY <1>1, EditableFacts
<1>5. row'.key = row.key /\ row'.status = "SYNCING" /\ row'.lease = 0
  BY <1>1, NowFacts DEF RequestDelete, Rows, NoRow, Row
<1>6. file'.state = "TRASHED" /\ file'.name = file.name
  BY NowFacts DEF RequestDelete, Files
<1>7. Left' \subseteq {requests'}
  <2>1. run # 0 => Job'.meta = Job.meta
    BY <1>3, NowFacts, JobFacts DEF Adds, Job, SameJob
  <2>2. Deleting' = Deleting
    BY <1>1, <2>1 DEF Deleting
  <2> QED BY <1>1, <1>4, <2>2 DEF Left
<1>8. TargetOf(jobs'[n]) # at
  <2>1. row.key.prefix \in Seq(Int) /\ <<requests'>> \in Seq(Int)
    BY <1>2, NowFacts DEF Keys
  <2>2. Len(<<requests'>> \o row.key.prefix) = 1 + Len(row.key.prefix)
    BY <2>1, ConcatProperties
  <2>3. Len(row.key.prefix) \in Nat
    BY <2>1, LenProperties
  <2>4. TrashPath(row.key, requests').prefix # row.key.prefix
    BY <2>2, <2>3 DEF TrashPath, Key
  <2> QED BY <1>3, <1>4, <2>4 DEF TargetOf
<1>9. Trashes(jobs[n])'
  <2>1. TrashPath(row.key, requests').name = row.key.name
    BY DEF TrashPath, Key
  <2> QED BY <1>3, <1>4, <1>5, <1>6, <1>7, <2>1 DEF Trashes
<1>10. Syncing(row)' /\ jobs'[n].kind \in MoveKinds
  BY <1>3, <1>5 DEF Syncing, MoveKinds
<1>11. file'.state # "ACTIVE" /\ \A k, m \in Left' : k = m
  BY <1>6, <1>7
<1> QED
  BY <1>1, <1>2, <1>3, <1>4, <1>8, <1>9, <1>10, <1>11, NewMoveSettles

(* The recovery registers a job twice: the copy is as useful as the job.    *)
LEMMA DuplicateSettles ==
  ASSUME Now, NEW i \in JobIds, Duplicate(i), Calm'
  PROVE  InStep'
<1>1. /\ Books /\ InStep /\ active \subseteq Folders /\ duplicates \in Nat
  BY NowFacts DEF Now
<1>2. /\ duplicates' = duplicates + 1 /\ jobs[i].state = "waiting"
      /\ UNCHANGED <<file, row, at, metas, active, run, pc, nasCopy, fileCopy, purging>>
  BY DEF Duplicate, rowVars, copyVars, purgeVars
<1>3. PICK n : /\ Adds(n)
               /\ jobs'[n].kind = jobs[i].kind /\ jobs'[n].src = jobs[i].src
               /\ jobs'[n].dst = jobs[i].dst /\ jobs'[n].from = jobs[i].from
               /\ jobs'[n].to = jobs[i].to /\ jobs'[n].meta = jobs[i].meta
               /\ jobs'[n].asked = jobs[i].asked
  BY <1>1, DuplicateDoes
<1>4. duplicates' # 0 /\ active = Folders /\ ~Doomed
  <2>1. duplicates' # 0
    BY <1>1, <1>2
  <2>2. active = Folders
    BY <1>2, <2>1 DEF Calm, Quiet
  <2> QED BY <2>1, <2>2 DEF Doomed
<1>5. /\ \A c \in JobIds : c \in JobIds' /\ SameJob(c) /\ SameState(c)
      /\ JobIds' = JobIds \cup {n} /\ n # run /\ i # run
      /\ jobs'[n].state = "waiting" /\ n \notin JobIds
      /\ run # 0 => run \in JobIds /\ Job = jobs[run] /\ Job' = jobs'[run]
  <2>1. run # 0 => run \in JobIds /\ jobs[run].state = "active" /\ Job = jobs[run]
    BY NowFacts
  <2> QED BY <1>1, <1>2, <1>3, <2>1, JobFacts DEF Adds, Job
<1>6. Left' = Left
  BY <1>1, <1>2, <1>5, LeftSame
<1>7. WillPurge => WillPurge'
  <2>1. \A p \in JobIds : Purges(p) => Purges(p)'
    BY <1>2, <1>5 DEF Purges, Pending, SameJob, SameState
  <2> QED BY <1>2, <1>5, <2>1 DEF WillPurge
<1> DEFINE Copies(c, e) ==
             /\ jobs'[e].kind = jobs[c].kind /\ jobs'[e].src = jobs[c].src
             /\ jobs'[e].dst = jobs[c].dst /\ jobs'[e].from = jobs[c].from
             /\ jobs'[e].to = jobs[c].to /\ jobs'[e].asked = jobs[c].asked
             /\ e = c \/ (e # run /\ c # run)
<1>8. ASSUME NEW c \in JobIds, NEW e \in JobIds', Copies(c, e), Carries(c), Pending(e)'
      PROVE  Carries(e)'
  <2>1. Newest(e)'
    <3>1. \A j \in JobIds : jobs[j].kind \in MoveKinds => jobs[j].asked <= jobs[c].asked
      BY <1>8 DEF Carries, Newest
    <3>2. ASSUME NEW j \in JobIds', jobs'[j].kind \in MoveKinds
          PROVE  jobs'[j].asked <= jobs'[e].asked
      <4>1. \E k \in JobIds : /\ jobs'[j].asked = jobs[k].asked
                              /\ jobs'[j].kind = jobs[k].kind
        BY <1>3, <1>5 DEF SameJob
      <4> QED BY <1>8, <3>1, <3>2, <4>1
    <3>3. jobs'[e].kind \in MoveKinds
      BY <1>8 DEF Carries, Newest
    <3> QED BY <3>2, <3>3 DEF Newest
  <2>2. Running(e)' <=> Running(c)
    BY <1>2, <1>5, <1>8 DEF Running, Twins, SameJob
  <2>3. (e = run)' <=> c = run
    BY <1>2, <1>8
  <2>4. TargetOf(jobs[e])' = TargetOf(jobs[c]) /\ jobs'[e].src = jobs[c].src
    BY <1>8 DEF TargetOf
  <2>5. /\ at' = IF (Running(e) /\ pc = "save")' THEN TargetOf(jobs[e])' ELSE jobs'[e].src
        /\ TargetOf(jobs[e])' # jobs'[e].src
    BY <1>2, <1>8, <2>2, <2>4 DEF Carries
  <2>6. jobs'[e].kind = "rename" => Renames(jobs[e])'
    BY <1>2, <1>6, <1>8 DEF Carries, Renames
  <2>7. jobs'[e].kind = "move" => Moves(jobs[e], e = run /\ pc = "revertRow")'
    BY <1>2, <1>6, <1>7, <1>8, <2>3 DEF Carries, Moves
  <2>8. jobs'[e].kind = "trash" => Trashes(jobs[e])'
    BY <1>2, <1>6, <1>8 DEF Carries, Trashes
  <2>9. Syncing(row)'
    BY <1>2, <1>8 DEF Carries
  <2> QED BY <1>8, <2>1, <2>5, <2>6, <2>7, <2>8, <2>9 DEF Carries
<1>9. ASSUME NEW c \in JobIds, NEW e \in JobIds', Copies(c, e), Spent(c),
             jobs[c].kind # "purge"
      PROVE  Spent(e)'
  <2>1. PICK j \in JobIds : Twins(c, j) /\ jobs[j].state = "done"
    BY <1>9 DEF Spent
  <2>2. Twins(e, j)' /\ jobs'[j].state = "done" /\ j \in JobIds'
    BY <1>5, <1>9, <2>1 DEF Twins, SameJob, SameState
  <2>3. TargetOf(jobs[e])' = TargetOf(jobs[c]) /\ jobs'[e].src = jobs[c].src
    BY <1>9 DEF TargetOf
  <2> QED BY <1>2, <1>4, <1>9, <2>2, <2>3 DEF Spent
<1>10. \A c \in JobIds : Copies(c, c) /\ (Pending(c)' <=> Pending(c))
  BY <1>5 DEF SameJob, SameState, Pending
<1>11. Copies(i, n)
  BY <1>3, <1>5
<1> HIDE DEF Copies
<1>12. \A c \in JobIds : Carries(c) => Carries(c)'
  BY <1>5, <1>8, <1>10 DEF Carries
<1>13. RestoreIsRight' /\ MoveIsRight'
  BY <1>1, <1>2, <1>5, <1>12, HandlerStays
<1>14. World'
  <2>1. World
    BY NowFacts
  <2>2. SyncingIsCarried'
    BY <1>2, <1>4, <1>5, <1>12, <2>1 DEF World, SyncingIsCarried
  <2>3. AvailableIsRight'
    BY <1>2, <2>1 DEF World, AvailableIsRight
  <2>4. ASSUME NEW e \in JobIds', jobs'[e].kind \in MoveKinds, Pending(e)'
        PROVE  Carries(e)' \/ Spent(e)'
    <3>1. PICK c \in JobIds : Copies(c, e) /\ Pending(c) /\ jobs[c].kind \in MoveKinds
      <4>1. CASE e \in JobIds
        BY <1>10, <2>4, <4>1 DEF Copies
      <4>2. CASE e = n
        BY <1>2, <1>3, <1>11, <2>4, <4>2 DEF Pending
      <4> QED BY <1>5, <2>4, <4>1, <4>2
    <3>2. Carries(c) \/ Spent(c)
      BY <2>1, <3>1 DEF World, MovesAreUseful
    <3>3. jobs[c].kind # "purge"
      BY <3>1 DEF MoveKinds
    <3> QED BY <1>8, <1>9, <2>4, <3>1, <3>2, <3>3
  <2>5. MetaOfTrashed'
    BY <1>2, <1>6, <2>1 DEF World, MetaOfTrashed
  <2> QED BY <2>2, <2>3, <2>4, <2>5 DEF World, MovesAreUseful
<1> QED BY <1>13, <1>14 DEF InStep

-----------------------------------------------------------------------------
(* The steps of the handlers that only read.                                *)

LEMMA StartSettles ==
  ASSUME Now, NEW i \in JobIds, StartJob(i)
  PROVE  InStep'
<1>1. /\ Books /\ World
  BY NowFacts
<1>2. /\ run = 0 /\ run' = i /\ JobIds' = JobIds /\ i # 0
      /\ jobs[i].state = "waiting" /\ jobs'[i].state = "active"
      /\ \A k \in JobIds : SameJob(k) /\ (k # i => SameState(k))
      /\ pc' = IF jobs[i].kind = "restore" THEN "meta"
               ELSE IF jobs[i].kind = "purge" THEN "file" ELSE "row"
      /\ Job' = jobs'[i] /\ jobs'[i].kind = jobs[i].kind
      /\ UNCHANGED <<file, row, at, metas, active, purging, duplicates>>
      /\ pc = "idle"
  BY <1>1, StartDoes, JobFacts DEF StartJob, Job, SameJob, Books, rowVars, purgeVars,
     boundVars
<1>3. Left' = Left
  BY <1>2 DEF Left, Deleting
<1>4. WillPurge => WillPurge'
  <2>1. ASSUME NEW p \in JobIds, Purges(p)  PROVE Purges(p)'
    <3>1. CASE p = i
      BY <1>2, <2>1, <3>1 DEF Purges, Pending
    <3>2. CASE p # i
      BY <1>2, <2>1, <3>2 DEF Purges, Pending, SameJob, SameState
    <3> QED BY <3>1, <3>2
  <2> QED BY <1>2, <2>1 DEF WillPurge
<1>5. \A k \in JobIds : (Pending(k) <=> Pending(k)')
                        /\ (jobs[k].state = "done" => jobs'[k].state = "done")
  BY <1>2 DEF Pending, SameState
<1>6. Frame
  <2>1. JobsFrame
    BY <1>2, <1>5 DEF JobsFrame
  <2>2. StepFrame
    BY <1>2 DEF StepFrame
  <2> QED BY <1>2, <1>3, <1>4, <2>1, <2>2 DEF Frame
<1>7. ~Restoring'
  BY <1>2 DEF Restoring, RestoreSteps
<1>8. World'
  <2>1. \A c \in JobIds : Carries(c) => Pending(c)'
    BY <1>5 DEF Carries
  <2>2. \A k \in JobIds : jobs[k].kind \in MoveKinds /\ k = run' => pc' = "row"
    BY <1>2 DEF MoveKinds
  <2>3. pc' # "save"
    BY <1>2
  <2> QED BY <1>1, <1>2, <1>6, <1>7, <2>1, <2>2, <2>3, WorldStays
<1>9. MoveIsRight'
  <2>1. Job'.kind \in MoveKinds => pc' = "row"
    BY <1>2 DEF MoveKinds
  <2> QED BY <2>1 DEF MoveIsRight, TurningBack
<1> QED BY <1>7, <1>8, <1>9 DEF InStep, RestoreIsRight

(* A handler that goes on has changed nothing that others rely on.          *)
LEMMA GoOn ==
  ASSUME Now, run # 0, NEW s, GoTo(s), s \notin {"save", "revertRow"},
         pc \notin {"save", "revertRow", "deleteMeta"},
         UNCHANGED <<file, row, at, metas, active, purging, duplicates>>,
         Purges(run) /\ at = row.key => Purges(run)',
         Job.kind \in MoveKinds /\ Spent(run) => s \in {"row", "folder", "move"},
         Doomed => ~Restoring'
  PROVE  /\ Frame /\ World' /\ Job' = Job
         /\ \A c \in JobIds : c \in JobIds' /\ jobs'[c] = jobs[c]
         /\ \A c \in JobIds : Carries(c) => Carries(c)'
         /\ Job.kind \in MoveKinds /\ Carries(run)' => Carries(run)
<1>1. /\ Books /\ World
      /\ run \in JobIds /\ Job = jobs[run] /\ Pending(run)
  BY NowFacts
<1>2. jobs' = jobs /\ run' = run /\ pc' = s /\ Job' = Job
  BY DEF GoTo, Job
<1>3. Left' \subseteq Left
  BY DEF Left, Deleting
<1>4. WillPurge /\ at = row.key => WillPurge'
  <2>1. ASSUME NEW p \in JobIds, Purges(p), at = row.key  PROVE Purges(p)'
    <3>1. CASE p = run
      BY <1>2, <2>1, <3>1
    <3>2. CASE p # run
      BY <1>2, <2>1, <3>2 DEF Purges, Pending
    <3> QED BY <3>1, <3>2
  <2> QED BY <1>2, <2>1 DEF WillPurge, JobIds
<1>5. JobIds' = JobIds /\ \A c \in JobIds : SameJob(c) /\ SameState(c)
  BY <1>2 DEF JobIds, SameJob, SameState
<1>6. JobsFrame
  BY <1>5 DEF JobsFrame, Pending, SameState
<1>7. StepFrame
  BY <1>2 DEF StepFrame
<1>8. Frame
  BY <1>3, <1>4, <1>6, <1>7 DEF Frame
<1>9. \A c \in JobIds : Pending(c) => Pending(c)'
  BY <1>2 DEF Pending
<1>10. World'
  <2>1. \A c \in JobIds : Carries(c) => Pending(c)'
    BY <1>9 DEF Carries
  <2>2. \A i \in JobIds : Spent(i) /\ jobs[i].kind \in MoveKinds /\ i = run'
                            => pc' \in {"row", "folder", "move"}
    BY <1>1, <1>2
  <2>3. Doomed => pc' # "save" /\ ~Restoring'
    BY <1>2
  <2> QED BY <1>1, <1>8, <2>1, <2>2, <2>3, WorldStays
<1>11. \A c \in JobIds : Carries(c) => Carries(c)'
  <2>1. \A c \in JobIds : Carries(c) => Pending(c)'
    BY <1>9 DEF Carries
  <2> QED BY <1>1, <1>8, <2>1, CarriesStays
<1>12. ASSUME Job.kind \in MoveKinds, Carries(run)'  PROVE Carries(run)
  <2>1. CASE Spent(run)
    <3>1. at # jobs[run].src
      BY <2>1 DEF Spent
    <3>2. at' = jobs'[run].src
      BY <1>2, <1>12 DEF Carries
    <3> QED BY <1>2, <3>1, <3>2
  <2> QED BY <1>1, <1>12, <2>1 DEF World, MovesAreUseful
<1> QED BY <1>2, <1>5, <1>8, <1>10, <1>11, <1>12

(* A job that is over, or waits again, leaves no row behind it.             *)
LEMMA EndSettles ==
  ASSUME Now, run # 0, NEW S, Ends(S), pc \notin {"save", "revertRow"},
         UNCHANGED <<file, row, at, active, purging, duplicates>>, metas' = Left,
         ~Purges(run), Carries(run) => jobs'[run].state = "waiting"
  PROVE  InStep'
<1>1. /\ Books /\ World
      /\ run \in JobIds /\ jobs[run].state = "active" /\ Pending(run)
  BY NowFacts
<1>2. /\ run' = 0 /\ pc' = "idle" /\ JobIds' = JobIds /\ 0 \notin JobIds
      /\ \A i \in JobIds : SameJob(i) /\ (i # run => SameState(i))
  BY <1>1, JobFacts DEF Ends
<1>3. Left' = Left
  BY <1>2 DEF Left, Deleting
<1>4. WillPurge => WillPurge'
  <2>1. ASSUME NEW p \in JobIds, Purges(p)  PROVE Purges(p)'
    <3>1. p # run
      BY <2>1
    <3> QED BY <1>2, <2>1, <3>1 DEF Purges, Pending, SameJob, SameState
  <2> QED BY <1>2, <2>1 DEF WillPurge
<1>5. \A i \in JobIds : i # run => (Pending(i) <=> Pending(i)')
  BY <1>2 DEF Pending, SameState
<1>6. JobsFrame
  BY <1>1, <1>2, <1>5 DEF JobsFrame, SameState
<1>7. Frame
  <2>1. StepFrame
    BY <1>2 DEF StepFrame
  <2> QED BY <1>3, <1>4, <1>6, <2>1 DEF Frame
<1>8. World'
  <2>1. \A c \in JobIds : Carries(c) => Pending(c)'
    <3>1. \A c \in JobIds : Carries(c) => Pending(c)
      BY DEF Carries
    <3>2. \A c \in JobIds : c = run /\ Carries(c) => Pending(c)'
      BY DEF Pending
    <3> QED BY <1>5, <3>1, <3>2
  <2>2. \A i \in JobIds : i # run'
    BY <1>2
  <2>3. pc' # "save" /\ ~Restoring' /\ metas' \subseteq metas
    BY <1>2 DEF Restoring, Left
  <2> QED BY <1>1, <1>7, <2>1, <2>2, <2>3, WorldStays
<1>9. RestoreIsRight' /\ MoveIsRight'
  BY <1>2 DEF RestoreIsRight, Restoring, MoveIsRight
<1> QED BY <1>8, <1>9 DEF InStep

LEMMA ReadMetaSettles ==
  ASSUME Now, run # 0, ReadMeta
  PROVE  InStep'
<1>1. /\ pc = "meta" /\ Job.kind = "restore"
      /\ UNCHANGED <<file, row, at, metas, active, purging, duplicates, nasCopy, fileCopy>>
  <2>1. Job.kind \in Kinds
    BY NowFacts DEF JobRecords
  <2> QED BY <2>1 DEF ReadMeta, At, rowVars, copyVars, purgeVars, boundVars, Now, Places,
      StepsOfKind, MoveSteps, TurningBack, PurgeSteps, Kinds, MoveKinds
<1>2. Left = metas
  BY <1>1 DEF Left, Deleting
<1>3. ~Purges(run) /\ ~Carries(run)
  BY <1>1, NowFacts DEF Purges, Carries, Newest, MoveKinds
<1>4. CASE Job.meta \in metas /\ GoTo("file")
  <2>1. file.state # "ACTIVE" /\ metas \subseteq {Job.meta}
    BY <1>2, <1>4, NowFacts DEF MetaOfTrashed
  <2>2. ~Doomed
    BY <1>4 DEF Doomed
  <2>3. /\ Job' = Job /\ World'
        /\ \A c \in JobIds : c \in JobIds' /\ jobs'[c] = jobs[c]
        /\ \A c \in JobIds : Carries(c) => Carries(c)'
    BY <1>1, <1>3, <1>4, <2>2, GoOn DEF MoveKinds
  <2>4. ASSUME Syncing(row)
        PROVE  \E c \in JobIds' : Carries(c)' /\ jobs'[c].asked = Job'.meta
    <3>1. PICK c \in JobIds : Carries(c)
      BY <2>2, <2>4, NowFacts DEF SyncingIsCarried
    <3>2. jobs[c].kind \notin {"rename", "move"}
      BY <1>2, <1>4, <3>1 DEF Carries, Renames, Moves
    <3>3. jobs[c].kind = "trash"
      BY <3>1, <3>2 DEF Carries, Newest, MoveKinds
    <3>4. jobs[c].asked = Job.meta
      BY <1>2, <1>4, <3>1, <3>3 DEF Carries, Trashes
    <3> QED BY <2>3, <3>1, <3>4
  <2>5. pc' = "file"
    BY <1>4 DEF GoTo
  <2>6. RestoreIsRight'
    BY <1>1, <2>1, <2>3, <2>4, <2>5 DEF RestoreIsRight, Syncing
  <2>7. MoveIsRight'
    BY <1>1, <2>3 DEF MoveIsRight, MoveKinds
  <2> QED BY <2>3, <2>6, <2>7 DEF InStep
<1>5. CASE Finish
  BY <1>1, <1>2, <1>3, <1>5, FinishDoes, EndSettles, NowFacts
<1> QED BY <1>4, <1>5 DEF ReadMeta

LEMMA ReadFileSettles ==
  ASSUME Now, run # 0, ReadFile
  PROVE  InStep'
<1>1. /\ pc = "file" /\ Job.kind \in {"restore", "purge"} /\ fileCopy' = file
      /\ GoTo(IF Job.kind = "restore" THEN "folder" ELSE "row")
      /\ UNCHANGED <<file, row, at, metas, active, purging, duplicates, nasCopy>>
      /\ Job = jobs[run]
  <2>1. Job.kind \in Kinds /\ Job = jobs[run]
    BY NowFacts DEF JobRecords
  <2> QED BY <2>1 DEF ReadFile, At, rowVars, purgeVars, boundVars, Now, Places,
      StepsOfKind, MoveSteps, TurningBack, Kinds, MoveKinds
<1>2. CASE Job.kind = "restore"
  <2>1. Restoring /\ pc' = "folder"
    BY <1>1, <1>2 DEF Restoring, RestoreSteps, GoTo
  <2>2. ~Doomed /\ ~Purges(run)
    BY <1>1, <1>2, <2>1 DEF Doomed, Purges
  <2>3. /\ Job' = Job /\ World'
        /\ \A c \in JobIds : c \in JobIds' /\ jobs'[c] = jobs[c]
        /\ \A c \in JobIds : Carries(c) => Carries(c)'
    BY <1>1, <1>2, <2>2, GoOn DEF MoveKinds
  <2>4. /\ file.state # "ACTIVE" /\ metas \subseteq {Job.meta}
        /\ Syncing(row) => \E c \in JobIds : Carries(c) /\ jobs[c].asked = Job.meta
    BY <2>1, NowFacts DEF RestoreIsRight
  <2>5. ASSUME file.state = "TRASHED"  PROVE file.name = row.key.name
    <3>1. CASE Syncing(row)
      <4>1. PICK c \in JobIds : Carries(c)
        BY <2>4, <3>1
      <4>2. jobs[c].kind = "trash"
        BY <2>5, <4>1 DEF Carries, Newest, MoveKinds, Renames, Moves
      <4> QED BY <2>5, <4>1, <4>2 DEF Carries, Trashes
    <3>2. CASE Available(row)
      BY <2>5, <3>2, NowFacts DEF AvailableIsRight
    <3> QED BY <3>1, <3>2, NowFacts DEF Syncing, Available
  <2>6. RestoreIsRight'
    BY <1>1, <2>1, <2>3, <2>4, <2>5 DEF RestoreIsRight, Syncing
  <2>7. MoveIsRight'
    BY <1>2, <2>3 DEF MoveIsRight, MoveKinds
  <2> QED BY <2>3, <2>6, <2>7 DEF InStep
<1>3. CASE Job.kind = "purge"
  <2>1. pc' = "row" /\ GoTo("row") /\ run' = run /\ jobs' = jobs /\ Job' = Job
    BY <1>1, <1>3 DEF GoTo, Job
  <2>2. Purges(run) => Purges(run)'
    BY <2>1 DEF Purges, Pending
  <2>3. ~Restoring'
    BY <1>3, <2>1 DEF Restoring
  <2>4. World'
    BY <1>1, <1>3, <2>1, <2>2, <2>3, GoOn DEF MoveKinds
  <2>5. MoveIsRight' /\ RestoreIsRight'
    BY <1>3, <2>1, <2>3 DEF MoveIsRight, MoveKinds, RestoreIsRight
  <2> QED BY <2>4, <2>5 DEF InStep
<1> QED BY <1>1, <1>2, <1>3

LEMMA CheckFolderSettles ==
  ASSUME Now, run # 0, CheckFolder
  PROVE  InStep'
<1>1. /\ pc = "folder" /\ Job.kind \in {"restore", "move"} /\ Job.to \in Folders
      /\ UNCHANGED <<file, row, at, metas, active, purging, duplicates, nasCopy, fileCopy>>
      /\ Job = jobs[run] /\ run \in JobIds /\ Left = metas
  <2>1. Job.kind \in Kinds /\ Job.to \in Folders /\ Job = jobs[run] /\ run \in JobIds
    BY NowFacts DEF JobRecords
  <2> QED BY <2>1 DEF CheckFolder, At, rowVars, copyVars, purgeVars, boundVars, Now, Places,
      StepsOfKind, PurgeSteps, Kinds, MoveKinds, Left, Deleting
<1>2. ~Purges(run)
  BY <1>1 DEF Purges
<1>3. CASE Job.kind = "restore" /\ GoTo("row")
  <2>1. Restoring /\ pc' = "row" /\ ~Doomed
    BY <1>1, <1>3 DEF Restoring, RestoreSteps, GoTo, Doomed
  <2>2. /\ Job' = Job /\ World'
        /\ \A c \in JobIds : c \in JobIds' /\ jobs'[c] = jobs[c]
        /\ \A c \in JobIds : Carries(c) => Carries(c)'
    BY <1>1, <1>2, <1>3, <2>1, GoOn DEF MoveKinds
  <2>3. RestoreIsRight
    BY NowFacts
  <2>4. Syncing(row) => \E c \in JobIds' : Carries(c)' /\ jobs'[c].asked = Job'.meta
    BY <2>1, <2>2, <2>3 DEF RestoreIsRight
  <2>5. RestoreIsRight'
    BY <1>1, <2>1, <2>2, <2>3, <2>4 DEF RestoreIsRight, Syncing
  <2>6. MoveIsRight'
    BY <1>3, <2>2 DEF MoveIsRight, MoveKinds
  <2> QED BY <2>2, <2>5, <2>6 DEF InStep
<1>4. CASE Job.kind = "restore" /\ Finish
  <2>1. ~Carries(run)
    BY <1>1, <1>4 DEF Carries, Newest, MoveKinds
  <2> QED BY <1>1, <1>2, <1>4, <2>1, FinishDoes, EndSettles, NowFacts
<1>5. CASE /\ Job.kind = "move"
           /\ \/ Job.to \in active /\ GoTo("move")
              \/ Job.to \notin active /\ GoTo("revert")
  <2>1. pc' \in {"move", "revert"} /\ run' = run
    BY <1>5 DEF GoTo
  <2>2. pc' = "revert" => active # Folders /\ Carries(run)
    <3> SUFFICES ASSUME pc' = "revert"  PROVE active # Folders /\ Carries(run)
      OBVIOUS
    <3>1. active # Folders
      BY <1>1, <1>5 DEF GoTo
    <3>2. ~Spent(run)
      BY <3>1, NowFacts DEF Spent
    <3> QED BY <1>1, <1>5, <3>1, <3>2, NowFacts DEF MovesAreUseful, MoveKinds
  <2>3. ~Restoring'
    BY <1>5, <2>1 DEF Restoring, GoTo, Job
  <2>4. /\ Job' = Job /\ World'
        /\ Carries(run) => Carries(run)'
        /\ Carries(run)' => Carries(run)
    <3>1. Spent(run) => pc' = "move"
      BY <2>1, <2>2, NowFacts DEF Spent
    <3>2. \E s \in {"move", "revert"} : GoTo(s) /\ pc' = s
      BY <1>5 DEF GoTo
    <3>3. Job.kind \in MoveKinds
      BY <1>5 DEF MoveKinds
    <3>4. /\ Job' = Job /\ World'
          /\ \A c \in JobIds : Carries(c) => Carries(c)'
          /\ Carries(run)' => Carries(run)
      BY <1>1, <1>2, <2>3, <3>1, <3>2, <3>3, GoOn
    <3> QED BY <1>1, <2>1, <3>4
  <2>5. MoveIsRight'
    <3>1. Carries(run) => nasCopy.key = Job.src
      BY <1>1, <1>5, NowFacts DEF MoveIsRight, MoveKinds
    <3> QED BY <1>1, <2>1, <2>2, <2>4, <3>1 DEF MoveIsRight, TurningBack
  <2> QED BY <2>3, <2>4, <2>5 DEF InStep, RestoreIsRight
<1>6. \/ Job.kind = "restore" /\ (GoTo("row") \/ Finish)
      \/ /\ Job.kind = "move"
         /\ \/ Job.to \in active /\ GoTo("move")
            \/ Job.to \notin active /\ GoTo("revert")
  BY <1>1 DEF CheckFolder
<1> QED BY <1>3, <1>4, <1>5, <1>6

LEMMA ReadRowSettles ==
  ASSUME Now, run # 0, ReadRow
  PROVE  InStep'
<1>1. /\ pc = "row" /\ nasCopy' = row /\ Left = metas
      /\ UNCHANGED <<file, row, at, metas, active, purging, duplicates, fileCopy>>
      /\ Job = jobs[run] /\ run \in JobIds /\ Job.kind \in Kinds /\ row # NoRow
  <2>1. Job.kind \in Kinds /\ Job = jobs[run] /\ run \in JobIds
    BY NowFacts DEF JobRecords
  <2> QED BY <2>1 DEF ReadRow, At, rowVars, purgeVars, boundVars, Now, Calm, Left, Deleting
<1>2. CASE Job.kind = "restore"
  <2>1. GoTo("move") /\ ~Purges(run)
    BY <1>1, <1>2 DEF ReadRow, MoveKinds, Purges
  <2>2. Restoring /\ pc' = "move" /\ ~Doomed
    BY <1>1, <1>2, <2>1 DEF Restoring, RestoreSteps, GoTo, Doomed
  <2>3. /\ Job' = Job /\ World'
        /\ \A c \in JobIds : c \in JobIds' /\ jobs'[c] = jobs[c]
        /\ \A c \in JobIds : Carries(c) => Carries(c)'
    BY <1>1, <1>2, <2>1, <2>2, GoOn DEF MoveKinds
  <2>4. RestoreIsRight
    BY NowFacts
  <2>5. Syncing(row) => \E c \in JobIds' : Carries(c)' /\ jobs'[c].asked = Job'.meta
    BY <2>2, <2>3, <2>4 DEF RestoreIsRight
  <2>6. RestoreIsRight'
    BY <1>1, <2>2, <2>3, <2>4, <2>5 DEF RestoreIsRight, Syncing
  <2>7. MoveIsRight'
    BY <1>2, <2>3 DEF MoveIsRight, MoveKinds
  <2> QED BY <2>3, <2>6, <2>7 DEF InStep
<1>3. CASE Job.kind = "purge"
  <2>1. GoTo("delete")
    BY <1>1, <1>3 DEF ReadRow, MoveKinds
  <2>2. pc' = "delete" /\ run' = run /\ jobs' = jobs /\ Job' = Job
    BY <2>1 DEF GoTo, Job
  <2>3. Purges(run) /\ at = row.key => Purges(run)'
    BY <1>1, <2>2 DEF Purges, Pending
  <2>4. ~Restoring'
    BY <1>3, <2>2 DEF Restoring
  <2>5. World'
    BY <1>1, <1>3, <2>1, <2>3, <2>4, GoOn DEF MoveKinds
  <2>6. MoveIsRight' /\ RestoreIsRight'
    BY <1>3, <2>2, <2>4 DEF MoveIsRight, MoveKinds, RestoreIsRight
  <2> QED BY <2>5, <2>6 DEF InStep
<1>4. CASE Job.kind \in MoveKinds
  <2>1. Job.kind \notin {"restore", "purge"} /\ ~Purges(run)
    BY <1>1, <1>4 DEF MoveKinds, Purges
  <2>2. CASE AlreadyThere /\ Finish
    <3>1. ~Carries(run)
      BY <2>2 DEF AlreadyThere, Available, Carries, Syncing
    <3> QED BY <1>1, <2>1, <2>2, <3>1, FinishDoes, EndSettles, NowFacts
  <2>3. CASE Job.kind = "trash" /\ row.lease > 0 /\ Throw
    <3>1. ~Carries(run)
      BY <1>1, <2>3 DEF Carries, Trashes
    <3> QED BY <1>1, <2>1, <2>3, <3>1, ThrowDoes, EndSettles, NowFacts
  <2>4. CASE GoTo("folder") \/ GoTo("move")
    <3>1. pc' \in {"folder", "move"} /\ run' = run /\ jobs' = jobs /\ Job' = Job
      BY <2>4 DEF GoTo, Job
    <3>2. ~Restoring'
      BY <2>1, <3>1 DEF Restoring
    <3>3. World'
      BY <1>1, <2>1, <2>4, <3>2, GoOn
    <3>4. Carries(run)' /\ Job.kind = "move" => nasCopy'.key = Job.src
      BY <1>1, <3>1 DEF Carries, Moves
    <3>5. MoveIsRight'
      BY <3>1, <3>4 DEF MoveIsRight, TurningBack
    <3> QED BY <3>2, <3>3, <3>5 DEF InStep, RestoreIsRight
  <2> QED BY <1>1, <2>1, <2>2, <2>3, <2>4 DEF ReadRow
<1> QED BY <1>1, <1>2, <1>3, <1>4 DEF Kinds, MoveKinds

-----------------------------------------------------------------------------
(* The steps that give up or clean up.                                      *)

LEMMA DeleteMetaSettles ==
  ASSUME Now, run # 0, DeleteMeta
  PROVE  InStep'
<1>1. /\ pc = "deleteMeta" /\ Finish /\ metas' = metas \ {Job.meta}
      /\ UNCHANGED <<file, row, at, active, purging, duplicates>>
      /\ Job = jobs[run] /\ Job.kind \in Kinds
  BY NowFacts DEF DeleteMeta, At, copyVars, purgeVars, boundVars, JobRecords
<1>2. Job.kind = "restore"
  BY <1>1, NowFacts DEF Now, Calm, Places, StepsOfKind, RowsFound, LostRow, Kinds, MoveKinds,
     MoveSteps, TurningBack
<1>3. metas' = Left
  BY <1>1 DEF Left, Deleting
<1>4. ~Purges(run) /\ ~Carries(run)
  BY <1>1, <1>2 DEF Purges, Carries, Newest, MoveKinds
<1> QED BY <1>1, <1>3, <1>4, FinishDoes, EndSettles, NowFacts

(* The content is not where the row said.                                   *)
LEMMA DeleteContentSettles ==
  ASSUME Now, run # 0, DeleteContent, Calm'
  PROVE  InStep'
<1>1. /\ pc = "delete" /\ at # nasCopy.key /\ Throw
      /\ UNCHANGED <<file, row, at, metas, active, purging, duplicates>>
      /\ Job = jobs[run] /\ Job.kind \in Kinds
  BY NowFacts DEF DeleteContent, At, copyVars, purgeVars, boundVars, JobRecords, Calm, GoTo
<1>2. Job.kind = "purge"
  BY <1>1 DEF Now, Places, StepsOfKind, Kinds, MoveKinds, MoveSteps, TurningBack,
     RestoreSteps
<1>3. metas' = Left
  BY <1>1 DEF Left, Deleting
<1>4. ~Purges(run) /\ ~Carries(run)
  BY <1>1, <1>2 DEF Purges, Carries, Newest, MoveKinds
<1> QED BY <1>1, <1>3, <1>4, ThrowDoes, EndSettles, NowFacts

(* The file is where the row says, under its name.                          *)
LEMMA SaveFileSettles ==
  ASSUME Now, run # 0, SaveFile
  PROVE  InStep'
<1>1. /\ pc = "saveFile" /\ Job.kind = "restore" /\ Job = jobs[run]
      /\ pc' = "deleteMeta" /\ run' = run /\ jobs' = jobs /\ Job' = Job
      /\ UNCHANGED <<row, at, metas, active, purging, duplicates>>
  <2>1. Job.kind \in Kinds /\ Job = jobs[run]
    BY NowFacts DEF JobRecords
  <2> QED BY <2>1 DEF SaveFile, At, GoTo, Job, copyVars, purgeVars, boundVars, Now, Places,
      StepsOfKind, MoveSteps, TurningBack, PurgeSteps, Kinds, MoveKinds
<1>2. Restoring
  BY <1>1 DEF Restoring, RestoreSteps
<1>3. /\ Available(row) /\ row.key.dir = Job.to /\ file.state # "ACTIVE"
      /\ metas \subseteq {Job.meta}
      /\ fileCopy.state = "TRASHED" => fileCopy.name = row.key.name
      /\ at = row.key /\ (file.state = "TRASHED" => row.key.name = file.name)
  BY <1>1, <1>2, NowFacts DEF RestoreIsRight, AvailableIsRight
<1>4. Left' = {}
  BY <1>1, <1>3 DEF Left, Deleting
<1>5. AvailableIsRight'
  <2>1. CASE fileCopy.state = "TRASHED"
    <3>1. file' = [fileCopy EXCEPT !.state = "ACTIVE", !.dir = Job.to]
      BY <2>1 DEF SaveFile
    <3>2. file'.state = "ACTIVE" /\ file'.dir = Job.to /\ file'.name = fileCopy.name
      BY <3>1, NowFacts DEF Files
    <3> QED BY <1>1, <1>3, <2>1, <3>2 DEF AvailableIsRight
  <2>2. CASE fileCopy.state # "TRASHED"
    <3>1. file' = file
      BY <2>2 DEF SaveFile
    <3> QED BY <1>1, <1>3, <3>1 DEF AvailableIsRight
  <2> QED BY <2>1, <2>2
<1>6. SyncingIsCarried'
  BY <1>1, <1>3 DEF SyncingIsCarried, Syncing, Available
<1>7. MovesAreUseful'
  <2> SUFFICES ASSUME NEW i \in JobIds, jobs[i].kind \in MoveKinds, Pending(i)
               PROVE  Spent(i)'
    BY <1>1 DEF MovesAreUseful, JobIds, Pending
  <2>1. ~Carries(i)
    BY <1>3 DEF Carries, Syncing, Available
  <2>2. Spent(i)
    BY <2>1, NowFacts DEF MovesAreUseful
  <2>3. i # run
    BY <1>1 DEF MoveKinds
  <2> QED BY <1>1, <2>2, <2>3 DEF Spent, TargetOf, Twins, JobIds
<1>8. World'
  BY <1>4, <1>5, <1>6, <1>7 DEF World, MetaOfTrashed
<1>9. RestoreIsRight' /\ MoveIsRight'
  BY <1>1 DEF RestoreIsRight, Restoring, RestoreSteps, MoveIsRight, MoveKinds
<1> QED BY <1>8, <1>9 DEF InStep

-----------------------------------------------------------------------------
(* A move into a deleted folder is turned back.                             *)

(* Its request was the last one, and nobody else has a move to do.          *)
LEMMA TurningBackFacts ==
  ASSUME Now, pc \in TurningBack
  PROVE  /\ run # 0 /\ Job.kind = "move" /\ Job = jobs[run] /\ run \in JobIds
         /\ Carries(run) /\ active # Folders /\ duplicates = 0 /\ nasCopy.key = Job.src
         /\ Moves(Job, pc = "revertRow") /\ Syncing(row) /\ at = Job.src /\ Left = metas
         /\ ~Purges(run)
         /\ \A i \in JobIds : jobs[i].kind \in MoveKinds /\ Pending(i) => i = run
<1>1. /\ run # 0 /\ Job.kind \in Kinds /\ Job = jobs[run] /\ run \in JobIds
  BY NowFacts DEF TurningBack, Books, JobRecords
<1>2. Job.kind = "move"
  BY <1>1 DEF Now, Places, StepsOfKind, Kinds, MoveKinds, RestoreSteps, PurgeSteps,
     TurningBack
<1>3. /\ Carries(run) /\ active # Folders /\ nasCopy.key = Job.src
  BY <1>1, <1>2, NowFacts DEF MoveIsRight, MoveKinds, TurningBack
<1>4. duplicates = 0
  BY <1>3, NowFacts
<1>5. /\ Moves(Job, pc = "revertRow") /\ Syncing(row) /\ at = Job.src
  BY <1>1, <1>2, <1>3 DEF Carries, TurningBack
<1>6. Left = metas
  BY DEF Left, Deleting, TurningBack
<1>7. ~Purges(run)
  BY <1>1, <1>2 DEF Purges
<1>8. ASSUME NEW i \in JobIds, jobs[i].kind \in MoveKinds, Pending(i)  PROVE i = run
  <2>1. ~Spent(i)
    BY <1>4 DEF Spent
  <2>2. Carries(i)
    BY <1>8, <2>1, NowFacts DEF MovesAreUseful
  <2>3. jobs[i].asked <= jobs[run].asked /\ jobs[run].asked <= jobs[i].asked
    BY <1>1, <1>3, <1>8, <2>2 DEF Carries, Newest
  <2>4. jobs[i].asked = jobs[run].asked
    BY <1>1, <2>3, NowFacts, JobFacts
  <2>5. Twins(i, run)
    BY <1>1, <1>2, <1>8, <2>4 DEF Twins, MoveKinds
  <2> QED BY <1>1, <1>4, <2>5 DEF Now, Order, TwinsAgree
<1> QED BY <1>1, <1>2, <1>3, <1>4, <1>5, <1>6, <1>7, <1>8

LEMMA ReadMovedFileSettles ==
  ASSUME Now, run # 0, ReadMovedFile
  PROVE  InStep'
<1>1. /\ pc = "revert" /\ fileCopy' = file
      /\ UNCHANGED <<file, row, at, metas, active, purging, duplicates, nasCopy>>
      /\ file.state \in {"ACTIVE", "TRASHED", "DELETED"}
  BY NowFacts DEF ReadMovedFile, At, rowVars, purgeVars, boundVars, Files
<1>2. /\ Job.kind = "move" /\ Job = jobs[run] /\ run \in JobIds
      /\ Carries(run) /\ active # Folders /\ duplicates = 0 /\ nasCopy.key = Job.src
      /\ Moves(Job, FALSE) /\ Syncing(row) /\ at = Job.src /\ Left = metas /\ ~Purges(run)
      /\ \A i \in JobIds : jobs[i].kind \in MoveKinds /\ Pending(i) => i = run
  <2>1. (pc = "revertRow") = FALSE /\ pc \in TurningBack
    BY <1>1 DEF TurningBack
  <2> QED BY <2>1, TurningBackFacts
<1>3. CASE file.state = "ACTIVE" /\ GoTo("revertFile")
  <2>1. pc' = "revertFile" /\ run' = run /\ jobs' = jobs /\ Job' = Job
    BY <1>3 DEF GoTo, Job
  <2>2. ~Restoring'
    BY <1>2, <2>1 DEF Restoring
  <2>3. ~Spent(run)
    BY <1>2 DEF Spent
  <2>4. /\ World'
        /\ \A c \in JobIds : Carries(c) => Carries(c)'
    BY <1>1, <1>2, <1>3, <2>2, <2>3, GoOn
  <2>5. Carries(run)'
    BY <1>2, <2>1, <2>4
  <2>6. file.name = Job.src.name
    BY <1>2, <1>3 DEF Moves
  <2>7. MoveIsRight'
    BY <1>1, <1>2, <1>3, <2>1, <2>5, <2>6 DEF MoveIsRight
  <2> QED BY <2>2, <2>4, <2>7 DEF InStep, RestoreIsRight
<1>4. CASE file.state # "ACTIVE" /\ Throw
  <2>1. Ends({"waiting", "failed"})
    BY <1>4, ThrowDoes, NowFacts
  <2>2. CASE jobs'[run].state = "waiting"
    BY <1>1, <1>2, <2>1, <2>2, EndSettles
  <2>3. CASE jobs'[run].state = "failed"
    <3>1. /\ run' = 0 /\ pc' = "idle" /\ JobIds' = JobIds
          /\ \A i \in JobIds : SameJob(i) /\ (i # run => SameState(i))
      BY <2>1 DEF Ends
    <3>2. row.key = Job.src /\ file.state = "DELETED" /\ WillPurge /\ metas = {}
      BY <1>1, <1>2, <1>4 DEF Moves
    <3>3. WillPurge'
      <4>1. ASSUME NEW p \in JobIds, Purges(p)  PROVE Purges(p)'
        <5>1. p # run /\ p # 0
          BY <1>2, <4>1, NowFacts, JobFacts
        <5> QED BY <3>1, <4>1, <5>1 DEF Purges, Pending, SameJob, SameState
      <4> QED BY <1>1, <3>1, <3>2, <4>1 DEF WillPurge
    <3>4. \A i \in JobIds' : jobs'[i].kind \in MoveKinds => ~Pending(i)'
      <4> SUFFICES ASSUME NEW i \in JobIds, jobs'[i].kind \in MoveKinds
                   PROVE  ~Pending(i)'
        BY <3>1
      <4>1. CASE i = run
        BY <2>3, <4>1 DEF Pending
      <4>2. CASE i # run
        <5>1. jobs[i].kind \in MoveKinds /\ ~Pending(i)
          BY <1>2, <3>1, <4>2 DEF SameJob
        <5> QED BY <3>1, <4>2, <5>1 DEF Pending, SameState
      <4> QED BY <4>1, <4>2
    <3>5. ~Restoring' /\ Syncing(row)'
      BY <1>1, <1>2, <3>1 DEF Restoring, Syncing
    <3>6. Doomed'
      BY <1>1, <1>2, <3>1, <3>2, <3>3, <3>4, <3>5 DEF Doomed
    <3>7. Left' = {}
      BY <1>1, <3>1, <3>2 DEF Left, Deleting
    <3>8. World'
      BY <3>4, <3>5, <3>6, <3>7 DEF World, SyncingIsCarried, AvailableIsRight, Available,
         Syncing, MovesAreUseful, MetaOfTrashed
    <3> QED BY <3>1, <3>8 DEF InStep, RestoreIsRight, Restoring, MoveIsRight
  <2> QED BY <2>1, <2>2, <2>3 DEF Ends
<1> QED BY <1>3, <1>4 DEF ReadMovedFile

LEMMA RevertFileSettles ==
  ASSUME Now, run # 0, RevertFile
  PROVE  InStep'
<1>1. /\ pc = "revertFile" /\ file' = [fileCopy EXCEPT !.dir = Job.from]
      /\ pc' = "revertRow" /\ run' = run /\ jobs' = jobs /\ Job' = Job
      /\ UNCHANGED <<row, at, metas, active, purging, duplicates, nasCopy>>
  BY DEF RevertFile, At, GoTo, Job, copyVars, purgeVars, boundVars
<1>2. /\ Job.kind = "move" /\ Job = jobs[run] /\ run \in JobIds
      /\ Carries(run) /\ active # Folders /\ nasCopy.key = Job.src
      /\ Moves(Job, FALSE) /\ Syncing(row) /\ at = Job.src /\ Left = metas
      /\ \A i \in JobIds : jobs[i].kind \in MoveKinds /\ Pending(i) => i = run
  <2>1. (pc = "revertRow") = FALSE /\ pc \in TurningBack
    BY <1>1 DEF TurningBack
  <2> QED BY <2>1, TurningBackFacts
<1>3. file'.state = "ACTIVE" /\ file'.name = Job.src.name /\ file'.dir = Job.from
  <2>1. fileCopy.state = "ACTIVE" /\ fileCopy.name = Job.src.name
    BY <1>1, <1>2, NowFacts DEF MoveIsRight, MoveKinds
  <2> QED BY <1>1, <2>1, NowFacts DEF Files
<1>4. Left' = {}
  BY <1>1, <1>2 DEF Left, Deleting, Moves
<1>5. Moves(jobs[run], run = run /\ pc = "revertRow")'
  BY <1>1, <1>2, <1>3, <1>4 DEF Moves
<1>6. Carries(run)'
  <2>1. Newest(run)'
    BY <1>1, <1>2 DEF Carries, Newest, JobIds
  <2>2. /\ Syncing(row)' /\ Pending(run)' /\ jobs'[run].kind = "move"
    BY <1>1, <1>2 DEF Carries, Syncing, Pending
  <2>3. at' = jobs'[run].src /\ TargetOf(jobs[run])' # jobs'[run].src
    BY <1>1, <1>2 DEF Carries, TargetOf
  <2> QED BY <1>1, <1>5, <2>1, <2>2, <2>3 DEF Carries
<1>7. World'
  <2>1. SyncingIsCarried'
    BY <1>1, <1>2, <1>6 DEF SyncingIsCarried, JobIds
  <2>2. AvailableIsRight'
    BY <1>1, <1>2 DEF AvailableIsRight, Available, Syncing
  <2>3. \A i \in JobIds' : jobs'[i].kind \in MoveKinds /\ Pending(i)' => i = run'
    BY <1>1, <1>2 DEF JobIds, Pending
  <2>4. MovesAreUseful'
    BY <1>6, <2>3 DEF MovesAreUseful
  <2> QED BY <1>4, <2>1, <2>2, <2>4 DEF World, MetaOfTrashed
<1>8. RestoreIsRight' /\ MoveIsRight'
  BY <1>1, <1>2, <1>6 DEF RestoreIsRight, Restoring, MoveIsRight
<1> QED BY <1>7, <1>8 DEF InStep

LEMMA RevertRowSettles ==
  ASSUME Now, run # 0, RevertRow
  PROVE  InStep'
<1>1. /\ pc = "revertRow" /\ Ends({"done"}) /\ row' = [nasCopy EXCEPT !.status = "AVAILABLE"]
      /\ UNCHANGED <<file, at, metas, active, purging, duplicates>>
  BY FinishDoes, NowFacts DEF RevertRow, At, copyVars, purgeVars, boundVars
<1>2. /\ Job.kind = "move" /\ Job = jobs[run] /\ run \in JobIds
      /\ nasCopy.key = Job.src
      /\ Moves(Job, TRUE) /\ at = Job.src /\ Left = metas
      /\ \A i \in JobIds : jobs[i].kind \in MoveKinds /\ Pending(i) => i = run
  <2>1. (pc = "revertRow") = TRUE /\ pc \in TurningBack
    BY <1>1 DEF TurningBack
  <2> QED BY <2>1, TurningBackFacts
<1>3. /\ run' = 0 /\ pc' = "idle" /\ JobIds' = JobIds /\ jobs'[run].state = "done"
      /\ \A i \in JobIds : SameJob(i) /\ (i # run => SameState(i))
  BY <1>1 DEF Ends
<1>4. row'.key = Job.src /\ row'.status = "AVAILABLE"
  BY <1>1, <1>2, NowFacts DEF Rows, NoRow, Row
<1>5. SyncingIsCarried'
  BY <1>4 DEF SyncingIsCarried, Syncing
<1>6. AvailableIsRight'
  <2>1. /\ file.state # "TRASHED" /\ Job.from = Job.src.dir
        /\ file.state = "ACTIVE" => file.name = Job.src.name /\ file.dir = Job.from
    BY <1>2 DEF Moves
  <2> QED BY <1>1, <1>2, <1>4, <2>1 DEF AvailableIsRight
<1>7. \A i \in JobIds' : jobs'[i].kind \in MoveKinds => ~Pending(i)'
  <2> SUFFICES ASSUME NEW i \in JobIds, jobs'[i].kind \in MoveKinds
               PROVE  ~Pending(i)'
    BY <1>3
  <2>1. CASE i = run
    BY <1>3, <2>1 DEF Pending
  <2>2. CASE i # run
    <3>1. jobs[i].kind \in MoveKinds /\ ~Pending(i)
      BY <1>2, <1>3, <2>2 DEF SameJob
    <3> QED BY <1>3, <2>2, <3>1 DEF Pending, SameState
  <2> QED BY <2>1, <2>2
<1>8. Left' = {}
  BY <1>1, <1>2, <1>3 DEF Left, Deleting, Moves
<1>9. World'
  BY <1>5, <1>6, <1>7, <1>8 DEF World, MovesAreUseful, MetaOfTrashed
<1> QED BY <1>3, <1>9 DEF InStep, RestoreIsRight, Restoring, MoveIsRight

-----------------------------------------------------------------------------
(* The steps that move the content and save where it is.                    *)

(* A move that is left when a restore runs is of an earlier request.        *)
LEMMA MovesBeforeRestore ==
  ASSUME Now, run # 0, Job.kind = "restore", NEW i \in JobIds,
         jobs[i].kind \in MoveKinds, Pending(i),
         Spent(i) \/ jobs[i].asked = Job.meta
  PROVE  jobs[i].state = "waiting" /\ jobs[i].asked < jobs[run].asked
<1>1. /\ run \in JobIds /\ Job = jobs[run] /\ ~late
      /\ jobs[run].asked \in Nat /\ jobs[i].asked \in Nat
  BY NowFacts, JobFacts
<1>2. i # run
  BY <1>1 DEF MoveKinds
<1>3. jobs[i].state = "waiting"
  BY <1>2 DEF Pending, Now, Order, OneActive
<1>4. CASE jobs[i].asked = Job.meta
  BY <1>1, <1>3, <1>4 DEF Now, Order, RestoresLater
<1>5. CASE Spent(i)
  <2>1. PICK j \in JobIds : Twins(i, j) /\ jobs[j].state = "done"
    BY <1>5 DEF Spent
  <2>2. ~(jobs[j].asked > jobs[run].asked)
    BY <1>1, <2>1 DEF Now, Order, LaterWait
  <2>3. ~Twins(i, run)
    BY <1>1 DEF Now, Order, TwinsAgree, MoveKinds
  <2>4. jobs[i].asked # jobs[run].asked
    BY <1>1, <2>3 DEF Twins, MoveKinds
  <2> QED BY <1>1, <1>3, <2>1, <2>2, <2>4 DEF Twins
<1> QED BY <1>4, <1>5

(* Two jobs that carry the row are of one request.                          *)
LEMMA CarriersAreTwins ==
  ASSUME Now, NEW c \in JobIds, NEW d \in JobIds, Carries(c), Carries(d)
  PROVE  /\ Twins(c, d) /\ jobs[c].kind = jobs[d].kind
         /\ jobs[c].src = jobs[d].src /\ jobs[c].dst = jobs[d].dst
         /\ TargetOf(jobs[c]) = TargetOf(jobs[d])
         /\ duplicates = 0 => c = d
<1>1. /\ jobs[c].kind \in MoveKinds /\ jobs[d].kind \in MoveKinds
      /\ jobs[c].asked <= jobs[d].asked /\ jobs[d].asked <= jobs[c].asked
  BY DEF Carries, Newest
<1>2. jobs[c].asked = jobs[d].asked
  BY <1>1, JobFacts, NowFacts
<1>3. Twins(c, d)
  BY <1>1, <1>2 DEF Twins, MoveKinds
<1>4. /\ jobs[c].kind = jobs[d].kind
      /\ jobs[c].src = jobs[d].src /\ jobs[c].dst = jobs[d].dst
      /\ duplicates = 0 => c = d
  BY <1>3 DEF Now, Order, TwinsAgree
<1> QED BY <1>3, <1>4 DEF TargetOf

LEMMA RestoreMoveSettles ==
  ASSUME Now, run # 0, Move, Job.kind = "restore", Calm'
  PROVE  InStep'
<1>1. /\ pc = "move" /\ Job = jobs[run] /\ run \in JobIds
      /\ UNCHANGED <<file, row, metas, active, purging, duplicates, nasCopy, fileCopy>>
      /\ Left = metas
  BY NowFacts DEF Move, At, copyVars, purgeVars, boundVars, Left, Deleting
<1>2. Restoring /\ ~Purges(run) /\ ~Carries(run)
  BY <1>1 DEF Restoring, RestoreSteps, Purges, Carries, Newest, MoveKinds
<1>3. CASE UNCHANGED at /\ Throw
  BY <1>1, <1>2, <1>3, ThrowDoes, EndSettles, NowFacts
<1>4. CASE at = Source /\ Source # Target /\ at' = Target /\ GoTo("save")
  <2>1. pc' = "save" /\ run' = run /\ jobs' = jobs /\ Job' = Job /\ Target' = Target
    BY <1>1, <1>4 DEF GoTo, Job, Target
  <2>2. ASSUME NEW i \in JobIds, jobs[i].state = "waiting", jobs[i].asked < jobs[run].asked
        PROVE  FALSE
    <3>1. jobs'[i].state = "waiting" /\ jobs'[run].asked > jobs'[i].asked
      BY <2>1, <2>2, NowFacts, JobFacts
    <3>2. Overtaken'
      BY <1>1, <2>1, <3>1 DEF Overtaken, Committed, JobIds
    <3> QED BY <3>2 DEF Calm
  <2>3. ~Syncing(row)
    <3> SUFFICES ASSUME Syncing(row)  PROVE FALSE
      OBVIOUS
    <3>1. PICK c \in JobIds : Carries(c) /\ jobs[c].asked = Job.meta
      BY <1>2, NowFacts DEF RestoreIsRight
    <3>2. jobs[c].kind \in MoveKinds /\ Pending(c)
      BY <3>1 DEF Carries, Newest
    <3> QED BY <2>2, <3>1, <3>2, MovesBeforeRestore
  <2>4. Available(row) /\ nasCopy.key = row.key
    BY <1>1, <1>2, <2>3, NowFacts DEF Syncing, Available, RestoreIsRight
  <2>5. \A i \in JobIds : jobs[i].kind \in MoveKinds => ~Pending(i)
    <3> SUFFICES ASSUME NEW i \in JobIds, jobs[i].kind \in MoveKinds, Pending(i)
                 PROVE  FALSE
      OBVIOUS
    <3>1. Spent(i)
      BY <2>3, NowFacts DEF MovesAreUseful, Carries
    <3> QED BY <2>2, <3>1, MovesBeforeRestore
  <2>6. SyncingIsCarried' /\ AvailableIsRight'
    <3>1. ~Syncing(row)'
      BY <1>1, <2>3 DEF Syncing
    <3> QED BY <1>1, <2>1, <3>1, NowFacts DEF SyncingIsCarried, AvailableIsRight, Available
  <2>7. MovesAreUseful'
    BY <2>1, <2>5 DEF MovesAreUseful, JobIds, Pending
  <2>8. MetaOfTrashed'
    <3>1. Left' = Left
      BY <1>1, <2>1 DEF Left, Deleting
    <3> QED BY <1>1, <3>1, NowFacts DEF MetaOfTrashed
  <2>9. RestoreIsRight'
    BY <1>1, <1>2, <1>4, <2>1, <2>3, <2>4, NowFacts DEF RestoreIsRight, Syncing, Available
  <2>10. MoveIsRight'
    BY <2>1 DEF MoveIsRight, MoveKinds
  <2> QED BY <2>6, <2>7, <2>8, <2>9, <2>10 DEF InStep, World
<1> QED BY <1>3, <1>4 DEF Move

LEMMA CarrierMoveSettles ==
  ASSUME Now, run # 0, Move, Job.kind \in MoveKinds, Calm'
  PROVE  InStep'
<1>1. /\ pc = "move" /\ Job = jobs[run] /\ run \in JobIds /\ Pending(run)
      /\ UNCHANGED <<file, row, metas, active, purging, duplicates, nasCopy, fileCopy>>
      /\ Left = metas /\ Job.kind \notin {"restore", "purge"}
  BY NowFacts DEF Move, At, copyVars, purgeVars, boundVars, Left, Deleting, MoveKinds
<1>2. Source = Job.src /\ Target = TargetOf(Job)
  BY <1>1 DEF Source, Target, TargetOf
<1>3. Carries(run) => at = Job.src /\ TargetOf(Job) # Job.src
  BY <1>1 DEF Carries
<1>4. CASE (at # Source \/ Source = Target) /\ UNCHANGED at /\ Throw
  <2>1. ~Carries(run) /\ ~Purges(run)
    BY <1>1, <1>2, <1>3, <1>4 DEF Purges
  <2> QED BY <1>1, <1>4, <2>1, ThrowDoes, EndSettles, NowFacts
<1>5. CASE at = Source /\ Source # Target /\ at' = Target /\ GoTo("save")
  <2>1. pc' = "save" /\ run' = run /\ jobs' = jobs /\ Job' = Job /\ JobIds' = JobIds
    BY <1>5 DEF GoTo, Job, JobIds
  <2>2. Carries(run)
    <3>1. ~Spent(run)
      BY <1>1, <1>2, <1>5 DEF Spent
    <3> QED BY <1>1, <3>1, NowFacts DEF MovesAreUseful
  <2>3. Left' = Left
    BY <1>1, <2>1 DEF Left, Deleting
  <2>4. WillPurge => WillPurge'
    <3>1. ASSUME NEW p \in JobIds, Purges(p)  PROVE Purges(p)'
      <4>1. p # run
        BY <1>1, <3>1 DEF Purges
      <4> QED BY <2>1, <3>1, <4>1 DEF Purges, Pending
    <3> QED BY <1>1, <2>1, <3>1 DEF WillPurge
  <2>5. ASSUME NEW c \in JobIds, Carries(c)  PROVE Carries(c)'
    <3>1. /\ Twins(c, run) /\ TargetOf(jobs[c]) = TargetOf(Job)
      BY <1>1, <2>2, <2>5, CarriersAreTwins
    <3>2. Running(c)'
      BY <2>1, <3>1 DEF Running, Twins
    <3>3. TargetOf(jobs[c])' = TargetOf(jobs[c]) /\ jobs'[c] = jobs[c]
      BY <2>1 DEF TargetOf
    <3>4. at' = TargetOf(jobs[c])' /\ TargetOf(jobs[c])' # jobs'[c].src
      BY <1>2, <1>5, <2>5, <3>1, <3>3 DEF Carries
    <3>5. Syncing(row)' /\ Newest(c)' /\ Pending(c)'
      BY <1>1, <2>1, <2>5 DEF Carries, Syncing, Newest, Pending
    <3>6. jobs[c].kind = "rename" => Renames(jobs[c])'
      BY <1>1, <2>3, <2>5, <3>3 DEF Carries, Renames
    <3>7. jobs[c].kind = "move" => Moves(jobs[c], c = run /\ pc = "revertRow")'
      BY <1>1, <2>1, <2>3, <2>4, <2>5, <3>3 DEF Carries, Moves
    <3>8. jobs[c].kind = "trash" => Trashes(jobs[c])'
      BY <1>1, <2>3, <2>5, <3>3 DEF Carries, Trashes
    <3> QED BY <2>1, <3>2, <3>3, <3>4, <3>5, <3>6, <3>7, <3>8 DEF Carries
  <2>6. ASSUME NEW i \in JobIds, jobs[i].kind \in MoveKinds, Pending(i)  PROVE Carries(i)
    <3> SUFFICES ASSUME Spent(i)  PROVE FALSE
      BY <2>6, NowFacts DEF MovesAreUseful
    <3>1. i # run
      BY <1>1, <1>2, <1>5 DEF Spent
    <3>2. jobs[i].state = "waiting"
      BY <2>6, <3>1 DEF Pending, Now, Order, OneActive
    <3>3. jobs[i].asked <= jobs[run].asked
      BY <2>2, <2>6 DEF Carries, Newest
    <3>4. jobs[i].asked # jobs[run].asked
      <4> SUFFICES ASSUME Twins(i, run)  PROVE FALSE
        BY <1>1, <2>6 DEF Twins, MoveKinds
      <4>1. jobs[i].kind = jobs[run].kind /\ jobs[i].src = jobs[run].src
        BY <1>1 DEF Now, Order, TwinsAgree
      <4> QED BY <1>1, <1>2, <1>5, <4>1 DEF Spent
    <3>5. jobs[run].asked > jobs[i].asked
      BY <1>1, <3>3, <3>4, NowFacts, JobFacts
    <3>6. Overtaken'
      BY <1>1, <2>1, <3>2, <3>5 DEF Overtaken, Committed
    <3> QED BY <3>6 DEF Calm
  <2>7. SyncingIsCarried' /\ MovesAreUseful'
    BY <1>1, <2>1, <2>2, <2>5, <2>6 DEF SyncingIsCarried, MovesAreUseful, Pending
  <2>8. AvailableIsRight'
    BY <1>1, <2>2 DEF AvailableIsRight, Available, Carries, Syncing
  <2>9. MetaOfTrashed'
    BY <1>1, <2>3, NowFacts DEF MetaOfTrashed
  <2>10. RestoreIsRight'
    BY <1>1, <2>1 DEF RestoreIsRight, Restoring
  <2>11. MoveIsRight'
    <3>1. Job.kind = "move" => nasCopy.key = Job.src
      BY <1>1, <2>2, NowFacts DEF MoveIsRight
    <3>2. Carries(run)'
      BY <1>1, <2>1, <2>2, <2>5
    <3> QED BY <1>1, <2>1, <3>1, <3>2 DEF MoveIsRight, TurningBack
  <2> QED BY <2>7, <2>8, <2>9, <2>10, <2>11 DEF InStep, World
<1> QED BY <1>4, <1>5 DEF Move

LEMMA RestoreSaveSettles ==
  ASSUME Now, run # 0, SaveRow, Job.kind = "restore"
  PROVE  InStep'
<1>1. /\ pc = "save" /\ Job = jobs[run] /\ run \in JobIds /\ Left = metas
      /\ row' = [nasCopy EXCEPT !.key = Target, !.status = "AVAILABLE"]
      /\ pc' = "saveFile" /\ run' = run /\ jobs' = jobs /\ Job' = Job
      /\ UNCHANGED <<file, at, metas, active, purging, duplicates, nasCopy, fileCopy>>
  BY NowFacts DEF SaveRow, At, AfterSave, GoTo, Job, copyVars, purgeVars, boundVars, Left,
     Deleting
<1>2. Restoring
  BY <1>1 DEF Restoring, RestoreSteps
<1>3. /\ file.state # "ACTIVE" /\ metas \subseteq {Job.meta} /\ Available(row)
      /\ nasCopy.key = row.key /\ at = Target
      /\ fileCopy.state = "TRASHED" => fileCopy.name = row.key.name
      /\ file.state = "TRASHED" => row.key.name = file.name
  BY <1>1, <1>2, NowFacts DEF RestoreIsRight, AvailableIsRight
<1>4. /\ row'.key = Target /\ row'.status = "AVAILABLE"
      /\ Target.dir = Job.to /\ Target.name = row.key.name
  <2>1. row'.key = Target /\ row'.status = "AVAILABLE"
    BY <1>1, NowFacts DEF Rows, NoRow, Row
  <2>2. Target = RestorePath(row.key, Job.to)
    BY <1>3 DEF Target
  <2> QED BY <2>1, <2>2 DEF RestorePath, Key
<1>5. \A i \in JobIds : jobs[i].kind \in MoveKinds => ~Pending(i)
  <2> SUFFICES ASSUME NEW i \in JobIds, jobs[i].kind \in MoveKinds, Pending(i)
               PROVE  FALSE
    OBVIOUS
  <2>1. Spent(i)
    BY <1>3, NowFacts DEF MovesAreUseful, Carries, Syncing, Available
  <2>2. jobs[i].state = "waiting" /\ jobs[i].asked < jobs[run].asked
    BY <2>1, MovesBeforeRestore
  <2>3. jobs[run].asked > jobs[i].asked
    BY <1>1, <2>2, NowFacts, JobFacts
  <2>4. Overtaken
    BY <1>1, <2>2, <2>3 DEF Overtaken, Committed
  <2> QED BY <2>4 DEF Now, Calm
<1>6. SyncingIsCarried' /\ AvailableIsRight'
  BY <1>1, <1>3, <1>4 DEF SyncingIsCarried, Syncing, AvailableIsRight
<1>7. MovesAreUseful'
  BY <1>1, <1>5 DEF MovesAreUseful, JobIds, Pending
<1>8. MetaOfTrashed'
  <2>1. Left' = Left
    BY <1>1 DEF Left, Deleting
  <2> QED BY <1>1, <2>1, NowFacts DEF MetaOfTrashed
<1>9. RestoreIsRight' /\ MoveIsRight'
  <2>1. ~Syncing(row)' /\ Available(row)'
    BY <1>4 DEF Syncing, Available
  <2>2. RestoreIsRight'
    BY <1>1, <1>3, <1>4, <2>1 DEF RestoreIsRight
  <2> QED BY <1>1, <2>2 DEF MoveIsRight, MoveKinds
<1> QED BY <1>6, <1>7, <1>8, <1>9 DEF InStep, World

(* The row is AVAILABLE again, and the other job of the event is spent.     *)
LEMMA CarrierSaveSettles ==
  ASSUME Now, run # 0, SaveRow, Job.kind \in MoveKinds
  PROVE  InStep'
<1>1. /\ pc = "save" /\ Job = jobs[run] /\ run \in JobIds /\ Left = metas
      /\ row' = [nasCopy EXCEPT !.key = Target, !.status = "AVAILABLE"]
      /\ Finish /\ Job.kind # "restore" /\ Job.kind # "purge"
      /\ UNCHANGED <<file, at, metas, active, purging, duplicates>>
  BY NowFacts DEF SaveRow, At, AfterSave, copyVars, purgeVars, boundVars, Left,
     Deleting, MoveKinds
<1>2. Carries(run) /\ Target = TargetOf(Job)
  BY <1>1, NowFacts DEF MoveIsRight, Target, TargetOf
<1>3. at = Target /\ at # Job.src
  <2>1. Running(run)
    BY <1>1 DEF Running, Twins
  <2> QED BY <1>1, <1>2, <2>1 DEF Carries
<1>4. row'.key = Target /\ row'.status = "AVAILABLE"
  BY <1>1, NowFacts DEF Rows, NoRow, Row
<1>5. /\ run' = 0 /\ pc' = "idle" /\ JobIds' = JobIds /\ jobs'[run].state = "done"
      /\ 0 \notin JobIds
      /\ \A i \in JobIds : SameJob(i) /\ (i # run => SameState(i))
  BY <1>1, FinishDoes, NowFacts, JobFacts DEF Ends
<1>6. SyncingIsCarried'
  BY <1>4 DEF SyncingIsCarried, Syncing
<1>7. AvailableIsRight'
  <2>1. /\ file.state = "ACTIVE" => Target.dir = file.dir /\ Target.name = file.name
        /\ file.state = "TRASHED" => Target.name = file.name
    <3>1. CASE Job.kind = "rename"
      <4>1. Renames(Job)
        BY <1>1, <1>2, <3>1 DEF Carries
      <4>2. Target.dir = Job.src.dir /\ Target.name = Job.dst.name
        BY <1>2, <3>1 DEF TargetOf, RenameTarget, Key
      <4> QED BY <4>1, <4>2 DEF Renames
    <3>2. CASE Job.kind = "move"
      <4>1. Moves(Job, FALSE)
        <5>1. (run = run /\ pc = "revertRow") = FALSE
          BY <1>1
        <5>2. Moves(jobs[run], run = run /\ pc = "revertRow")
          BY <1>1, <1>2, <3>2 DEF Carries
        <5> QED BY <1>1, <5>1, <5>2
      <4>2. Target = MoveTarget(Job.src, Job.to)
        BY <1>2, <3>2, <4>1 DEF TargetOf, Moves
      <4>3. Target.dir = Job.to /\ Target.name = Job.src.name
        BY <4>2 DEF MoveTarget, Key
      <4> QED BY <4>1, <4>3 DEF Moves
    <3>3. CASE Job.kind = "trash"
      <4>1. Trashes(Job)
        BY <1>1, <1>2, <3>3 DEF Carries
      <4>2. Target = Job.dst
        BY <1>2, <3>3 DEF TargetOf
      <4> QED BY <4>1, <4>2 DEF Trashes
    <3> QED BY <3>1, <3>2, <3>3 DEF MoveKinds
  <2> QED BY <1>1, <1>3, <1>4, <2>1 DEF AvailableIsRight
<1>8. MovesAreUseful'
  <2> SUFFICES ASSUME NEW i \in JobIds, jobs'[i].kind \in MoveKinds, Pending(i)'
               PROVE  Spent(i)'
    BY <1>5 DEF MovesAreUseful
  <2>1. i # run /\ jobs[i].kind \in MoveKinds /\ Pending(i)
    BY <1>5 DEF Pending, SameJob, SameState
  <2>2. TargetOf(jobs[i])' = TargetOf(jobs[i]) /\ jobs'[i].src = jobs[i].src
    BY <1>5 DEF TargetOf, SameJob
  <2>3. /\ duplicates # 0 /\ at = TargetOf(jobs[i]) /\ at # jobs[i].src
        /\ \E j \in JobIds : Twins(i, j) /\ (jobs[j].state = "done" \/ j = run)
    <3>1. CASE Spent(i)
      BY <3>1 DEF Spent
    <3>2. CASE Carries(i)
      <4>1. /\ Twins(i, run) /\ jobs[i].src = Job.src /\ TargetOf(jobs[i]) = TargetOf(Job)
            /\ duplicates # 0
        BY <1>1, <1>2, <2>1, <3>2, CarriersAreTwins
      <4> QED BY <1>1, <1>2, <1>3, <4>1
    <3> QED BY <2>1, <3>1, <3>2, NowFacts DEF MovesAreUseful
  <2>4. PICK j \in JobIds : Twins(i, j) /\ (jobs[j].state = "done" \/ j = run)
    BY <2>3
  <2>5. Twins(i, j)' /\ jobs'[j].state = "done"
    BY <1>5, <2>4 DEF Twins, SameJob, SameState
  <2> QED BY <1>1, <1>5, <2>2, <2>3, <2>5 DEF Spent
<1>9. MetaOfTrashed'
  <2>1. Left' = Left
    BY <1>1, <1>5 DEF Left, Deleting
  <2> QED BY <1>1, <2>1, NowFacts DEF MetaOfTrashed
<1> QED BY <1>5, <1>6, <1>7, <1>8, <1>9 DEF InStep, World, RestoreIsRight, Restoring,
  MoveIsRight

-----------------------------------------------------------------------------
(* Every step, and what it comes to.                                        *)

LEMMA HandleSettles ==
  ASSUME Now, run # 0, Handle, Calm'
  PROVE  InStep'
<1>1. Job.kind \in Kinds
  BY NowFacts DEF JobRecords
<1>2. CASE Move
  <2>1. Job.kind # "purge"
    BY <1>2 DEF Move, At, Now, Places, StepsOfKind, PurgeSteps
  <2> QED
    BY <1>1, <1>2, <2>1, RestoreMoveSettles, CarrierMoveSettles DEF Kinds, MoveKinds
<1>3. CASE SaveRow
  <2>1. Job.kind # "purge"
    BY <1>3 DEF SaveRow, At, Now, Places, StepsOfKind, PurgeSteps
  <2> QED
    BY <1>1, <1>3, <2>1, RestoreSaveSettles, CarrierSaveSettles DEF Kinds, MoveKinds
<1>4. ~DeleteRow
  BY DEF DeleteRow, At, Now, Calm
<1>5. ~PermanentDelete
  BY NowFacts DEF PermanentDelete, At, Now, Calm, Places, RowsFound, LostRow
<1> QED
  BY <1>2, <1>3, <1>4, <1>5, ReadMetaSettles, ReadFileSettles, CheckFolderSettles,
     ReadRowSettles, ReadMovedFileSettles, RevertFileSettles, RevertRowSettles,
     SaveFileSettles, DeleteMetaSettles, DeleteContentSettles DEF Handle

LEMMA NextSettles ==
  ASSUME IndInv, IndInv', SettleInv, Next
  PROVE  SettleInv'
<1>1. Books /\ Books' /\ Order /\ Places
  BY DEF IndInv, SettleInv
<1>2. Order' /\ Places'
  BY <1>1, OrderStep, PlacesStep
<1>3. ASSUME Calm'  PROVE InStep'
  <2>1. Calm /\ ~Fail /\ ~Crash
    BY <1>1, <1>3, CalmBefore
  <2>2. Now
    BY <1>1, <2>1 DEF SettleInv, Now
  <2>3. CASE Request
    BY <2>2, <2>3, RenameRequestSettles, MoveRequestSettles, DeleteRequestSettles,
       RestoreRequestSettles, PurgeRequestSettles, SavePurgedSettles, QueuePurgeSettles,
       TrashFolderSettles DEF Request
  <2>4. CASE Download
    BY <1>3, <2>2, <2>4, DownloadSettles DEF Calm, Quiet
  <2>5. ASSUME NEW i \in JobIds, StartJob(i) \/ Duplicate(i)  PROVE InStep'
    BY <1>3, <2>2, <2>5, StartSettles, DuplicateSettles
  <2>6. CASE Handle
    <3>1. run # 0
      BY <2>6, HandleBooks DEF IndInv
    <3> QED BY <1>3, <2>2, <2>6, <3>1, HandleSettles
  <2> QED BY <2>1, <2>3, <2>4, <2>5, <2>6 DEF Next, JobIds
<1> QED BY <1>2, <1>3 DEF SettleInv

LEMMA StutterSettles ==
  ASSUME IndInv, SettleInv, UNCHANGED vars
  PROVE  SettleInv'
<1>1. UNCHANGED <<file, row, at, metas, active, jobs, run, pc, nasCopy, fileCopy,
                  purging, requests, duplicates, troubles, stale, late>>
  BY DEF vars, rowVars, copyVars, purgeVars, boundVars, historyVars
<1>2. Order' /\ Places'
  BY <1>1 DEF SettleInv, Order, OneActive, AskedBefore, RestoresLater, TwinsAgree, LaterWait,
     Twins, JobIds, Places, StepsOfKind, RowsFound, HasRow, LostRow, Job
<1>3. ASSUME Calm'  PROVE InStep'
  <2>1. Calm
    BY <1>1, <1>3 DEF Calm, Quiet, Overtaken, JobIds
  <2>2. Now
    BY <2>1 DEF SettleInv, Now
  <2>3. Books /\ InStep /\ active \subseteq Folders
    BY <2>2, NowFacts DEF Now
  <2>4. /\ \A i \in JobIds : i \in JobIds' /\ SameJob(i) /\ SameState(i)
        /\ \A i \in JobIds' : i \notin JobIds => jobs'[i].kind \notin MoveKinds
    BY <1>1 DEF SameJob, SameState, JobIds
  <2>5. purging # 0 => WillPurge'
    BY <1>1 DEF WillPurge
  <2>6. Frame
    BY <1>1, <2>3, <2>4, <2>5, AsideFrame
  <2> QED BY <1>1, <2>3, <2>4, <2>6, BystanderStep
<1> QED BY <1>2, <1>3 DEF SettleInv

LEMMA InitSettles == Init => SettleInv
<1> SUFFICES ASSUME Init  PROVE SettleInv
  OBVIOUS
<1>1. JobIds = {} /\ run = 0 /\ pc = "idle" /\ metas = {} /\ at = row.key
  BY DEF Init, JobIds, Row
<1>2. Order
  BY <1>1 DEF Order, OneActive, AskedBefore, RestoresLater, TwinsAgree, LaterWait
<1>3. Places
  BY <1>1 DEF Places, StepsOfKind, RowsFound, HasRow, LostRow, TurningBack
<1>4. World
  <2>1. /\ row.status = "AVAILABLE" /\ file.state = "ACTIVE"
        /\ row.key.dir = file.dir /\ row.key.name = file.name
    BY DEF Init, Row, UploadKey, Key
  <2> QED BY <1>1, <2>1 DEF World, SyncingIsCarried, Syncing, AvailableIsRight, MovesAreUseful,
      MetaOfTrashed, Left
<1>5. InStep
  BY <1>1, <1>4 DEF InStep, RestoreIsRight, Restoring, MoveIsRight
<1> QED BY <1>2, <1>3, <1>5 DEF SettleInv

LEMMA Settling == Spec => []SettleInv
<1>1. IndInv /\ IndInv' /\ SettleInv /\ [Next]_vars => SettleInv'
  BY NextSettles, StutterSettles
<1> QED BY <1>1, InitSettles, Invariance, PTL DEF Spec

(* With no job left a quiet file is calm: nobody carries its row, and no    *)
(* purge will take it away.                                                 *)
LEMMA SettledFacts ==
  ASSUME IndInv, SettleInv, Quiet, Settled, row # NoRow
  PROVE  /\ ~Syncing(row)
         /\ Available(row) => at = row.key
         /\ Available(row) /\ file.state = "ACTIVE"
              => row.key.dir = file.dir /\ row.key.name = file.name
<1>1. /\ run = 0 /\ purging = 0 /\ pc = "idle" /\ 0 \notin JobIds
      /\ \A i \in JobIds : jobs[i].state # "waiting"
  BY JobFacts DEF Settled, IndInv, Books, JobIds
<1>2. Calm
  BY <1>1 DEF Calm, Overtaken
<1>3. World
  BY <1>2 DEF SettleInv, InStep
<1>4. \A i \in JobIds : ~Pending(i)
  BY <1>1 DEF Pending, SettleInv, Order, OneActive
<1>5. ~Doomed
  BY <1>1, <1>4 DEF Doomed, WillPurge, Purges
<1>6. \A c \in JobIds : ~Carries(c)
  BY <1>4 DEF Carries
<1> QED BY <1>1, <1>3, <1>5, <1>6 DEF World, SyncingIsCarried, AvailableIsRight

(* No file is left SYNCING: whenever the jobs of a quiet file are over, the *)
(* last of them has saved its row as AVAILABLE, or a purge has taken it     *)
(* away, however many requests there were and in whatever order jobs of one *)
(* request, and those the recovery adds, have run.                          *)
THEOREM NobodyIsLeftSyncing == Spec => []NobodyLeftSyncing
<1>1. ASSUME IndInv, SettleInv  PROVE NobodyLeftSyncing
  <2>1. row.status = "SYNCING" => row # NoRow
    BY DEF NoRow, Row
  <2> QED BY <1>1, <2>1, SettledFacts DEF NobodyLeftSyncing, Syncing
<1> QED BY <1>1, Invariance, Settling, PTL

(* An ACTIVE file ends on the NAS in the folder and under the name that its *)
(* user sees.                                                               *)
THEOREM FilesEndInPlace == Spec => []ActiveFileInPlace
<1>1. ASSUME IndInv, SettleInv  PROVE ActiveFileInPlace
  <2> SUFFICES ASSUME Quiet, Settled, file.state = "ACTIVE", row # NoRow
               PROVE  at = row.key /\ row.key.dir = file.dir /\ row.key.name = file.name
    BY DEF ActiveFileInPlace
  <2>1. ~Syncing(row) /\ row.status \in {"AVAILABLE", "SYNCING"}
    BY <1>1, SettledFacts, StatusFacts DEF IndInv, Asked
  <2>2. Available(row)
    BY <2>1 DEF Syncing, Available
  <2> QED BY <1>1, <2>2, SettledFacts
<1> QED BY <1>1, Invariance, Settling, PTL
-----------------------------------------------------------------------------
(* The jobs of the file and the queue they are in.                          *)

(* Every job was asked for or is a duplicate, so that JobNumbers suffices.  *)
JobsCounted ==
  Len(jobs) + (IF purging # 0 THEN 1 ELSE 0) <= requests + duplicates

(* A job that is new, as a request or the recovery registers it.            *)
Registers(j) ==
  /\ jobs' = Append(jobs, j) /\ j.state = "waiting" /\ j.throws = 0

(* The steps that touch the jobs.                                           *)
LEMMA JobSteps ==
  ASSUME IndInv, [Next]_vars
  PROVE  \/ UNCHANGED jobs
         \/ \E j : Registers(j)
         \/ \E i \in JobIds : StartJob(i)
         \/ run # 0 /\ (Finish \/ Throw)
         \/ Crash
<1>1. CASE Request
  <2>1. ASSUME NEW kind, NEW src, NEW dst, NEW to, NEW m, Enqueue(kind, src, dst, to, m)
        PROVE  \E j : Registers(j)
    <3> DEFINE j == [kind |-> kind, src |-> src, dst |-> dst, from |-> file.dir,
                     to |-> to, meta |-> m, asked |-> requests', state |-> "waiting",
                     throws |-> 0]
    <3>1. jobs' = Append(jobs, j) /\ j.state = "waiting" /\ j.throws = 0
      BY <2>1 DEF Enqueue
    <3> QED BY <3>1 DEF Registers
  <2> QED BY <1>1, <2>1 DEF Request, RequestRename, RequestMove, RequestDelete,
             RequestRestore, RequestPurge, SavePurged, QueuePurge, TrashFolder
<1>2. CASE Download
  BY <1>2, DownloadDoes
<1>3. ASSUME NEW i \in JobIds, Duplicate(i) PROVE \E j : Registers(j)
  <2> DEFINE j == [jobs[i] EXCEPT !.throws = 0]
  <2>1. jobs[i] \in JobRecords
    BY JobFacts DEF IndInv
  <2>2. jobs' = Append(jobs, j) /\ j.state = "waiting" /\ j.throws = 0
    BY <1>3, <2>1 DEF Duplicate, JobRecords
  <2> QED BY <2>2 DEF Registers
<1>4. CASE Handle
  <2>1. run # 0
    BY <1>4, HandleDoes
  <2>2. (\E s \in Steps \ {"idle"} : GoTo(s)) \/ Finish \/ Throw
    BY <1>4 DEF Handle, ReadMeta, ReadFile, CheckFolder, ReadRow, Move, SaveRow,
       ReadMovedFile, RevertFile, RevertRow, SaveFile, DeleteMeta, DeleteContent,
       DeleteRow, PermanentDelete, AfterSave, Steps
  <2> QED BY <2>1, <2>2 DEF GoTo
<1>5. CASE Fail
  BY <1>5 DEF Fail
<1>6. CASE UNCHANGED vars
  BY <1>6 DEF vars
<1> QED BY <1>1, <1>2, <1>3, <1>4, <1>5, <1>6 DEF Next, JobIds

(* None of them takes a job away, and only the first two add one.           *)
LEMMA JobsOfNext ==
  ASSUME IndInv, [Next]_vars
  PROVE  \/ Len(jobs') = Len(jobs)
         \/ Len(jobs') = Len(jobs) + 1 /\ \E j : Registers(j)
<1>1. jobs \in Seq(JobRecords) /\ Books' /\ Len(jobs) \in Nat
  BY StepInd, LenProperties DEF IndInv, Books
<1>2. CASE \E j : Registers(j)
  <2>1. PICK j : Registers(j)
    BY <1>2
  <2>2. Len(jobs') = Len(jobs) + 1
    BY <1>1, <2>1 DEF Registers
  <2> QED BY <2>1, <2>2
<1>3. CASE JobIds' = JobIds
  BY <1>1, <1>3, LenProperties DEF JobIds, Books
<1>4. (\E i \in JobIds : StartJob(i)) \/ Crash => JobIds' = JobIds
  BY StartDoes, CrashDoes DEF IndInv
<1>5. run # 0 /\ (Finish \/ Throw) => JobIds' = JobIds
  BY FinishDoes, ThrowDoes DEF IndInv, Ends
<1>6. UNCHANGED jobs => JobIds' = JobIds
  BY DEF JobIds
<1> QED BY <1>2, <1>3, <1>4, <1>5, <1>6, JobSteps

LEMMA CountStep ==
  ASSUME IndInv, JobsCounted, [Next]_vars
  PROVE  JobsCounted'
<1> DEFINE due == IF purging # 0 THEN 1 ELSE 0
<1>1. /\ Len(jobs) \in Nat /\ Len(jobs') \in Nat /\ requests \in Nat /\ duplicates \in Nat
      /\ Len(jobs) + due <= requests + duplicates /\ due \in {0, 1} /\ due' \in {0, 1}
  BY StepInd, LenProperties, NasAssumption DEF NasAssumption, IndInv, Books, Asked, Data, JobsCounted
<1>2. Len(jobs') = Len(jobs) \/ Len(jobs') = Len(jobs) + 1
  BY JobsOfNext
<1> SUFFICES Len(jobs') + due' <= requests' + duplicates'
  BY DEF JobsCounted
<1> HIDE DEF due
<1>3. CASE Request
  <2>1. CASE Accept
    <3>1. requests' = requests + 1
      BY <2>1 DEF Accept
    <3>2. CASE \E m \in metas : RequestPurge(m)
      <4>1. jobs' = jobs /\ duplicates' = duplicates /\ due = 0
        BY <3>2 DEF RequestPurge, due
      <4> QED BY <1>1, <3>1, <4>1
    <3>3. CASE \/ \E n \in Names : RequestRename(n)
               \/ \E d \in Folders : RequestMove(d)
               \/ RequestDelete
               \/ \E m \in metas, d \in Folders : RequestRestore(m, d)
      <4>1. due' = due /\ duplicates' = duplicates
        BY <3>3 DEF RequestRename, RequestMove, RequestDelete, RequestRestore,
                    purgeVars, due
      <4> QED BY <1>1, <1>2, <3>1, <4>1
    <3>4. ~SavePurged /\ ~QueuePurge /\ ~\E d \in Folders : TrashFolder(d)
      BY <1>1, <3>1 DEF SavePurged, QueuePurge, TrashFolder, boundVars
    <3> QED BY <1>3, <3>2, <3>3, <3>4 DEF Request
  <2>2. CASE ~Accept
    <3>1. SavePurged \/ QueuePurge \/ \E d \in Folders : TrashFolder(d)
      BY <1>3, <2>2 DEF Request, RequestRename, RequestMove, RequestDelete,
                        RequestRestore, RequestPurge
    <3>2. requests' = requests /\ duplicates' = duplicates
      BY <3>1 DEF SavePurged, QueuePurge, TrashFolder, boundVars
    <3>3. CASE QueuePurge
      <4>1. due = 1 /\ due' = 0
        BY <3>3 DEF QueuePurge, due
      <4> QED BY <1>1, <1>2, <3>2, <4>1
    <3>4. CASE SavePurged \/ \E d \in Folders : TrashFolder(d)
      <4>1. due' = due /\ jobs' = jobs
        BY <3>4 DEF SavePurged, TrashFolder, purgeVars, due
      <4> QED BY <1>1, <3>2, <4>1
    <3> QED BY <3>1, <3>3, <3>4
  <2> QED BY <2>1, <2>2
<1>4. CASE Download
  <2>1. jobs' = jobs /\ duplicates' = duplicates /\ requests' \in Nat /\ requests <= requests'
    BY <1>4, DownloadDoes
  <2>2. due' = due
    BY <1>4 DEF Download, DownloadRead, DownloadLease, DownloadEnd, DownloadReturn, purgeVars, due
  <2> QED BY <1>1, <2>1, <2>2
<1>5. ASSUME NEW i \in JobIds, Duplicate(i) PROVE Len(jobs') + due' <= requests' + duplicates'
  <2>1. due' = due /\ requests' = requests /\ duplicates' = duplicates + 1
    BY <1>5 DEF Duplicate, purgeVars, due
  <2> QED BY <1>1, <1>2, <2>1
<1>6. CASE (\E i \in JobIds : StartJob(i)) \/ Handle \/ Fail
  <2>1. due' = due /\ requests' = requests /\ duplicates' = duplicates
    <3>1. CASE \E i \in JobIds : StartJob(i)
      BY <3>1 DEF StartJob, purgeVars, boundVars, due
    <3>2. CASE Handle
      BY <3>2 DEF Handle, ReadMeta, ReadFile, CheckFolder, ReadRow, Move, SaveRow,
         ReadMovedFile, RevertFile, RevertRow, SaveFile, DeleteMeta, DeleteContent,
         DeleteRow, PermanentDelete, purgeVars, boundVars, due
    <3>3. CASE Fail
      BY <3>3 DEF Fail, purgeVars, due
    <3> QED BY <1>6, <3>1, <3>2, <3>3
  <2>2. JobIds' = JobIds
    <3>1. CASE \E i \in JobIds : StartJob(i)
      BY <3>1, StartDoes DEF IndInv
    <3>2. CASE Handle
      BY <3>2, HandleDoes DEF Ends, JobIds
    <3>3. CASE Fail
      BY <3>3, ThrowDoes DEF Fail, Ends, IndInv
    <3> QED BY <1>6, <3>1, <3>2, <3>3
  <2>3. Len(jobs') = Len(jobs)
    BY <2>2, StepInd, LenProperties DEF JobIds, IndInv, Books
  <2> QED BY <1>1, <2>1, <2>3
<1>7. CASE Crash
  <2>1. due' = 0 /\ requests' = requests /\ duplicates' = duplicates
    BY <1>7 DEF Crash, due
  <2>2. JobIds' = JobIds
    BY <1>7, CrashDoes DEF IndInv
  <2>3. Len(jobs') = Len(jobs)
    BY <2>2, StepInd, LenProperties DEF JobIds, IndInv, Books
  <2> QED BY <1>1, <2>1, <2>3
<1>8. CASE UNCHANGED vars
  <2>1. jobs' = jobs /\ due' = due /\ requests' = requests /\ duplicates' = duplicates
    BY <1>8 DEF vars, purgeVars, boundVars, due
  <2> QED BY <1>1, <2>1
<1> QED BY <1>3, <1>4, <1>5, <1>6, <1>7, <1>8 DEF Next, JobIds

LEMMA Counting == Spec => []JobsCounted
<1>1. Init => JobsCounted
  BY DEF Init, JobsCounted
<1> QED BY <1>1, CountStep, Invariance, PTL DEF Spec

(* Hence no job has a number beyond JobNumbers.                             *)
LEMMA NumbersSuffice ==
  ASSUME IndInv, JobsCounted
  PROVE  JobIds = 1..Len(jobs) /\ Len(jobs) \in Nat /\ JobIds \subseteq JobNumbers
<1>1. JobIds = 1..Len(jobs) /\ Len(jobs) \in Nat
  BY JobFacts, LenProperties DEF IndInv, Books
<1>2. /\ requests \in Nat /\ requests <= MaxRequests
      /\ duplicates \in Nat /\ duplicates <= MaxDuplicates
      /\ MaxRequests \in Nat /\ MaxDuplicates \in Nat
  BY NasAssumption DEF NasAssumption, IndInv, Asked, Data
<1>3. Len(jobs) <= requests + duplicates
  BY <1>1, <1>2 DEF JobsCounted
<1>4. Len(jobs) <= MaxRequests + MaxDuplicates
  BY <1>1, <1>2, <1>3
<1> QED BY <1>1, <1>2, <1>4 DEF JobNumbers

-----------------------------------------------------------------------------
(* The queue the jobs are in.                                               *)

Throws(i) == IF i \in DOMAIN jobs THEN jobs[i].throws ELSE 0

(* A step that leaves every job's state and errors as they are changes      *)
(* nothing of the queue.                                                    *)
LEMMA QueueStutters ==
  ASSUME \A i \in JobNumbers : QueueState(i)' = QueueState(i) /\ Throws(i)' = Throws(i)
  PROVE  UNCHANGED Queue!vars
<1>1. [i \in JobNumbers |-> QueueState(i)]' = [i \in JobNumbers |-> QueueState(i)]
  OBVIOUS
<1>2. {i \in JobNumbers : QueueState(i) = "done"}'
        = {i \in JobNumbers : QueueState(i) = "done"}
  OBVIOUS
<1>3. [i \in JobNumbers |-> Throws(i)]' = [i \in JobNumbers |-> Throws(i)]
  OBVIOUS
<1> QED BY <1>1, <1>2, <1>3 DEF Queue!vars, Throws

(* A new job is added to the queue.                                         *)
LEMMA RegisterAdds ==
  ASSUME IndInv, JobsCounted, IndInv', JobsCounted', NEW j, Registers(j)
  PROVE  \E i \in JobNumbers : Queue!Add(i)
<1>0. PICK new : new = Len(jobs) + 1
  OBVIOUS
<1>1. /\ jobs' = Append(jobs, j) /\ j.state = "waiting" /\ j.throws = 0
      /\ jobs \in Seq(JobRecords) /\ jobs' \in Seq(JobRecords)
  BY DEF Registers, IndInv, Books
<1>2. /\ Len(jobs) \in Nat /\ DOMAIN jobs = 1..Len(jobs)
      /\ DOMAIN jobs' = 1..Len(jobs') /\ Len(jobs') = new
      /\ DOMAIN jobs' \subseteq JobNumbers
  <2>1. Len(jobs) \in Nat /\ DOMAIN jobs = 1..Len(jobs)
    BY NumbersSuffice DEF JobIds
  <2>2. Len(jobs') = new /\ DOMAIN jobs' = 1..Len(jobs')
    BY <1>0, <1>1, LenProperties
  <2>3. Len(jobs') <= MaxRequests + MaxDuplicates
    <3>1. /\ requests' \in Nat /\ requests' <= MaxRequests
          /\ duplicates' \in Nat /\ duplicates' <= MaxDuplicates
          /\ MaxRequests \in Nat /\ MaxDuplicates \in Nat
      BY NasAssumption DEF NasAssumption, IndInv, Asked, Data
    <3>2. Len(jobs') <= requests' + duplicates'
      BY <1>0, <2>1, <2>2, <3>1 DEF JobsCounted
    <3> QED BY <1>0, <2>1, <2>2, <3>1, <3>2
  <2>4. MaxRequests + MaxDuplicates \in Nat
    BY NasAssumption DEF NasAssumption
  <2> QED BY <1>0, <2>1, <2>2, <2>3, <2>4 DEF JobNumbers
<1>3. jobs'[new] = j /\ \A i \in 1..Len(jobs) : jobs'[i] = jobs[i]
  BY <1>0, <1>1, <1>2
<1>4. new \in JobNumbers /\ new \notin DOMAIN jobs
  BY <1>0, <1>2
<1>5. \A i \in JobNumbers \ {new} : i \in DOMAIN jobs' <=> i \in DOMAIN jobs
  BY <1>0, <1>2 DEF JobNumbers
<1>6. /\ QueueState(new) = "new" /\ QueueState(new)' = "pending"
      /\ Throws(new) = 0 /\ Throws(new)' = 0
  BY <1>1, <1>2, <1>3, <1>4 DEF QueueState, Throws
<1>7. ASSUME NEW i \in JobNumbers \ {new}
      PROVE  QueueState(i)' = QueueState(i) /\ Throws(i)' = Throws(i)
  BY <1>0, <1>2, <1>3, <1>5 DEF QueueState, Throws
<1>8. [i \in JobNumbers |-> QueueState(i)]'
        = [[i \in JobNumbers |-> QueueState(i)] EXCEPT ![new] = "pending"]
  BY <1>6, <1>7
<1>9. {i \in JobNumbers : QueueState(i) = "done"}'
        = {i \in JobNumbers : QueueState(i) = "done"}
  BY <1>6, <1>7
<1>10. [i \in JobNumbers |-> Throws(i)]' = [i \in JobNumbers |-> Throws(i)]
  BY <1>6, <1>7
<1> QED BY <1>4, <1>6, <1>8, <1>9, <1>10 DEF Queue!Add, Throws

(* What the end of an attempt does to the job of the handler: it becomes    *)
(* another record s, and no other job changes.                              *)
LEMMA EndedJob ==
  ASSUME IndInv, JobsCounted, run # 0, NEW r, r = run, NEW s,
         jobs' = [jobs EXCEPT ![r] = s]
  PROVE  /\ r \in JobNumbers /\ r \in DOMAIN jobs /\ DOMAIN jobs' = DOMAIN jobs
         /\ QueueState(r) = "pending" /\ Throws(r) = Job.throws /\ jobs'[r] = s
         /\ Job.throws \in Nat /\ Job.throws <= MaxAttempts /\ MaxAttempts \in Nat
         /\ \A i \in JobNumbers \ {r} :
              QueueState(i)' = QueueState(i) /\ Throws(i)' = Throws(i)
<1>1. r \in DOMAIN jobs /\ r \in JobNumbers /\ r \in 1..Len(jobs)
  BY JobFacts, NumbersSuffice DEF IndInv, JobIds
<1>2. DOMAIN jobs' = DOMAIN jobs /\ jobs'[r] = s
  BY <1>1
<1>3. jobs[r].state = "active" /\ jobs[r].throws <= MaxAttempts
  BY <1>1 DEF IndInv, Books, Job
<1>4. jobs[r].throws \in Nat /\ MaxAttempts \in Nat
  <2>1. jobs[r] \in JobRecords
    BY <1>1, JobFacts DEF IndInv, JobIds
  <2> QED BY <2>1, NasAssumption DEF NasAssumption, JobRecords
<1>5. ASSUME NEW i \in JobNumbers \ {r}
      PROVE  QueueState(i)' = QueueState(i) /\ Throws(i)' = Throws(i)
  <2>1. i \in DOMAIN jobs => jobs'[i] = jobs[i]
    OBVIOUS
  <2> QED BY <2>1, <1>2 DEF QueueState, Throws
<1> QED BY <1>1, <1>2, <1>3, <1>4, <1>5 DEF QueueState, Throws, Job

LEMMA FinishCompletes ==
  ASSUME IndInv, JobsCounted, run # 0, Finish, NEW r, r = run
  PROVE  Queue!Complete(r)
<1> DEFINE s == [jobs[run] EXCEPT !.state = "done"]
<1>1. jobs' = [jobs EXCEPT ![r] = s]
  BY DEF Finish, SetState
<1>2. s.state = "done" /\ s.throws = Job.throws
  <2>1. jobs[run] \in JobRecords
    BY JobFacts DEF IndInv
  <2> QED BY <2>1 DEF JobRecords, Job
<1> HIDE DEF s
<1>3. QueueState(r)' = "done" /\ Throws(r)' = Throws(r)
  BY <1>1, <1>2, EndedJob DEF QueueState, Throws
<1>4. [i \in JobNumbers |-> QueueState(i)]'
        = [[i \in JobNumbers |-> QueueState(i)] EXCEPT ![r] = "done"]
  BY <1>1, <1>3, EndedJob
<1>5. {i \in JobNumbers : QueueState(i) = "done"}'
        = {i \in JobNumbers : QueueState(i) = "done"} \cup {r}
  BY <1>1, <1>3, EndedJob
<1>6. [i \in JobNumbers |-> Throws(i)]' = [i \in JobNumbers |-> Throws(i)]
  BY <1>1, <1>3, EndedJob
<1> QED BY <1>1, <1>4, <1>5, <1>6, EndedJob DEF Queue!Complete, Throws

LEMMA ThrowThrows ==
  ASSUME IndInv, JobsCounted, run # 0, Throw, NEW r, r = run
  PROVE  Queue!Throw(r) \/ Queue!GiveUp(r)
<1> DEFINE n == Job.throws + 1
           s == [jobs[run] EXCEPT !.throws = n,
                   !.state = IF n <= MaxAttempts THEN "waiting" ELSE "failed"]
<1>1. jobs' = [jobs EXCEPT ![r] = s]
  BY DEF Throw
<1>2. s.state = (IF n <= MaxAttempts THEN "waiting" ELSE "failed") /\ s.throws = n
  <2>1. jobs[run] \in JobRecords
    BY JobFacts DEF IndInv
  <2> QED BY <2>1 DEF JobRecords
<1> HIDE DEF s
<1>3. /\ r \in JobNumbers /\ r \in DOMAIN jobs' /\ jobs'[r] = s
      /\ QueueState(r) = "pending" /\ Throws(r) \in Nat
      /\ Throws(r) <= MaxAttempts /\ MaxAttempts \in Nat /\ n = Throws(r) + 1
      /\ \A i \in JobNumbers \ {r} :
           QueueState(i)' = QueueState(i) /\ Throws(i)' = Throws(i)
  BY <1>1, EndedJob
<1>4. Throws(r)' = Throws(r) + 1
  BY <1>2, <1>3 DEF Throws
<1>5. [i \in JobNumbers |-> Throws(i)]'
        = [[i \in JobNumbers |-> Throws(i)] EXCEPT ![r] = Throws(r) + 1]
  BY <1>3, <1>4
<1>6. CASE n <= MaxAttempts
  <2>1. QueueState(r)' = "pending"
    BY <1>2, <1>3, <1>6 DEF QueueState
  <2>2. [i \in JobNumbers |-> QueueState(i)]' = [i \in JobNumbers |-> QueueState(i)]
    BY <2>1, <1>3
  <2>3. {i \in JobNumbers : QueueState(i) = "done"}'
          = {i \in JobNumbers : QueueState(i) = "done"}
    BY <2>1, <1>3
  <2>4. [i \in JobNumbers |-> Throws(i)]'
          = [[i \in JobNumbers |-> Throws(i)] EXCEPT
               ![r] = IF @ <= MaxAttempts THEN @ + 1 ELSE @]
    BY <1>3, <1>5
  <2> QED BY <1>3, <2>2, <2>3, <2>4 DEF Queue!Throw, Throws
<1>7. CASE n > MaxAttempts
  <2>1. QueueState(r)' = "dead"
    <3>1. s.state = "failed"
      BY <1>2, <1>3, <1>7
    <3> QED BY <1>3, <3>1 DEF QueueState
  <2>2. [i \in JobNumbers |-> QueueState(i)]'
          = [[i \in JobNumbers |-> QueueState(i)] EXCEPT ![r] = "dead"]
    BY <2>1, <1>3
  <2>3. {i \in JobNumbers : QueueState(i) = "done"}'
          = {i \in JobNumbers : QueueState(i) = "done"}
    BY <2>1, <1>3
  <2>4. Throws(r) = MaxAttempts
    BY <1>3, <1>7
  <2>5. [i \in JobNumbers |-> Throws(i)]'
          = [[i \in JobNumbers |-> Throws(i)] EXCEPT ![r] = MaxAttempts + 1]
    BY <1>5, <2>4
  <2> QED BY <1>3, <2>2, <2>3, <2>4, <2>5 DEF Queue!GiveUp, Throws
<1> QED BY <1>3, <1>6, <1>7

LEMMA QueueSteps ==
  ASSUME IndInv, JobsCounted, IndInv', JobsCounted', [Next]_vars
  PROVE  [Queue!Next]_(Queue!vars)
<1>1. CASE UNCHANGED jobs
  BY <1>1, QueueStutters DEF QueueState, Throws
<1>2. CASE \E j : Registers(j)
  BY <1>2, RegisterAdds DEF Queue!Next
<1>3. ASSUME NEW i \in JobIds, StartJob(i) PROVE UNCHANGED Queue!vars
  <2>1. jobs' = [jobs EXCEPT ![i].state = "active"] /\ jobs[i].state = "waiting"
    BY <1>3 DEF StartJob, SetState
  <2>2. /\ DOMAIN jobs' = DOMAIN jobs
        /\ \A k \in DOMAIN jobs : k # i => jobs'[k] = jobs[k]
    BY <2>1
  <2>3. jobs'[i].state = "active" /\ jobs'[i].throws = jobs[i].throws
    <3>1. jobs[i] \in JobRecords /\ i \in DOMAIN jobs
      BY JobFacts DEF IndInv, JobIds
    <3> QED BY <2>1, <3>1 DEF JobRecords
  <2>4. ASSUME NEW k \in JobNumbers
        PROVE  QueueState(k)' = QueueState(k) /\ Throws(k)' = Throws(k)
    BY <2>1, <2>2, <2>3 DEF QueueState, Throws
  <2> QED BY <2>4, QueueStutters
<1>4. CASE run # 0 /\ (Finish \/ Throw)
  <2>1. PICK r : r = run
    OBVIOUS
  <2>2. r \in JobNumbers
    BY <1>4, <2>1, JobFacts, NumbersSuffice DEF IndInv
  <2>3. Queue!Complete(r) \/ Queue!Throw(r) \/ Queue!GiveUp(r)
    BY <1>4, <2>1, FinishCompletes, ThrowThrows
  <2> QED BY <2>2, <2>3 DEF Queue!Next
<1>5. CASE Crash
  <2>1. jobs' = [i \in DOMAIN jobs |-> IF i = run THEN [jobs[i] EXCEPT !.state = "waiting"]
                                       ELSE jobs[i]]
    BY <1>5 DEF Crash
  <2>2. /\ DOMAIN jobs' = DOMAIN jobs
        /\ \A k \in DOMAIN jobs : k # run => jobs'[k] = jobs[k]
    BY <2>1
  <2>3. ASSUME run \in DOMAIN jobs
        PROVE  /\ jobs'[run].state = "waiting" /\ jobs[run].state = "active"
               /\ jobs'[run].throws = jobs[run].throws
    <3>1. jobs[run] \in JobRecords /\ run # 0
      BY <2>3, JobFacts DEF IndInv, JobIds
    <3>2. jobs[run].state = "active"
      BY <3>1 DEF IndInv, Books, Job
    <3> QED BY <2>1, <2>3, <3>1, <3>2 DEF JobRecords
  <2>4. ASSUME NEW k \in JobNumbers
        PROVE  QueueState(k)' = QueueState(k) /\ Throws(k)' = Throws(k)
    <3>1. CASE k \in DOMAIN jobs /\ k = run
      BY <3>1, <2>2, <2>3 DEF QueueState, Throws
    <3>2. CASE ~(k \in DOMAIN jobs /\ k = run)
      BY <3>2, <2>2 DEF QueueState, Throws
    <3> QED BY <3>1, <3>2
  <2> QED BY <2>4, QueueStutters
<1> QED BY <1>1, <1>2, <1>3, <1>4, <1>5, JobSteps

(* The jobs of a file live and end as JobQueue promises, whatever handlers  *)
(* throw, processes die and duplicates the recovery registers.              *)
THEOREM FileQueueRefines == Spec => ImplementsJobQueue
<1>1. Init => Queue!Init
  BY DEF Init, Queue!Init, QueueState, JobNumbers
<1>2. Queue!Spec <=> Queue!Init /\ [][Queue!Next]_(Queue!vars)
  BY DEF Queue!Spec
<1> QED BY <1>1, <1>2, QueueSteps, Invariance, Counting, PTL DEF Spec, ImplementsJobQueue
=============================================================================
