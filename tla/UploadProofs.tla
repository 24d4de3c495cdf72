---------------------------- MODULE UploadProofs ----------------------------
(***************************************************************************)
(* Proofs about the two sides of an upload in parts: the sessions and jobs *)
(* of MultipartUpload, for any parts, requests and attempts, and the       *)
(* admission of UploadQueue, for any number of requests and promoters.     *)
(*                                                                         *)
(* MultipartUpload comes first.  ClosedSessionHasFile becomes inductive    *)
(* when it is claimed of every copy of the session row that somebody may   *)
(* still save (Copies), since what a file has reached on the NAS is never  *)
(* taken back (Grows).  For AvailableMeansWhole, a commit has found a row  *)
(* for every part, and a part with a row has a file that is whole or gone  *)
(* (Rows).                                                                 *)
(*                                                                         *)
(* LimitExceededOnlyByOverlap is inductive together with the types of the  *)
(* variables it reads: an admission counts itself where it passes the      *)
(* check, and hands its place to the session it creates.  The waiting list *)
(* plays no part in it: that it agrees with the map of tickets follows from *)
(* what splice and push do to a list without repetitions.                  *)
(***************************************************************************)
EXTENDS MultipartUpload, UploadQueue, FiniteSetTheorems, SequenceTheorems, TLAPS

Puts == [step: {"idle", "write", "save", "expire", "end"},
         part: Parts \cup {NoPart}, seen: Session]
Coms == [step: {"idle", "commit", "register", "expire", "end"}, seen: Session]
Files == [status: {"none", "SYNCING", "AVAILABLE"},
          content: {"none", "short", "whole"}, cached: BOOLEAN]
JobRecords == [step: JobSteps, multipart: BOOLEAN, runs: 0 .. MaxAttempts, seen: Session]

\* A session row (or a copy of it) claims of its file what the files n show.
Named(s, n) ==
  /\ s.status \in {"COMPLETING", "COMPLETED"} =>
       s.file # NoFile /\ n[s.file].status # "none"
  /\ s.status = "COMPLETED" => n[s.file].status = "AVAILABLE" /\ n[s.file].cached

\* What the files n have reached, the files m have reached.
Grows(n, m) ==
  \A c \in Completes : /\ n[c].status # "none" => m[c].status # "none"
                       /\ n[c].status = "AVAILABLE" => m[c].status = "AVAILABLE"
                       /\ n[c].cached => m[c].cached

Copies ==
  /\ Named(session, nas) /\ Named(abort.seen, nas)
  /\ \A u \in Uploads : Named(up[u].seen, nas)
  /\ \A c \in Completes : Named(com[c].seen, nas) /\ Named(job[c].seen, nas)

\* How far a file, its complete request and its job have come.
Progress ==
  \A c \in Completes :
    /\ com[c].step \in {"idle", "expire", "commit"} => job[c].step = "none"
    /\ com[c].step = "register" => job[c].step = "lost"
    /\ job[c].step = "none" <=> nas[c].status = "none"
    /\ job[c].step \in {"concat", "close", "sweep"} =>
         nas[c].status = "AVAILABLE" /\ job[c].runs > 0
    /\ job[c].step = "close" => nas[c].cached

Sending == \A u \in Uploads : up[u].step \in {"write", "save"} => up[u].part \in Parts

Rows ==
  ~disturbed =>
    /\ \A p \in partRows : partFile[p] # "torn"
    /\ \A c \in Completes : com[c].step = "commit" \/ job[c].step # "none" => partRows = Parts

IndInv == TypeOK /\ Sending /\ Progress /\ Copies /\ Rows /\ AvailableMeansWhole

-----------------------------------------------------------------------------
(* Sessions and files.                                                     *)

LEMMA Records ==
  ASSUME TypeOK
  PROVE  /\ com \in [Completes -> Coms] /\ nas \in [Completes -> Files]
         /\ job \in [Completes -> JobRecords]
BY DEF TypeOK, Coms, Files, JobRecords

LEMMA NoSessionNamed ==
  NoSession \in Session /\ \A n : Named(NoSession, n)
BY DEF NoSession, Session, SessionStatuses, Named, NoFile

LEMMA EndedTypes ==
  /\ NoPut \in Puts /\ PutEnded \in Puts /\ Ended \in Coms
  /\ PutEnded.step = "end" /\ PutEnded.seen = NoSession
  /\ Ended.step = "end" /\ Ended.seen = NoSession
BY NoSessionNamed DEF NoPut, PutEnded, Ended, Puts, Coms, NoPart

LEMMA NamedGrows ==
  ASSUME NEW s \in Session, NEW n, NEW m, Grows(n, m), Named(s, n)
  PROVE  Named(s, m)
BY DEF Grows, Named, Session

LEMMA GrowsRefl == \A n : Grows(n, n)
BY DEF Grows

\* The row with another part listed, and the row that is expired.
LEMMA ChangedNamed ==
  ASSUME NEW s \in Session, NEW n, Named(s, n)
  PROVE  /\ \A p \in Parts : /\ MarkPartCompleted(s, p) \in Session
                             /\ Named(MarkPartCompleted(s, p), n)
         /\ Expired(s) \in Session /\ Named(Expired(s), n)
         /\ [s EXCEPT !.status = "ABORTED"] \in Session
         /\ Named([s EXCEPT !.status = "ABORTED"], n)
BY DEF MarkPartCompleted, Expired, Session, SessionStatuses, Named

\* When every part has a row and none is torn, a join misses a part or is whole.
LEMMA JoinedWhole ==
  ASSUME \A p \in Parts : partFile[p] # "torn", TypeOK, Joined(Parts) # "none"
  PROVE  Joined(Parts) = "whole"
BY DEF TypeOK, Joined

LEMMA InitIndInv == Init => IndInv
<1> SUFFICES ASSUME Init PROVE IndInv
  OBVIOUS
<1>1. session \in Session /\ Named(session, nas)
  BY UploadAssumption DEF Init, Session, SessionStatuses, Named
<1>2. TypeOK
  <2>1. up \in [Uploads -> Puts]
    BY EndedTypes DEF Init
  <2>2. com \in [Completes -> Coms] /\ abort \in [todo: SUBSET AbortWork, seen: Session]
    BY NoSessionNamed DEF Init, Coms, AbortWork
  <2>3. job \in [Completes -> JobRecords] /\ nas \in [Completes -> Files]
    BY NoSessionNamed, UploadAssumption DEF Init, JobRecords, JobSteps, Files
  <2>4. /\ partRows \subseteq Parts /\ partFile \in [Parts -> {"none", "torn", "whole"}]
        /\ breaks \in 0 .. MaxBreaks
    BY UploadAssumption DEF Init
  <2> QED
    BY <1>1, <2>1, <2>2, <2>3, <2>4 DEF Init, TypeOK, Puts, Coms, JobRecords, Files
<1>3. Sending /\ Progress /\ AvailableMeansWhole
  BY DEF Init, Sending, Progress, AvailableMeansWhole, NoPut
<1>4. Copies
  BY <1>1, NoSessionNamed DEF Init, Copies, NoPut
<1>5. Rows
  BY UploadAssumption DEF Init, Rows
<1> QED
  BY <1>2, <1>3, <1>4, <1>5 DEF IndInv

-----------------------------------------------------------------------------
(* Sending parts.                                                          *)

LEMMA UploadSteps ==
  ASSUME IndInv, NEW u \in Uploads, \/ \E p \in Parts : UploadBegin(u, p)
                                 \/ UploadWrite(u) \/ UploadTorn(u)
                                 \/ UploadSave(u) \/ UploadExpire(u)
  PROVE  IndInv'
<1> USE DEF IndInv
<1>1. CASE \E p \in Parts : UploadBegin(u, p)
  <2>1. TypeOK'
    BY <1>1 DEF TypeOK, Puts, UploadBegin, stored
  <2>2. Sending' /\ Progress'
    BY <1>1 DEF TypeOK, Sending, Progress, UploadBegin
  <2>3. Copies'
    BY <1>1 DEF TypeOK, Copies, UploadBegin
  <2>4. Rows' /\ AvailableMeansWhole'
    BY <1>1 DEF TypeOK, Rows, AvailableMeansWhole, stored, UploadBegin, IsExpired
  <2> QED
    BY <2>1, <2>2, <2>3, <2>4
<1>2. CASE UploadWrite(u)
  <2>1. TypeOK'
    BY <1>2 DEF TypeOK, Puts, Sending, UploadWrite
  <2>2. Sending' /\ Progress'
    BY <1>2 DEF TypeOK, Sending, Progress, UploadWrite
  <2>3. Copies'
    BY <1>2 DEF TypeOK, Copies, UploadWrite
  <2>4. Rows' /\ AvailableMeansWhole'
    BY <1>2 DEF TypeOK, Rows, AvailableMeansWhole, UploadWrite, Sending
  <2> QED
    BY <2>1, <2>2, <2>3, <2>4
<1>3. CASE UploadTorn(u)
  <2>1. TypeOK'
    BY <1>3, EndedTypes, NoSessionNamed, UploadAssumption
    DEF TypeOK, Puts, Sending, UploadTorn, Break
  <2>2. Sending' /\ Progress'
    BY <1>3, EndedTypes DEF TypeOK, Sending, Progress, UploadTorn
  <2>3. Copies'
    BY <1>3, EndedTypes, NoSessionNamed DEF TypeOK, Copies, UploadTorn
  <2>4. Rows' /\ AvailableMeansWhole'
    BY <1>3 DEF TypeOK, Rows, AvailableMeansWhole, UploadTorn
  <2> QED
    BY <2>1, <2>2, <2>3, <2>4
<1>4. CASE UploadSave(u)
  <2>a. session' \in Session /\ Named(session', nas)
    BY <1>4, ChangedNamed DEF UploadSave, TypeOK, Sending, Copies
  <2>1. TypeOK'
    BY <1>4, EndedTypes, NoSessionNamed, <2>a DEF TypeOK, Puts, Sending, UploadSave, stored
  <2>2. Sending' /\ Progress'
    BY <1>4, EndedTypes DEF TypeOK, Sending, Progress, UploadSave
  <2>3. Copies'
    BY <1>4, EndedTypes, NoSessionNamed, <2>a DEF TypeOK, Copies, UploadSave
  <2>4. Rows' /\ AvailableMeansWhole'
    BY <1>4 DEF TypeOK, Rows, AvailableMeansWhole, stored, UploadSave
  <2> QED
    BY <2>1, <2>2, <2>3, <2>4
<1>5. CASE UploadExpire(u)
  <2>a. session' \in Session /\ Named(session', nas)
    BY <1>5, ChangedNamed DEF UploadExpire, TypeOK, Copies
  <2>1. TypeOK'
    BY <1>5, EndedTypes, NoSessionNamed, <2>a DEF TypeOK, Puts, UploadExpire, stored
  <2>2. Sending' /\ Progress'
    BY <1>5, EndedTypes DEF TypeOK, Sending, Progress, UploadExpire
  <2>3. Copies'
    BY <1>5, EndedTypes, NoSessionNamed, <2>a DEF TypeOK, Copies, UploadExpire
  <2>4. Rows' /\ AvailableMeansWhole'
    BY <1>5 DEF TypeOK, Rows, AvailableMeansWhole, stored, UploadExpire
  <2> QED
    BY <2>1, <2>2, <2>3, <2>4
<1> QED
  BY <1>1, <1>2, <1>3, <1>4, <1>5

-----------------------------------------------------------------------------
(* Completing.                                                             *)

LEMMA CompleteSteps ==
  ASSUME IndInv, NEW c \in Completes, \/ CompleteCheck(c) \/ CompleteExpire(c) \/ CompleteCommit(c)
                                   \/ CompleteRegister(c) \/ CompleteUnqueued(c)
                                   \/ Recover(c)
  PROVE  IndInv'
<1> USE DEF IndInv
<1>1. CASE CompleteCheck(c)
  <2>1. TypeOK'
    BY <1>1 DEF TypeOK, Coms, CompleteCheck, stored
  <2>2. Sending' /\ Progress'
    BY <1>1 DEF TypeOK, Sending, Progress, CompleteCheck
  <2>3. Copies'
    BY <1>1 DEF TypeOK, Copies, CompleteCheck
  <2>4. Rows' /\ AvailableMeansWhole'
    BY <1>1 DEF TypeOK, Rows, AvailableMeansWhole, stored, CompleteCheck
  <2> QED
    BY <2>1, <2>2, <2>3, <2>4
<1>2. CASE CompleteExpire(c)
  <2>a. session' \in Session /\ Named(session', nas)
    BY <1>2, ChangedNamed DEF CompleteExpire, TypeOK, Copies
  <2>1. TypeOK'
    BY <1>2, EndedTypes, NoSessionNamed, <2>a DEF TypeOK, Coms, CompleteExpire, stored
  <2>2. Sending' /\ Progress'
    BY <1>2, EndedTypes DEF TypeOK, Sending, Progress, CompleteExpire
  <2>3. Copies'
    BY <1>2, EndedTypes, NoSessionNamed, <2>a DEF TypeOK, Copies, CompleteExpire
  <2>4. Rows' /\ AvailableMeansWhole'
    BY <1>2, EndedTypes DEF TypeOK, Rows, AvailableMeansWhole, stored, CompleteExpire
  <2> QED
    BY <2>1, <2>2, <2>3, <2>4
<1>3. CASE CompleteCommit(c)
  <2>a. session' \in Session /\ Named(session', nas') /\ Grows(nas, nas')
    <3>1. /\ nas[c].status = "none" /\ nas'[c].status = "SYNCING"
          /\ \A d \in Completes \ {c} : nas'[d] = nas[d]
          /\ nas'[c].cached = nas[c].cached
      BY <1>3 DEF CompleteCommit, TypeOK, Progress
    <3>2. Grows(nas, nas')
      BY <3>1 DEF Grows
    <3>3. session' = [com[c].seen EXCEPT !.status = "COMPLETING", !.file = c]
      BY <1>3 DEF CompleteCommit
    <3>4. com[c].seen \in Session
      BY DEF TypeOK
    <3>5. /\ session' \in Session /\ session'.file = c /\ session'.status = "COMPLETING"
      BY <3>3, <3>4 DEF Session, SessionStatuses
    <3>6. c # NoFile
      BY DEF Completes, NoFile
    <3> QED
      BY <3>1, <3>2, <3>5, <3>6 DEF Named
  <2>1. TypeOK'
    <3>1. /\ nas' = [nas EXCEPT ![c].status = "SYNCING"]
          /\ com' = [com EXCEPT ![c].step = "register"]
          /\ job' = [job EXCEPT ![c].step = "lost"]
      BY <1>3 DEF CompleteCommit
    <3>2. job' \in [Completes -> JobRecords]
      BY <3>1, Records DEF JobRecords, JobSteps
    <3>3. nas' \in [Completes -> Files]
      BY <3>1, Records DEF Files
    <3>4. com' \in [Completes -> Coms]
      BY <3>1, Records DEF Coms
    <3> QED
      BY <1>3, <2>a, <3>2, <3>3, <3>4 DEF TypeOK, CompleteCommit, stored, JobRecords, Files, Coms
  <2>2. Sending' /\ Progress'
    BY <1>3 DEF TypeOK, Sending, Progress, CompleteCommit
  <2>3. Copies'
    <3>1. \A s \in Session : Named(s, nas) => Named(s, nas')
      BY <2>a, NamedGrows
    <3>2. /\ abort' = abort /\ up' = up
          /\ \A d \in Completes : com'[d].seen = com[d].seen /\ job'[d].seen = job[d].seen
      BY <1>3 DEF CompleteCommit, TypeOK
    <3> QED
      BY <2>a, <3>1, <3>2 DEF Copies, TypeOK
  <2>4. Rows' /\ AvailableMeansWhole'
    BY <1>3 DEF TypeOK, Rows, AvailableMeansWhole, stored, CompleteCommit, Progress
  <2> QED
    BY <2>1, <2>2, <2>3, <2>4
<1>4. CASE CompleteRegister(c)
  <2>1. TypeOK'
    <3>1. /\ com' = [com EXCEPT ![c] = Ended] /\ job' = [job EXCEPT ![c].step = "waiting"]
          /\ UNCHANGED <<session, overdue, up, abort, cleanup, nas, breaks, stored>>
      BY <1>4 DEF CompleteRegister
    <3>2. job' \in [Completes -> JobRecords]
      BY <3>1, Records DEF JobRecords, JobSteps
    <3>3. com' \in [Completes -> Coms]
      BY <3>1, Records, EndedTypes
    <3> QED
      BY <3>1, <3>2, <3>3 DEF TypeOK, stored, JobRecords, Coms
  <2>2. Sending' /\ Progress'
    BY <1>4, EndedTypes DEF TypeOK, Sending, Progress, CompleteRegister
  <2>3. Copies'
    BY <1>4, EndedTypes, NoSessionNamed DEF TypeOK, Copies, CompleteRegister
  <2>4. Rows' /\ AvailableMeansWhole'
    BY <1>4, EndedTypes
    DEF TypeOK, Rows, AvailableMeansWhole, stored, CompleteRegister, Progress
  <2> QED
    BY <2>1, <2>2, <2>3, <2>4
<1>5. CASE CompleteUnqueued(c)
  <2>1. TypeOK'
    BY <1>5, EndedTypes, NoSessionNamed, UploadAssumption
    DEF TypeOK, Coms, CompleteUnqueued, stored, Break
  <2>2. Sending' /\ Progress'
    BY <1>5, EndedTypes DEF TypeOK, Sending, Progress, CompleteUnqueued
  <2>3. Copies'
    BY <1>5, EndedTypes, NoSessionNamed DEF TypeOK, Copies, CompleteUnqueued
  <2>4. Rows' /\ AvailableMeansWhole'
    BY <1>5, EndedTypes DEF TypeOK, Rows, AvailableMeansWhole, stored, CompleteUnqueued
  <2> QED
    BY <2>1, <2>2, <2>3, <2>4
<1>6. CASE Recover(c)
  <2>1. TypeOK'
    <3>1. job[c] \in JobRecords
      BY DEF TypeOK, JobRecords
    <3>2. job' = [job EXCEPT ![c] = [job[c] EXCEPT !.step = "waiting", !.multipart = FALSE]]
      BY <1>6 DEF Recover, TypeOK
    <3>3. [job[c] EXCEPT !.step = "waiting", !.multipart = FALSE] \in JobRecords
      BY <3>1 DEF JobRecords, JobSteps
    <3>4. job' \in [Completes -> JobRecords]
      BY <3>2, <3>3 DEF TypeOK, JobRecords
    <3> QED
      BY <1>6, <3>4 DEF TypeOK, Recover, stored, requests, JobRecords
  <2>2. Sending' /\ Progress'
    BY <1>6 DEF TypeOK, Sending, Progress, requests, Recover
  <2>3. Copies'
    BY <1>6 DEF TypeOK, Copies, Recover, requests
  <2>4. Rows' /\ AvailableMeansWhole'
    BY <1>6 DEF TypeOK, Rows, AvailableMeansWhole, stored, Recover, requests
  <2> QED
    BY <2>1, <2>2, <2>3, <2>4
<1> QED
  BY <1>1, <1>2, <1>3, <1>4, <1>5, <1>6

-----------------------------------------------------------------------------
(* Aborting.                                                               *)

LEMMA AbortSteps ==
  ASSUME IndInv, AbortAsk \/ AbortSave \/ AbortFiles \/ AbortRows
  PROVE  IndInv'
<1> USE DEF IndInv
<1>1. CASE AbortAsk
  <2>1. TypeOK'
    BY <1>1 DEF TypeOK, AbortAsk, stored, AbortWork
  <2>2. Sending' /\ Progress'
    BY <1>1 DEF TypeOK, Sending, Progress, AbortAsk
  <2>3. Copies'
    BY <1>1 DEF TypeOK, Copies, AbortAsk
  <2>4. Rows' /\ AvailableMeansWhole'
    BY <1>1 DEF TypeOK, Rows, AvailableMeansWhole, stored, AbortAsk
  <2> QED
    BY <2>1, <2>2, <2>3, <2>4
<1>2. CASE AbortSave
  <2>a. session' \in Session /\ Named(session', nas)
    BY <1>2, ChangedNamed DEF AbortSave, TypeOK, Copies
  <2>1. TypeOK'
    BY <1>2, NoSessionNamed, <2>a DEF TypeOK, AbortSave, stored, AbortWork
  <2>2. Sending' /\ Progress'
    BY <1>2 DEF TypeOK, Sending, Progress, AbortSave
  <2>3. Copies'
    BY <1>2, NoSessionNamed, <2>a DEF TypeOK, Copies, AbortSave
  <2>4. Rows' /\ AvailableMeansWhole'
    BY <1>2 DEF TypeOK, Rows, AvailableMeansWhole, stored, AbortSave
  <2> QED
    BY <2>1, <2>2, <2>3, <2>4
<1>3. CASE AbortFiles
  <2>1. TypeOK'
    BY <1>3 DEF TypeOK, AbortFiles, RemoveFiles
  <2>2. Sending' /\ Progress'
    BY <1>3 DEF TypeOK, Sending, Progress, AbortFiles
  <2>3. Copies'
    BY <1>3 DEF TypeOK, Copies, AbortFiles
  <2>4. Rows' /\ AvailableMeansWhole'
    BY <1>3 DEF TypeOK, Rows, AvailableMeansWhole, AbortFiles, RemoveFiles
  <2> QED
    BY <2>1, <2>2, <2>3, <2>4
<1>4. CASE AbortRows
  <2>1. TypeOK'
    BY <1>4 DEF TypeOK, AbortRows
  <2>2. Sending' /\ Progress'
    BY <1>4 DEF TypeOK, Sending, Progress, AbortRows
  <2>3. Copies'
    BY <1>4 DEF TypeOK, Copies, AbortRows
  <2>4. Rows' /\ AvailableMeansWhole'
    BY <1>4 DEF TypeOK, Rows, AvailableMeansWhole, AbortRows
  <2> QED
    BY <2>1, <2>2, <2>3, <2>4
<1> QED
  BY <1>1, <1>2, <1>3, <1>4

-----------------------------------------------------------------------------
(* The worker.                                                             *)

\* What a step of the job c does to the jobs and to the files, and that it is enough.
LEMMA WorkerKeeps ==
  ASSUME IndInv, NEW c \in Completes, NEW rec \in JobRecords, NEW file \in Files,
         UNCHANGED <<overdue, requests, cleanup, partRows, disturbed>>,
         job' = [job EXCEPT ![c] = rec], nas' = [nas EXCEPT ![c] = file],
         session' \in Session, breaks' \in 0 .. MaxBreaks,
         partFile' = partFile \/ RemoveFiles,
         job[c].step \notin {"none", "lost"}, rec.step # "none", file.status # "none",
         nas[c].status = "AVAILABLE" => file.status = "AVAILABLE",
         nas[c].cached => file.cached,
         rec.step \in {"concat", "close", "sweep"} =>
           file.status = "AVAILABLE" /\ rec.runs > 0,
         rec.step = "close" => file.cached,
         ~disturbed /\ file.status = "AVAILABLE" => file.content = "whole",
         Named(session', nas'), Named(rec.seen, nas')
  PROVE  IndInv'
<1> USE DEF IndInv
<1>1. TypeOK'
  BY DEF TypeOK, requests, RemoveFiles, JobRecords, Files
<1>2. /\ job'[c] = rec /\ nas'[c] = file
      /\ \A d \in Completes \ {c} : job'[d] = job[d] /\ nas'[d] = nas[d]
  BY DEF TypeOK
<1>3. \A s \in Session : Named(s, nas) => Named(s, nas')
  <2>1. Grows(nas, nas')
    BY <1>2 DEF Grows
  <2> QED
    BY <2>1, NamedGrows
<1>4. Sending' /\ Progress'
  BY <1>2 DEF Sending, Progress, requests
<1>5. Copies'
  BY <1>2, <1>3 DEF Copies, TypeOK, requests
<1>6. Rows' /\ AvailableMeansWhole'
  BY <1>2 DEF Rows, AvailableMeansWhole, TypeOK, requests, RemoveFiles
<1> QED
  BY <1>1, <1>4, <1>5, <1>6

LEMMA WorkerSteps ==
  ASSUME IndInv, NEW c \in Completes, Worker(c)
  PROVE  IndInv'
<1> USE DEF IndInv
<1>1. /\ job[c] \in JobRecords /\ nas[c] \in Files /\ session \in Session
      /\ breaks \in 0 .. MaxBreaks /\ nas = [nas EXCEPT ![c] = nas[c]]
  BY DEF TypeOK, JobRecords, Files
<1>2. /\ Named(session, nas) /\ Named(job[c].seen, nas) /\ job[c].seen \in Session
  BY DEF TypeOK, Copies
<1>3. /\ job[c].step = "none" <=> nas[c].status = "none"
      /\ job[c].step \in {"concat", "close", "sweep"} =>
           nas[c].status = "AVAILABLE" /\ job[c].runs > 0
      /\ job[c].step = "close" => nas[c].cached
      /\ ~disturbed /\ nas[c].status = "AVAILABLE" => nas[c].content = "whole"
  BY DEF Progress, AvailableMeansWhole
<1>4. /\ MaxAttempts \in Nat
      /\ job[c].runs \in 0 .. MaxAttempts /\ job[c].step \in JobSteps
  BY <1>1, UploadAssumption DEF JobRecords
<1> DEFINE step(s) == [job[c] EXCEPT !.step = s, !.seen = NoSession]
<1>5. ASSUME NEW s \in JobSteps
      PROVE  /\ step(s) \in JobRecords /\ step(s).step = s /\ step(s).runs = job[c].runs
             /\ step(s).seen = NoSession /\ Goto(c, s) = [job EXCEPT ![c] = step(s)]
  BY <1>1, NoSessionNamed DEF JobRecords, Goto, TypeOK
<1>6. \E s \in {"waiting", "failed"} : Throw(c) = Goto(c, s)
  BY DEF Throw
<1> HIDE DEF step
<1>7. CASE JobRun(c)
  <2> DEFINE copies == job[c].multipart /\ Joined(partRows) # "none"
             next == IF nas[c].status = "AVAILABLE" THEN "done"
                     ELSE IF copies THEN "concat"
                     ELSE IF job[c].runs + 1 < MaxAttempts THEN "waiting" ELSE "failed"
             rec == [job[c] EXCEPT !.step = next, !.runs = @ + 1]
             file == IF next # "concat" THEN nas[c]
                     ELSE [nas[c] EXCEPT !.status = "AVAILABLE", !.content = Joined(partRows)]
  <2>1. /\ job[c].step = "waiting" /\ job[c].runs < MaxAttempts
        /\ job' = [job EXCEPT ![c] = rec] /\ nas' = [nas EXCEPT ![c] = file]
        /\ UNCHANGED <<session, overdue, requests, cleanup, breaks, stored>>
    BY <1>7, <1>1 DEF JobRun, TypeOK
  <2>2. next \in JobSteps \ {"none", "close", "sweep"} /\ (next = "concat" => copies)
    BY DEF JobSteps
  <2> HIDE DEF next
  <2>3. /\ rec \in JobRecords /\ rec.step = next /\ rec.runs = job[c].runs + 1
        /\ rec.seen = job[c].seen
    <3>1. job[c].runs + 1 \in 0 .. MaxAttempts
      BY <1>4, <2>1
    <3> QED
      BY <1>1, <2>2, <3>1 DEF JobRecords
  <2>4. /\ file \in Files /\ (next # "concat" => file = nas[c])
        /\ next = "concat" => /\ file.status = "AVAILABLE" /\ file.content = Joined(partRows)
                              /\ file.cached = nas[c].cached
    BY <1>1, <2>2 DEF Files, Joined
  <2>5. ~disturbed /\ next = "concat" => Joined(partRows) = "whole"
    BY <2>1, <2>2, JoinedWhole DEF Rows
  <2> HIDE DEF rec, file, copies
  <2>6. Named(session, nas') /\ Named(job[c].seen, nas')
    <3>1. Grows(nas, nas')
      BY <2>1, <2>4 DEF Grows, TypeOK
    <3> QED
      BY <3>1, <1>1, <1>2, NamedGrows
  <2>7. /\ file.status # "none" /\ rec.step # "none" /\ rec.step # "close"
        /\ nas[c].status = "AVAILABLE" => file.status = "AVAILABLE"
        /\ nas[c].cached => file.cached
        /\ rec.step \in {"concat", "close", "sweep"} => file.status = "AVAILABLE" /\ rec.runs > 0
        /\ ~disturbed /\ file.status = "AVAILABLE" => file.content = "whole"
    BY <1>3, <1>4, <2>1, <2>2, <2>3, <2>4, <2>5
  <2>8. /\ session' \in Session /\ breaks' \in 0 .. MaxBreaks /\ partFile' = partFile
        /\ UNCHANGED <<overdue, requests, cleanup, partRows, disturbed>>
        /\ Named(session', nas') /\ Named(rec.seen, nas')
    BY <1>1, <2>1, <2>3, <2>6 DEF stored
  <2> QED
    BY <2>1, <2>3, <2>4, <2>7, <2>8, WorkerKeeps
<1>8. CASE JobConcat(c)
  <2>1. /\ job[c].step = "concat"
        /\ UNCHANGED <<session, overdue, requests, cleanup, breaks, stored>>
    BY <1>8 DEF JobConcat
  <2>2. CASE Joined(partRows) = "none"
    <3>1. job' = Throw(c) /\ nas' = nas
      BY <1>8, <2>2 DEF JobConcat
    <3> QED
      BY <1>1, <1>2, <1>3, <1>5, <1>6, <2>1, <3>1, NoSessionNamed, WorkerKeeps
      DEF stored, JobSteps
  <2>3. CASE Joined(partRows) # "none"
    <3> DEFINE rec == [job[c] EXCEPT !.step = "close", !.seen = session]
               file == [nas[c] EXCEPT !.cached = TRUE]
    <3>1. job' = [job EXCEPT ![c] = rec] /\ nas' = [nas EXCEPT ![c] = file]
      BY <1>8, <2>3, <1>1 DEF JobConcat, TypeOK
    <3>2. /\ rec \in JobRecords /\ rec.step = "close" /\ rec.runs = job[c].runs
          /\ rec.seen = session
          /\ file \in Files /\ file.status = nas[c].status /\ file.content = nas[c].content
          /\ file.cached
      BY <1>1 DEF JobRecords, Files, JobSteps
    <3> HIDE DEF rec, file
    <3>3. Named(session, nas')
      <4>1. Grows(nas, nas')
        BY <3>1, <3>2 DEF Grows, TypeOK
      <4> QED
        BY <4>1, <1>1, <1>2, NamedGrows
    <3> QED
      BY <1>1, <1>3, <2>1, <3>1, <3>2, <3>3, WorkerKeeps DEF stored
  <2> QED
    BY <2>2, <2>3
<1>9. CASE JobClose(c)
  <2>1. /\ job[c].step = "close" /\ job' = Goto(c, "sweep") /\ nas' = nas
        /\ UNCHANGED <<overdue, requests, cleanup, breaks, stored>>
        /\ session' = IF job[c].seen.status # "COMPLETING" THEN session
                      ELSE [job[c].seen EXCEPT !.status = "COMPLETED", !.file = c]
    BY <1>9 DEF JobClose
  <2>2. session' \in Session /\ Named(session', nas)
    <3>1. CASE job[c].seen.status # "COMPLETING"
      BY <1>1, <1>2, <2>1, <3>1
    <3>2. CASE job[c].seen.status = "COMPLETING"
      <4>1. /\ session' \in Session
            /\ session'.file = c /\ session'.status = "COMPLETED"
        BY <1>2, <2>1, <3>2 DEF Session, SessionStatuses
      <4>2. c # NoFile
        BY DEF Completes, NoFile
      <4> QED
        BY <1>3, <2>1, <4>1, <4>2 DEF Named
    <3> QED
      BY <3>1, <3>2
  <2> QED
    BY <1>1, <1>3, <1>5, <2>1, <2>2, NoSessionNamed, WorkerKeeps DEF stored, JobSteps
<1>10. CASE JobSweep(c)
  <2>1. /\ job[c].step = "sweep" /\ job' = Goto(c, "done") /\ nas' = nas /\ RemoveFiles
        /\ UNCHANGED <<session, overdue, partRows, requests, cleanup, breaks, disturbed>>
    BY <1>10 DEF JobSweep
  <2> QED
    BY <1>1, <1>2, <1>3, <1>5, <2>1, NoSessionNamed, WorkerKeeps DEF JobSteps
<1>11. CASE JobBreaks(c)
  <2>1. /\ job[c].step \in {"concat", "close"} /\ job' = Throw(c) /\ nas' = nas
        /\ UNCHANGED <<session, overdue, requests, cleanup, stored>>
        /\ breaks' \in 0 .. MaxBreaks
    BY <1>11, <1>1, UploadAssumption DEF JobBreaks, Break
  <2> QED
    BY <1>1, <1>2, <1>3, <1>5, <1>6, <2>1, NoSessionNamed, WorkerKeeps DEF stored, JobSteps
<1> QED
  BY <1>7, <1>8, <1>9, <1>10, <1>11 DEF Worker

-----------------------------------------------------------------------------
(* The cron, the clock and crashes.                                        *)

LEMMA OtherSteps ==
  ASSUME IndInv, CleanupPick \/ CleanupFiles \/ CleanupRows \/ Tick \/ Crash \/ UNCHANGED vars
  PROVE  IndInv'
<1> USE DEF IndInv
<1>1. CASE CleanupPick
  <2>1. TypeOK'
    BY <1>1 DEF TypeOK, CleanupPick, stored, requests
  <2>2. Sending' /\ Progress'
    BY <1>1 DEF TypeOK, Sending, Progress, requests, CleanupPick
  <2>3. Copies'
    BY <1>1 DEF TypeOK, Copies, CleanupPick, requests
  <2>4. Rows' /\ AvailableMeansWhole'
    BY <1>1 DEF TypeOK, Rows, AvailableMeansWhole, stored, CleanupPick, requests
  <2> QED
    BY <2>1, <2>2, <2>3, <2>4
<1>2. CASE CleanupFiles
  <2>1. TypeOK'
    BY <1>2 DEF TypeOK, CleanupFiles, RemoveFiles, requests
  <2>2. Sending' /\ Progress'
    BY <1>2 DEF TypeOK, Sending, Progress, requests, CleanupFiles
  <2>3. Copies'
    BY <1>2 DEF TypeOK, Copies, CleanupFiles, requests
  <2>4. Rows' /\ AvailableMeansWhole'
    BY <1>2 DEF TypeOK, Rows, AvailableMeansWhole, CleanupFiles, requests, RemoveFiles
  <2> QED
    BY <2>1, <2>2, <2>3, <2>4
<1>3. CASE CleanupRows
  <2>1. TypeOK'
    BY <1>3, NoSessionNamed DEF TypeOK, CleanupRows, requests
  <2>2. Sending' /\ Progress'
    BY <1>3 DEF TypeOK, Sending, Progress, requests, CleanupRows
  <2>3. Copies'
    BY <1>3, NoSessionNamed DEF TypeOK, Copies, CleanupRows, requests
  <2>4. Rows' /\ AvailableMeansWhole'
    BY <1>3 DEF TypeOK, Rows, AvailableMeansWhole, CleanupRows, requests
  <2> QED
    BY <2>1, <2>2, <2>3, <2>4
<1>4. CASE Tick
  <2>1. TypeOK'
    BY <1>4 DEF TypeOK, Tick, stored, requests
  <2>2. Sending' /\ Progress'
    BY <1>4 DEF TypeOK, Sending, Progress, requests, Tick
  <2>3. Copies'
    BY <1>4 DEF TypeOK, Copies, Tick, requests
  <2>4. Rows' /\ AvailableMeansWhole'
    BY <1>4 DEF TypeOK, Rows, AvailableMeansWhole, stored, Tick, requests
  <2> QED
    BY <2>1, <2>2, <2>3, <2>4
<1>5. CASE Crash
  <2>a. /\ UNCHANGED <<session, overdue, nas, stored>> /\ breaks' \in 0 .. MaxBreaks
        /\ cleanup' = "idle" /\ abort' = [todo |-> abort.todo \cap {"ask"}, seen |-> NoSession]
        /\ up' = [u \in Uploads |-> up'[u]] /\ com' = [c \in Completes |-> com'[c]]
        /\ \A u \in Uploads : up'[u] = up[u] \/ up'[u] = PutEnded
        /\ \A c \in Completes : (com'[c] = com[c] /\ com[c].step = "idle") \/ com'[c] = Ended
    <3>1. UNCHANGED <<session, overdue, nas, stored>> /\ breaks' \in 0 .. MaxBreaks
      <4>1. /\ UNCHANGED <<session, overdue, nas, stored>>
            /\ breaks < MaxBreaks /\ breaks' = breaks + 1
        BY <1>5 DEF Crash, Break
      <4>2. breaks \in 0 .. MaxBreaks
        BY DEF TypeOK
      <4> QED
        BY <4>1, <4>2, UploadAssumption
    <3>2. /\ up' = [u \in Uploads |-> IF up[u].step = "idle" THEN up[u] ELSE PutEnded]
          /\ com' = [c \in Completes |-> IF com[c].step = "idle" THEN com[c] ELSE Ended]
          /\ cleanup' = "idle" /\ abort' = [todo |-> abort.todo \cap {"ask"}, seen |-> NoSession]
      BY <1>5 DEF Crash
    <3> QED
      BY <3>1, <3>2
  <2>b. /\ job' = [c \in Completes |-> job'[c]]
        /\ \A c \in Completes :
             \/ job'[c] = job[c] /\ job[c].step \notin {"concat", "close", "sweep"}
             \/ /\ job[c].step \in {"concat", "close", "sweep"}
                /\ job'[c].step = "waiting" /\ job'[c].seen = NoSession
                /\ job'[c] \in JobRecords
    <3>1. job' = [c \in Completes |->
              IF job[c].step \in {"none", "lost", "waiting", "done", "failed"}
              THEN job[c]
              ELSE [job[c] EXCEPT !.step = "waiting", !.runs = @ - 1, !.seen = NoSession]]
      BY <1>5 DEF Crash
    <3>2. ASSUME NEW c \in Completes, job[c].step \in {"concat", "close", "sweep"}
          PROVE  /\ job'[c].step = "waiting" /\ job'[c].seen = NoSession
                 /\ job'[c] \in JobRecords
      <4>1. job[c] \in JobRecords /\ job[c].runs > 0 /\ MaxAttempts \in Nat
        BY <3>2, UploadAssumption DEF TypeOK, JobRecords, Progress
      <4>2. job'[c] = [job[c] EXCEPT !.step = "waiting", !.runs = @ - 1, !.seen = NoSession]
        BY <3>1, <3>2
      <4>3. job[c].runs - 1 \in 0 .. MaxAttempts
        BY <4>1 DEF JobRecords
      <4> QED
        BY <4>1, <4>2, <4>3, NoSessionNamed DEF JobRecords, JobSteps
    <3>3. \A c \in Completes : job[c].step \in JobSteps
      BY DEF TypeOK
    <3> QED
      BY <3>1, <3>2, <3>3 DEF JobSteps
  <2>1. TypeOK'
    <3>1. /\ up' \in [Uploads -> Puts] /\ com' \in [Completes -> Coms]
          /\ job' \in [Completes -> JobRecords]
      <4>1. up' \in [Uploads -> Puts]
        <5>1. up \in [Uploads -> Puts]
          BY DEF TypeOK, Puts
        <5> QED
          BY <2>a, <5>1, EndedTypes
      <4>2. com' \in [Completes -> Coms]
        BY <2>a, Records, EndedTypes
      <4>3. job' \in [Completes -> JobRecords]
        BY <2>b, Records
      <4> QED
        BY <4>1, <4>2, <4>3
    <3>2. abort' \in [todo: SUBSET AbortWork, seen: Session]
      BY <2>a, NoSessionNamed DEF TypeOK
    <3> QED
      BY <2>a, <3>1, <3>2 DEF TypeOK, Puts, Coms, JobRecords, stored
  <2>2. Sending' /\ Progress'
    <3>1. Sending'
      BY <2>a, EndedTypes DEF Sending
    <3>2. \A c \in Completes : com'[c].step \in {"idle", "end"} /\ nas'[c] = nas[c]
      BY <2>a, EndedTypes
    <3>3. \A c \in Completes :
            /\ job'[c].step \notin {"concat", "close", "sweep"}
            /\ job'[c].step = "none" <=> job[c].step = "none"
      BY <2>b
    <3>4. \A c \in Completes : com'[c].step = "idle" => com[c].step = "idle"
      BY <2>a, EndedTypes
    <3> QED
      BY <3>1, <3>2, <3>3, <3>4 DEF Progress
  <2>3. Copies'
    BY <2>a, <2>b, EndedTypes, NoSessionNamed DEF Copies
  <2>4. Rows' /\ AvailableMeansWhole'
    BY <2>a, <2>b, EndedTypes DEF TypeOK, Rows, AvailableMeansWhole, stored, Progress
  <2> QED
    BY <2>1, <2>2, <2>3, <2>4
<1>6. CASE UNCHANGED vars
  <2>1. TypeOK'
    BY <1>6 DEF TypeOK, vars
  <2>2. Sending' /\ Progress'
    BY <1>6 DEF TypeOK, Sending, Progress, vars
  <2>3. Copies'
    BY <1>6 DEF TypeOK, Copies, vars
  <2>4. Rows' /\ AvailableMeansWhole'
    BY <1>6 DEF TypeOK, Rows, AvailableMeansWhole, vars
  <2> QED
    BY <2>1, <2>2, <2>3, <2>4
<1> QED
  BY <1>1, <1>2, <1>3, <1>4, <1>5, <1>6

-----------------------------------------------------------------------------

\* The strengthened invariant holds in every reachable state.
THEOREM InductiveInvariant == Spec => []IndInv
<1>1. IndInv /\ [Next]_vars => IndInv'
  BY UploadSteps, CompleteSteps, AbortSteps, WorkerSteps, OtherSteps DEF Next, Cleanup
<1> QED
  BY InitIndInv, <1>1, PTL DEF Spec

\* Sessions, parts, files, calls and the worker keep their types.
THEOREM TypeCorrect == Spec => []TypeOK
<1>1. IndInv => TypeOK
  BY DEF IndInv
<1> QED
  BY InductiveInvariant, <1>1, PTL

\* Nothing that runs beside a worker job, no retry and no crash makes the handler of
\* multipart uploads call a file AVAILABLE that lacks a part.
THEOREM AvailableIsWhole == Spec => []AvailableMeansWhole
<1>1. IndInv => AvailableMeansWhole
  BY DEF IndInv
<1> QED
  BY InductiveInvariant, <1>1, PTL

\* However many stale copies of a session are saved over one another, the session
\* never names as its file one that was not committed, and is never COMPLETED while
\* the file is not on the NAS and in the cache.
THEOREM ClosedSessionIsRight == Spec => []ClosedSessionHasFile
<1>1. IndInv => ClosedSessionHasFile
  BY DEF IndInv, Copies, Named, ClosedSessionHasFile
<1> QED
  BY InductiveInvariant, <1>1, PTL

-----------------------------------------------------------------------------
(* UploadQueue: the counts that the limit depends on.                      *)

\* The part of the type invariant that the limit depends on.
CountTypes ==
  /\ sessions \in [Sessions -> {"none", "live", "ended", "again"}]
  /\ asked \in [Requests -> {"no", "stats", "create", "yes"}]
  /\ promoter = [k \in Promoters |-> promoter[k]]
  /\ overlap \in Nat

\* Sessions that were created by an admission and have not ended since.
Admissible == {s \in Sessions : sessions[s] = "live"}

CountInv == CountTypes /\ LimitExceededOnlyByOverlap

-----------------------------------------------------------------------------
(* Counting.                                                               *)

LEMMA FiniteCounts ==
  /\ IsFiniteSet(Sessions)
  /\ IsFiniteSet(Admissible) /\ IsFiniteSet(Admissible')
  /\ IsFiniteSet(Live)
  /\ IsFiniteSet(Admitted) /\ IsFiniteSet(Admitted')
  /\ Cardinality(Admissible) \in Nat /\ Cardinality(Admissible') \in Nat
  /\ Cardinality(Admitted) \in Nat /\ Cardinality(Admitted') \in Nat
<1>1. IsFiniteSet(Promoters \cup {Direct})
  BY QueueAssumption, FS_AddElement
<1>2. IsFiniteSet(Sessions)
  BY <1>1, QueueAssumption, FS_Product DEF Sessions
<1>3. IsFiniteSet(Admissible) /\ IsFiniteSet(Admissible') /\ IsFiniteSet(Live)
  BY <1>2, FS_Subset DEF Admissible, Live
<1>4. IsFiniteSet(Requests \cup Promoters)
  BY QueueAssumption, FS_Union
<1>5. IsFiniteSet(Admitted) /\ IsFiniteSet(Admitted')
  BY <1>4, FS_Subset DEF Admitted
<1> QED
  BY <1>2, <1>3, <1>5, FS_CardinalityType

LEMMA OneMore ==
  ASSUME NEW S, NEW T, NEW x, IsFiniteSet(S), T \subseteq S \cup {x}
  PROVE  Cardinality(T) <= Cardinality(S) + 1
<1>1. IsFiniteSet(S \cup {x}) /\ Cardinality(S) \in Nat
  BY FS_AddElement, FS_CardinalityType
<1>2. Cardinality(S \cup {x}) <= Cardinality(S) + 1 /\ Cardinality(S \cup {x}) \in Nat
  BY <1>1, FS_AddElement, FS_CardinalityType
<1>3. Cardinality(T) <= Cardinality(S \cup {x}) /\ Cardinality(T) \in Nat
  BY <1>1, FS_Subset, FS_CardinalityType
<1> QED
  BY <1>1, <1>2, <1>3

LEMMA LimitInWords ==
  /\ LimitExceededOnlyByOverlap
       <=> Cardinality(Admissible) + Cardinality(Admitted) <= MaxActive + overlap
  /\ LimitExceededOnlyByOverlap'
       <=> Cardinality(Admissible') + Cardinality(Admitted') <= MaxActive + overlap'
BY DEF LimitExceededOnlyByOverlap, Admissible

\* Fewer sessions and fewer admissions keep the bound.
LEMMA FewerKeep ==
  ASSUME CountInv, CountTypes', overlap' = overlap,
         Admissible' \subseteq Admissible, Admitted' \subseteq Admitted
  PROVE  CountInv'
<1>1. /\ Cardinality(Admissible') <= Cardinality(Admissible)
      /\ Cardinality(Admitted') <= Cardinality(Admitted)
  BY FiniteCounts, FS_Subset
<1> QED
  BY <1>1, FiniteCounts, LimitInWords, QueueAssumption
  DEF CountInv, CountTypes

\* One more passes the check.
LEMMA AdmissionKeeps ==
  ASSUME CountInv, CountTypes', NEW x, Cardinality(Live) < MaxActive, Overlapping,
         Admissible' = Admissible, Admitted' \subseteq Admitted \cup {x}
  PROVE  CountInv'
<1>1. Cardinality(Admissible) <= Cardinality(Live) /\ Cardinality(Live) \in Nat
  <2>1. Admissible \subseteq Live
    BY DEF Admissible, Live
  <2> QED
    BY <2>1, FiniteCounts, FS_Subset, FS_CardinalityType
<1>2. Cardinality(Admitted') <= Cardinality(Admitted) + 1
  BY FiniteCounts, OneMore
<1>3. overlap' \in Nat /\ Cardinality(Admitted) <= overlap'
  BY FiniteCounts DEF Overlapping, CountInv, CountTypes
<1> QED
  BY <1>1, <1>2, <1>3, FiniteCounts, LimitInWords, QueueAssumption DEF CountInv

\* An admission creates its session.
LEMMA CreationKeeps ==
  ASSUME CountInv, CountTypes', overlap' = overlap,
         NEW s, Admissible' \subseteq Admissible \cup {s},
         NEW x \in Admitted, Admitted' \subseteq Admitted \ {x}
  PROVE  CountInv'
<1>1. Cardinality(Admissible') <= Cardinality(Admissible) + 1
  BY FiniteCounts, OneMore
<1>2. Cardinality(Admitted') <= Cardinality(Admitted) - 1
  <2>1. /\ IsFiniteSet(Admitted \ {x})
        /\ Cardinality(Admitted \ {x}) = Cardinality(Admitted) - 1
    BY FiniteCounts, FS_RemoveElement
  <2> QED
    BY <2>1, FS_Subset
<1> QED
  BY <1>1, <1>2, FiniteCounts, LimitInWords, QueueAssumption
  DEF CountInv, CountTypes

-----------------------------------------------------------------------------
(* Steps.                                                                  *)

LEMMA InitCountInv == QueueInit => CountInv
<1> SUFFICES ASSUME QueueInit PROVE CountInv
  OBVIOUS
<1>1. CountTypes
  BY DEF QueueInit, CountTypes
<1>2. Admissible = {} /\ Admitted = {}
  BY DEF QueueInit, Admissible, Admitted, Idle
<1> QED
  BY <1>1, <1>2, FS_EmptySet, LimitInWords, QueueAssumption DEF CountInv, QueueInit

\* Steps that admit nobody and create no session.
LEMMA QuietSteps ==
  ASSUME CountInv,
         \/ \E r \in Requests : \/ Ask(r) \/ AskFails(r)
                                \/ Cancel(r) \/ ExpireReady(r) \/ ExpireTicket(r)
         \/ \E k \in Promoters : \/ PromoteNext(k) \/ Peek(k) \/ PromoteFails(k)
                                 \/ \E t \in Requests : Poll(k, t)
         \/ \E s \in Sessions : SessionEnds(s) \/ LatePart(s)
         \/ Restart \/ UNCHANGED queueVars
  PROVE  CountInv'
<1> USE DEF CountInv, CountTypes
<1>1. CASE \E r \in Requests : Ask(r)
  <2>1. PICK r \in Requests : Ask(r)
    BY <1>1
  <2>2. /\ asked' \in [Requests -> {"no", "stats", "create", "yes"}]
        /\ \A q \in Requests : asked'[q] = "create" => asked[q] = "create"
    BY <2>1 DEF Ask, Enqueue
  <2>3. UNCHANGED <<sessions, promoter, overlap>>
    BY <2>1 DEF Ask
  <2> QED
    BY <2>2, <2>3, FewerKeep DEF Admissible, Admitted
<1>2. CASE \E r \in Requests : AskFails(r)
  <2>1. PICK r \in Requests : AskFails(r)
    BY <1>2
  <2>2. /\ asked' \in [Requests -> {"no", "stats", "create", "yes"}]
        /\ \A q \in Requests : asked'[q] = "create" => asked[q] = "create"
    BY <2>1 DEF AskFails
  <2>3. UNCHANGED <<sessions, promoter, overlap>>
    BY <2>1 DEF AskFails
  <2> QED
    BY <2>2, <2>3, FewerKeep DEF Admissible, Admitted
<1>3. CASE \/ \E r \in Requests : Cancel(r) \/ ExpireReady(r) \/ ExpireTicket(r)
           \/ UNCHANGED queueVars
  <2>1. UNCHANGED <<sessions, asked, promoter, overlap>>
    BY <1>3 DEF Cancel, ExpireReady, ExpireTicket, queueVars
  <2> QED
    BY <2>1, FewerKeep DEF Admissible, Admitted
<1>4. CASE \E k \in Promoters : \/ PromoteNext(k) \/ Peek(k) \/ PromoteFails(k)
                                \/ \E t \in Requests : Poll(k, t)
  <2>1. PICK k \in Promoters : \/ PromoteNext(k) \/ Peek(k) \/ PromoteFails(k)
                               \/ \E t \in Requests : Poll(k, t)
    BY <1>4
  <2>2. UNCHANGED <<sessions, asked, overlap>>
    BY <2>1 DEF PromoteNext, Peek, PromoteFails, Poll
  <2>3. \E p : promoter' = [promoter EXCEPT ![k] = p] /\ p.step # "create"
    <3>1. Idle.step # "create"
      BY DEF Idle
    <3>2. ASSUME NEW t, Try(k, t)
          PROVE  \E p : promoter' = [promoter EXCEPT ![k] = p] /\ p.step # "create"
      <4> DEFINE new == [step |-> "stats", ticket |-> t]
      <4>1. new.step # "create"
        OBVIOUS
      <4>2. \/ promoter' = [promoter EXCEPT ![k] = new]
            \/ promoter' = [promoter EXCEPT ![k] = Idle]
        BY <3>2 DEF Try
      <4> HIDE DEF new
      <4> QED
        BY <3>1, <4>1, <4>2
    <3>3. CASE PromoteNext(k)
      <4> DEFINE peek == [step |-> "peek", ticket |-> Head(waiting)]
      <4>1. promoter' = [promoter EXCEPT ![k] = peek] /\ peek.step # "create"
        BY <3>3 DEF PromoteNext
      <4> HIDE DEF peek
      <4> QED
        BY <4>1
    <3>4. CASE Peek(k)
      BY <3>1, <3>2, <3>4 DEF Peek
    <3>5. CASE PromoteFails(k)
      BY <3>1, <3>5 DEF PromoteFails
    <3>6. CASE \E t \in Requests : Poll(k, t)
      BY <3>2, <3>6 DEF Poll
    <3> QED
      BY <2>1, <3>3, <3>4, <3>5, <3>6
  <2>4. /\ promoter' = [p \in Promoters |-> promoter'[p]]
        /\ \A p \in Promoters : promoter'[p].step = "create" => promoter[p].step = "create"
    BY <2>3
  <2> QED
    BY <2>2, <2>4, FewerKeep DEF Admissible, Admitted
<1>5. CASE \E s \in Sessions : SessionEnds(s) \/ LatePart(s)
  <2>1. PICK s \in Sessions : SessionEnds(s) \/ LatePart(s)
    BY <1>5
  <2>2. /\ sessions' \in [Sessions -> {"none", "live", "ended", "again"}]
        /\ \A q \in Sessions : sessions'[q] = "live" => sessions[q] = "live"
    BY <2>1 DEF SessionEnds, LatePart
  <2>3. UNCHANGED <<asked, promoter, overlap>>
    BY <2>1 DEF SessionEnds, LatePart
  <2> QED
    BY <2>2, <2>3, FewerKeep DEF Admissible, Admitted
<1>6. CASE Restart
  <2>1. /\ asked' \in [Requests -> {"no", "stats", "create", "yes"}]
        /\ \A r \in Requests : asked'[r] # "create"
    BY <1>6 DEF Restart
  <2>2. /\ promoter' = [p \in Promoters |-> promoter'[p]]
        /\ \A k \in Promoters : promoter'[k].step # "create"
    BY <1>6 DEF Restart, Idle
  <2>3. UNCHANGED <<sessions, overlap>>
    BY <1>6 DEF Restart
  <2> QED
    BY <2>1, <2>2, <2>3, FewerKeep DEF Admissible, Admitted
<1> QED
  BY <1>1, <1>2, <1>3, <1>4, <1>5, <1>6

LEMMA AdmissionSteps ==
  ASSUME CountInv, \/ \E r \in Requests : AskStats(r)
                   \/ \E k \in Promoters : PromoteStats(k)
  PROVE  CountInv'
<1> USE DEF CountInv, CountTypes
<1>1. CASE \E r \in Requests : AskStats(r)
  <2>1. PICK r \in Requests : AskStats(r)
    BY <1>1
  <2>2. UNCHANGED <<sessions, promoter>>
    BY <2>1 DEF AskStats
  <2>3. CASE HasCapacity(Size[r])
    <3>1. /\ Cardinality(Live) < MaxActive /\ Overlapping
          /\ asked' = [asked EXCEPT ![r] = "create"]
      BY <2>1, <2>3 DEF AskStats, HasCapacity
    <3>2. overlap' \in Nat
      BY <3>1, FiniteCounts DEF Overlapping
    <3> QED
      BY <2>2, <3>1, <3>2, AdmissionKeeps DEF Admissible, Admitted
  <2>4. CASE ~HasCapacity(Size[r])
    <3>1. overlap' = overlap /\ asked' = [asked EXCEPT ![r] = "yes"]
      BY <2>1, <2>4 DEF AskStats, Enqueue
    <3> QED
      BY <2>2, <3>1, FewerKeep DEF Admissible, Admitted
  <2> QED
    BY <2>3, <2>4
<1>2. CASE \E k \in Promoters : PromoteStats(k)
  <2>1. PICK k \in Promoters : PromoteStats(k)
    BY <1>2
  <2>2. UNCHANGED <<sessions, asked>>
    BY <2>1 DEF PromoteStats
  <2>3. CASE HasCapacity(Size[promoter[k].ticket])
    <3>1. /\ Cardinality(Live) < MaxActive /\ Overlapping
          /\ promoter' = [promoter EXCEPT ![k].step = "create"]
      BY <2>1, <2>3 DEF PromoteStats, HasCapacity
    <3>2. overlap' \in Nat
      BY <3>1, FiniteCounts DEF Overlapping
    <3> QED
      BY <2>2, <3>1, <3>2, AdmissionKeeps DEF Admissible, Admitted
  <2>4. CASE ~HasCapacity(Size[promoter[k].ticket])
    <3>1. overlap' = overlap /\ promoter' = [promoter EXCEPT ![k] = Idle]
      BY <2>1, <2>4 DEF PromoteStats
    <3>2. Idle.step # "create"
      BY DEF Idle
    <3> QED
      BY <2>2, <3>1, <3>2, FewerKeep DEF Admissible, Admitted
  <2> QED
    BY <2>3, <2>4
<1> QED
  BY <1>1, <1>2

LEMMA CreationSteps ==
  ASSUME CountInv, \/ \E r \in Requests : AskCreate(r)
                   \/ \E k \in Promoters : PromoteCreate(k)
  PROVE  CountInv'
<1> USE DEF CountInv, CountTypes
<1>1. CASE \E r \in Requests : AskCreate(r)
  <2>1. PICK r \in Requests : AskCreate(r)
    BY <1>1
  <2>2. /\ asked[r] = "create" /\ asked' = [asked EXCEPT ![r] = "yes"]
        /\ sessions' = [sessions EXCEPT ![<<r, Direct>>] = "live"]
        /\ UNCHANGED <<promoter, overlap>>
    BY <2>1 DEF AskCreate
  <2>3. r \in Admitted /\ Admitted' \subseteq Admitted \ {r}
    BY <2>2, QueueAssumption DEF Admitted
  <2>4. Admissible' \subseteq Admissible \cup {<<r, Direct>>}
    BY <2>2 DEF Admissible
  <2> QED
    BY <2>2, <2>3, <2>4, CreationKeeps
<1>2. CASE \E k \in Promoters : PromoteCreate(k)
  <2>1. PICK k \in Promoters : PromoteCreate(k)
    BY <1>2
  <2> DEFINE s == <<promoter[k].ticket, k>>
  <2>2. /\ promoter[k].step = "create" /\ promoter' = [promoter EXCEPT ![k] = Idle]
        /\ sessions' = [sessions EXCEPT ![s] = "live"]
        /\ UNCHANGED <<asked, overlap>>
    BY <2>1 DEF PromoteCreate
  <2> HIDE DEF s
  <2>3. Idle.step # "create"
    BY DEF Idle
  <2>4. k \in Admitted /\ Admitted' \subseteq Admitted \ {k}
    BY <2>2, <2>3, QueueAssumption DEF Admitted
  <2>5. Admissible' \subseteq Admissible \cup {s}
    BY <2>2 DEF Admissible
  <2> QED
    BY <2>2, <2>4, <2>5, CreationKeeps
<1> QED
  BY <1>1, <1>2

-----------------------------------------------------------------------------

\* The admissions that overlap account for every session above the limit.
THEOREM CountsHold == QueueSpec => []CountInv
<1>1. CountInv /\ [QueueNext]_queueVars => CountInv'
  BY QuietSteps, AdmissionSteps, CreationSteps DEF QueueNext, Promotion
<1> QED
  BY InitCountInv, <1>1, PTL DEF QueueSpec

\* However many requests and promotions overlap, the sessions that were admitted
\* exceed the limit of UploadQueueService by no more than the admissions that had
\* passed the check of the limit together.
THEOREM LimitHolds == QueueSpec => []LimitExceededOnlyByOverlap
<1>1. CountInv => LimitExceededOnlyByOverlap
  BY DEF CountInv
<1> QED
  BY CountsHold, <1>1, PTL
-----------------------------------------------------------------------------
(* The waiting list and the map.                                           *)

\* A list without repetitions.
Distinct(s) == \A i, j \in 1..Len(s) : s[i] = s[j] => i = j

\* No request has a ticket before its answer, and no promoter works on nothing.
TicketTypes ==
  /\ status \in [Requests -> {"none", "WAITING", "READY"}]
  /\ waiting \in Seq(Requests) /\ Distinct(waiting)
  /\ promoter \in [Promoters -> [step: {"idle", "peek", "stats", "create"},
                                 ticket: Requests \cup {NoTicket}]]
  /\ \A k \in Promoters : promoter[k].step # "idle" => promoter[k].ticket \in Requests
  /\ troubles \in 0 .. MaxTroubles

ListMatchesMap ==
  /\ ToSet(waiting) = {t \in Requests : status[t] = "WAITING"}
  /\ Len(waiting) <= MaxQueue
  /\ \A r \in Requests : asked[r] # "yes" => status[r] = "none"

TicketInv == CountTypes /\ TicketTypes /\ ListMatchesMap

\* indexOf and splice take the only occurrence out and keep the others.
LEMMA SpliceFacts ==
  ASSUME NEW S, NEW s \in Seq(S), NEW t, Distinct(s)
  PROVE  /\ RemoveFirst(s, t) \in Seq(S)
         /\ Distinct(RemoveFirst(s, t))
         /\ ToSet(RemoveFirst(s, t)) = ToSet(s) \ {t}
         /\ Len(RemoveFirst(s, t)) <= Len(s)
<1>. DEFINE n == Len(s)  r == RemoveFirst(s, t)
<1>1. n \in Nat /\ DOMAIN s = 1..n /\ \A i \in 1..n : s[i] \in S
  BY LenProperties, ElementOfSeq
<1>2. CASE \A i \in 1..n : s[i] # t
  <2>1. r = s
    BY <1>2 DEF RemoveFirst
  <2>. QED BY <1>1, <1>2, <2>1 DEF ToSet
<1>3. ASSUME NEW i \in 1..n, s[i] = t
      PROVE  /\ r \in Seq(S) /\ Distinct(r) /\ ToSet(r) = ToSet(s) \ {t}
             /\ Len(r) <= n
  <2>1. {k \in 1..n : s[k] = t} = {i}
    BY <1>3 DEF Distinct
  <2>2. Min({i}) = i
    BY <1>1 DEF Min
  <2>3. SelectInSeq(s, LAMBDA v : v = t) = i
    BY <2>1, <2>2 DEF SelectInSeq
  <2>4. r = SubSeq(s, 1, i-1) \o SubSeq(s, i+1, n)
    BY <1>3, <2>3 DEF RemoveFirst, RemoveAt
  <2>0. /\ i \in Int /\ i-1 \in Int /\ i+1 \in Int /\ n \in Int /\ 1 \in Int
        /\ 1 <= i /\ i <= n
        /\ \A k \in 1..(i-1) : s[k] \in S
        /\ \A k \in (i+1)..n : s[k] \in S
    BY <1>1
  <2>5. /\ SubSeq(s, 1, i-1) \in Seq(S) /\ Len(SubSeq(s, 1, i-1)) = i-1
        /\ \A k \in 1..(i-1) : SubSeq(s, 1, i-1)[k] = s[k]
    <3>1. /\ SubSeq(s, 1, i-1) \in Seq(S)
          /\ Len(SubSeq(s, 1, i-1)) = IF 1 <= i-1 THEN (i-1)-1+1 ELSE 0
          /\ \A k \in 1..((i-1)-1+1) : SubSeq(s, 1, i-1)[k] = s[1+k-1]
      BY <2>0, SubSeqProperties
    <3>. QED BY <2>0, <3>1
  <2>6. /\ SubSeq(s, i+1, n) \in Seq(S) /\ Len(SubSeq(s, i+1, n)) = n-i
        /\ \A k \in 1..(n-i) : SubSeq(s, i+1, n)[k] = s[k+i]
    <3>1. /\ SubSeq(s, i+1, n) \in Seq(S)
          /\ Len(SubSeq(s, i+1, n)) = IF i+1 <= n THEN n-(i+1)+1 ELSE 0
          /\ \A k \in 1..(n-(i+1)+1) : SubSeq(s, i+1, n)[k] = s[(i+1)+k-1]
      BY <2>0, SubSeqProperties
    <3>2. n-(i+1)+1 = n-i
      BY <2>0
    <3>3. ASSUME NEW k \in 1..(n-i) PROVE (i+1)+k-1 = k+i
      BY <2>0
    <3>4. Len(SubSeq(s, i+1, n)) = n-i
      BY <2>0, <3>1
    <3>. QED BY <3>1, <3>2, <3>3, <3>4
  <2>7. /\ r \in Seq(S) /\ Len(r) = n-1 /\ DOMAIN r = 1..(n-1)
        /\ \A k \in 1..(n-1) : r[k] = IF k < i THEN s[k] ELSE s[k+1]
    <3>. DEFINE a == SubSeq(s, 1, i-1)  b == SubSeq(s, i+1, n)
    <3>. HIDE DEF a, b, r
    <3>0. /\ a \in Seq(S) /\ Len(a) = i-1 /\ \A k \in 1..(i-1) : a[k] = s[k]
          /\ b \in Seq(S) /\ Len(b) = n-i /\ \A k \in 1..(n-i) : b[k] = s[k+i]
          /\ r = a \o b
      BY <2>4, <2>5, <2>6 DEF a, b
    <3>1. /\ r \in Seq(S) /\ Len(r) = Len(a) + Len(b)
          /\ \A k \in 1..(Len(a) + Len(b)) :
               r[k] = IF k <= Len(a) THEN a[k] ELSE b[k - Len(a)]
      BY <3>0, ConcatProperties
    <3>2. Len(a) + Len(b) = n-1
      BY <2>0, <3>0
    <3>3. ASSUME NEW k \in 1..(n-1) PROVE r[k] = IF k < i THEN s[k] ELSE s[k+1]
      <4>1. CASE k < i
        BY <2>0, <3>0, <3>1, <3>2, <4>1
      <4>2. CASE ~(k < i)
        <5>1. r[k] = b[k-(i-1)]
          BY <2>0, <3>0, <3>1, <3>2, <4>2
        <5>2. k-(i-1) \in 1..(n-i) /\ (k-(i-1))+i = k+1
          BY <2>0, <4>2
        <5>. QED BY <5>1, <5>2, <3>0, <4>2
      <4>. QED BY <4>1, <4>2
    <3>4. Len(r) = n-1
      BY <3>1, <3>2
    <3>. QED BY <3>1, <3>3, <3>4, LenProperties
  <2>. HIDE DEF r
  <2>8. Distinct(r)
    BY <1>1, <2>7 DEF Distinct
  <2>9. ToSet(r) = ToSet(s) \ {t}
    <3>1. ASSUME NEW k \in 1..(n-1) PROVE r[k] \in ToSet(s) \ {t}
      BY <1>1, <1>3, <2>7 DEF Distinct, ToSet
    <3>2. ASSUME NEW k \in 1..n, s[k] # t PROVE s[k] \in ToSet(r)
      <4>1. CASE k < i
        BY <1>1, <2>7, <4>1 DEF ToSet
      <4>2. CASE k > i
        <5>1. k-1 \in 1..(n-1) /\ ~(k-1 < i) /\ (k-1)+1 = k
          BY <1>1, <4>2
        <5>2. r[k-1] = s[k]
          BY <5>1, <2>7
        <5>. QED BY <5>1, <5>2, <2>7 DEF ToSet
      <4>. QED BY <1>1, <1>3, <3>2, <4>1, <4>2
    <3>. QED BY <1>1, <2>7, <3>1, <3>2 DEF ToSet
  <2>. QED BY <2>7, <2>8, <2>9, <1>1
<1>. QED BY <1>2, <1>3

\* Adding an element that is not there yet.
LEMMA AppendFacts ==
  ASSUME NEW S, NEW s \in Seq(S), NEW t \in S, Distinct(s), t \notin ToSet(s)
  PROVE  /\ Append(s, t) \in Seq(S)
         /\ Distinct(Append(s, t))
         /\ ToSet(Append(s, t)) = ToSet(s) \cup {t}
         /\ Len(Append(s, t)) = Len(s) + 1
<1>. DEFINE a == Append(s, t)
<1>1. /\ a \in Seq(S) /\ Len(a) = Len(s) + 1 /\ DOMAIN a = 1..(Len(s)+1)
      /\ \A i \in 1..Len(s) : a[i] = s[i]
      /\ a[Len(s)+1] = t
  BY AppendProperties, LenProperties
<1>2. Len(s) \in Nat /\ DOMAIN s = 1..Len(s) /\ \A i \in 1..Len(s) : s[i] # t
  BY LenProperties DEF ToSet
<1>. HIDE DEF a
<1>3. ToSet(a) = ToSet(s) \cup {t}
  BY <1>1, <1>2 DEF ToSet
<1>4. Distinct(a)
  BY <1>1, <1>2 DEF Distinct
<1>. QED BY <1>1, <1>3, <1>4 DEF a

\* A list without repetitions is as long as its set.
LEMMA DistinctLength ==
  ASSUME NEW S, NEW s \in Seq(S), Distinct(s)
  PROVE  Len(s) = Cardinality(ToSet(s))
<1>1. Len(s) \in Nat /\ DOMAIN s = 1..Len(s) /\ s = [i \in 1..Len(s) |-> s[i]]
  BY LenProperties
<1>2. IsFiniteSet(1..Len(s)) /\ Cardinality(1..Len(s)) = Len(s)
  <2>1. Len(s) \in Int /\ 1 \in Int
    BY <1>1
  <2>2. /\ IsFiniteSet(1..Len(s))
        /\ Cardinality(1..Len(s)) = IF 1 > Len(s) THEN 0 ELSE Len(s)-1+1
    BY <2>1, FS_Interval
  <2>. QED BY <1>1, <2>2
<1>3. s \in Injection(1..Len(s), ToSet(s)) /\ s \in Surjection(1..Len(s), ToSet(s))
  BY <1>1 DEF Distinct, ToSet, Injection, Surjection, IsInjective
<1>. QED BY <1>2, <1>3, FS_Surjection

\* What a step does to the promoters and the counter of troubles.
PromotersTyped ==
  /\ promoter \in [Promoters -> [step: {"idle", "peek", "stats", "create"},
                                 ticket: Requests \cup {NoTicket}]]
  /\ \A k \in Promoters : promoter[k].step # "idle" => promoter[k].ticket \in Requests
  /\ troubles \in 0 .. MaxTroubles

\* A request that was answered stays answered.
Onward == \A r \in Requests : asked'[r] # "yes" => asked[r] # "yes"

\* Nothing moves in the list or the map.
LEMMA QueueKept ==
  ASSUME TicketInv, Onward, PromotersTyped', UNCHANGED queue
  PROVE  TicketTypes' /\ ListMatchesMap'
  BY DEF TicketInv, Onward, PromotersTyped, TicketTypes, ListMatchesMap, Distinct, queue, ToSet

\* A ticket stops waiting: it leaves the list and the map's status at once.
LEMMA LeavingKeeps ==
  ASSUME TicketInv, Onward, PromotersTyped',
         NEW t \in Requests, NEW s \in {"none", "READY"}, s = "READY" => asked'[t] = "yes",
         status' = [status EXCEPT ![t] = s], waiting' = RemoveFirst(waiting, t)
  PROVE  TicketTypes' /\ ListMatchesMap'
<1>1. /\ waiting' \in Seq(Requests) /\ Distinct(waiting')
      /\ ToSet(waiting') = ToSet(waiting) \ {t}
      /\ Len(waiting') <= Len(waiting)
  BY SpliceFacts DEF TicketInv, TicketTypes
<1>2. Len(waiting) \in Nat /\ Len(waiting') \in Nat
  BY <1>1, LenProperties DEF TicketInv, TicketTypes
<1>3. Len(waiting') <= MaxQueue
  BY <1>1, <1>2, QueueAssumption DEF TicketInv, ListMatchesMap
<1>4. TicketTypes'
  BY <1>1 DEF TicketInv, TicketTypes, PromotersTyped, Distinct
<1>5. /\ status \in [Requests -> {"none", "WAITING", "READY"}]
      /\ ToSet(waiting) = {q \in Requests : status[q] = "WAITING"}
      /\ \A r \in Requests : asked[r] # "yes" => status[r] = "none"
  BY DEF TicketInv, TicketTypes, ListMatchesMap
<1>6. ToSet(waiting') = {q \in Requests : status'[q] = "WAITING"}
  BY <1>1, <1>5
<1>7. \A r \in Requests : asked'[r] # "yes" => status'[r] = "none"
  BY <1>5 DEF Onward
<1>. QED BY <1>3, <1>4, <1>6, <1>7 DEF ListMatchesMap, ToSet

\* A request is answered with a ticket, unless the list is full.
LEMMA EnqueueKeeps ==
  ASSUME TicketInv, PromotersTyped', NEW r \in Requests, asked[r] # "yes", Enqueue(r)
  PROVE  TicketTypes' /\ ListMatchesMap'
<1>1. asked' = [asked EXCEPT ![r] = "yes"] /\ Onward
  BY DEF Enqueue, Onward, TicketInv, CountTypes
<1>2. CASE Len(waiting) >= MaxQueue
  BY <1>1, <1>2, QueueKept DEF Enqueue
<1>3. CASE ~(Len(waiting) >= MaxQueue)
  <2>1. status' = [status EXCEPT ![r] = "WAITING"] /\ waiting' = Append(waiting, r)
    BY <1>3 DEF Enqueue
  <2>2. /\ status \in [Requests -> {"none", "WAITING", "READY"}]
        /\ ToSet(waiting) = {q \in Requests : status[q] = "WAITING"}
        /\ status[r] = "none" /\ r \notin ToSet(waiting)
        /\ \A q \in Requests : asked[q] # "yes" => status[q] = "none"
    BY DEF TicketInv, TicketTypes, ListMatchesMap
  <2>3. /\ waiting' \in Seq(Requests) /\ Distinct(waiting')
        /\ ToSet(waiting') = ToSet(waiting) \cup {r}
        /\ Len(waiting') = Len(waiting) + 1
    BY <2>1, <2>2, AppendFacts DEF TicketInv, TicketTypes
  <2>4. Len(waiting) \in Nat
    BY LenProperties DEF TicketInv, TicketTypes
  <2>5. Len(waiting') <= MaxQueue
    BY <1>3, <2>3, <2>4, QueueAssumption
  <2>6. TicketTypes'
    BY <2>1, <2>2, <2>3 DEF PromotersTyped, TicketTypes, Distinct
  <2>7. ToSet(waiting') = {q \in Requests : status'[q] = "WAITING"}
    BY <2>1, <2>2, <2>3
  <2>8. \A q \in Requests : asked'[q] # "yes" => status'[q] = "none"
    BY <1>1, <2>1, <2>2 DEF TicketInv, CountTypes
  <2>. QED BY <2>5, <2>6, <2>7, <2>8 DEF ListMatchesMap, ToSet
<1>. QED BY <1>2, <1>3

\* The promoters keep their types: one that is at work has a ticket.
LEMMA PromotersStep ==
  ASSUME TicketInv, QueueNext
  PROVE  PromotersTyped'
<1>. USE QueueAssumption
<1>1. PromotersTyped
  BY DEF TicketInv, TicketTypes, PromotersTyped
<1>2. Idle \in [step: {"idle", "peek", "stats", "create"}, ticket: Requests \cup {NoTicket}]
      /\ Idle.step = "idle"
  BY DEF Idle
<1>3. ASSUME NEW k \in Promoters,
             NEW p \in [step: {"idle", "peek", "stats", "create"},
                        ticket: Requests \cup {NoTicket}],
             p.step # "idle" => p.ticket \in Requests,
             promoter' = [promoter EXCEPT ![k] = p], troubles' \in 0 .. MaxTroubles
      PROVE  PromotersTyped'
  BY <1>1, <1>3 DEF PromotersTyped
<1>4. ASSUME NEW k \in Promoters, NEW t \in Requests, Try(k, t), UNCHANGED troubles
      PROVE  PromotersTyped'
  <2> DEFINE p == [step |-> "stats", ticket |-> t]
  <2>1. p \in [step: {"idle", "peek", "stats", "create"}, ticket: Requests \cup {NoTicket}]
        /\ p.ticket \in Requests
    OBVIOUS
  <2>2. promoter' = [promoter EXCEPT ![k] = p] \/ promoter' = [promoter EXCEPT ![k] = Idle]
    BY <1>4 DEF Try
  <2>3. troubles' \in 0 .. MaxTroubles
    BY <1>1, <1>4 DEF PromotersTyped
  <2> HIDE DEF p
  <2> QED BY <1>2, <1>3, <2>1, <2>2, <2>3
<1>5. CASE \/ \E r \in Requests : \/ Ask(r) \/ AskStats(r) \/ AskCreate(r) \/ AskFails(r)
                                  \/ Cancel(r) \/ ExpireReady(r) \/ ExpireTicket(r)
           \/ \E s \in Sessions : SessionEnds(s) \/ LatePart(s)
  <2>1. UNCHANGED promoter /\ (UNCHANGED troubles \/ Trouble)
    BY <1>5 DEF Ask, AskStats, AskCreate, AskFails, Cancel, ExpireReady, ExpireTicket,
       SessionEnds, LatePart
  <2>2. troubles' \in 0 .. MaxTroubles
    BY <1>1, <2>1 DEF PromotersTyped, Trouble
  <2> QED BY <1>1, <2>1, <2>2 DEF PromotersTyped
<1>6. ASSUME NEW k \in Promoters, PromoteNext(k) PROVE PromotersTyped'
  <2> DEFINE p == [step |-> "peek", ticket |-> Head(waiting)]
  <2>1. Head(waiting) \in Requests
    BY <1>6, HeadTailProperties DEF PromoteNext, TicketInv, TicketTypes
  <2>2. p \in [step: {"idle", "peek", "stats", "create"}, ticket: Requests \cup {NoTicket}]
        /\ p.ticket \in Requests
    BY <2>1
  <2>3. promoter' = [promoter EXCEPT ![k] = p] /\ troubles' \in 0 .. MaxTroubles
    BY <1>1, <1>6 DEF PromoteNext, PromotersTyped
  <2> HIDE DEF p
  <2> QED BY <1>3, <2>2, <2>3
<1>7. ASSUME NEW k \in Promoters, Peek(k) PROVE PromotersTyped'
  <2>1. promoter[k].ticket \in Requests /\ UNCHANGED troubles
    BY <1>1, <1>7 DEF Peek, PromotersTyped
  <2>2. Try(k, promoter[k].ticket) \/ promoter' = [promoter EXCEPT ![k] = Idle]
    BY <1>7 DEF Peek
  <2>3. troubles' \in 0 .. MaxTroubles
    BY <1>1, <2>1 DEF PromotersTyped
  <2> QED BY <1>2, <1>3, <1>4, <2>1, <2>2, <2>3
<1>8. ASSUME NEW k \in Promoters, PromoteStats(k) PROVE PromotersTyped'
  <2> DEFINE p == [promoter[k] EXCEPT !.step = "create"]
  <2>1. /\ promoter[k] \in [step: {"idle", "peek", "stats", "create"},
                            ticket: Requests \cup {NoTicket}]
        /\ promoter[k].step = "stats" /\ promoter[k].ticket \in Requests
    BY <1>1, <1>8 DEF PromoteStats, PromotersTyped
  <2>2. p \in [step: {"idle", "peek", "stats", "create"}, ticket: Requests \cup {NoTicket}]
        /\ p.ticket \in Requests
    BY <2>1
  <2>3. promoter' = [promoter EXCEPT ![k] = p] \/ promoter' = [promoter EXCEPT ![k] = Idle]
    BY <1>8 DEF PromoteStats
  <2>4. troubles' \in 0 .. MaxTroubles
    BY <1>1, <1>8 DEF PromoteStats, PromotersTyped
  <2> HIDE DEF p
  <2> QED BY <1>2, <1>3, <2>2, <2>3, <2>4
<1>9. ASSUME NEW k \in Promoters, PromoteCreate(k) \/ PromoteFails(k) PROVE PromotersTyped'
  <2>1. promoter' = [promoter EXCEPT ![k] = Idle] /\ troubles' \in 0 .. MaxTroubles
    BY <1>1, <1>9 DEF PromoteCreate, PromoteFails, PromotersTyped, Trouble
  <2> QED BY <1>2, <1>3, <2>1
<1>10. ASSUME NEW k \in Promoters, NEW t \in Requests, Poll(k, t) PROVE PromotersTyped'
  BY <1>4, <1>10 DEF Poll
<1>11. CASE Restart
  BY <1>1, <1>2, <1>11 DEF Restart, PromotersTyped, Trouble
<1> QED BY <1>5, <1>6, <1>7, <1>8, <1>9, <1>10, <1>11 DEF QueueNext, Promotion

\* Whatever enters or leaves the list does the same to the map in one step.
LEMMA TicketStep ==
  ASSUME TicketInv, QueueNext
  PROVE  TicketTypes' /\ ListMatchesMap'
<1>1. PromotersTyped'
  BY PromotersStep
<1>2. asked \in [Requests -> {"no", "stats", "create", "yes"}]
  BY DEF TicketInv, CountTypes
<1>3. ASSUME NEW r \in Requests, Ask(r) \/ AskStats(r)
      PROVE  TicketTypes' /\ ListMatchesMap'
  <2>1. asked[r] # "yes"
    BY <1>3 DEF Ask, AskStats
  <2>2. CASE Enqueue(r)
    BY <1>1, <2>1, <2>2, EnqueueKeeps
  <2>3. CASE ~Enqueue(r)
    <3>1. UNCHANGED queue /\ Onward
      BY <1>2, <1>3, <2>1, <2>3 DEF Ask, AskStats, Onward
    <3>. QED BY <1>1, <3>1, QueueKept
  <2>. QED BY <2>2, <2>3
<1>4. ASSUME NEW r \in Requests, AskCreate(r) \/ AskFails(r)
      PROVE  TicketTypes' /\ ListMatchesMap'
  <2>1. UNCHANGED queue /\ Onward
    BY <1>2, <1>4 DEF AskCreate, AskFails, Onward
  <2>. QED BY <1>1, <2>1, QueueKept
<1>5. ASSUME NEW r \in Requests, Cancel(r) \/ ExpireReady(r) \/ ExpireTicket(r)
      PROVE  TicketTypes' /\ ListMatchesMap'
  <2>1. RemoveTicket(r) /\ Onward
    BY <1>5 DEF Cancel, ExpireReady, ExpireTicket, Onward
  <2>. QED BY <1>1, <2>1, LeavingKeeps DEF RemoveTicket
<1>6. ASSUME NEW k \in Promoters, PromoteCreate(k)
      PROVE  TicketTypes' /\ ListMatchesMap'
  <2> DEFINE t == promoter[k].ticket
  <2>1. t \in Requests /\ status[t] \in {"none", "WAITING", "READY"}
    BY <1>6 DEF PromoteCreate, TicketInv, TicketTypes
  <2>2. /\ UNCHANGED asked /\ Onward /\ waiting' = RemoveFirst(waiting, t)
        /\ status' = [status EXCEPT ![t] = IF @ = "none" THEN @ ELSE "READY"]
    BY <1>6 DEF PromoteCreate, Onward
  <2>3. status[t] # "none" => asked[t] = "yes"
    BY <2>1 DEF TicketInv, ListMatchesMap
  <2> HIDE DEF t
  <2>4. CASE status[t] = "none"
    <3>1. status' = [status EXCEPT ![t] = "none"]
      BY <2>2, <2>4
    <3>. QED BY <1>1, <2>1, <2>2, <3>1, LeavingKeeps
  <2>5. CASE status[t] # "none"
    <3>1. status' = [status EXCEPT ![t] = "READY"]
      BY <2>2, <2>5
    <3>2. asked'[t] = "yes"
      BY <2>2, <2>3, <2>5
    <3>. QED BY <1>1, <2>1, <2>2, <3>1, <3>2, LeavingKeeps
  <2>. QED BY <2>4, <2>5
<1>7. ASSUME \/ \E k \in Promoters : \/ PromoteNext(k) \/ Peek(k) \/ PromoteStats(k)
                                     \/ PromoteFails(k)
                                     \/ \E t \in Requests : Poll(k, t)
             \/ \E s \in Sessions : SessionEnds(s) \/ LatePart(s)
      PROVE  TicketTypes' /\ ListMatchesMap'
  <2>1. UNCHANGED queue /\ Onward
    BY <1>7 DEF PromoteNext, Peek, PromoteStats, PromoteFails, Poll, SessionEnds, LatePart,
       Onward
  <2>. QED BY <1>1, <2>1, QueueKept
<1>8. CASE Restart
  <2>1. /\ waiting' = <<>> /\ status' = [r \in Requests |-> "none"]
    BY <1>8 DEF Restart
  <2>2. waiting' \in Seq(Requests) /\ Len(waiting') = 0 /\ Distinct(waiting')
        /\ ToSet(waiting') = {}
    BY <2>1 DEF Distinct, ToSet
  <2>3. TicketTypes'
    BY <1>1, <2>1, <2>2 DEF TicketTypes, PromotersTyped, Distinct
  <2>4. ListMatchesMap'
    BY <2>1, <2>2, QueueAssumption DEF ListMatchesMap, ToSet
  <2>. QED BY <2>3, <2>4
<1>. QED BY <1>3, <1>4, <1>5, <1>6, <1>7, <1>8 DEF QueueNext, Promotion

\* At the start the list is empty and no request has a ticket.
LEMMA InitTicketInv == QueueInit => TicketInv
<1> SUFFICES ASSUME QueueInit PROVE TicketInv
  OBVIOUS
<1>1. CountTypes
  BY InitCountInv DEF CountInv
<1>2. /\ waiting = <<>> /\ status = [r \in Requests |-> "none"] /\ troubles = 0
      /\ promoter = [k \in Promoters |-> Idle]
  BY DEF QueueInit
<1>3. waiting \in Seq(Requests) /\ Len(waiting) = 0 /\ Distinct(waiting) /\ ToSet(waiting) = {}
  BY <1>2 DEF Distinct, ToSet
<1>4. TicketTypes
  BY <1>2, <1>3, QueueAssumption DEF TicketTypes, Idle
<1>5. ListMatchesMap
  BY <1>2, <1>3, QueueAssumption DEF ListMatchesMap
<1> QED BY <1>1, <1>4, <1>5 DEF TicketInv

\* The list and the map agree after every step.
LEMMA TicketsHold == QueueSpec => []TicketInv
<1>1. CountInv /\ CountInv' /\ TicketInv /\ [QueueNext]_queueVars => TicketInv'
  <2> SUFFICES ASSUME CountInv, CountInv', TicketInv, [QueueNext]_queueVars PROVE TicketInv'
    OBVIOUS
  <2>1. CASE QueueNext
    BY <2>1, TicketStep DEF TicketInv, CountInv
  <2>2. CASE UNCHANGED queueVars
    BY <2>2 DEF queueVars, TicketInv, CountInv, TicketTypes, ListMatchesMap, Distinct, ToSet
  <2> QED BY <2>1, <2>2
<1> QED
  BY InitTicketInv, CountsHold, <1>1, PTL DEF QueueSpec

\* The types of the variables, the tickets of promoters under way included.
THEOREM QueueTypeCorrect == QueueSpec => []QueueTypeOK
<1>1. TicketInv => QueueTypeOK
  BY DEF TicketInv, CountTypes, TicketTypes, QueueTypeOK
<1> QED
  BY TicketsHold, <1>1, PTL

\* However polls, promotions, cancellations, expiries and restarts overlap, a
\* ticket of UploadQueueService is in waitingOrder, once, if and only if its entry
\* in ticketMap waits, and the list never passes its limit.
THEOREM ListFollowsMap == QueueSpec => []WaitingOrderMatchesMap
<1>1. TicketInv => WaitingOrderMatchesMap
  BY DistinctLength DEF TicketInv, TicketTypes, ListMatchesMap, WaitingOrderMatchesMap
<1> QED
  BY TicketsHold, <1>1, PTL
=============================================================================
