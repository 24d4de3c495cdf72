-------------------------- MODULE MultipartUpload --------------------------
(***************************************************************************)
(* One multipart upload session, from its parts to the file on the NAS.    *)
(*                                                                         *)
(* The session row is read by a request, changed in memory and saved       *)
(* whole: every request below keeps the copy it read ("seen") and writes   *)
(* it back in a later step, over whatever the others have saved meanwhile. *)
(* A part is a file of the cache and a row; completing commits a file, its *)
(* NAS row, its event and the session in one transaction, and a worker job *)
(* copies the parts to the NAS, joins them in the cache and closes the     *)
(* session.  A cron deletes what is overdue, aborted or stuck.             *)
(*                                                                         *)
(* Requests are numbered in the order in which they begin; the number of a *)
(* complete request is also the id of the file it creates.                 *)
(***************************************************************************)
EXTENDS Naturals, FiniteSets

CONSTANTS
  Parts,        \* the part numbers of the session
  Sent,         \* the parts that are stored when the behaviour begins
  MaxAttempts,  \* runs of one worker job
  MaxPuts,      \* bound: requests that send a part, again or for the first time
  MaxCompletes, \* bound: complete requests
  MaxRequests,  \* bound: both together
  MaxBreaks     \* bound: broken streams, crashes and failed registrations

ASSUME UploadAssumption ==
  /\ Parts \subseteq Nat \ {0}
  /\ Sent \subseteq Parts
  /\ MaxAttempts \in Nat \ {0}
  /\ MaxPuts \in Nat
  /\ MaxCompletes \in Nat
  /\ MaxRequests \in Nat
  /\ MaxBreaks \in Nat

VARIABLES
  session,   \* the upload_sessions row: status, completedParts, fileId
  overdue,   \* expiresAt has passed
  partRows,  \* parts with a COMPLETED row in upload_parts
  partFile,  \* the content of each part's file in the cache
  up,        \* upload requests: step, part, copy of the session
  com,       \* complete requests: step, copy of the session
  abort,     \* the abort request: what it has left to do, copy of the session
  cleanup,   \* step of the orphan cleanup
  nas,       \* per file: status and content on the NAS, copy in the cache
  job,       \* per file: step of its worker job, its kind, runs, copy of the
             \* session
  breaks,    \* failures so far
  disturbed  \* history: a stored part was overwritten or removed before its
             \* file was finalized

vars == <<session, overdue, partRows, partFile, up, com, abort, cleanup, nas,
          job, breaks, disturbed>>
requests == <<up, com, abort>>
stored == <<partRows, partFile, disturbed>>

Uploads == 1 .. MaxPuts
Completes == 1 .. MaxCompletes
NoFile == 0

SessionStatuses == {"GONE", "INIT", "UPLOADING", "COMPLETING", "COMPLETED",
                    "ABORTED", "EXPIRED"}
Session == [status: SessionStatuses, done: SUBSET Parts,
            file: Completes \cup {NoFile}]
NoSession == [status |-> "GONE", done |-> {}, file |-> NoFile]
NoPart == 0
Ended == [step |-> "end", seen |-> NoSession]
NoPut == [step |-> "idle", part |-> NoPart, seen |-> NoSession]
PutEnded == [NoPut EXCEPT !.step = "end"]

JobSteps == {"none", "lost", "waiting", "concat", "close", "sweep", "done",
             "failed"}
AbortWork == {"ask", "save", "files", "rows"}

TypeOK ==
  /\ session \in Session
  /\ overdue \in BOOLEAN
  /\ partRows \subseteq Parts
  /\ partFile \in [Parts -> {"none", "torn", "whole"}]
  /\ up \in [Uploads -> [step: {"idle", "write", "save", "expire", "end"},
                         part: Parts \cup {NoPart}, seen: Session]]
  /\ com \in [Completes -> [step: {"idle", "commit", "register", "expire", "end"},
                            seen: Session]]
  /\ abort \in [todo: SUBSET AbortWork, seen: Session]
  /\ cleanup \in {"idle", "files", "rows"}
  /\ nas \in [Completes -> [status: {"none", "SYNCING", "AVAILABLE"},
                            content: {"none", "short", "whole"},
                            cached: BOOLEAN]]
  /\ job \in [Completes -> [step: JobSteps, multipart: BOOLEAN,
                            runs: 0 .. MaxAttempts, seen: Session]]
  /\ breaks \in 0 .. MaxBreaks
  /\ disturbed \in BOOLEAN

Init ==
  /\ session = [status |-> IF Sent = {} THEN "INIT" ELSE "UPLOADING",
                done |-> Sent, file |-> NoFile]
  /\ overdue = FALSE
  /\ partRows = Sent
  /\ partFile = [p \in Parts |-> IF p \in Sent THEN "whole" ELSE "none"]
  /\ up = [u \in Uploads |-> NoPut]
  /\ com = [c \in Completes |-> [step |-> "idle", seen |-> NoSession]]
  /\ abort = [todo |-> {"ask"}, seen |-> NoSession]
  /\ cleanup = "idle"
  /\ nas = [c \in Completes |->
              [status |-> "none", content |-> "none", cached |-> FALSE]]
  /\ job = [c \in Completes |->
              [step |-> "none", multipart |-> TRUE, runs |-> 0,
               seen |-> NoSession]]
  /\ breaks = 0
  /\ disturbed = FALSE

-----------------------------------------------------------------------------
(* Helpers                                                                 *)

IsExpired(s) == s.status = "EXPIRED" \/ overdue

MarkPartCompleted(s, p) ==
  [s EXCEPT !.done = @ \cup {p},
            !.status = IF @ = "INIT" THEN "UPLOADING" ELSE @]

\* entity.expire(), which throws for a session that is completing.
Expired(s) == [s EXCEPT !.status = "EXPIRED"]

\* Mutant: a missing part file is skipped.
JoinedSkipping(listed) ==
  IF listed = Parts /\ \A p \in Parts : partFile[p] = "whole" THEN "whole" ELSE "short"

\* Content that a copy of the given parts produces; none when a file is missing.
Joined(listed) ==
  IF \E p \in listed : partFile[p] = "none" THEN "none"
  ELSE IF listed = Parts /\ \A p \in Parts : partFile[p] = "whole" THEN "whole"
  ELSE "short"

RemoveFiles == partFile' = [p \in Parts |-> "none"]
WholeFiles == {p \in Parts : partFile[p] = "whole"}

Begun == {u \in Uploads : up[u].step # "idle"}
Asked == {c \in Completes : com[c].step # "idle"}
MayBegin == Cardinality(Begun) + Cardinality(Asked) < MaxRequests

Break == breaks < MaxBreaks /\ breaks' = breaks + 1

-----------------------------------------------------------------------------
(* PUT parts/:n                                                            *)

UploadBegin(u, p) ==
  /\ up[u].step = "idle" /\ 1 .. u - 1 \subseteq Begun /\ MayBegin
  /\ session.status \notin {"GONE", "COMPLETED", "ABORTED"}
  /\ ~(session.status = "COMPLETING" /\ overdue)
  /\ up' = [up EXCEPT ![u] =
              [step |-> IF IsExpired(session) THEN "expire" ELSE "write",
               part |-> p, seen |-> session]]
  /\ UNCHANGED <<session, overdue, com, abort, cleanup, nas, job, breaks, stored>>

\* Stream the part to its file and save its row.
UploadWrite(u) ==
  LET p == up[u].part IN
  /\ up[u].step = "write"
  /\ partFile' = [partFile EXCEPT ![p] = "whole"]
  /\ partRows' = partRows \cup {p}
  /\ up' = [up EXCEPT ![u].step = "save"]
  /\ UNCHANGED <<session, overdue, com, abort, cleanup, nas, job, breaks, disturbed>>

\* The client's stream breaks: the file is already truncated.
UploadTorn(u) ==
  LET p == up[u].part IN
  /\ up[u].step = "write"
  /\ Break
  /\ partFile' = [partFile EXCEPT ![p] = "torn"]
  /\ disturbed' = (disturbed \/ p \in partRows)
  /\ up' = [up EXCEPT ![u] = PutEnded]
  /\ UNCHANGED <<session, overdue, partRows, com, abort, cleanup, nas, job>>

UploadSave(u) ==
  /\ up[u].step = "save"
  /\ session' = MarkPartCompleted(up[u].seen, up[u].part)
  /\ up' = [up EXCEPT ![u] = PutEnded]
  /\ UNCHANGED <<overdue, com, abort, cleanup, nas, job, breaks, stored>>

UploadExpire(u) ==
  /\ up[u].step = "expire"
  /\ session' = Expired(up[u].seen)
  /\ up' = [up EXCEPT ![u] = PutEnded]
  /\ UNCHANGED <<overdue, com, abort, cleanup, nas, job, breaks, stored>>

-----------------------------------------------------------------------------
(* POST complete                                                           *)

\* The checks, all outside the transaction.
CompleteCheck(c) ==
  /\ com[c].step = "idle" /\ 1 .. c - 1 \subseteq Asked /\ MayBegin
  /\ session.status \notin {"GONE", "COMPLETED", "COMPLETING", "ABORTED"}
  /\ IsExpired(session) \/ (session.done = Parts /\ partRows = Parts)
  /\ com' = [com EXCEPT ![c].seen = session,
                        ![c].step = IF IsExpired(session) THEN "expire"
                                                          ELSE "commit"]
  /\ UNCHANGED <<session, overdue, up, abort, cleanup, nas, job, breaks, stored>>

CompleteExpire(c) ==
  /\ com[c].step = "expire"
  /\ session' = Expired(com[c].seen)
  /\ com' = [com EXCEPT ![c] = Ended]
  /\ UNCHANGED <<overdue, up, abort, cleanup, nas, job, breaks, stored>>

\* File, NAS row, event and session are committed together.
CompleteCommit(c) ==
  /\ com[c].step = "commit"
  /\ session' = [com[c].seen EXCEPT !.status = "COMPLETING", !.file = c]
  /\ nas' = [nas EXCEPT ![c].status = "SYNCING"]
  /\ com' = [com EXCEPT ![c].step = "register"]
  /\ job' = [job EXCEPT ![c].step = "lost"]
  /\ UNCHANGED <<overdue, up, abort, cleanup, breaks, stored>>

CompleteRegister(c) ==
  /\ com[c].step = "register"
  /\ com' = [com EXCEPT ![c] = Ended]
  /\ job' = [job EXCEPT ![c].step = "waiting"]
  /\ UNCHANGED <<session, overdue, up, abort, cleanup, nas, breaks, stored>>

\* addJob fails: the event stays PENDING and the request answers all the same.
CompleteUnqueued(c) ==
  /\ com[c].step = "register"
  /\ Break
  /\ com' = [com EXCEPT ![c] = Ended]
  /\ UNCHANGED <<session, overdue, up, abort, cleanup, nas, job, stored>>

\* The recovery cron registers a PENDING event as a plain upload, without the
\* id of the session.
Recover(c) ==
  /\ job[c].step = "lost" /\ com[c].step = "end"
  /\ job' = [job EXCEPT ![c].step = "waiting", ![c].multipart = FALSE]
  /\ UNCHANGED <<session, overdue, requests, cleanup, nas, breaks, stored>>

-----------------------------------------------------------------------------
(* DELETE session                                                          *)

AbortAsk ==
  /\ "ask" \in abort.todo
  /\ session.status \in {"INIT", "UPLOADING"}
  /\ ~overdue
  /\ abort' = [todo |-> {"save"}, seen |-> session]
  /\ UNCHANGED <<session, overdue, up, com, cleanup, nas, job, breaks, stored>>

AbortSave ==
  /\ "save" \in abort.todo
  /\ session' = [abort.seen EXCEPT !.status = "ABORTED"]
  /\ abort' = [todo |-> {"files", "rows"}, seen |-> NoSession]
  /\ UNCHANGED <<overdue, up, com, cleanup, nas, job, breaks, stored>>

\* The files go in the background while the request deletes the rows.
AbortFiles ==
  /\ "files" \in abort.todo
  /\ RemoveFiles
  /\ disturbed' = (disturbed \/ WholeFiles # {})
  /\ abort' = [abort EXCEPT !.todo = @ \ {"files"}]
  /\ UNCHANGED <<session, overdue, partRows, up, com, cleanup, nas, job, breaks>>

AbortRows ==
  /\ "rows" \in abort.todo
  /\ partRows' = {}
  /\ disturbed' = (disturbed \/ partRows # {})
  /\ abort' = [abort EXCEPT !.todo = @ \ {"rows"}]
  /\ UNCHANGED <<session, overdue, partFile, up, com, cleanup, nas, job, breaks>>

-----------------------------------------------------------------------------
(* The worker                                                              *)

Goto(c, step) ==
  [job EXCEPT ![c].step = step, ![c].seen = NoSession]
Throw(c) ==
  Goto(c, IF job[c].runs < MaxAttempts THEN "waiting" ELSE "failed")

\* A run of the job.  A file that is AVAILABLE already is left as it is; a plain
\* upload reads the cached file, which nobody has made; a multipart upload copies
\* the parts that have a row (a missing file throws) and saves AVAILABLE.
JobRun(c) ==
  /\ job[c].step = "waiting"
  /\ job[c].runs < MaxAttempts
  /\ LET copies == job[c].multipart /\ Joined(partRows) # "none"
         next   == IF nas[c].status = "AVAILABLE" THEN "done"
                   ELSE IF copies THEN "concat"
                   ELSE IF job[c].runs + 1 < MaxAttempts THEN "waiting" ELSE "failed"
     IN /\ job' = [job EXCEPT ![c].step = next, ![c].runs = @ + 1]
        /\ nas' = IF next # "concat" THEN nas
                  ELSE [nas EXCEPT ![c].status = "AVAILABLE",
                                   ![c].content = Joined(partRows)]
  /\ UNCHANGED <<session, overdue, requests, cleanup, breaks, stored>>

\* Mutant: a join that fails is ignored.
JobConcatIgnored(c) ==
  /\ job[c].step = "concat"
  /\ nas' = IF Joined(partRows) = "none" THEN nas ELSE [nas EXCEPT ![c].cached = TRUE]
  /\ job' = [job EXCEPT ![c].step = "close", ![c].seen = session]
  /\ UNCHANGED <<session, overdue, requests, cleanup, breaks, stored>>

\* Join the parts in the cache, create the cache row, and look the session up.
JobConcat(c) ==
  /\ job[c].step = "concat"
  /\ IF Joined(partRows) = "none"
     THEN job' = Throw(c) /\ UNCHANGED nas
     ELSE /\ nas' = [nas EXCEPT ![c].cached = TRUE]
          /\ job' = [job EXCEPT ![c].step = "close", ![c].seen = session]
  /\ UNCHANGED <<session, overdue, requests, cleanup, breaks, stored>>

\* finalizeMultipartSession: close the session if it was completing ...
JobClose(c) ==
  /\ job[c].step = "close"
  /\ session' = IF job[c].seen.status # "COMPLETING" THEN session
                ELSE [job[c].seen EXCEPT !.status = "COMPLETED", !.file = c]
  /\ job' = Goto(c, "sweep")
  /\ UNCHANGED <<overdue, requests, cleanup, nas, breaks, stored>>

\* ... and remove the part files; the rows stay.
JobSweep(c) ==
  /\ job[c].step = "sweep"
  /\ RemoveFiles
  /\ job' = Goto(c, "done")
  /\ UNCHANGED <<session, overdue, partRows, requests, cleanup, nas, breaks, disturbed>>

\* The NAS or the database refuses a step of the handler.
JobBreaks(c) ==
  /\ job[c].step \in {"concat", "close"}
  /\ Break
  /\ job' = Throw(c)
  /\ UNCHANGED <<session, overdue, requests, cleanup, nas, stored>>

-----------------------------------------------------------------------------
(* The cleanup cron, the clock and crashes                                 *)

\* Mutant: sessions stuck in COMPLETING are left alone.
CleanupPickOpen ==
  /\ cleanup = "idle"
  /\ overdue
  /\ session.status \notin {"GONE", "COMPLETED", "COMPLETING"}
  /\ cleanup' = "files"
  /\ UNCHANGED <<session, overdue, requests, nas, job, breaks, stored>>

\* Overdue sessions that are open, and after the retention period those that
\* are aborted, expired or stuck in COMPLETING.
CleanupPick ==
  /\ cleanup = "idle"
  /\ overdue
  /\ session.status \notin {"GONE", "COMPLETED"}
  /\ cleanup' = "files"
  /\ UNCHANGED <<session, overdue, requests, nas, job, breaks, stored>>

CleanupFiles ==
  /\ cleanup = "files"
  /\ RemoveFiles
  /\ disturbed' = (disturbed \/ WholeFiles # {})
  /\ cleanup' = "rows"
  /\ UNCHANGED <<session, overdue, partRows, requests, nas, job, breaks>>

CleanupRows ==
  /\ cleanup = "rows"
  /\ partRows' = {}
  /\ disturbed' = (disturbed \/ partRows # {})
  /\ session' = NoSession
  /\ cleanup' = "idle"
  /\ UNCHANGED <<overdue, partFile, requests, nas, job, breaks>>

Tick ==
  /\ ~overdue
  /\ overdue' = TRUE
  /\ UNCHANGED <<session, requests, cleanup, nas, job, breaks, stored>>

\* The process stops: requests are gone, the queue delivers active jobs again
\* without counting the run.
Crash ==
  /\ Break
  /\ up' = [u \in Uploads |-> IF up[u].step = "idle" THEN up[u] ELSE PutEnded]
  /\ com' = [c \in Completes |->
              IF com[c].step = "idle" THEN com[c] ELSE Ended]
  /\ abort' = [todo |-> abort.todo \cap {"ask"}, seen |-> NoSession]
  /\ cleanup' = "idle"
  /\ job' = [c \in Completes |->
              IF job[c].step \in {"none", "lost", "waiting", "done", "failed"}
              THEN job[c]
              ELSE [job[c] EXCEPT !.step = "waiting", !.runs = @ - 1,
                                   !.seen = NoSession]]
  /\ UNCHANGED <<session, overdue, nas, stored>>

-----------------------------------------------------------------------------

Cleanup == CleanupPick \/ CleanupFiles \/ CleanupRows

Worker(c) ==
  JobRun(c) \/ JobConcat(c) \/ JobClose(c) \/ JobSweep(c) \/ JobBreaks(c)

Next ==
  \/ \E u \in Uploads :
       \/ \E p \in Parts : UploadBegin(u, p)
       \/ UploadWrite(u) \/ UploadTorn(u)
       \/ UploadSave(u) \/ UploadExpire(u)
  \/ \E c \in Completes :
       \/ CompleteCheck(c) \/ CompleteExpire(c) \/ CompleteCommit(c)
       \/ CompleteRegister(c) \/ CompleteUnqueued(c)
       \/ Recover(c) \/ Worker(c)
  \/ AbortAsk \/ AbortSave \/ AbortFiles \/ AbortRows
  \/ Cleanup \/ Tick \/ Crash

Spec == Init /\ [][Next]_vars

\* The clock advances and the cron runs.
FairSpec == Spec /\ WF_vars(Tick) /\ WF_vars(Cleanup)

-----------------------------------------------------------------------------
(* Properties                                                              *)

\* Whatever runs in parallel, is retried or crashes, a file that the NAS row
\* calls AVAILABLE was copied from every part, as long as nobody overwrote or
\* removed a stored part: in particular a second job of the same session never
\* passes off as whole what is left after the first one removed the parts.
AvailableMeansWhole ==
  ~disturbed => \A c \in Completes :
                  nas[c].status = "AVAILABLE" => nas[c].content = "whole"

\* A session says COMPLETED only when its file is on the NAS and in the cache,
\* and one that says COMPLETING or COMPLETED names a file that was committed,
\* though stale copies of the row are saved over one another.
ClosedSessionHasFile ==
  /\ session.status \in {"COMPLETING", "COMPLETED"} =>
       session.file # NoFile /\ nas[session.file].status # "none"
  /\ session.status = "COMPLETED" =>
       nas[session.file].status = "AVAILABLE" /\ nas[session.file].cached

\* A session does not stay open, aborted, expired or stuck in COMPLETING for
\* ever, even when its job gave up or skipped the closing after a crash.
SessionSettles == <>[](session.status \in {"GONE", "COMPLETED"})
=============================================================================
