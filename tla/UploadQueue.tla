---------------------------- MODULE UploadQueue ----------------------------
(***************************************************************************)
(* Admission of multipart uploads: a request gets a session at once when   *)
(* the limits allow it, or a ticket in a waiting list kept in memory.      *)
(*                                                                         *)
(* The statistics of the sessions come from the database, and creating one *)
(* takes several awaits: between the two every other admission may pass.   *)
(* A ticket is promoted by its own client's poll or, for the head of the   *)
(* list, by promoteNext (after a complete, an abort, a cleanup, and every  *)
(* 30 seconds).  A session is named by its request and by the process that *)
(* created it: Direct, or the promoter.  A ticket that leaves the map has  *)
(* status "none": what its object says then nobody reads any more.         *)
(***************************************************************************)
EXTENDS Naturals, Sequences, FiniteSets, FiniteSetsExt, SequencesExt

CONSTANTS
  Requests,     \* initiate requests; also the ids of their tickets
  Promoters,    \* polls and promoteNext calls that may be under way
  Direct,       \* creator of a session that needed no ticket
  NoTicket,     \* a promoter at rest
  UserOf,       \* the user of each request
  Size,         \* the size of each request
  MaxActive,    \* MAX_ACTIVE_SESSIONS
  MaxBytes,     \* MAX_TOTAL_UPLOAD_BYTES
  MaxPerUser,   \* MAX_SESSIONS_PER_USER
  MaxQueue,     \* MAX_QUEUE_SIZE
  MaxTroubles   \* bound: restarts, failed creations and late parts

ASSUME QueueAssumption ==
  /\ IsFiniteSet(Requests) /\ IsFiniteSet(Promoters) /\ Requests \cap Promoters = {}
  /\ Direct \notin Promoters /\ NoTicket \notin Requests
  /\ Size \in [Requests -> Nat]
  /\ MaxActive \in Nat \ {0} /\ MaxBytes \in Nat
  /\ MaxPerUser \in Nat /\ MaxQueue \in Nat /\ MaxTroubles \in Nat

VARIABLES
  sessions,   \* "live": INIT or UPLOADING and not expired, what the statistics
             \* count; "again": saved as UPLOADING by a late part
  asked,     \* step of each request
  status,    \* ticketMap: the status of each request's ticket
  waiting,   \* waitingOrder
  promoter,  \* what each promoter does, for which ticket
  overlap,   \* history: the most admissions under way when one more was admitted
  troubles

queueVars == <<sessions, asked, status, waiting, promoter, overlap, troubles>>
queue == <<status, waiting>>

Sessions == Requests \X (Promoters \cup {Direct})
Idle == [step |-> "idle", ticket |-> NoTicket]

QueueTypeOK ==
  /\ sessions \in [Sessions -> {"none", "live", "ended", "again"}]
  /\ asked \in [Requests -> {"no", "stats", "create", "yes"}]
  /\ status \in [Requests -> {"none", "WAITING", "READY"}]
  /\ waiting \in Seq(Requests)
  /\ promoter \in [Promoters -> [step: {"idle", "peek", "stats", "create"},
                                 ticket: Requests \cup {NoTicket}]]
  /\ overlap \in Nat
  /\ troubles \in 0 .. MaxTroubles

QueueInit ==
  /\ sessions = [s \in Sessions |-> "none"]
  /\ asked = [r \in Requests |-> "no"]
  /\ status = [r \in Requests |-> "none"]
  /\ waiting = <<>>
  /\ promoter = [k \in Promoters |-> Idle]
  /\ overlap = 0
  /\ troubles = 0

-----------------------------------------------------------------------------
(* Helpers                                                                 *)

Live == {s \in Sessions : sessions[s] \in {"live", "again"}}
Tickets == {t \in Requests : status[t] # "none"}

\* Mutants: one session too many; the byte limit read as a strict bound.
HasCapacityOneMore(bytes) ==
  /\ Cardinality(Live) <= MaxActive
  /\ MapThenSumSet(LAMBDA s : Size[s[1]], Live) + bytes <= MaxBytes

HasCapacityStrict(bytes) ==
  /\ Cardinality(Live) < MaxActive
  /\ MapThenSumSet(LAMBDA s : Size[s[1]], Live) + bytes < MaxBytes

\* checkCapacity, on the statistics of the moment.
HasCapacity(bytes) ==
  /\ Cardinality(Live) < MaxActive
  /\ MapThenSumSet(LAMBDA s : Size[s[1]], Live) + bytes <= MaxBytes

\* Tickets that wait count as well as those that are READY; sessions created
\* without a ticket do not.
UserCount(u) == Cardinality({t \in Tickets : UserOf[t] = u})

\* indexOf and splice.
RemoveTicket(t) ==
  /\ status' = [status EXCEPT ![t] = "none"]
  /\ waiting' = RemoveFirst(waiting, t)

\* A full waiting list refuses the request.
Enqueue(r) ==
  /\ asked' = [asked EXCEPT ![r] = "yes"]
  /\ IF Len(waiting) >= MaxQueue
     THEN UNCHANGED queue
     ELSE /\ status' = [status EXCEPT ![r] = "WAITING"]
          /\ waiting' = Append(waiting, r)

\* Admissions that have passed the check and not created their session yet.
Admitted ==
  {r \in Requests : asked[r] = "create"} \cup
  {k \in Promoters : promoter[k].step = "create"}

Overlapping ==
  overlap' = IF Cardinality(Admitted) > overlap THEN Cardinality(Admitted) ELSE overlap

Trouble == troubles < MaxTroubles /\ troubles' = troubles + 1

-----------------------------------------------------------------------------
(* tryInitiateOrEnqueue                                                    *)

Ask(r) ==
  /\ asked[r] = "no"
  /\ IF UserCount(UserOf[r]) >= MaxPerUser
     THEN Enqueue(r)
     ELSE asked' = [asked EXCEPT ![r] = "stats"] /\ UNCHANGED queue
  /\ UNCHANGED <<sessions, promoter, overlap, troubles>>

AskStats(r) ==
  /\ asked[r] = "stats"
  /\ IF HasCapacity(Size[r])
     THEN asked' = [asked EXCEPT ![r] = "create"] /\ Overlapping /\ UNCHANGED queue
     ELSE Enqueue(r) /\ UNCHANGED overlap
  /\ UNCHANGED <<sessions, promoter, troubles>>

AskCreate(r) ==
  /\ asked[r] = "create"
  /\ sessions' = [sessions EXCEPT ![<<r, Direct>>] = "live"]
  /\ asked' = [asked EXCEPT ![r] = "yes"]
  /\ UNCHANGED <<queue, promoter, overlap, troubles>>

\* The folder is gone or busy: the request fails.
AskFails(r) ==
  /\ asked[r] = "create"
  /\ Trouble
  /\ asked' = [asked EXCEPT ![r] = "yes"]
  /\ UNCHANGED <<sessions, queue, promoter, overlap>>

-----------------------------------------------------------------------------
(* Promotion                                                               *)

\* tryPromote up to its first await.
Try(k, t) ==
  promoter' = [promoter EXCEPT ![k] =
    IF status[t] = "WAITING" /\ UserCount(UserOf[t]) < MaxPerUser
    THEN [step |-> "stats", ticket |-> t] ELSE Idle]

Poll(k, t) ==
  /\ promoter[k] = Idle
  /\ status[t] = "WAITING"
  /\ Try(k, t)
  /\ UNCHANGED <<sessions, asked, queue, overlap, troubles>>

PromoteNext(k) ==
  /\ promoter[k] = Idle
  /\ waiting # <<>>
  /\ promoter' = [promoter EXCEPT ![k] = [step |-> "peek", ticket |-> Head(waiting)]]
  /\ UNCHANGED <<sessions, asked, queue, overlap, troubles>>

\* The first check of capacity of promoteNext, then tryPromote.
Peek(k) ==
  LET t == promoter[k].ticket IN
  /\ promoter[k].step = "peek"
  /\ IF HasCapacity(IF t \in Tickets THEN Size[t] ELSE 0)
     THEN Try(k, t)
     ELSE promoter' = [promoter EXCEPT ![k] = Idle]
  /\ UNCHANGED <<sessions, asked, queue, overlap, troubles>>

PromoteStats(k) ==
  /\ promoter[k].step = "stats"
  /\ IF HasCapacity(Size[promoter[k].ticket])
     THEN promoter' = [promoter EXCEPT ![k].step = "create"] /\ Overlapping
     ELSE promoter' = [promoter EXCEPT ![k] = Idle] /\ UNCHANGED overlap
  /\ UNCHANGED <<sessions, asked, queue, troubles>>

\* Mutant: the promoted ticket stays in the waiting list.
PromoteCreateKept(k) ==
  LET t == promoter[k].ticket IN
  /\ promoter[k].step = "create"
  /\ sessions' = [sessions EXCEPT ![<<t, k>>] = "live"]
  /\ status' = [status EXCEPT ![t] = IF @ = "none" THEN @ ELSE "READY"]
  /\ promoter' = [promoter EXCEPT ![k] = Idle]
  /\ UNCHANGED <<asked, waiting, overlap, troubles>>

\* The ticket becomes READY whatever happened to it meanwhile; one that was
\* cancelled or has expired is not in the map any more, but has its session.
PromoteCreate(k) ==
  LET t == promoter[k].ticket IN
  /\ promoter[k].step = "create"
  /\ sessions' = [sessions EXCEPT ![<<t, k>>] = "live"]
  /\ status' = [status EXCEPT ![t] = IF @ = "none" THEN @ ELSE "READY"]
  /\ waiting' = RemoveFirst(waiting, t)
  /\ promoter' = [promoter EXCEPT ![k] = Idle]
  /\ UNCHANGED <<asked, overlap, troubles>>

PromoteFails(k) ==
  /\ promoter[k].step = "create"
  /\ Trouble
  /\ promoter' = [promoter EXCEPT ![k] = Idle]
  /\ UNCHANGED <<sessions, asked, queue, overlap>>

-----------------------------------------------------------------------------
(* Tickets leave, sessions end                                             *)

Cancel(t) ==
  /\ t \in Tickets
  /\ RemoveTicket(t)
  /\ UNCHANGED <<sessions, asked, promoter, overlap, troubles>>

\* READY and not claimed for five minutes: the session keeps its slot.
ExpireReady(t) ==
  /\ status[t] = "READY"
  /\ RemoveTicket(t)
  /\ UNCHANGED <<sessions, asked, promoter, overlap, troubles>>

\* The ticket's own time is over, found by the cron or by a poll.
ExpireTicket(t) ==
  /\ status[t] = "WAITING"
  /\ RemoveTicket(t)
  /\ UNCHANGED <<sessions, asked, promoter, overlap, troubles>>

\* Completed, aborted or expired.
SessionEnds(s) ==
  /\ s \in Live
  /\ sessions' = [sessions EXCEPT ![s] = "ended"]
  /\ UNCHANGED <<asked, queue, promoter, overlap, troubles>>

\* A part upload that read the row before it was closed saves it as UPLOADING.
LatePart(s) ==
  /\ sessions[s] = "ended"
  /\ Trouble
  /\ sessions' = [sessions EXCEPT ![s] = "again"]
  /\ UNCHANGED <<asked, queue, promoter, overlap>>

\* The list is lost; the sessions are in the database.
Restart ==
  /\ Trouble
  /\ asked' = [r \in Requests |-> IF asked[r] = "no" THEN "no" ELSE "yes"]
  /\ waiting' = <<>>
  /\ promoter' = [k \in Promoters |-> Idle]
  /\ status' = [r \in Requests |-> "none"]
  /\ UNCHANGED <<sessions, overlap>>

-----------------------------------------------------------------------------

Promotion(k) == PromoteNext(k) \/ Peek(k) \/ PromoteStats(k) \/ PromoteCreate(k)

QueueNext ==
  \/ \E r \in Requests :
       \/ Ask(r) \/ AskStats(r) \/ AskCreate(r) \/ AskFails(r)
       \/ Cancel(r) \/ ExpireReady(r) \/ ExpireTicket(r)
  \/ \E k \in Promoters :
       \/ Promotion(k) \/ PromoteFails(k)
       \/ \E t \in Requests : Poll(k, t)
  \/ \E s \in Sessions : SessionEnds(s) \/ LatePart(s)
  \/ Restart

QueueSpec == QueueInit /\ [][QueueNext]_queueVars

\* Calls under way finish, the cron calls promoteNext, sessions end (they have
\* an expiry) and tickets that are READY are not kept for ever.
FairQueueSpec ==
  /\ QueueSpec
  /\ \A r \in Requests :
       /\ WF_queueVars(AskStats(r)) /\ WF_queueVars(AskCreate(r) \/ AskFails(r))
       /\ WF_queueVars(ExpireReady(r))
  /\ \A k \in Promoters :
       /\ WF_queueVars(PromoteNext(k)) /\ WF_queueVars(Peek(k))
       /\ WF_queueVars(PromoteStats(k)) /\ WF_queueVars(PromoteCreate(k) \/ PromoteFails(k))
  /\ \A s \in Sessions : WF_queueVars(SessionEnds(s))

-----------------------------------------------------------------------------
(* Properties                                                              *)

\* The waiting list and the map agree whatever polls, promotions, cancellations
\* and expiries overlap: a ticket is in the list once if and only if it is in
\* the map and waits, and the list keeps its limit.
WaitingOrderMatchesMap ==
  /\ ToSet(waiting) = {t \in Requests : status[t] = "WAITING"}
  /\ Len(waiting) = Cardinality(ToSet(waiting))
  /\ Len(waiting) <= MaxQueue

\* The check of the limit and the creation of the session are not atomic.  The
\* limit is exceeded by at most as many sessions as admissions were under way when
\* another one passed the check: alone, every caller keeps it.  (Sessions that a
\* late part reopens come on top: they pass no check.)
LimitExceededOnlyByOverlap ==
  Cardinality({s \in Sessions : sessions[s] = "live"}) + Cardinality(Admitted) <= MaxActive + overlap

\* A ticket that waits does not wait for ever as long as sessions end, if the
\* waiting tickets of one user never reach the user's limit.
WaitingServed ==
  \A t \in Requests : status[t] = "WAITING" ~> status[t] # "WAITING"
=============================================================================
