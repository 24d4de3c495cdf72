------------------------- MODULE FileActionRequests -------------------------
(***************************************************************************)
(* Requests to move or to trash a file, and the commands that decide them. *)
(*                                                                         *)
(* Approving reads the request, compares the file with the snapshot taken  *)
(* when it was made, has FileManageService carry the operation out in a    *)
(* transaction of its own, and saves the outcome over the request: no step *)
(* is atomic with the next.  Meanwhile other users and the NAS worker      *)
(* change the same file.  All requests of a behaviour are about one file;  *)
(* commands are numbered in the order in which they begin.                 *)
(***************************************************************************)
EXTENDS Naturals, Sequences, FiniteSets, SequencesExt

CONSTANTS
  Requests,
  Folders,
  Home,         \* the folder of the file when the behaviour begins
  Trash,        \* target of a request to trash
  MaxCalls,     \* bound: commands
  MaxOthers,    \* bound: operations of other users
  MaxTroubles   \* bound: refused saves and crashes

ASSUME RequestAssumption ==
  /\ IsFiniteSet(Requests)
  /\ Home \in Folders /\ Trash \notin Folders
  /\ MaxCalls \in Nat /\ MaxOthers \in Nat /\ MaxTroubles \in Nat

VARIABLES
  request,   \* file_action_requests rows
  file,      \* the file: folder, state, and whether the NAS worker still works on it
  call,      \* the commands: step, what is left to do, what was read
  done,      \* history: how often the operation of a request was carried out
  undone,    \* history: requests whose operation somebody has taken back
  crossed,   \* history: requests that two commands decided at once, or whose
             \* command failed after its operation
  others, troubles

vars == <<request, file, call, done, undone, crossed, others, troubles>>
history == <<done, undone, crossed>>

Calls == 1 .. MaxCalls
Statuses == {"none", "PENDING", "APPROVED", "REJECTED", "CANCELED", "INVALIDATED",
             "EXECUTED", "FAILED"}
Row == [status: Statuses, from: Folders, to: Folders \cup {Trash}]
NoRow == [status |-> "none", from |-> Home, to |-> Trash]
Idle == [step |-> "idle", todo |-> <<>>, row |-> NoRow]
Ended == [Idle EXCEPT !.step = "end"]

TypeOK ==
  /\ request \in [Requests -> Row]
  /\ file \in [folder: Folders, state: {"ACTIVE", "TRASHED", "GONE"}, syncing: BOOLEAN]
  /\ call \in [Calls -> [step: {"idle", "dup", "read", "validate", "execute", "save", "end"},
                         todo: Seq(Requests), row: Row]]
  /\ done \in [Requests -> Nat]
  /\ undone \subseteq Requests /\ crossed \subseteq Requests
  /\ others \in 0 .. MaxOthers /\ troubles \in 0 .. MaxTroubles

Init ==
  /\ request = [r \in Requests |-> NoRow]
  /\ file = [folder |-> Home, state |-> "ACTIVE", syncing |-> FALSE]
  /\ call = [i \in Calls |-> Idle]
  /\ done = [r \in Requests |-> 0]
  /\ undone = {} /\ crossed = {}
  /\ others = 0 /\ troubles = 0

-----------------------------------------------------------------------------
(* Helpers                                                                 *)

UnderWay(i) == call[i].step \notin {"idle", "end"}
Begins(i) == call[i].step = "idle" /\ \A j \in 1 .. i - 1 : call[j].step # "idle"
Start(i, step, todo, row) ==
  call' = [call EXCEPT ![i] = [step |-> step, todo |-> todo, row |-> row]]
Goto(i, step) == call' = [call EXCEPT ![i].step = step]
End(i) == call' = [call EXCEPT ![i] = Ended]
Trouble == troubles < MaxTroubles /\ troubles' = troubles + 1

\* Requests that another command is deciding.
Deciding(i) ==
  {r \in Requests : \E j \in Calls \ {i} : UnderWay(j) /\ call[j].todo # <<>>
                                           /\ Head(call[j].todo) = r}

\* Mutant: no operation looks at what an earlier one did.
AllowedBlindly(to) == file.state # "GONE" /\ ~file.syncing

\* FileManageService.move and delete refuse a file that is not active or is being
\* synchronised; a move finds the file itself when it looks for one of that name
\* in the target folder.
Allowed(to) == file.state = "ACTIVE" /\ ~file.syncing /\ file.folder # to

Operated(to) ==
  IF to = Trash THEN [file EXCEPT !.state = "TRASHED", !.syncing = TRUE]
  ELSE [file EXCEPT !.folder = to, !.syncing = TRUE]

\* The file is where a request with this target puts it.
Kept(to) == IF to = Trash THEN file'.state # "ACTIVE" ELSE file'.folder = to

Undone == undone' = undone \cup {r \in Requests : done[r] > 0 /\ ~Kept(request[r].to)}

-----------------------------------------------------------------------------
(* Making a request                                                        *)

\* validateFile reads the file, of which the snapshot is taken.
Create(i, r, to) ==
  /\ Begins(i)
  /\ request[r].status = "none" /\ \A j \in Calls : r \notin ToSet(call[j].todo)
  /\ file.state = "ACTIVE"
  /\ Start(i, "dup", <<r>>, [status |-> "PENDING", from |-> file.folder, to |-> to])
  /\ UNCHANGED <<request, file, history, others, troubles>>

CheckDuplicate(i) ==
  /\ call[i].step = "dup"
  /\ IF \E r \in Requests : request[r].status = "PENDING" THEN End(i) ELSE Goto(i, "save")
  /\ UNCHANGED <<request, file, history, others, troubles>>

-----------------------------------------------------------------------------
(* Deciding                                                                *)

\* approveRequest, or bulkApprove for several requests one after the other.
Approve(i, todo) ==
  /\ Begins(i)
  /\ \A r \in ToSet(todo) : request[r].status # "none"
  /\ Start(i, "read", todo, NoRow)
  /\ UNCHANGED <<request, file, history, others, troubles>>

\* A request that is decided already ends the whole command.
ReadRequest(i) ==
  LET r == Head(call[i].todo) IN
  /\ call[i].step = "read"
  /\ IF request[r].status # "PENDING"
     THEN End(i) /\ UNCHANGED crossed
     ELSE /\ Start(i, "validate", call[i].todo, [request[r] EXCEPT !.status = "APPROVED"])
          /\ crossed' = crossed \cup (Deciding(i) \cap {r})
  /\ UNCHANGED <<request, file, done, undone, others, troubles>>

\* rejectRequest and cancelRequest; bulkReject is one rejectRequest after the other.
RejectOrCancel(i, r) ==
  /\ Begins(i)
  /\ request[r].status = "PENDING"
  /\ \E status \in {"REJECTED", "CANCELED"} :
       Start(i, "save", <<r>>, [request[r] EXCEPT !.status = status])
  /\ crossed' = crossed \cup (Deciding(i) \cap {r})
  /\ UNCHANGED <<request, file, done, undone, others, troubles>>

\* The copy gets its last status and is saved next.
Outcome(i, status) ==
  Start(i, "save", call[i].todo, [call[i].row EXCEPT !.status = status])

Validate(i) ==
  /\ call[i].step = "validate"
  /\ IF file.folder = call[i].row.from /\ file.state = "ACTIVE"
     THEN Goto(i, "execute")
     ELSE Outcome(i, "INVALIDATED")
  /\ UNCHANGED <<request, file, history, others, troubles>>

\* Mutant: a refusal by FileManageService is not noticed.
ExecuteUnchecked(i) ==
  LET to == call[i].row.to IN
  /\ call[i].step = "execute"
  /\ IF Allowed(to)
     THEN /\ file' = Operated(to)
          /\ done' = [done EXCEPT ![Head(call[i].todo)] = @ + 1]
          /\ Undone
     ELSE UNCHANGED <<file, done, undone>>
  /\ Outcome(i, "EXECUTED")
  /\ UNCHANGED <<request, crossed, others, troubles>>

Execute(i) ==
  LET to == call[i].row.to IN
  /\ call[i].step = "execute"
  /\ IF Allowed(to)
     THEN /\ file' = Operated(to)
          /\ done' = [done EXCEPT ![Head(call[i].todo)] = @ + 1]
          /\ Undone
          /\ Outcome(i, "EXECUTED")
     ELSE Outcome(i, "FAILED") /\ UNCHANGED <<file, done, undone>>
  /\ UNCHANGED <<request, crossed, others, troubles>>

\* The operation is committed and its job cannot be registered: the request is
\* told that it failed.
ExecuteUnqueued(i) ==
  LET r == Head(call[i].todo) IN
  /\ call[i].step = "execute" /\ Allowed(call[i].row.to)
  /\ Trouble
  /\ file' = Operated(call[i].row.to)
  /\ done' = [done EXCEPT ![r] = @ + 1]
  /\ crossed' = crossed \cup {r}
  /\ Undone
  /\ Outcome(i, "FAILED")
  /\ UNCHANGED <<request, others>>

SaveRequest(i) ==
  LET rest == Tail(call[i].todo) IN
  /\ call[i].step = "save"
  /\ request' = [request EXCEPT ![Head(call[i].todo)] = call[i].row]
  /\ IF rest = <<>> THEN End(i) ELSE Start(i, "read", rest, NoRow)
  /\ UNCHANGED <<file, history, others, troubles>>

-----------------------------------------------------------------------------
(* The others                                                              *)

\* Another user moves or trashes the file.
OtherOperation(to) ==
  /\ others < MaxOthers /\ others' = others + 1
  /\ Allowed(to)
  /\ file' = Operated(to)
  /\ Undone
  /\ UNCHANGED <<request, call, done, crossed, troubles>>

\* A restore of the file, to any folder; a purge.
Restore(to) ==
  /\ others < MaxOthers /\ others' = others + 1
  /\ file.state = "TRASHED" /\ ~file.syncing
  /\ file' = [folder |-> to, state |-> "ACTIVE", syncing |-> FALSE]
  /\ Undone
  /\ UNCHANGED <<request, call, done, crossed, troubles>>

Purge ==
  /\ others < MaxOthers /\ others' = others + 1
  /\ file.state = "TRASHED" /\ ~file.syncing
  /\ file' = [file EXCEPT !.state = "GONE"]
  /\ UNCHANGED <<request, call, history, troubles>>

Synced ==
  /\ file.syncing
  /\ file' = [file EXCEPT !.syncing = FALSE]
  /\ UNCHANGED <<request, call, history, others, troubles>>

\* The worker takes a move back whose target folder has gone.
MoveReverted(to) ==
  /\ file.syncing /\ file.state = "ACTIVE"
  /\ others < MaxOthers /\ others' = others + 1
  /\ file' = [file EXCEPT !.folder = to, !.syncing = FALSE]
  /\ Undone
  /\ UNCHANGED <<request, call, done, crossed, troubles>>

-----------------------------------------------------------------------------
(* Failures                                                                *)

Performed(i) == IF call[i].step = "save" /\ call[i].row.status = "EXECUTED"
                THEN {Head(call[i].todo)} ELSE {}

Fail(i) ==
  /\ call[i].step = "save" /\ Trouble
  /\ crossed' = crossed \cup Performed(i)
  /\ End(i)
  /\ UNCHANGED <<request, file, done, undone, others>>

Crash ==
  /\ Trouble
  /\ \E i \in Calls : UnderWay(i)
  /\ crossed' = crossed \cup UNION {Performed(i) : i \in Calls}
  /\ call' = [i \in Calls |-> IF UnderWay(i) THEN Ended ELSE call[i]]
  /\ UNCHANGED <<request, file, done, undone, others>>

-----------------------------------------------------------------------------

Command(i) ==
  \/ \E r \in Requests : \/ \E to \in Folders \cup {Trash} : Create(i, r, to)
                         \/ RejectOrCancel(i, r)
  \/ \E rs \in (SUBSET Requests) \ {{}} : \E todo \in SetToSeqs(rs) : Approve(i, todo)

Next ==
  \/ \E i \in Calls :
       \/ Command(i)
       \/ CheckDuplicate(i) \/ ReadRequest(i) \/ Validate(i)
       \/ Execute(i) \/ ExecuteUnqueued(i) \/ SaveRequest(i)
       \/ Fail(i)
  \/ \E to \in Folders \cup {Trash} : OtherOperation(to)
  \/ \E to \in Folders : Restore(to) \/ MoveReverted(to)
  \/ Purge \/ Synced \/ Crash

Spec == Init /\ [][Next]_vars

-----------------------------------------------------------------------------
(* Properties                                                              *)

\* The operation of a request is carried out once at most, although two approvals
\* may both find it decidable, and one that crashed may be repeated: the second
\* operation is refused by what the first did to the file, unless somebody has
\* moved or restored the file meanwhile.
ExecutedOnce == \A r \in Requests \ undone : done[r] <= 1

\* EXECUTED is never claimed of an operation that was not carried out; and one that
\* was is shown by another status only while its command is under way, or if two
\* commands decided the request at once or one failed half way.
StatusIsTrue ==
  \A r \in Requests :
    /\ request[r].status = "EXECUTED" => done[r] > 0
    /\ done[r] > 0 /\ request[r].status # "EXECUTED" =>
         \/ r \in crossed
         \/ \E i \in Calls : Performed(i) = {r}
=============================================================================
