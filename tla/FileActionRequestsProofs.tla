---------------------- MODULE FileActionRequestsProofs ----------------------
(***************************************************************************)
(* Proofs about FileActionRequests, for any number of requests, folders    *)
(* and commands.                                                           *)
(*                                                                         *)
(* That no request is carried out twice rests on the file and not on the   *)
(* request: as long as nobody has taken the operation back the file shows  *)
(* it (Effective), every copy of a request asks for what its row asks for  *)
(* (Copies), and so the file refuses the second operation.  That a status  *)
(* is true rests on crossed: a request that nobody crossed is in the hands *)
(* of one command at a time (Alone).                                       *)
(***************************************************************************)
EXTENDS FileActionRequests, FiniteSetTheorems, SequenceTheorems, TLAPS

\* The command i has a copy of the request r that it will save.
HoldSteps == {"dup", "validate", "execute", "save"}
Holds(i, r) == call[i].step \in HoldSteps /\ Head(call[i].todo) = r

Busy == \A i \in Calls : UnderWay(i) => call[i].todo # <<>>

\* A request that is not saved yet is known to its own command only.
Fresh ==
  \A r \in Requests : request[r].status = "none" =>
    /\ done[r] = 0
    /\ \A i \in Calls : r \in ToSet(call[i].todo) =>
         /\ call[i].step \in {"dup", "save"} /\ call[i].todo = <<r>>
         /\ \A j \in Calls : r \in ToSet(call[j].todo) => j = i

Copies ==
  \A i \in Calls : call[i].step \in HoldSteps =>
    LET r == Head(call[i].todo) IN
    /\ call[i].row.status # "none"
    /\ call[i].step = "dup" => request[r].status = "none"
    /\ request[r].status # "none" => request[r].to = call[i].row.to

\* The file is where the operation of a request has put it.
Shown(to) == IF to = Trash THEN file.state # "ACTIVE" ELSE file.folder = to
Effective == \A r \in Requests : done[r] > 0 /\ r \notin undone => Shown(request[r].to)

\* EXECUTED is said of what was done, in the rows and in the copies.
ClaimsTrue ==
  /\ \A r \in Requests : request[r].status = "EXECUTED" => done[r] > 0
  /\ \A i \in Calls : call[i].step \in HoldSteps /\ call[i].row.status = "EXECUTED" =>
       call[i].step = "save" /\ done[Head(call[i].todo)] > 0

Alone ==
  \A r \in Requests \ crossed, i, j \in Calls : Holds(i, r) /\ Holds(j, r) => i = j

\* What was done is saved, or about to be saved.
Known ==
  \A r \in Requests \ crossed : done[r] > 0 =>
    \/ request[r].status = "EXECUTED" /\ \A i \in Calls : ~Holds(i, r)
    \/ \E i \in Calls : /\ Holds(i, r) /\ call[i].step = "save"
                        /\ call[i].row.status = "EXECUTED"

Books == Busy /\ Fresh /\ Copies
IndInv == TypeOK /\ Books /\ Effective /\ ExecutedOnce /\ ClaimsTrue /\ Alone /\ Known

-----------------------------------------------------------------------------
(* Commands and copies.                                                    *)

CallRecords ==
  [step: {"idle", "dup", "read", "validate", "execute", "save", "end"},
   todo: Seq(Requests), row: Row]

\* What approve is asked to do is a sequence of requests, and not empty.
LEMMA TodoType ==
  \A rs \in (SUBSET Requests) \ {{}} : \A todo \in SetToSeqs(rs) :
    todo \in Seq(Requests) /\ todo # <<>>
<1> TAKE rs \in (SUBSET Requests) \ {{}}
<1> TAKE todo \in SetToSeqs(rs)
<1>1. IsFiniteSet(rs)
  BY FS_Subset, RequestAssumption
<1>2. Cardinality(rs) \in Nat /\ Cardinality(rs) # 0
  BY <1>1, FS_CardinalityType, FS_EmptySet
<1>3. todo \in [1 .. Cardinality(rs) -> rs]
  BY DEF SetToSeqs
<1>4. todo \in Seq(rs) /\ Len(todo) = Cardinality(rs)
  BY <1>2, <1>3, IsASeq, LenProperties
<1>5. todo # <<>>
  BY <1>2, <1>4, EmptySeq
<1> QED
  BY <1>4, <1>5, SeqMonotonic

LEMMA RowTypes == NoRow \in Row /\ Idle \in CallRecords /\ Ended \in CallRecords
BY RequestAssumption, EmptySeq DEF NoRow, Row, Idle, Ended, CallRecords, Statuses

LEMMA HeadInTodo ==
  ASSUME TypeOK, NEW i \in Calls, call[i].todo # <<>>
  PROVE  /\ Head(call[i].todo) \in Requests
         /\ Head(call[i].todo) \in ToSet(call[i].todo)
         /\ Tail(call[i].todo) \in Seq(Requests)
         /\ ToSet(Tail(call[i].todo)) \subseteq ToSet(call[i].todo)
<1>1. call[i].todo \in Seq(Requests)
  BY DEF TypeOK
<1> QED
  BY <1>1, HeadTailProperties, LenProperties, EmptySeq, ElementOfSeq DEF ToSet

-----------------------------------------------------------------------------
LEMMA InitIndInv == Init => IndInv
<1> SUFFICES ASSUME Init PROVE IndInv
  OBVIOUS
<1>1. TypeOK
  BY RowTypes, RequestAssumption DEF Init, TypeOK, CallRecords
<1>2. Books
  BY EmptySeq DEF Init, Books, Busy, Fresh, Copies, UnderWay, HoldSteps, Idle, ToSet
<1>3. Effective /\ ExecutedOnce /\ ClaimsTrue /\ Alone /\ Known
  BY DEF Init, Effective, ExecutedOnce, ClaimsTrue, Alone, Known, Holds, HoldSteps, Idle, NoRow
<1> QED
  BY <1>1, <1>2, <1>3 DEF IndInv

-----------------------------------------------------------------------------
(* Steps that leave the commands alone.                                    *)

LEMMA OtherSteps ==
  ASSUME IndInv, UNCHANGED <<request, call, done, crossed, troubles>>,
         \/ \E to \in Folders \cup {Trash} : OtherOperation(to)
         \/ \E to \in Folders : Restore(to) \/ MoveReverted(to)
         \/ Purge \/ Synced
  PROVE  IndInv'
<1> USE RequestAssumption
<1> DEFINE Files == [folder: Folders, state: {"ACTIVE", "TRASHED", "GONE"}, syncing: BOOLEAN]
<1>a. file \in Files /\ others \in 0 .. MaxOthers
  BY DEF IndInv, TypeOK
<1>1. file' \in Files
  <2>1. ASSUME NEW to \in Folders \cup {Trash}, OtherOperation(to) PROVE file' \in Files
    BY <1>a, <2>1 DEF OtherOperation, Operated
  <2>2. ASSUME NEW to \in Folders, Restore(to) PROVE file' \in Files
    BY <2>2 DEF Restore
  <2>3. ASSUME NEW to \in Folders, MoveReverted(to) PROVE file' \in Files
    BY <1>a, <2>3 DEF MoveReverted
  <2>4. Purge \/ Synced => file' \in Files
    BY <1>a DEF Purge, Synced
  <2> QED
    BY <2>1, <2>2, <2>3, <2>4
<1>2. others' \in 0 .. MaxOthers
  <2>1. others' = others \/ (others < MaxOthers /\ others' = others + 1)
    BY DEF OtherOperation, Restore, MoveReverted, Purge, Synced
  <2> QED
    BY <1>a, <2>1
<1>3. Undone \/ (undone' = undone /\ file'.folder = file.folder
                 /\ (file.state # "ACTIVE" => file'.state # "ACTIVE"))
  BY <1>a DEF OtherOperation, Restore, MoveReverted, Purge, Synced, history
<1>4. undone \subseteq undone' /\ undone' \subseteq Requests
  BY <1>3 DEF IndInv, TypeOK, Undone
<1>5. TypeOK'
  BY <1>1, <1>2, <1>4 DEF IndInv, TypeOK
<1>6. Books'
  BY DEF IndInv, Books, Busy, Fresh, Copies, UnderWay, HoldSteps
<1>7. Effective'
  <2> SUFFICES ASSUME NEW r \in Requests, done[r] > 0, r \notin undone'
               PROVE  Shown(request[r].to)'
    BY DEF Effective
  <2>1. CASE Undone
    BY <2>1 DEF Undone, Kept, Shown
  <2>2. CASE ~Undone
    <3>1. Shown(request[r].to)
      BY <1>4 DEF IndInv, Effective
    <3> QED
      BY <1>3, <2>2, <3>1 DEF Shown
  <2> QED
    BY <2>1, <2>2
<1>8. ExecutedOnce'
  BY <1>4 DEF IndInv, ExecutedOnce
<1>9. ClaimsTrue' /\ Alone' /\ Known'
  BY DEF IndInv, ClaimsTrue, Alone, Known, Holds, HoldSteps
<1> QED
  BY <1>5, <1>6, <1>7, <1>8, <1>9 DEF IndInv

-----------------------------------------------------------------------------
(* Steps of a command that change no request and no file.                  *)

\* A command may always end.
LEMMA EndKeeps ==
  ASSUME IndInv, NEW i \in Calls, End(i), UNCHANGED <<request, file, done, undone, others>>,
         crossed \subseteq crossed', crossed' \subseteq Requests, troubles' \in 0 .. MaxTroubles,
         \A r \in Requests : Performed(i) = {r} => r \in crossed'
  PROVE  IndInv'
<1>1. TypeOK'
  BY RowTypes DEF IndInv, TypeOK, End, CallRecords
<1>2. /\ call'[i].step = "end" /\ call'[i].todo = <<>>
      /\ \A j \in Calls \ {i} : call'[j] = call[j]
  BY DEF IndInv, TypeOK, End, Ended, Idle
<1>3. Books'
  BY <1>2 DEF IndInv, Books, Busy, Fresh, Copies, UnderWay, HoldSteps, ToSet
<1>4. Effective' /\ ExecutedOnce' /\ ClaimsTrue' /\ Alone'
  BY <1>2 DEF IndInv, Effective, ExecutedOnce, ClaimsTrue, Alone, Holds, HoldSteps, Shown
<1>5. Known'
  BY <1>2 DEF IndInv, Known, Holds, HoldSteps, Performed
<1> QED
  BY <1>1, <1>3, <1>4, <1>5 DEF IndInv

\* What a command that starts or goes on does to the others: nothing.
LEMMA StartFacts ==
  ASSUME TypeOK, NEW i \in Calls, NEW step, NEW todo, NEW row, Start(i, step, todo, row)
  PROVE  /\ call'[i] = [step |-> step, todo |-> todo, row |-> row]
         /\ \A j \in Calls \ {i} : call'[j] = call[j]
BY DEF TypeOK, Start

LEMMA StartType ==
  ASSUME TypeOK, NEW i \in Calls, NEW todo \in Seq(Requests), NEW row \in Row,
         NEW step \in {"dup", "read", "validate", "save"}, Start(i, step, todo, row)
  PROVE  call' \in [Calls -> CallRecords]
<1>1. [step |-> step, todo |-> todo, row |-> row] \in CallRecords
  BY DEF CallRecords
<1> QED
  BY <1>1 DEF TypeOK, Start, CallRecords

LEMMA GotoFacts ==
  ASSUME TypeOK, NEW i \in Calls, NEW step \in {"execute", "save"}, Goto(i, step)
  PROVE  /\ call'[i].step = step /\ call'[i].todo = call[i].todo /\ call'[i].row = call[i].row
         /\ \A j \in Calls \ {i} : call'[j] = call[j]
         /\ call' \in [Calls -> CallRecords]
BY DEF TypeOK, Goto, CallRecords

LEMMA CreateKeeps ==
  ASSUME IndInv, NEW i \in Calls, NEW r \in Requests, NEW to \in Folders \cup {Trash},
         Create(i, r, to)
  PROVE  IndInv'
<1> DEFINE new == [status |-> "PENDING", from |-> file.folder, to |-> to]
<1>1. /\ UNCHANGED <<request, file, done, undone, crossed, others, troubles>>
      /\ Start(i, "dup", <<r>>, new)
      /\ request[r].status = "none"
      /\ \A j \in Calls : r \notin ToSet(call[j].todo)
  BY DEF Create, history
<1>2. new \in Row
  BY DEF IndInv, TypeOK, Row, Statuses
<1>3. <<r>> \in Seq(Requests) /\ <<r>> # <<>> /\ Head(<<r>>) = r /\ ToSet(<<r>>) = {r}
  BY DEF ToSet
<1>4. /\ call'[i] = [step |-> "dup", todo |-> <<r>>, row |-> new]
      /\ \A j \in Calls \ {i} : call'[j] = call[j]
  BY <1>1, StartFacts DEF IndInv
<1>5. TypeOK'
  <2>1. call' \in [Calls -> CallRecords]
    BY <1>1, <1>2, <1>3, StartType DEF IndInv
  <2> QED
    BY <1>1, <2>1 DEF IndInv, TypeOK, CallRecords
<1> HIDE DEF new
<1>6. new.status = "PENDING"
  BY DEF new
<1>7. Busy'
  BY <1>3, <1>4 DEF IndInv, Books, Busy, UnderWay
<1>8. Fresh'
  BY <1>1, <1>3, <1>4 DEF IndInv, Books, Fresh
<1>9. Copies'
  BY <1>1, <1>3, <1>4, <1>6 DEF IndInv, Books, Copies, HoldSteps
<1>10. Effective' /\ ExecutedOnce'
  BY <1>1 DEF IndInv, Effective, ExecutedOnce, Shown
<1>11. ClaimsTrue'
  BY <1>1, <1>4, <1>6 DEF IndInv, ClaimsTrue, HoldSteps
<1>12. \A q \in Requests, j \in Calls \ {i} : Holds(j, q)' <=> Holds(j, q)
  BY <1>4 DEF Holds
<1>13. \A j \in Calls : ~Holds(j, r)
  BY HeadInTodo, <1>1 DEF IndInv, Books, Busy, Holds, HoldSteps, UnderWay
<1>14. \A q \in Requests : Holds(i, q)' => q = r
  BY <1>3, <1>4 DEF Holds
<1>15. Alone'
  BY <1>1, <1>12, <1>13, <1>14 DEF IndInv, Alone
<1>16. done[r] = 0
  BY <1>1 DEF IndInv, Books, Fresh
<1>17. call[i].step = "idle"
  BY DEF Create, Begins
<1>18. Known'
  BY <1>1, <1>4, <1>12, <1>14, <1>16, <1>17 DEF IndInv, Known, Holds, HoldSteps
<1> QED
  BY <1>5, <1>7, <1>8, <1>9, <1>10, <1>11, <1>15, <1>18 DEF IndInv, Books

LEMMA CheckDuplicateKeeps ==
  ASSUME IndInv, NEW i \in Calls, CheckDuplicate(i)
  PROVE  IndInv'
<1>1. UNCHANGED <<request, file, done, undone, crossed, others, troubles>> /\ call[i].step = "dup"
  BY DEF CheckDuplicate, history
<1>2. CASE End(i)
  BY <1>1, <1>2, EndKeeps DEF IndInv, TypeOK, Performed
<1>3. CASE Goto(i, "save")
  <2>1. /\ call'[i].step = "save" /\ call'[i].todo = call[i].todo /\ call'[i].row = call[i].row
        /\ \A j \in Calls \ {i} : call'[j] = call[j]
        /\ call' \in [Calls -> CallRecords]
    BY <1>3, GotoFacts DEF IndInv
  <2>2. TypeOK'
    BY <1>1, <2>1 DEF IndInv, TypeOK, CallRecords
  <2>3. Busy' /\ Fresh'
    BY <1>1, <2>1 DEF IndInv, Books, Busy, UnderWay, Fresh
  <2>4. Copies'
    BY <1>1, <2>1 DEF IndInv, Books, Copies, HoldSteps
  <2>5. Effective' /\ ExecutedOnce'
    BY <1>1 DEF IndInv, Effective, ExecutedOnce, Shown
  <2>6. ClaimsTrue'
    BY <1>1, <2>1 DEF IndInv, ClaimsTrue, HoldSteps
  <2>7. \A q \in Requests, j \in Calls : Holds(j, q)' <=> Holds(j, q)
    BY <1>1, <2>1 DEF Holds, HoldSteps
  <2>8. Alone'
    BY <1>1, <2>7 DEF IndInv, Alone
  <2>9. Known'
    BY <1>1, <2>1, <2>7 DEF IndInv, Known
  <2> QED
    BY <2>2, <2>3, <2>4, <2>5, <2>6, <2>8, <2>9 DEF IndInv, Books
<1> QED
  BY <1>2, <1>3 DEF CheckDuplicate

LEMMA ApproveKeeps ==
  ASSUME IndInv, NEW i \in Calls, NEW todo \in Seq(Requests), todo # <<>>, Approve(i, todo)
  PROVE  IndInv'
<1>1. /\ UNCHANGED <<request, file, done, undone, crossed, others, troubles>>
      /\ Start(i, "read", todo, NoRow) /\ call[i].step = "idle"
      /\ \A r \in ToSet(todo) : request[r].status # "none"
  BY DEF Approve, history, Begins
<1>2. /\ call'[i] = [step |-> "read", todo |-> todo, row |-> NoRow]
      /\ \A j \in Calls \ {i} : call'[j] = call[j]
  BY <1>1, StartFacts DEF IndInv
<1>3. TypeOK'
  <2>1. call' \in [Calls -> CallRecords]
    BY <1>1, RowTypes, StartType DEF IndInv
  <2> QED
    BY <1>1, <2>1 DEF IndInv, TypeOK, CallRecords
<1>4. Books'
  BY <1>1, <1>2 DEF IndInv, Books, Busy, UnderWay, Fresh, Copies, HoldSteps
<1>5. Effective' /\ ExecutedOnce'
  BY <1>1 DEF IndInv, Effective, ExecutedOnce, Shown
<1>6. ClaimsTrue'
  BY <1>1, <1>2 DEF IndInv, ClaimsTrue, HoldSteps
<1>7. \A q \in Requests, j \in Calls : Holds(j, q)' <=> Holds(j, q)
  BY <1>1, <1>2 DEF Holds, HoldSteps
<1>8. Alone'
  BY <1>1, <1>7 DEF IndInv, Alone
<1>9. Known'
  BY <1>1, <1>2, <1>7 DEF IndInv, Known
<1> QED
  BY <1>3, <1>4, <1>5, <1>6, <1>8, <1>9 DEF IndInv

\* A command takes a request that is PENDING into its hands; if another holds it
\* the request is crossed from now on.
LEMMA TakeKeeps ==
  ASSUME IndInv, NEW i \in Calls, NEW r \in Requests, NEW todo \in Seq(Requests),
         NEW step \in {"validate", "save"}, NEW status \in {"APPROVED", "REJECTED", "CANCELED"},
         UNCHANGED <<request, file, done, undone, others, troubles>>,
         call[i].step \in {"idle", "read"}, request[r].status = "PENDING",
         todo # <<>>, Head(todo) = r, \A q \in ToSet(todo) : request[q].status # "none",
         Start(i, step, todo, [request[r] EXCEPT !.status = status]),
         crossed' = crossed \cup (Deciding(i) \cap {r})
  PROVE  IndInv'
<1> DEFINE copy == [request[r] EXCEPT !.status = status]
<1>1. /\ call'[i] = [step |-> step, todo |-> todo, row |-> copy]
      /\ \A j \in Calls \ {i} : call'[j] = call[j]
  BY StartFacts DEF IndInv
<1>2. copy \in Row /\ copy.status = status /\ copy.to = request[r].to
  BY DEF IndInv, TypeOK, Row, Statuses
<1>3. TypeOK'
  <2>1. call' \in [Calls -> CallRecords]
    BY <1>2, StartType DEF IndInv
  <2> QED
    BY <2>1 DEF IndInv, TypeOK, CallRecords
<1> HIDE DEF copy
<1>4. Books'
  BY <1>1, <1>2 DEF IndInv, Books, Busy, UnderWay, Fresh, Copies, HoldSteps
<1>5. Effective' /\ ExecutedOnce'
  BY DEF IndInv, Effective, ExecutedOnce, Shown
<1>6. ClaimsTrue'
  BY <1>1, <1>2 DEF IndInv, ClaimsTrue, HoldSteps
<1>7. \A q \in Requests, j \in Calls \ {i} : Holds(j, q)' <=> Holds(j, q)
  BY <1>1 DEF Holds
<1>8. \A q \in Requests : ~Holds(i, q) /\ (Holds(i, q)' => q = r)
  BY <1>1 DEF Holds, HoldSteps
<1>9. r \notin crossed' => \A j \in Calls : ~Holds(j, r)
  BY <1>8 DEF IndInv, Books, Busy, Holds, HoldSteps, UnderWay, Deciding
<1>10. Alone'
  BY <1>7, <1>8, <1>9 DEF IndInv, Alone
<1>11. r \notin crossed' => ~(done[r] > 0)
  BY <1>9 DEF IndInv, Known
<1>12. Known'
  BY <1>1, <1>7, <1>8, <1>11 DEF IndInv, Known
<1> QED
  BY <1>3, <1>4, <1>5, <1>6, <1>10, <1>12 DEF IndInv

LEMMA ReadRequestKeeps ==
  ASSUME IndInv, NEW i \in Calls, ReadRequest(i)
  PROVE  IndInv'
<1> DEFINE r == Head(call[i].todo)
<1>1. UNCHANGED <<request, file, done, undone, others, troubles>> /\ call[i].step = "read"
  BY DEF ReadRequest
<1>2. call[i].todo # <<>> /\ call[i].todo \in Seq(Requests) /\ r \in Requests
  BY <1>1, HeadInTodo DEF IndInv, Books, Busy, UnderWay, TypeOK
<1>3. \A q \in ToSet(call[i].todo) : request[q].status # "none"
  BY <1>1, <1>2 DEF IndInv, Books, Fresh, ToSet, TypeOK
<1>4. CASE End(i) /\ UNCHANGED crossed
  BY <1>1, <1>4, EndKeeps DEF IndInv, TypeOK, Performed
<1>5. CASE ~(End(i) /\ UNCHANGED crossed)
  <2>1. /\ request[r].status = "PENDING"
        /\ Start(i, "validate", call[i].todo, [request[r] EXCEPT !.status = "APPROVED"])
        /\ crossed' = crossed \cup (Deciding(i) \cap {r})
    BY <1>5 DEF ReadRequest
  <2> QED
    BY <1>1, <1>2, <1>3, <2>1, TakeKeeps
<1> QED
  BY <1>4, <1>5

LEMMA RejectOrCancelKeeps ==
  ASSUME IndInv, NEW i \in Calls, NEW r \in Requests, RejectOrCancel(i, r)
  PROVE  IndInv'
<1>1. PICK status \in {"REJECTED", "CANCELED"} :
        Start(i, "save", <<r>>, [request[r] EXCEPT !.status = status])
  BY DEF RejectOrCancel
<1>2. /\ UNCHANGED <<request, file, done, undone, others, troubles>>
      /\ call[i].step = "idle" /\ request[r].status = "PENDING"
      /\ crossed' = crossed \cup (Deciding(i) \cap {r})
  BY DEF RejectOrCancel, Begins
<1>3. <<r>> \in Seq(Requests) /\ <<r>> # <<>> /\ Head(<<r>>) = r /\ ToSet(<<r>>) = {r}
  BY DEF ToSet
<1> QED
  BY <1>1, <1>2, <1>3, TakeKeeps

\* A copy that is being decided says what its row asks for.
LEMMA HeldFacts ==
  ASSUME IndInv, NEW i \in Calls, call[i].step \in {"validate", "execute"}
  PROVE  LET r == Head(call[i].todo) IN
         /\ call[i].todo # <<>> /\ r \in Requests
         /\ request[r].status # "none" /\ request[r].to = call[i].row.to
         /\ call[i].row.status # "EXECUTED"
         /\ \A q \in ToSet(call[i].todo) : request[q].status # "none"
<1>1. call[i].todo # <<>>
  BY DEF IndInv, Books, Busy, UnderWay
<1>2. /\ Head(call[i].todo) \in Requests /\ Head(call[i].todo) \in ToSet(call[i].todo)
      /\ ToSet(call[i].todo) \subseteq Requests
  BY <1>1, HeadInTodo DEF IndInv, TypeOK, ToSet
<1>3. \A q \in ToSet(call[i].todo) : request[q].status # "none"
  BY <1>2 DEF IndInv, Books, Fresh
<1> QED
  BY <1>1, <1>2, <1>3 DEF IndInv, Books, Copies, ClaimsTrue, HoldSteps

\* A command goes on with the request it holds; the status of its copy is not
\* EXECUTED.
LEMMA GoOnKeeps ==
  ASSUME IndInv, NEW i \in Calls, call[i].step \in {"validate", "execute"},
         NEW step \in {"execute", "save"}, NEW copy \in Row,
         UNCHANGED <<request, file, done, undone, crossed, others, troubles>>,
         copy.to = call[i].row.to, copy.status \notin {"none", "EXECUTED"},
         call' = [call EXCEPT ![i] = [step |-> step, todo |-> call[i].todo, row |-> copy]]
  PROVE  IndInv'
<1>1. /\ call'[i] = [step |-> step, todo |-> call[i].todo, row |-> copy]
      /\ \A j \in Calls \ {i} : call'[j] = call[j]
      /\ call' \in [Calls -> CallRecords]
  BY DEF IndInv, TypeOK, CallRecords
<1>2. TypeOK'
  BY <1>1 DEF IndInv, TypeOK, CallRecords
<1>3. Books'
  <2>1. Busy'
    BY <1>1 DEF IndInv, Books, Busy, UnderWay
  <2>2. Fresh'
    BY <1>1 DEF IndInv, Books, Fresh
  <2>3. Copies'
    BY <1>1, HeldFacts DEF IndInv, Books, Copies, HoldSteps
  <2> QED
    BY <2>1, <2>2, <2>3 DEF Books
<1>4. Effective' /\ ExecutedOnce'
  BY DEF IndInv, Effective, ExecutedOnce, Shown
<1>5. ClaimsTrue'
  BY <1>1 DEF IndInv, ClaimsTrue, HoldSteps
<1>6. \A q \in Requests, j \in Calls : Holds(j, q)' <=> Holds(j, q)
  BY <1>1 DEF Holds, HoldSteps
<1>7. Alone'
  BY <1>6 DEF IndInv, Alone
<1>8. Known'
  BY <1>1, <1>6 DEF IndInv, Known
<1> QED
  BY <1>2, <1>3, <1>4, <1>5, <1>7, <1>8 DEF IndInv

LEMMA ValidateKeeps ==
  ASSUME IndInv, NEW i \in Calls, Validate(i)
  PROVE  IndInv'
<1>1. /\ UNCHANGED <<request, file, done, undone, crossed, others, troubles>>
      /\ call[i].step = "validate"
  BY DEF Validate, history
<1>2. call[i] \in CallRecords /\ call[i].row \in Row
  BY DEF IndInv, TypeOK, CallRecords
<1>3. CASE Goto(i, "execute")
  <2>a. [call[i] EXCEPT !.step = "execute"]
          = [step |-> "execute", todo |-> call[i].todo, row |-> call[i].row]
    BY <1>2 DEF CallRecords
  <2>1. call' = [call EXCEPT ![i] = [step |-> "execute", todo |-> call[i].todo, row |-> call[i].row]]
    BY <1>3, <2>a DEF Goto
  <2>2. call[i].row.status \notin {"none", "EXECUTED"}
    BY <1>1 DEF IndInv, Books, Copies, ClaimsTrue, HoldSteps
  <2> QED
    BY <1>1, <1>2, <2>1, <2>2, GoOnKeeps
<1>4. CASE Outcome(i, "INVALIDATED")
  <2> DEFINE copy == [call[i].row EXCEPT !.status = "INVALIDATED"]
  <2>1. copy \in Row /\ copy.to = call[i].row.to /\ copy.status = "INVALIDATED"
    BY <1>2 DEF Row, Statuses
  <2> QED
    BY <1>1, <1>4, <2>1, GoOnKeeps DEF Outcome, Start
<1> QED
  BY <1>3, <1>4 DEF Validate

-----------------------------------------------------------------------------
(* The operation is carried out.                                           *)

LEMMA OperateKeeps ==
  ASSUME IndInv, NEW i \in Calls, call[i].step = "execute", Allowed(call[i].row.to),
         NEW status \in {"EXECUTED", "FAILED"}, Outcome(i, status),
         UNCHANGED <<request, others>>, troubles' \in 0 .. MaxTroubles,
         file' = Operated(call[i].row.to),
         done' = [done EXCEPT ![Head(call[i].todo)] = @ + 1],
         Undone,
         crossed' \in {crossed, crossed \cup {Head(call[i].todo)}},
         status = "EXECUTED" \/ Head(call[i].todo) \in crossed'
  PROVE  IndInv'
<1> DEFINE r == Head(call[i].todo)
           copy == [call[i].row EXCEPT !.status = status]
<1>1. /\ call[i].todo # <<>> /\ r \in Requests
      /\ request[r].status # "none" /\ request[r].to = call[i].row.to
  BY HeldFacts
<1>2. /\ call[i].row \in Row /\ call[i].todo \in Seq(Requests)
      /\ file \in [folder: Folders, state: {"ACTIVE", "TRASHED", "GONE"}, syncing: BOOLEAN]
      /\ done \in [Requests -> Nat] /\ undone \subseteq Requests /\ crossed \subseteq Requests
  BY DEF IndInv, TypeOK
<1>3. copy \in Row /\ copy.to = request[r].to /\ copy.status = status
  BY <1>1, <1>2 DEF Row, Statuses
<1>4. /\ call'[i] = [step |-> "save", todo |-> call[i].todo, row |-> copy]
      /\ \A j \in Calls \ {i} : call'[j] = call[j]
      /\ call' \in [Calls -> CallRecords]
  <2>1. Start(i, "save", call[i].todo, copy)
    BY DEF Outcome
  <2> HIDE DEF copy
  <2> QED
    BY <1>2, <1>3, <2>1, StartFacts, StartType DEF IndInv
<1>5. /\ done' \in [Requests -> Nat] /\ done'[r] = done[r] + 1
      /\ \A q \in Requests \ {r} : done'[q] = done[q]
  BY <1>1, <1>2
<1>6. undone \subseteq undone' /\ undone' \subseteq Requests
  BY <1>2 DEF Undone
<1>7. call[i].row.to \in Folders \cup {Trash}
  BY <1>2 DEF Row
<1>8. file' \in [folder: Folders, state: {"ACTIVE", "TRASHED", "GONE"}, syncing: BOOLEAN]
  BY <1>2, <1>7 DEF Operated
<1>9. \A q \in Requests : q = r => Shown(request[q].to)'
  <2> TAKE q \in Requests
  <2> HAVE q = r
  <2>1. request'[q].to = call[i].row.to
    BY <1>1
  <2>2. IF call[i].row.to = Trash THEN file'.state # "ACTIVE" ELSE file'.folder = call[i].row.to
    BY <1>2, <1>7 DEF Operated
  <2> QED
    BY <2>1, <2>2 DEF Shown
<1>10. done[r] > 0 => r \in undone
  BY <1>1, <1>2, RequestAssumption DEF IndInv, Effective, Shown, Allowed
<1> HIDE DEF r, copy
<1>11. TypeOK'
  BY <1>1, <1>2, <1>4, <1>5, <1>6, <1>8 DEF IndInv, TypeOK, CallRecords, r
<1>12. Books'
  <2>1. Busy'
    BY <1>1, <1>4 DEF IndInv, Books, Busy, UnderWay
  <2>2. Fresh'
    <3>1. ASSUME NEW q \in Requests, request[q].status = "none"
          PROVE  done'[q] = 0 /\ q # r
      BY <1>1, <1>5, <3>1 DEF IndInv, Books, Fresh
    <3>2. \A j \in Calls : call'[j].todo = call[j].todo /\ (j # i => call'[j].step = call[j].step)
      BY <1>4
    <3>3. \A q \in ToSet(call[i].todo) : request[q].status # "none"
      BY HeldFacts
    <3> QED
      BY <3>1, <3>2, <3>3 DEF IndInv, Books, Fresh
  <2>3. Copies'
    BY <1>1, <1>3, <1>4 DEF IndInv, Books, Copies, HoldSteps, r
  <2> QED
    BY <2>1, <2>2, <2>3 DEF Books
<1>13. Effective'
  <2> SUFFICES ASSUME NEW q \in Requests, done'[q] > 0, q \notin undone'
               PROVE  Shown(request[q].to)'
    BY DEF Effective
  <2>1. CASE q = r
    BY <1>9, <2>1
  <2>2. CASE q # r
    <3>1. done[q] > 0
      BY <1>5, <2>2
    <3> QED
      BY <3>1 DEF Undone, Kept, Shown
  <2> QED
    BY <2>1, <2>2
<1>14. ExecutedOnce'
  BY <1>1, <1>2, <1>5, <1>6, <1>10 DEF IndInv, ExecutedOnce
<1>15. ClaimsTrue'
  BY <1>1, <1>2, <1>4, <1>5 DEF IndInv, TypeOK, ClaimsTrue, HoldSteps, r
<1>16. \A q \in Requests, j \in Calls : Holds(j, q)' <=> Holds(j, q)
  BY <1>4 DEF Holds, HoldSteps
<1>17. Alone'
  BY <1>16 DEF IndInv, Alone
<1>18. Known'
  <2> SUFFICES ASSUME NEW q \in Requests \ crossed', done'[q] > 0
               PROVE  \/ request[q].status = "EXECUTED" /\ \A j \in Calls : ~Holds(j, q)'
                      \/ \E j \in Calls : /\ Holds(j, q)' /\ call'[j].step = "save"
                                          /\ call'[j].row.status = "EXECUTED"
    BY DEF Known
  <2>1. CASE q = r
    <3>1. Holds(i, q)'
      BY <1>4, <2>1 DEF Holds, HoldSteps, r
    <3>2. status = "EXECUTED"
      BY <2>1 DEF r
    <3> QED
      BY <1>3, <1>4, <3>1, <3>2
  <2>2. CASE q # r
    <3>1. done[q] > 0 /\ q \notin crossed
      BY <1>5, <2>2
    <3>2. ~Holds(i, q)
      BY <2>2 DEF Holds, r
    <3> QED
      BY <1>4, <1>16, <3>1, <3>2 DEF IndInv, Known
  <2> QED
    BY <2>1, <2>2
<1> QED
  BY <1>11, <1>12, <1>13, <1>14, <1>15, <1>17, <1>18 DEF IndInv

LEMMA ExecuteKeeps ==
  ASSUME IndInv, NEW i \in Calls, Execute(i)
  PROVE  IndInv'
<1>1. call[i].step = "execute" /\ UNCHANGED <<request, crossed, others, troubles>>
  BY DEF Execute
<1>2. CASE Allowed(call[i].row.to)
  <2>1. /\ file' = Operated(call[i].row.to)
        /\ done' = [done EXCEPT ![Head(call[i].todo)] = @ + 1]
        /\ Undone /\ Outcome(i, "EXECUTED")
    BY <1>2 DEF Execute
  <2>2. troubles' \in 0 .. MaxTroubles
    BY <1>1 DEF IndInv, TypeOK
  <2> QED
    BY <1>1, <1>2, <2>1, <2>2, OperateKeeps
<1>3. CASE ~Allowed(call[i].row.to)
  <2> DEFINE copy == [call[i].row EXCEPT !.status = "FAILED"]
  <2>1. call[i].row \in Row
    BY DEF IndInv, TypeOK
  <2>2. copy \in Row /\ copy.to = call[i].row.to /\ copy.status = "FAILED"
    BY <2>1 DEF Row, Statuses
  <2>3. Outcome(i, "FAILED") /\ UNCHANGED <<file, done, undone>>
    BY <1>3 DEF Execute
  <2> QED
    BY <1>1, <2>2, <2>3, GoOnKeeps DEF Outcome, Start
<1> QED
  BY <1>2, <1>3

LEMMA TroubleType == TypeOK /\ Trouble => troubles' \in 0 .. MaxTroubles
BY RequestAssumption DEF TypeOK, Trouble

LEMMA ExecuteUnqueuedKeeps ==
  ASSUME IndInv, NEW i \in Calls, ExecuteUnqueued(i)
  PROVE  IndInv'
<1>1. troubles' \in 0 .. MaxTroubles
  BY TroubleType DEF ExecuteUnqueued, IndInv
<1>2. /\ call[i].step = "execute" /\ UNCHANGED <<request, others>>
      /\ file' = Operated(call[i].row.to)
      /\ done' = [done EXCEPT ![Head(call[i].todo)] = @ + 1]
      /\ crossed' = crossed \cup {Head(call[i].todo)}
      /\ Allowed(call[i].row.to) /\ Undone /\ Outcome(i, "FAILED")
  BY DEF ExecuteUnqueued
<1> QED
  BY <1>1, <1>2, OperateKeeps

-----------------------------------------------------------------------------
(* The outcome is saved; failures.                                         *)

LEMMA SaveRequestKeeps ==
  ASSUME IndInv, NEW i \in Calls, SaveRequest(i)
  PROVE  IndInv'
<1> DEFINE r == Head(call[i].todo)
           copy == call[i].row
           rest == Tail(call[i].todo)
<1>1. /\ UNCHANGED <<file, done, undone, crossed, others, troubles>>
      /\ call[i].step = "save" /\ request' = [request EXCEPT ![r] = copy]
  BY DEF SaveRequest, history
<1>2. /\ call[i].todo # <<>> /\ r \in Requests /\ r \in ToSet(call[i].todo)
      /\ rest \in Seq(Requests) /\ ToSet(rest) \subseteq ToSet(call[i].todo)
  BY <1>1, HeadInTodo DEF IndInv, Books, Busy, UnderWay
<1>3. /\ copy \in Row /\ copy.status # "none"
      /\ request[r].status # "none" => request[r].to = copy.to
      /\ copy.status = "EXECUTED" => done[r] > 0
  BY <1>1 DEF IndInv, TypeOK, Books, Copies, ClaimsTrue, HoldSteps
<1>4. /\ request' \in [Requests -> Row] /\ request'[r] = copy
      /\ \A q \in Requests \ {r} : request'[q] = request[q]
  BY <1>1, <1>2, <1>3 DEF IndInv, TypeOK
<1>5. /\ call'[i].step \in {"end", "read"} /\ call' \in [Calls -> CallRecords]
      /\ \A j \in Calls \ {i} : call'[j] = call[j]
      /\ call'[i].step = "end" \/ (call'[i].todo = rest /\ rest # <<>>)
      /\ ToSet(call'[i].todo) \subseteq ToSet(rest)
  <2>1. CASE rest = <<>>
    <3>1. call'[i] = Ended /\ \A j \in Calls \ {i} : call'[j] = call[j]
      BY <2>1 DEF SaveRequest, End, IndInv, TypeOK
    <3>2. call' \in [Calls -> CallRecords]
      BY <2>1, RowTypes DEF SaveRequest, End, IndInv, TypeOK, CallRecords
    <3>3. Ended.step = "end" /\ ToSet(Ended.todo) = {}
      BY DEF Ended, Idle, ToSet
    <3>4. call'[i].step = "end" /\ ToSet(call'[i].todo) = {}
      BY <3>1, <3>3
    <3>5. ToSet(call'[i].todo) \subseteq ToSet(rest)
      BY <3>4
    <3> HIDE DEF rest
    <3> QED
      BY <3>1, <3>2, <3>4, <3>5
  <2>2. CASE rest # <<>>
    <3>1. Start(i, "read", rest, NoRow)
      BY <2>2 DEF SaveRequest
    <3> HIDE DEF rest
    <3>2. /\ call'[i] = [step |-> "read", todo |-> rest, row |-> NoRow]
          /\ \A j \in Calls \ {i} : call'[j] = call[j]
      BY <3>1, StartFacts DEF IndInv
    <3>3. call' \in [Calls -> CallRecords]
      BY <1>2, <3>1, RowTypes, StartType DEF IndInv
    <3> QED
      BY <2>2, <3>2, <3>3
  <2> QED
    BY <2>1, <2>2
<1> HIDE DEF r, copy, rest
<1>6. request[r].status = "none" => done[r] = 0 /\ call[i].todo = <<r>>
      /\ \A j \in Calls : r \in ToSet(call[j].todo) => j = i
  BY <1>2 DEF IndInv, Books, Fresh
<1>7. TypeOK'
  BY <1>1, <1>4, <1>5 DEF IndInv, TypeOK, CallRecords
<1>8. Books'
  <2>1. Busy'
    BY <1>5 DEF IndInv, Books, Busy, UnderWay
  <2>2. Fresh'
    <3> SUFFICES ASSUME NEW q \in Requests, request'[q].status = "none"
                 PROVE  /\ done'[q] = 0
                        /\ \A k \in Calls : q \in ToSet(call'[k].todo) =>
                             /\ call'[k].step \in {"dup", "save"} /\ call'[k].todo = <<q>>
                             /\ \A j \in Calls : q \in ToSet(call'[j].todo) => j = k
      BY DEF Fresh
    <3>1. q # r /\ request[q].status = "none"
      BY <1>3, <1>4
    <3>2. q \notin ToSet(call[i].todo)
      <4>1. q \in ToSet(call[i].todo) => call[i].todo = <<q>>
        BY <3>1 DEF IndInv, Books, Fresh
      <4> QED
        BY <3>1, <4>1 DEF r
    <3>3. q \notin ToSet(call'[i].todo)
      BY <1>2, <1>5, <3>2
    <3> QED
      BY <1>1, <1>5, <3>1, <3>3 DEF IndInv, Books, Fresh
  <2>3. Copies'
    <3> SUFFICES ASSUME NEW j \in Calls, call'[j].step \in HoldSteps
                 PROVE  LET h == Head(call'[j].todo) IN
                        /\ call'[j].row.status # "none"
                        /\ call'[j].step = "dup" => request'[h].status = "none"
                        /\ request'[h].status # "none" => request'[h].to = call'[j].row.to
      BY DEF Copies
    <3>1. j # i /\ call'[j] = call[j]
      BY <1>5 DEF HoldSteps
    <3>2. call[j].todo # <<>>
      BY <3>1 DEF IndInv, Books, Busy, UnderWay, HoldSteps
    <3>3. Head(call[j].todo) \in Requests /\ Head(call[j].todo) \in ToSet(call[j].todo)
      BY <3>2, HeadInTodo DEF IndInv
    <3>4. CASE Head(call[j].todo) # r
      BY <1>4, <3>1, <3>3, <3>4 DEF IndInv, Books, Copies
    <3>5. CASE Head(call[j].todo) = r
      <4>1. request[r].status # "none"
        BY <1>6, <3>1, <3>3, <3>5
      <4> QED
        BY <1>3, <1>4, <3>1, <3>5, <4>1 DEF IndInv, Books, Copies
    <3> QED
      BY <3>4, <3>5
  <2> QED
    BY <2>1, <2>2, <2>3 DEF Books
<1>9. Effective'
  <2> SUFFICES ASSUME NEW q \in Requests, done[q] > 0, q \notin undone
               PROVE  Shown(request[q].to)'
    BY <1>1 DEF Effective
  <2>1. request'[q].to = request[q].to
    BY <1>3, <1>4, <1>6
  <2> QED
    BY <1>1, <2>1 DEF IndInv, Effective, Shown
<1>10. ExecutedOnce'
  BY <1>1 DEF IndInv, ExecutedOnce
<1>11. ClaimsTrue'
  BY <1>1, <1>3, <1>4, <1>5 DEF IndInv, ClaimsTrue, HoldSteps
<1>12. \A q \in Requests, j \in Calls : Holds(j, q)' <=> j # i /\ Holds(j, q)
  BY <1>5 DEF Holds, HoldSteps
<1>13. Holds(i, r) /\ \A q \in Requests : Holds(i, q) => q = r
  BY <1>1 DEF Holds, HoldSteps, r
<1>14. Alone'
  BY <1>1, <1>12 DEF IndInv, Alone
<1>15. Known'
  <2> SUFFICES ASSUME NEW q \in Requests \ crossed, done[q] > 0
               PROVE  \/ request'[q].status = "EXECUTED" /\ \A j \in Calls : ~Holds(j, q)'
                      \/ \E j \in Calls : /\ Holds(j, q)' /\ call'[j].step = "save"
                                          /\ call'[j].row.status = "EXECUTED"
    BY <1>1 DEF Known
  <2>1. CASE q = r
    <3>1. copy.status = "EXECUTED"
      BY <1>2, <1>13, <2>1 DEF IndInv, Known, Alone, copy
    <3>2. \A j \in Calls : ~Holds(j, q)'
      BY <1>12, <1>13, <2>1 DEF IndInv, Alone
    <3> QED
      BY <1>4, <2>1, <3>1, <3>2
  <2>2. CASE q # r
    BY <1>4, <1>5, <1>12, <1>13, <2>2 DEF IndInv, Known
  <2> QED
    BY <2>1, <2>2
<1> QED
  BY <1>7, <1>8, <1>9, <1>10, <1>11, <1>14, <1>15 DEF IndInv

LEMMA FailKeeps ==
  ASSUME IndInv, NEW i \in Calls, Fail(i)
  PROVE  IndInv'
<1>1. call[i].todo # <<>>
  BY DEF Fail, IndInv, Books, Busy, UnderWay
<1>2. Performed(i) \subseteq Requests
  BY <1>1, HeadInTodo DEF IndInv, Performed
<1>3. troubles' \in 0 .. MaxTroubles
  BY TroubleType DEF Fail, IndInv
<1> QED
  BY <1>2, <1>3, EndKeeps DEF Fail, IndInv, TypeOK

LEMMA CrashKeeps == IndInv /\ Crash => IndInv'
<1> SUFFICES ASSUME IndInv, Crash PROVE IndInv'
  OBVIOUS
<1>1. UNCHANGED <<request, file, done, undone, others>>
  BY DEF Crash
<1>2. \A i \in Calls : Performed(i) \subseteq Requests
  <2> TAKE i \in Calls
  <2>1. call[i].step = "save" => call[i].todo # <<>>
    BY DEF IndInv, Books, Busy, UnderWay
  <2> QED
    BY <2>1, HeadInTodo DEF IndInv, Performed
<1>3. crossed \subseteq crossed' /\ crossed' \subseteq Requests
  BY <1>2 DEF Crash, IndInv, TypeOK
<1>4. \A i \in Calls : Performed(i) \subseteq crossed'
  BY DEF Crash
<1>5. \A i \in Calls : (call'[i] = call[i] /\ ~UnderWay(i)) \/ call'[i] = Ended
  BY DEF Crash
<1>6. call' \in [Calls -> CallRecords]
  BY <1>5, RowTypes DEF Crash, IndInv, TypeOK, CallRecords
<1>7. troubles' \in 0 .. MaxTroubles
  BY TroubleType DEF Crash, IndInv
<1>8. TypeOK'
  BY <1>1, <1>3, <1>6, <1>7 DEF IndInv, TypeOK, CallRecords
<1>9. Ended.step = "end" /\ ToSet(Ended.todo) = {}
  BY DEF Ended, Idle, ToSet
<1>10. Books'
  BY <1>1, <1>5, <1>9 DEF IndInv, Books, Busy, UnderWay, Fresh, Copies, HoldSteps
<1>11. Effective' /\ ExecutedOnce'
  BY <1>1 DEF IndInv, Effective, ExecutedOnce, Shown
<1>12. \A i \in Calls : call'[i].step \notin HoldSteps
  BY <1>5, <1>9 DEF HoldSteps, UnderWay
<1>13. ClaimsTrue' /\ Alone'
  BY <1>1, <1>12 DEF IndInv, ClaimsTrue, Alone, Holds
<1>14. Known'
  <2> SUFFICES ASSUME NEW q \in Requests \ crossed', done[q] > 0
               PROVE  request[q].status = "EXECUTED" /\ \A j \in Calls : ~Holds(j, q)'
    BY <1>1 DEF Known
  <2>1. ~\E i \in Calls : /\ Holds(i, q) /\ call[i].step = "save"
                          /\ call[i].row.status = "EXECUTED"
    BY <1>4 DEF Performed, Holds
  <2> QED
    BY <1>3, <1>12, <2>1 DEF IndInv, Known, Holds
<1> QED
  BY <1>8, <1>10, <1>11, <1>13, <1>14 DEF IndInv

-----------------------------------------------------------------------------

LEMMA CommandKeeps ==
  ASSUME IndInv, NEW i \in Calls, Command(i)
  PROVE  IndInv'
<1>1. ASSUME NEW rs \in (SUBSET Requests) \ {{}}, NEW todo \in SetToSeqs(rs), Approve(i, todo)
      PROVE  IndInv'
  BY <1>1, TodoType, ApproveKeeps
<1> QED
  BY <1>1, CreateKeeps, RejectOrCancelKeeps DEF Command

LEMMA NextIndInv == IndInv /\ [Next]_vars => IndInv'
<1> SUFFICES ASSUME IndInv, [Next]_vars PROVE IndInv'
  OBVIOUS
<1>1. ASSUME NEW to \in Folders \cup {Trash}, OtherOperation(to) PROVE IndInv'
  BY <1>1, OtherSteps DEF OtherOperation
<1>2. ASSUME NEW to \in Folders, Restore(to) \/ MoveReverted(to) PROVE IndInv'
  BY <1>2, OtherSteps DEF Restore, MoveReverted
<1>3. ASSUME Purge \/ Synced PROVE IndInv'
  BY <1>3, OtherSteps DEF Purge, Synced, history
<1>4. ASSUME UNCHANGED vars PROVE IndInv'
  BY <1>4 DEF vars, IndInv, TypeOK, Books, Busy, UnderWay, Fresh, Copies, HoldSteps, Effective,
     Shown, ExecutedOnce, ClaimsTrue, Alone, Known, Holds
<1> QED
  BY <1>1, <1>2, <1>3, <1>4, CommandKeeps, CheckDuplicateKeeps, ReadRequestKeeps, ValidateKeeps,
     ExecuteKeeps, ExecuteUnqueuedKeeps, SaveRequestKeeps, FailKeeps, CrashKeeps DEF Next

\* The strengthened invariant holds in every reachable state.
THEOREM InductiveInvariant == Spec => []IndInv
BY InitIndInv, NextIndInv, PTL DEF Spec

\* Rows, commands and histories keep their types.
THEOREM TypeCorrect == Spec => []TypeOK
<1>1. IndInv => TypeOK
  BY DEF IndInv
<1> QED
  BY <1>1, InductiveInvariant, PTL

\* The operation of a request is carried out once at most unless somebody has
\* taken it back.
THEOREM OperationsHappenOnce == Spec => []ExecutedOnce
<1>1. IndInv => ExecutedOnce
  BY DEF IndInv
<1> QED
  BY <1>1, InductiveInvariant, PTL

\* The status of a request that nobody crossed says what was done.
THEOREM StatusesAreTrue == Spec => []StatusIsTrue
<1>1. IndInv => StatusIsTrue
  <2> SUFFICES ASSUME IndInv, NEW r \in Requests, done[r] > 0, request[r].status # "EXECUTED",
                      r \notin crossed
               PROVE  \E i \in Calls : Performed(i) = {r}
    BY DEF StatusIsTrue, IndInv, ClaimsTrue
  <2> QED
    BY DEF IndInv, Known, Holds, Performed
<1> QED
  BY <1>1, InductiveInvariant, PTL
=============================================================================
