-------------------------- MODULE WorkerInfraProofs --------------------------
(***************************************************************************)
(* Proofs about the two adapters the workers run on: the queue of          *)
(* LocalFileQueue, with its refinement of JobQueue, and the lock of        *)
(* DistributedLock.                                                        *)
(*                                                                         *)
(* The queue comes first.  XDoes says what action X changes, in terms of   *)
(* single files and runs; VWriters says which actions change the variable  *)
(* V; PKept says that P is preserved, one case per action that writes a    *)
(* variable of P.  QueueInv, the inductive invariant, is the conjunction   *)
(* of the parts, of which those that need a disk that is not slow, or no   *)
(* crash so far, are implications.                                         *)
(***************************************************************************)
EXTENDS LocalFileQueue, DistributedLock, FiniteSetTheorems, TLAPS

(* A run that has read its job.                                             *)
Holds(p, j) == run[p][j] \notin {"none", "listed"}

(* What TypeOK is too coarse for: a file that will be picked has an attempt *)
(* left, a move has a subject, a run that leaves has a place to go.         *)
AttemptLeft ==
  \A j \in Jobs : /\ file["waiting"][j] <= MaxAttempts
                  /\ file["delayed"][j] <= MaxAttempts
MovesLeft ==
  /\ \A p \in Polls : moving[p] # NoMove => moving[p][2] <= MaxAttempts
  /\ saved # NoMove => saved[2] <= MaxAttempts
MovesKnown ==
  /\ \A p \in Polls :
       scan[p] \in {"moving", "unlinkDelayed"} => moving[p] # NoMove
  /\ boot \in {"writeWaiting", "unlinkActive"} => saved # NoMove
WayOut ==
  \A p \in Polls, j \in Jobs : run[p][j] \in Leaving =>
    \/ dest[p][j] = "completed"
    \/ dest[p][j] = "delayed" /\ mem[p][j] <= MaxAttempts
    \/ dest[p][j] = "failed" /\ mem[p][j] > MaxAttempts

Bounds == AttemptLeft /\ MovesLeft /\ MovesKnown /\ WayOut

-----------------------------------------------------------------------------
(* What the steps change.                                                   *)

Count == 0..(MaxAttempts + 1)
Content == {Absent, Torn} \cup Count
RunSteps == {"none", "running"} \cup Picking \cup Leaving
Files == [Dirs -> [Jobs -> Content]]
Scans == [Polls -> {"idle", "delayed", "moving", "unlinkDelayed", "counted",
                    "running"}]
Lists == [Polls -> SUBSET Jobs]
Moves == [Polls -> {NoMove} \cup (Jobs \X Count)]
Slots == [Polls -> 0..Concurrency]
Runs == [Polls -> [Jobs -> RunSteps]]
Mems == [Polls -> [Jobs -> Count]]
Dests == [Polls -> [Jobs -> Dirs]]
Errs == [Jobs -> Count]

(* The first k jobs of S in the order of the file names.                    *)
FirstOf(S, k) == {j \in S : Cardinality({i \in S : i < j}) < k}

(* g is f with another value at p, or at p and j.                           *)
Becomes(f, g, p, v) == \A q \in Polls : g[q] = IF q = p THEN v ELSE f[q]
Becomes2(f, g, p, j, v) ==
  \A q \in Polls, i \in Jobs : g[q][i] = IF q = p /\ i = j THEN v ELSE f[q][i]

FileSet(d, j, c) ==
  \A e \in Dirs, i \in Jobs :
    file'[e][i] = IF e = d /\ i = j THEN c ELSE file[e][i]

RunSet(p, j, to) ==
  \A q \in Polls, i \in Jobs :
    run'[q][i] = IF q = p /\ i = j THEN to ELSE run[q][i]

(* TypeOK, variable by variable.                                            *)
LEMMA Types ==
  ASSUME TypeOK
  PROVE  /\ file \in Files /\ scan \in Scans /\ list \in Lists
         /\ moving \in Moves /\ slots \in Slots /\ run \in Runs
         /\ mem \in Mems /\ dest \in Dests /\ errs \in Errs
         /\ active \in Nat /\ (saved = NoMove \/ saved \in Jobs \X Count)
BY DEF TypeOK, Files, Content, Count, Scans, Lists, Moves, Slots, Runs,
   RunSteps, Mems, Dests, Errs

(* Writing or unlinking a file changes that file and no other.              *)
LEMMA PutPlace ==
  ASSUME TypeOK, NEW d \in Dirs, NEW j \in Jobs, NEW c, Put(d, j, c)
  PROVE  /\ FileSet(d, j, c)
         /\ c \in Content => file' \in Files
BY DEF TypeOK, Put, FileSet, Content, Count, Files

(* A step of a run moves that run and no other.                             *)
LEMMA GoPlace ==
  ASSUME TypeOK, NEW p \in Polls, NEW j \in Jobs, NEW from, NEW to,
         GoRun(p, j, from, to)
  PROVE  /\ run[p][j] = from
         /\ RunSet(p, j, to)
         /\ to \in RunSteps => run' \in Runs
BY DEF TypeOK, GoRun, RunSet, RunSteps, Runs

LEMMA InitTyped == Init => TypeOK /\ Bounds
<1> USE LocalQueueAssumption
<1> SUFFICES ASSUME Init PROVE TypeOK /\ Bounds
  OBVIOUS
<1>1. TypeOK
  BY DEF Init, TypeOK, Dirs, Absent, NoMove, Picking
<1>2. Bounds
  BY DEF Init, Bounds, AttemptLeft, MovesLeft, MovesKnown, WayOut, Dirs,
     Absent, Leaving
<1>3. QED
  BY <1>1, <1>2

LEMMA BeginAddDoes ==
  ASSUME TypeOK, Bounds, NEW j \in Jobs, BeginAdd(j)
  PROVE  /\ FileSet("waiting", j, Torn) /\ file' \in Files
<1> USE LocalQueueAssumption
<1> QED
  BY PutPlace DEF BeginAdd, TypeOK, Dirs, Content, Count, RunSteps, Files

LEMMA EndAddDoes ==
  ASSUME TypeOK, Bounds, NEW j \in Jobs, EndAdd(j)
  PROVE  /\ FileSet("waiting", j, 0) /\ file' \in Files
<1> USE LocalQueueAssumption
<1>1. Put("waiting", j, 0) /\ 0 \in Content
  BY DEF EndAdd, Content, Count
<1>2. QED
  BY <1>1, PutPlace DEF Dirs

LEMMA TickDoes ==
  ASSUME TypeOK, Bounds, NEW p \in Polls, Tick(p)
  PROVE  /\ Becomes(scan, scan', p, "delayed")
         /\ Becomes(list, list', p, Listed("delayed")) /\ scan' \in Scans
         /\ list' \in Lists
<1> USE LocalQueueAssumption
<1> QED
  BY DEF Tick, Becomes, TypeOK, Dirs, Content, Count, RunSteps, Lists,
     Scans, Listed

LEMMA SkipDelayedDoes ==
  ASSUME TypeOK, Bounds, NEW p \in Polls, NEW j \in Jobs, SkipDelayed(p, j)
  PROVE  /\ Becomes(list, list', p, list[p] \ {j}) /\ list' \in Lists
<1> USE LocalQueueAssumption
<1> QED
  BY DEF SkipDelayed, Becomes, TypeOK, Dirs, Content, Count, RunSteps, Lists

LEMMA AbortPollDoes ==
  ASSUME TypeOK, Bounds, NEW p \in Polls, NEW j \in Jobs, AbortPoll(p, j)
  PROVE  /\ Becomes(scan, scan', p, "idle")
         /\ Becomes(list, list', p, {}) /\ scan' \in Scans
         /\ list' \in Lists
<1> USE LocalQueueAssumption
<1> QED
  BY DEF AbortPoll, Becomes, TypeOK, Dirs, Content, Count, RunSteps, Lists,
     Scans

LEMMA BeginPromoteDoes ==
  ASSUME TypeOK, Bounds, NEW p \in Polls, NEW j \in Jobs, BeginPromote(p, j)
  PROVE  /\ moving'[p][1] = j /\ moving'[p] # NoMove
         /\ Becomes(scan, scan', p, "moving")
         /\ Becomes(list, list', p, list[p] \ {j})
         /\ Becomes(moving, moving', p, <<j, file["delayed"][j]>>)
         /\ FileSet("waiting", j, Torn) /\ scan' \in Scans
         /\ list' \in Lists /\ moving' \in Moves /\ file' \in Files
<1> USE LocalQueueAssumption
<1>1. /\ Put("waiting", j, Torn) /\ Torn \in Content
      /\ file["delayed"][j] \in Count
  BY Types DEF BeginPromote, Whole, Files, Content, Dirs, Absent, Torn, Count
<1>2. FileSet("waiting", j, Torn) /\ file' \in Files
  BY <1>1, PutPlace DEF Dirs
<1>3. /\ Becomes(scan, scan', p, "moving") /\ scan' \in Scans
      /\ Becomes(list, list', p, list[p] \ {j}) /\ list' \in Lists
  BY DEF BeginPromote, TypeOK, Becomes, Scans, Lists
<1>4. /\ Becomes(moving, moving', p, <<j, file["delayed"][j]>>)
      /\ moving' \in Moves
  BY <1>1 DEF BeginPromote, TypeOK, Becomes, Moves, Count
<1>5. moving'[p] # NoMove /\ moving'[p][1] = j
  BY <1>4 DEF Becomes, NoMove
<1>6. QED
  BY <1>2, <1>3, <1>4, <1>5

LEMMA EndPromoteDoes ==
  ASSUME TypeOK, Bounds, NEW p \in Polls, EndPromote(p)
  PROVE  /\ moving[p] \in Jobs \X Count
         /\ Becomes(scan, scan', p, "unlinkDelayed")
         /\ FileSet("waiting", moving[p][1], moving[p][2])
         /\ scan' \in Scans /\ file' \in Files
<1> USE LocalQueueAssumption
<1> QED
  BY PutPlace DEF EndPromote, Becomes, TypeOK, Dirs, Content, Count,
     RunSteps, Files, Scans, Bounds, MovesKnown

LEMMA PromoteFailsDoes ==
  ASSUME TypeOK, Bounds, NEW p \in Polls, PromoteFails(p)
  PROVE  /\ Becomes(scan, scan', p, "idle")
         /\ Becomes(list, list', p, {})
         /\ Becomes(moving, moving', p, NoMove) /\ scan' \in Scans
         /\ list' \in Lists /\ moving' \in Moves
<1> USE LocalQueueAssumption
<1> QED
  BY DEF PromoteFails, Becomes, TypeOK, Dirs, Content, Count, RunSteps,
     Lists, Moves, Scans

LEMMA UnlinkDelayedDoes ==
  ASSUME TypeOK, Bounds, NEW p \in Polls, UnlinkDelayed(p)
  PROVE  /\ moving[p] \in Jobs \X Count
         /\ Becomes(scan, scan', p, "delayed")
         /\ Becomes(moving, moving', p, NoMove)
         /\ FileSet("delayed", moving[p][1], Absent) /\ scan' \in Scans
         /\ moving' \in Moves /\ file' \in Files
<1> USE LocalQueueAssumption
<1> QED
  BY PutPlace DEF UnlinkDelayed, Becomes, TypeOK, Dirs, Content, Count,
     RunSteps, Files, Moves, Scans, Bounds, MovesKnown

LEMMA CountSlotsDoes ==
  ASSUME TypeOK, Bounds, NEW p \in Polls, CountSlots(p)
  PROVE  /\ \/ Becomes(scan, scan', p, "counted")
            \/ Becomes(scan, scan', p, "idle")
         /\ active < Concurrency =>
              /\ Becomes(scan, scan', p, "counted")
              /\ Becomes(slots, slots', p, Concurrency - active)
         /\ active >= Concurrency =>
              Becomes(scan, scan', p, "idle") /\ UNCHANGED slots
         /\ scan' \in Scans /\ slots' \in Slots
<1> USE LocalQueueAssumption
<1>1. CASE active < Concurrency
  <2>1. Concurrency - active \in 0..Concurrency
    BY <1>1 DEF TypeOK
  <2>2. /\ Becomes(slots, slots', p, Concurrency - active)
        /\ slots' \in Slots
    BY <1>1, <2>1, Types DEF CountSlots, Becomes, Slots
  <2>3. QED
    BY <1>1, <2>2, Types DEF CountSlots, Becomes, Scans
<1>2. CASE active >= Concurrency
  BY <1>2, Types DEF CountSlots, Becomes, Scans, Slots
<1>3. QED
  BY <1>1, <1>2, Types

LEMMA PickJobsDoes ==
  ASSUME TypeOK, Bounds, NEW p \in Polls, PickJobs(p)
  PROVE  /\ Becomes(scan, scan', p, "running")
         /\ Becomes(slots, slots', p, 0)
         /\ \A q \in Polls, j \in Jobs : q # p => run'[q][j] = run[q][j]
         /\ \A j \in Jobs :
              run'[p][j] = IF j \in FirstOf(Listed("waiting"), slots[p])
                           THEN "listed" ELSE "none"
         /\ scan' \in Scans /\ slots' \in Slots /\ run' \in Runs
<1> USE LocalQueueAssumption
<1> QED
  BY DEF PickJobs, Becomes, TypeOK, Dirs, Content, Count, RunSteps, Runs,
     Scans, Slots, FirstOf, Listed, Picking

LEMMA EndPollDoes ==
  ASSUME TypeOK, Bounds, NEW p \in Polls, EndPoll(p)
  PROVE  /\ Becomes(scan, scan', p, "idle") /\ scan' \in Scans
<1> USE LocalQueueAssumption
<1> QED
  BY DEF EndPoll, Becomes, TypeOK, Dirs, Content, Count, RunSteps, Scans

LEMMA ReadNothingDoes ==
  ASSUME TypeOK, Bounds, NEW p \in Polls, NEW j \in Jobs, ReadNothing(p, j)
  PROVE  /\ run[p][j] = "listed" /\ RunSet(p, j, "none") /\ run' \in Runs
<1> USE LocalQueueAssumption
<1> QED
  BY GoPlace DEF ReadNothing, TypeOK, Dirs, Content, Count, RunSteps, Runs

LEMMA ReadWaitingDoes ==
  ASSUME TypeOK, Bounds, NEW p \in Polls, NEW j \in Jobs, ReadWaiting(p, j)
  PROVE  /\ run[p][j] = "listed" /\ RunSet(p, j, "read")
         /\ Becomes2(mem, mem', p, j, file["waiting"][j] + 1)
         /\ run' \in Runs /\ mem' \in Mems
<1> USE LocalQueueAssumption
<1>1. GoRun(p, j, "listed", "read") /\ "read" \in RunSteps
  BY DEF ReadWaiting, RunSteps, Picking, Leaving
<1>2. /\ run[p][j] = "listed" /\ RunSet(p, j, "read")
      /\ run' \in Runs
  BY <1>1, GoPlace
<1>3. file["waiting"][j] + 1 \in Count
  BY Types DEF ReadWaiting, Whole, Bounds, AttemptLeft, MovesKnown, Files, Content, Dirs, Absent, Torn,
            Count
<1>4. /\ Becomes2(mem, mem', p, j, file["waiting"][j] + 1)
      /\ mem' \in Mems
  BY <1>3 DEF ReadWaiting, TypeOK, Becomes2, Mems, Count
<1>5. QED
  BY <1>2, <1>4

LEMMA BeginActiveDoes ==
  ASSUME TypeOK, Bounds, NEW p \in Polls, NEW j \in Jobs, BeginActive(p, j)
  PROVE  /\ run[p][j] = "read" /\ RunSet(p, j, "writeActive")
         /\ FileSet("active", j, Torn) /\ run' \in Runs
         /\ file' \in Files
<1> USE LocalQueueAssumption
<1>1. GoRun(p, j, "read", "writeActive") /\ "writeActive" \in RunSteps
  BY DEF BeginActive, RunSteps, Picking, Leaving
<1>2. /\ run[p][j] = "read" /\ RunSet(p, j, "writeActive")
      /\ run' \in Runs
  BY <1>1, GoPlace
<1>3. Put("active", j, Torn) /\ "active" \in Dirs /\ Torn \in Content
  BY DEF BeginActive, TypeOK, Dirs, Content, Count, Torn, Absent
<1>4. FileSet("active", j, Torn) /\ file' \in Files
  BY <1>3, PutPlace
<1>5. QED
  BY <1>2, <1>4

LEMMA EndActiveDoes ==
  ASSUME TypeOK, Bounds, NEW p \in Polls, NEW j \in Jobs, EndActive(p, j)
  PROVE  /\ run[p][j] = "writeActive" /\ RunSet(p, j, "unlinkWaiting")
         /\ FileSet("active", j, mem[p][j]) /\ run' \in Runs
         /\ file' \in Files
<1> USE LocalQueueAssumption
<1>1. GoRun(p, j, "writeActive", "unlinkWaiting") /\ "unlinkWaiting" \in RunSteps
  BY DEF EndActive, RunSteps, Picking, Leaving
<1>2. /\ run[p][j] = "writeActive" /\ RunSet(p, j, "unlinkWaiting")
      /\ run' \in Runs
  BY <1>1, GoPlace
<1>3. Put("active", j, mem[p][j]) /\ "active" \in Dirs /\ mem[p][j] \in Content
  BY DEF EndActive, TypeOK, Dirs, Content, Count, Torn, Absent
<1>4. FileSet("active", j, mem[p][j]) /\ file' \in Files
  BY <1>3, PutPlace
<1>5. QED
  BY <1>2, <1>4

LEMMA ActiveFailsDoes ==
  ASSUME TypeOK, Bounds, NEW p \in Polls, NEW j \in Jobs, ActiveFails(p, j)
  PROVE  /\ run[p][j] \in {"read", "writeActive"} /\ RunSet(p, j, "none")
         /\ run' \in Runs
<1> USE LocalQueueAssumption
<1> QED
  BY DEF ActiveFails, RunSet, TypeOK, RunSteps, Runs

LEMMA UnlinkWaitingDoes ==
  ASSUME TypeOK, Bounds, NEW p \in Polls, NEW j \in Jobs, UnlinkWaiting(p, j)
  PROVE  /\ run[p][j] = "unlinkWaiting" /\ RunSet(p, j, "running")
         /\ FileSet("waiting", j, Absent) /\ run' \in Runs
         /\ file' \in Files
<1> USE LocalQueueAssumption
<1> QED
  BY PutPlace, GoPlace DEF UnlinkWaiting, TypeOK, Dirs, Content, Count,
     RunSteps, Files, Runs

LEMMA ProcessorReturnsDoes ==
  ASSUME TypeOK, Bounds, NEW p \in Polls, NEW j \in Jobs, ProcessorReturns(p, j)
  PROVE  /\ run[p][j] = "running" /\ RunSet(p, j, "decided")
         /\ Becomes2(dest, dest', p, j, "completed") /\ run' \in Runs
         /\ dest' \in Dests
<1> USE LocalQueueAssumption
<1>1. GoRun(p, j, "running", "decided") /\ "decided" \in RunSteps
  BY DEF ProcessorReturns, RunSteps, Picking, Leaving
<1>2. /\ run[p][j] = "running" /\ RunSet(p, j, "decided")
      /\ run' \in Runs
  BY <1>1, GoPlace
<1>3. Becomes2(dest, dest', p, j, "completed") /\ dest' \in Dests
  BY DEF ProcessorReturns, Decide, TypeOK, Becomes2, Dests, Dirs
<1>4. QED
  BY <1>2, <1>3

LEMMA ProcessorThrowsDoes ==
  ASSUME TypeOK, Bounds, NEW p \in Polls, NEW j \in Jobs, ProcessorThrows(p, j)
  PROVE  /\ run[p][j] = "running" /\ RunSet(p, j, "decided")
         /\ Becomes2(dest, dest', p, j, RetryDir(mem[p][j]))
         /\ \A i \in Jobs : errs'[i] = IF i = j /\ errs[j] <= MaxAttempts
                                  THEN errs[j] + 1 ELSE errs[i]
         /\ run' \in Runs /\ dest' \in Dests /\ errs' \in Errs
<1> USE LocalQueueAssumption
<1>1. GoRun(p, j, "running", "decided") /\ "decided" \in RunSteps
  BY DEF ProcessorThrows, RunSteps, Picking, Leaving
<1>2. /\ run[p][j] = "running" /\ RunSet(p, j, "decided")
      /\ run' \in Runs
  BY <1>1, GoPlace
<1>3. RetryDir(mem[p][j]) \in Dirs
  BY DEF RetryDir, Dirs
<1>4. /\ Becomes2(dest, dest', p, j, RetryDir(mem[p][j]))
      /\ dest' \in Dests
  BY <1>3 DEF ProcessorThrows, Decide, TypeOK, Becomes2, Dests
<1>5. /\ \A i \in Jobs : errs'[i] = IF i = j /\ errs[j] <= MaxAttempts
                                   THEN errs[j] + 1 ELSE errs[i]
      /\ errs' \in Errs
  BY DEF ProcessorThrows, TypeOK, Errs, Count
<1>6. QED
  BY <1>2, <1>4, <1>5

LEMMA DropJobDoes ==
  ASSUME TypeOK, Bounds, NEW p \in Polls, NEW j \in Jobs, DropJob(p, j)
  PROVE  /\ run[p][j] = "decided" /\ RunSet(p, j, "unlinkActive")
         /\ run' \in Runs
<1> USE LocalQueueAssumption
<1>1. GoRun(p, j, "decided", "unlinkActive") /\ "unlinkActive" \in RunSteps
  BY DEF DropJob, RunSteps, Picking, Leaving
<1>2. /\ run[p][j] = "decided" /\ RunSet(p, j, "unlinkActive")
      /\ run' \in Runs
  BY <1>1, GoPlace
<1>3. QED
  BY <1>2

LEMMA BeginOutDoes ==
  ASSUME TypeOK, Bounds, NEW p \in Polls, NEW j \in Jobs, BeginOut(p, j)
  PROVE  /\ run[p][j] = "decided" /\ RunSet(p, j, "writeOut")
         /\ FileSet(dest[p][j], j, Torn) /\ run' \in Runs
         /\ file' \in Files
<1> USE LocalQueueAssumption
<1>1. GoRun(p, j, "decided", "writeOut") /\ "writeOut" \in RunSteps
  BY DEF BeginOut, RunSteps, Picking, Leaving
<1>2. /\ run[p][j] = "decided" /\ RunSet(p, j, "writeOut")
      /\ run' \in Runs
  BY <1>1, GoPlace
<1>3. Put(dest[p][j], j, Torn) /\ dest[p][j] \in Dirs /\ Torn \in Content
  BY DEF BeginOut, TypeOK, Dirs, Content, Count, Torn, Absent
<1>4. FileSet(dest[p][j], j, Torn) /\ file' \in Files
  BY <1>3, PutPlace
<1>5. QED
  BY <1>2, <1>4

LEMMA EndOutDoes ==
  ASSUME TypeOK, Bounds, NEW p \in Polls, NEW j \in Jobs, EndOut(p, j)
  PROVE  /\ run[p][j] = "writeOut" /\ RunSet(p, j, "unlinkActive")
         /\ FileSet(dest[p][j], j, mem[p][j]) /\ run' \in Runs
         /\ file' \in Files
<1> USE LocalQueueAssumption
<1>1. GoRun(p, j, "writeOut", "unlinkActive") /\ "unlinkActive" \in RunSteps
  BY DEF EndOut, RunSteps, Picking, Leaving
<1>2. /\ run[p][j] = "writeOut" /\ RunSet(p, j, "unlinkActive")
      /\ run' \in Runs
  BY <1>1, GoPlace
<1>3. Put(dest[p][j], j, mem[p][j]) /\ dest[p][j] \in Dirs /\ mem[p][j] \in Content
  BY DEF EndOut, TypeOK, Dirs, Content, Count, Torn, Absent
<1>4. FileSet(dest[p][j], j, mem[p][j]) /\ file' \in Files
  BY <1>3, PutPlace
<1>5. QED
  BY <1>2, <1>4

LEMMA OutFailsDoes ==
  ASSUME TypeOK, Bounds, NEW p \in Polls, NEW j \in Jobs, OutFails(p, j)
  PROVE  /\ run[p][j] \in {"decided", "writeOut"}
         /\ dest[p][j] = "completed" =>
              /\ RunSet(p, j, "decided")
              /\ Becomes2(dest, dest', p, j, RetryDir(mem[p][j]))
              /\ UNCHANGED active
         /\ dest[p][j] # "completed" =>
              RunSet(p, j, "none") /\ Uncount /\ UNCHANGED dest
         /\ run' \in Runs /\ dest' \in Dests
<1> USE LocalQueueAssumption
<1>1. RetryDir(mem[p][j]) \in Dirs
  BY DEF RetryDir, Dirs
<1>2. "decided" \in RunSteps /\ "none" \in RunSteps
  BY DEF RunSteps, Leaving
<1>3. CASE dest[p][j] = "completed"
  <2>1. RunSet(p, j, "decided") /\ run' \in Runs
    BY <1>2, <1>3, Types DEF OutFails, RunSet, Runs
  <2>2. /\ Becomes2(dest, dest', p, j, RetryDir(mem[p][j]))
        /\ dest' \in Dests
    BY <1>1, <1>3, Types DEF OutFails, Decide, Becomes2, Dests
  <2>3. QED
    BY <1>3, <2>1, <2>2 DEF OutFails
<1>4. CASE dest[p][j] # "completed"
  <2>1. RunSet(p, j, "none") /\ run' \in Runs
    BY <1>2, <1>4, Types DEF OutFails, RunSet, Runs
  <2>2. QED
    BY <1>4, <2>1, Types DEF OutFails
<1>5. run[p][j] \in {"decided", "writeOut"}
  BY DEF OutFails
<1>6. QED
  BY <1>3, <1>4, <1>5

LEMMA UnlinkActiveDoes ==
  ASSUME TypeOK, Bounds, NEW p \in Polls, NEW j \in Jobs, UnlinkActive(p, j)
  PROVE  /\ run[p][j] = "unlinkActive" /\ RunSet(p, j, "none")
         /\ FileSet("active", j, Absent) /\ run' \in Runs
         /\ file' \in Files
<1> USE LocalQueueAssumption
<1> QED
  BY PutPlace, GoPlace DEF UnlinkActive, TypeOK, Dirs, Content, Count,
     RunSteps, Files, Runs

LEMMA CleanUpDoes ==
  ASSUME TypeOK, Bounds, NEW d \in Dirs, NEW j \in Jobs, CleanUp(d, j)
  PROVE  /\ FileSet(d, j, Absent) /\ file' \in Files
<1> USE LocalQueueAssumption
<1> QED
  BY PutPlace DEF CleanUp, TypeOK, Dirs, Content, Count, RunSteps, Files

LEMMA BeginRecoverDoes ==
  ASSUME TypeOK, Bounds, NEW j \in Jobs, BeginRecover(j)
  PROVE  /\ saved' \in Jobs \X Count /\ saved' # NoMove
         /\ saved'[2] <= MaxAttempts
         /\ saved'[2] = GiveBack(file["active"][j]) /\ saved'[1] = j
         /\ FileSet("waiting", j, Torn) /\ file' \in Files
<1> USE LocalQueueAssumption
<1>1. /\ GiveBack(file["active"][j]) \in Count
      /\ GiveBack(file["active"][j]) <= MaxAttempts
  BY Types DEF BeginRecover, Whole, GiveBack, Files, Content, Dirs, Absent, Torn,
            Count
<1>2. FileSet("waiting", j, Torn) /\ file' \in Files
  BY PutPlace DEF BeginRecover, Dirs, Content
<1>3. saved' = <<j, GiveBack(file["active"][j])>>
  BY DEF BeginRecover
<1>4. saved' # NoMove
  BY <1>3 DEF NoMove
<1>5. QED
  BY <1>1, <1>2, <1>3, <1>4

LEMMA EndRecoverDoes ==
  ASSUME TypeOK, Bounds, EndRecover
  PROVE  /\ saved \in Jobs \X Count
         /\ FileSet("waiting", saved[1], saved[2]) /\ file' \in Files
<1> USE LocalQueueAssumption
<1> QED
  BY PutPlace DEF EndRecover, TypeOK, Dirs, Content, Count, RunSteps, Files,
     Bounds, MovesKnown

LEMMA UnlinkRecoveredDoes ==
  ASSUME TypeOK, Bounds, UnlinkRecovered
  PROVE  /\ saved \in Jobs \X Count
         /\ FileSet("active", saved[1], Absent) /\ file' \in Files
<1> USE LocalQueueAssumption
<1> QED
  BY PutPlace DEF UnlinkRecovered, TypeOK, Dirs, Content, Count, RunSteps,
     Files, Bounds, MovesKnown

-----------------------------------------------------------------------------
(* Which steps change a variable.                                         *)

LEMMA FileWriters ==
  ASSUME [Next]_vars, file' # file
  PROVE  \/ \E j \in Jobs : BeginAdd(j) \/ EndAdd(j) \/ BeginRecover(j)
         \/ \E p \in Polls, j \in Jobs : BeginPromote(p, j) \/
            BeginActive(p, j) \/ EndActive(p, j) \/
            UnlinkWaiting(p, j) \/ BeginOut(p, j) \/ EndOut(p,
            j) \/ UnlinkActive(p, j)
         \/ \E p \in Polls : EndPromote(p) \/ UnlinkDelayed(p)
         \/ \E d \in Dirs, j \in Jobs : CleanUp(d, j)
         \/ EndRecover \/ UnlinkRecovered
BY DEF Next, PollStep, RunStep, RecoveryStep, vars, AddFails, Tick,
   SkipDelayed, AbortPoll, PromoteFails, CountSlots, PickJobs, EndPoll,
   ReadNothing, ReadWaiting, ActiveFails, ProcessorReturns, ProcessorThrows,
   DropJob, OutFails, Crash, SkipActive, RecoverFails, StartPolling, fileVars, pollVars,
   runVars, bootVars, histVars

LEMMA AddingWriters ==
  ASSUME [Next]_vars, adding' # adding
  PROVE  \/ \E j \in Jobs : BeginAdd(j) \/ EndAdd(j) \/ AddFails(j)
         \/ Crash
BY DEF Next, PollStep, RunStep, RecoveryStep, vars, Tick, SkipDelayed,
   AbortPoll, BeginPromote, EndPromote, PromoteFails, UnlinkDelayed,
   CountSlots, PickJobs, EndPoll, ReadNothing, ReadWaiting, BeginActive,
   EndActive, ActiveFails, UnlinkWaiting, ProcessorReturns, ProcessorThrows,
   DropJob, BeginOut, EndOut, OutFails, UnlinkActive, CleanUp, SkipActive,
   BeginRecover, EndRecover, UnlinkRecovered, RecoverFails, StartPolling, fileVars,
   pollVars, runVars, bootVars, histVars

LEMMA AcceptedWriters ==
  ASSUME [Next]_vars, accepted' # accepted
  PROVE  \E j \in Jobs : EndAdd(j)
BY DEF Next, PollStep, RunStep, RecoveryStep, vars, BeginAdd, AddFails,
   Tick, SkipDelayed, AbortPoll, BeginPromote, EndPromote, PromoteFails,
   UnlinkDelayed, CountSlots, PickJobs, EndPoll, ReadNothing, ReadWaiting,
   BeginActive, EndActive, ActiveFails, UnlinkWaiting, ProcessorReturns,
   ProcessorThrows, DropJob, BeginOut, EndOut, OutFails, UnlinkActive,
   CleanUp, Crash, SkipActive, BeginRecover, EndRecover, UnlinkRecovered,
   RecoverFails, StartPolling, fileVars, pollVars, runVars, bootVars, histVars

LEMMA ScanWriters ==
  ASSUME [Next]_vars, scan' # scan
  PROVE  \/ \E p \in Polls : Tick(p) \/ EndPromote(p) \/ PromoteFails(p) \/
            UnlinkDelayed(p) \/ CountSlots(p) \/ PickJobs(p) \/
            EndPoll(p)
         \/ \E p \in Polls, j \in Jobs : AbortPoll(p, j) \/ BeginPromote(p,
            j)
         \/ Crash
BY DEF Next, PollStep, RunStep, RecoveryStep, vars, BeginAdd, EndAdd,
   AddFails, SkipDelayed, ReadNothing, ReadWaiting, BeginActive, EndActive,
   ActiveFails, UnlinkWaiting, ProcessorReturns, ProcessorThrows, DropJob,
   BeginOut, EndOut, OutFails, UnlinkActive, CleanUp, SkipActive,
   BeginRecover, EndRecover, UnlinkRecovered, RecoverFails, StartPolling, fileVars,
   pollVars, runVars, bootVars, histVars

LEMMA ListWriters ==
  ASSUME [Next]_vars, list' # list
  PROVE  \/ \E p \in Polls : Tick(p) \/ PromoteFails(p)
         \/ \E p \in Polls, j \in Jobs : SkipDelayed(p, j) \/ AbortPoll(p,
            j) \/ BeginPromote(p, j)
         \/ Crash
BY DEF Next, PollStep, RunStep, RecoveryStep, vars, BeginAdd, EndAdd,
   AddFails, EndPromote, UnlinkDelayed, CountSlots, PickJobs, EndPoll,
   ReadNothing, ReadWaiting, BeginActive, EndActive, ActiveFails,
   UnlinkWaiting, ProcessorReturns, ProcessorThrows, DropJob, BeginOut,
   EndOut, OutFails, UnlinkActive, CleanUp, SkipActive, BeginRecover,
   EndRecover, UnlinkRecovered, RecoverFails, StartPolling, fileVars, pollVars, runVars,
   bootVars, histVars

LEMMA MovingWriters ==
  ASSUME [Next]_vars, moving' # moving
  PROVE  \/ \E p \in Polls, j \in Jobs : BeginPromote(p, j)
         \/ \E p \in Polls : PromoteFails(p) \/ UnlinkDelayed(p)
         \/ Crash
BY DEF Next, PollStep, RunStep, RecoveryStep, vars, BeginAdd, EndAdd,
   AddFails, Tick, SkipDelayed, AbortPoll, EndPromote, CountSlots, PickJobs,
   EndPoll, ReadNothing, ReadWaiting, BeginActive, EndActive, ActiveFails,
   UnlinkWaiting, ProcessorReturns, ProcessorThrows, DropJob, BeginOut,
   EndOut, OutFails, UnlinkActive, CleanUp, SkipActive, BeginRecover,
   EndRecover, UnlinkRecovered, RecoverFails, StartPolling, fileVars, pollVars, runVars,
   bootVars, histVars

LEMMA SlotsWriters ==
  ASSUME [Next]_vars, slots' # slots
  PROVE  \/ \E p \in Polls : CountSlots(p) \/ PickJobs(p)
         \/ Crash
BY DEF Next, PollStep, RunStep, RecoveryStep, vars, BeginAdd, EndAdd,
   AddFails, Tick, SkipDelayed, AbortPoll, BeginPromote, EndPromote,
   PromoteFails, UnlinkDelayed, EndPoll, ReadNothing, ReadWaiting,
   BeginActive, EndActive, ActiveFails, UnlinkWaiting, ProcessorReturns,
   ProcessorThrows, DropJob, BeginOut, EndOut, OutFails, UnlinkActive,
   CleanUp, SkipActive, BeginRecover, EndRecover, UnlinkRecovered,
   RecoverFails, StartPolling, fileVars, pollVars, runVars, bootVars, histVars

LEMMA RunWriters ==
  ASSUME [Next]_vars, run' # run
  PROVE  \/ \E p \in Polls : PickJobs(p)
         \/ \E p \in Polls, j \in Jobs : ReadNothing(p, j) \/ ReadWaiting(p,
            j) \/ BeginActive(p, j) \/ EndActive(p, j) \/
            ActiveFails(p, j) \/ UnlinkWaiting(p, j) \/
            ProcessorReturns(p, j) \/ ProcessorThrows(p, j) \/
            DropJob(p, j) \/ BeginOut(p, j) \/ EndOut(p, j) \/
            OutFails(p, j) \/ UnlinkActive(p, j)
         \/ Crash
BY DEF Next, PollStep, RunStep, RecoveryStep, vars, BeginAdd, EndAdd,
   AddFails, Tick, SkipDelayed, AbortPoll, BeginPromote, EndPromote,
   PromoteFails, UnlinkDelayed, CountSlots, EndPoll, CleanUp, SkipActive,
   BeginRecover, EndRecover, UnlinkRecovered, RecoverFails, StartPolling, fileVars,
   pollVars, runVars, bootVars, histVars

LEMMA MemWriters ==
  ASSUME [Next]_vars, mem' # mem
  PROVE  \E p \in Polls, j \in Jobs : ReadWaiting(p, j)
BY DEF Next, PollStep, RunStep, RecoveryStep, vars, BeginAdd, EndAdd,
   AddFails, Tick, SkipDelayed, AbortPoll, BeginPromote, EndPromote,
   PromoteFails, UnlinkDelayed, CountSlots, PickJobs, EndPoll, ReadNothing,
   BeginActive, EndActive, ActiveFails, UnlinkWaiting, ProcessorReturns,
   ProcessorThrows, DropJob, BeginOut, EndOut, OutFails, UnlinkActive,
   CleanUp, Crash, SkipActive, BeginRecover, EndRecover, UnlinkRecovered,
   RecoverFails, StartPolling, fileVars, pollVars, runVars, bootVars, histVars

LEMMA DestWriters ==
  ASSUME [Next]_vars, dest' # dest
  PROVE  \E p \in Polls, j \in Jobs : ProcessorReturns(p, j) \/
            ProcessorThrows(p, j) \/ OutFails(p, j)
BY DEF Next, PollStep, RunStep, RecoveryStep, vars, BeginAdd, EndAdd,
   AddFails, Tick, SkipDelayed, AbortPoll, BeginPromote, EndPromote,
   PromoteFails, UnlinkDelayed, CountSlots, PickJobs, EndPoll, ReadNothing,
   ReadWaiting, BeginActive, EndActive, ActiveFails, UnlinkWaiting, DropJob,
   BeginOut, EndOut, UnlinkActive, CleanUp, Crash, SkipActive, BeginRecover,
   EndRecover, UnlinkRecovered, RecoverFails, StartPolling, fileVars, pollVars, runVars,
   bootVars, histVars

LEMMA ActiveWriters ==
  ASSUME [Next]_vars, active' # active
  PROVE  \/ \E p \in Polls, j \in Jobs : ReadWaiting(p, j) \/ OutFails(p, j)
            \/ UnlinkActive(p, j)
         \/ Crash
BY DEF Next, PollStep, RunStep, RecoveryStep, vars, BeginAdd, EndAdd,
   AddFails, Tick, SkipDelayed, AbortPoll, BeginPromote, EndPromote,
   PromoteFails, UnlinkDelayed, CountSlots, PickJobs, EndPoll, ReadNothing,
   BeginActive, EndActive, ActiveFails, UnlinkWaiting, ProcessorReturns,
   ProcessorThrows, DropJob, BeginOut, EndOut, CleanUp, SkipActive,
   BeginRecover, EndRecover, UnlinkRecovered, RecoverFails, StartPolling, fileVars,
   pollVars, runVars, bootVars, histVars

LEMMA BootWriters ==
  ASSUME [Next]_vars, boot' # boot
  PROVE  \/ Crash \/ RecoverFails \/ EndRecover \/ UnlinkRecovered \/ StartPolling
         \/ \E j \in Jobs : BeginRecover(j)
BY DEF Next, PollStep, RunStep, RecoveryStep, vars, BeginAdd, EndAdd,
   AddFails, Tick, SkipDelayed, AbortPoll, BeginPromote, EndPromote,
   PromoteFails, UnlinkDelayed, CountSlots, PickJobs, EndPoll, ReadNothing,
   ReadWaiting, BeginActive, EndActive, ActiveFails, UnlinkWaiting,
   ProcessorReturns, ProcessorThrows, DropJob, BeginOut, EndOut, OutFails,
   UnlinkActive, CleanUp, SkipActive, fileVars, pollVars, runVars, bootVars,
   histVars

LEMMA TodoWriters ==
  ASSUME [Next]_vars, todo' # todo
  PROVE  \/ Crash \/ RecoverFails
         \/ \E j \in Jobs : SkipActive(j) \/ BeginRecover(j)
BY DEF Next, PollStep, RunStep, RecoveryStep, vars, BeginAdd, EndAdd,
   AddFails, Tick, SkipDelayed, AbortPoll, BeginPromote, EndPromote,
   PromoteFails, UnlinkDelayed, CountSlots, PickJobs, EndPoll, ReadNothing,
   ReadWaiting, BeginActive, EndActive, ActiveFails, UnlinkWaiting,
   ProcessorReturns, ProcessorThrows, DropJob, BeginOut, EndOut, OutFails,
   UnlinkActive, CleanUp, EndRecover, UnlinkRecovered, StartPolling,
   fileVars, pollVars, runVars, bootVars, histVars

LEMMA SavedWriters ==
  ASSUME [Next]_vars, saved' # saved
  PROVE  \/ Crash \/ RecoverFails \/ UnlinkRecovered
         \/ \E j \in Jobs : BeginRecover(j)
BY DEF Next, PollStep, RunStep, RecoveryStep, vars, BeginAdd, EndAdd,
   AddFails, Tick, SkipDelayed, AbortPoll, BeginPromote, EndPromote,
   PromoteFails, UnlinkDelayed, CountSlots, PickJobs, EndPoll, ReadNothing,
   ReadWaiting, BeginActive, EndActive, ActiveFails, UnlinkWaiting,
   ProcessorReturns, ProcessorThrows, DropJob, BeginOut, EndOut, OutFails,
   UnlinkActive, CleanUp, SkipActive, EndRecover, StartPolling, fileVars,
   pollVars, runVars, bootVars, histVars

LEMMA OkWriters ==
  ASSUME [Next]_vars, ok' # ok
  PROVE  \E p \in Polls, j \in Jobs : ProcessorReturns(p, j)
BY DEF Next, PollStep, RunStep, RecoveryStep, vars, BeginAdd, EndAdd,
   AddFails, Tick, SkipDelayed, AbortPoll, BeginPromote, EndPromote,
   PromoteFails, UnlinkDelayed, CountSlots, PickJobs, EndPoll, ReadNothing,
   ReadWaiting, BeginActive, EndActive, ActiveFails, UnlinkWaiting,
   ProcessorThrows, DropJob, BeginOut, EndOut, OutFails, UnlinkActive,
   CleanUp, Crash, SkipActive, BeginRecover, EndRecover, UnlinkRecovered,
   RecoverFails, StartPolling, fileVars, pollVars, runVars, bootVars, histVars

LEMMA ErrsWriters ==
  ASSUME [Next]_vars, errs' # errs
  PROVE  \E p \in Polls, j \in Jobs : ProcessorThrows(p, j)
BY DEF Next, PollStep, RunStep, RecoveryStep, vars, BeginAdd, EndAdd,
   AddFails, Tick, SkipDelayed, AbortPoll, BeginPromote, EndPromote,
   PromoteFails, UnlinkDelayed, CountSlots, PickJobs, EndPoll, ReadNothing,
   ReadWaiting, BeginActive, EndActive, ActiveFails, UnlinkWaiting,
   ProcessorReturns, DropJob, BeginOut, EndOut, OutFails, UnlinkActive,
   CleanUp, Crash, SkipActive, BeginRecover, EndRecover, UnlinkRecovered,
   RecoverFails, StartPolling, fileVars, pollVars, runVars, bootVars, histVars

LEMMA CrashesWriters ==
  ASSUME [Next]_vars, crashes' # crashes
  PROVE  Crash
BY DEF Next, PollStep, RunStep, RecoveryStep, vars, BeginAdd, EndAdd,
   AddFails, Tick, SkipDelayed, AbortPoll, BeginPromote, EndPromote,
   PromoteFails, UnlinkDelayed, CountSlots, PickJobs, EndPoll, ReadNothing,
   ReadWaiting, BeginActive, EndActive, ActiveFails, UnlinkWaiting,
   ProcessorReturns, ProcessorThrows, DropJob, BeginOut, EndOut, OutFails,
   UnlinkActive, CleanUp, SkipActive, BeginRecover, EndRecover,
   UnlinkRecovered, RecoverFails, StartPolling, fileVars, pollVars, runVars, bootVars,
   histVars

LEMMA IoErrorsWriters ==
  ASSUME [Next]_vars, ioErrors' # ioErrors
  PROVE  \/ \E j \in Jobs : AddFails(j)
         \/ \E p \in Polls : PromoteFails(p)
         \/ \E p \in Polls, j \in Jobs : ActiveFails(p, j) \/ OutFails(p, j)
         \/ RecoverFails
BY DEF Next, PollStep, RunStep, RecoveryStep, vars, BeginAdd, EndAdd, Tick,
   SkipDelayed, AbortPoll, BeginPromote, EndPromote, UnlinkDelayed,
   CountSlots, PickJobs, EndPoll, ReadNothing, ReadWaiting, BeginActive,
   EndActive, UnlinkWaiting, ProcessorReturns, ProcessorThrows, DropJob,
   BeginOut, EndOut, UnlinkActive, CleanUp, Crash, SkipActive, BeginRecover,
   EndRecover, UnlinkRecovered, StartPolling, fileVars, pollVars, runVars,
   bootVars, histVars

-----------------------------------------------------------------------------
(* Type correctness and bounds.                                             *)

LEMMA TypeKept ==
  ASSUME TypeOK, Bounds, [Next]_vars
  PROVE  TypeOK'
<1> USE LocalQueueAssumption
<1>1. file' \in Files
  BY Types, FileWriters, BeginAddDoes, EndAddDoes, BeginPromoteDoes,
     EndPromoteDoes, UnlinkDelayedDoes, BeginActiveDoes, EndActiveDoes,
     UnlinkWaitingDoes, BeginOutDoes, EndOutDoes, UnlinkActiveDoes,
     CleanUpDoes, BeginRecoverDoes, EndRecoverDoes, UnlinkRecoveredDoes
<1>2. adding' \subseteq Jobs
  BY AddingWriters DEF BeginAdd, EndAdd, AddFails, Crash, TypeOK
<1>3. accepted' \subseteq Jobs
  BY AcceptedWriters DEF EndAdd, TypeOK
<1>4. scan' \in Scans
  BY Types, ScanWriters, TickDoes, AbortPollDoes, BeginPromoteDoes,
     EndPromoteDoes, PromoteFailsDoes, UnlinkDelayedDoes, CountSlotsDoes,
     PickJobsDoes, EndPollDoes DEF Crash, Scans
<1>5. list' \in Lists
  BY Types, ListWriters, TickDoes, SkipDelayedDoes, AbortPollDoes,
     BeginPromoteDoes, PromoteFailsDoes DEF Crash, Lists
<1>6. moving' \in Moves
  BY Types, MovingWriters, BeginPromoteDoes, PromoteFailsDoes,
     UnlinkDelayedDoes DEF Crash, Moves
<1>7. slots' \in Slots
  BY Types, SlotsWriters, CountSlotsDoes, PickJobsDoes DEF Crash, Slots
<1>8. run' \in Runs
  BY Types, RunWriters, PickJobsDoes, ReadNothingDoes, ReadWaitingDoes,
     BeginActiveDoes, EndActiveDoes, ActiveFailsDoes, UnlinkWaitingDoes,
     ProcessorReturnsDoes, ProcessorThrowsDoes, DropJobDoes, BeginOutDoes,
     EndOutDoes, OutFailsDoes, UnlinkActiveDoes DEF Crash, Runs, RunSteps
<1>9. mem' \in Mems
  BY Types, MemWriters, ReadWaitingDoes DEF Mems
<1>10. dest' \in Dests
  BY Types, DestWriters, ProcessorReturnsDoes, ProcessorThrowsDoes,
     OutFailsDoes DEF Dests
<1>11. active' \in Nat
  BY Types, ActiveWriters DEF ReadWaiting, OutFails, UnlinkActive, Crash,
     Uncount
<1>12. boot' \in {"up", "recovering", "writeWaiting", "unlinkActive"}
  BY BootWriters DEF Crash, RecoverFails, BeginRecover, EndRecover, UnlinkRecovered,
     StartPolling, TypeOK
<1>13. todo' \subseteq Jobs
  BY TodoWriters DEF Crash, RecoverFails, SkipActive, BeginRecover, Listed, TypeOK
<1>14. saved' = NoMove \/ saved' \in Jobs \X Count
  BY Types, BeginRecoverDoes, SavedWriters DEF Crash, RecoverFails, UnlinkRecovered
<1>15. ok' \subseteq Jobs
  BY OkWriters DEF ProcessorReturns, TypeOK
<1>16. errs' \in Errs
  BY Types, ErrsWriters, ProcessorThrowsDoes DEF Errs
<1>17. crashes' \in 0..MaxCrashes
  BY CrashesWriters DEF Crash, TypeOK
<1>18. ioErrors' \in 0..MaxIOErrors
  BY IoErrorsWriters DEF AddFails, PromoteFails, ActiveFails, OutFails,
     RecoverFails, TypeOK
<1>19. QED
  BY <1>1, <1>2, <1>3, <1>4, <1>5, <1>6, <1>7, <1>8, <1>9, <1>10, <1>11,
     <1>12, <1>13, <1>14, <1>15, <1>16, <1>17, <1>18 DEF TypeOK, Files,
     Content, Count, Scans, Lists, Moves, Slots, Runs, RunSteps, Mems, Dests,
     Errs

LEMMA AttemptLeftKept ==
  ASSUME TypeOK, Bounds, [Next]_vars
  PROVE  AttemptLeft'
<1> MaxAttempts \in Nat
  BY LocalQueueAssumption
<1> AttemptLeft /\ MovesLeft /\ MovesKnown /\ WayOut
  BY DEF Bounds
<1>1. CASE UNCHANGED file
  BY <1>1 DEF AttemptLeft
<1>2. CASE \E j \in Jobs : BeginAdd(j)
  BY <1>2, BeginAddDoes DEF BeginAdd, FileSet, Dirs, Torn, Absent,
     AttemptLeft
<1>3. CASE \E j \in Jobs : EndAdd(j)
  BY <1>3, EndAddDoes DEF EndAdd, FileSet, Dirs, Torn, Absent, AttemptLeft
<1>4. CASE \E p \in Polls, j \in Jobs : BeginPromote(p, j)
  <2>1. PICK p \in Polls, j \in Jobs : FileSet("waiting", j, Torn)
    BY <1>4, BeginPromoteDoes
  <2>2. QED
    BY <2>1 DEF FileSet, AttemptLeft, Dirs, Torn
<1>5. CASE \E p \in Polls : EndPromote(p)
  <2>1. PICK p \in Polls : /\ moving[p] # NoMove /\ moving[p] \in Jobs \X Count
                          /\ FileSet("waiting", moving[p][1], moving[p][2])
    BY <1>5, EndPromoteDoes DEF EndPromote, MovesKnown
  <2>2. moving[p][2] <= MaxAttempts
    BY <2>1 DEF MovesLeft
  <2>3. QED
    BY <2>1, <2>2 DEF FileSet, AttemptLeft, Dirs
<1>6. CASE \E p \in Polls : UnlinkDelayed(p)
  <2>1. PICK p \in Polls : FileSet("delayed", moving[p][1], Absent)
    BY <1>6, UnlinkDelayedDoes
  <2>2. QED
    BY <2>1 DEF FileSet, AttemptLeft, Dirs, Absent
<1>7. CASE \E p \in Polls, j \in Jobs : BeginActive(p, j)
  BY <1>7, BeginActiveDoes DEF BeginActive, FileSet, Dirs, Torn, Absent,
     AttemptLeft
<1>8. CASE \E p \in Polls, j \in Jobs : EndActive(p, j)
  BY <1>8, EndActiveDoes DEF EndActive, FileSet, Dirs, Torn, Absent,
     AttemptLeft
<1>9. CASE \E p \in Polls, j \in Jobs : UnlinkWaiting(p, j)
  BY <1>9, UnlinkWaitingDoes DEF UnlinkWaiting, FileSet, Dirs, Torn, Absent,
     AttemptLeft
<1>10. CASE \E p \in Polls, j \in Jobs : BeginOut(p, j)
  BY <1>10, BeginOutDoes DEF BeginOut, FileSet, Dirs, Torn, Absent,
     AttemptLeft
<1>11. CASE \E p \in Polls, j \in Jobs : EndOut(p, j)
  BY <1>11, EndOutDoes DEF EndOut, WayOut, Leaving, FileSet, Dirs, Torn,
     Absent, AttemptLeft
<1>12. CASE \E p \in Polls, j \in Jobs : UnlinkActive(p, j)
  BY <1>12, UnlinkActiveDoes DEF UnlinkActive, FileSet, Dirs, Torn, Absent,
     AttemptLeft
<1>13. CASE \E d \in Dirs, j \in Jobs : CleanUp(d, j)
  BY <1>13, CleanUpDoes DEF CleanUp, FileSet, Dirs, Torn, Absent, AttemptLeft
<1>14. CASE \E j \in Jobs : BeginRecover(j)
  BY <1>14, BeginRecoverDoes DEF BeginRecover, FileSet, Dirs, Torn, Absent,
     AttemptLeft
<1>15. CASE EndRecover
  <2>1. /\ saved # NoMove /\ saved \in Jobs \X Count
        /\ FileSet("waiting", saved[1], saved[2])
    BY <1>15, EndRecoverDoes DEF EndRecover, MovesKnown
  <2>2. saved[2] <= MaxAttempts
    BY <2>1 DEF MovesLeft
  <2>3. QED
    BY <2>1, <2>2 DEF FileSet, AttemptLeft, Dirs
<1>16. CASE UnlinkRecovered
  BY <1>16, UnlinkRecoveredDoes DEF UnlinkRecovered, FileSet, Dirs, Torn,
     Absent, AttemptLeft
<1>17. QED
  BY <1>1, <1>2, <1>3, <1>4, <1>5, <1>6, <1>7, <1>8, <1>9, <1>10, <1>11,
     <1>12, <1>13, <1>14, <1>15, <1>16, FileWriters

LEMMA MovesLeftKept ==
  ASSUME TypeOK, Bounds, [Next]_vars
  PROVE  MovesLeft'
<1> MaxAttempts \in Nat
  BY LocalQueueAssumption
<1> AttemptLeft /\ MovesLeft /\ MovesKnown /\ WayOut
  BY DEF Bounds
<1>1. CASE UNCHANGED <<moving, saved>>
  BY <1>1 DEF MovesLeft
<1>2. CASE \E p \in Polls, j \in Jobs : BeginPromote(p, j)
  BY <1>2, BeginPromoteDoes DEF BeginPromote, Becomes, AttemptLeft,
     MovesLeft, bootVars
<1>3. CASE \E p \in Polls : PromoteFails(p)
  BY <1>3, PromoteFailsDoes DEF PromoteFails, Becomes, AttemptLeft,
     MovesLeft, bootVars
<1>4. CASE \E p \in Polls : UnlinkDelayed(p)
  BY <1>4, UnlinkDelayedDoes DEF UnlinkDelayed, Becomes, AttemptLeft,
     MovesLeft, bootVars
<1>5. CASE Crash
  BY <1>5 DEF Crash, Becomes, AttemptLeft, MovesLeft
<1>6. CASE \E j \in Jobs : BeginRecover(j)
  BY <1>6, BeginRecoverDoes, BeginRecoverDoes DEF BeginRecover, Becomes,
     AttemptLeft, MovesLeft, pollVars
<1>7. CASE UnlinkRecovered
  BY <1>7, UnlinkRecoveredDoes DEF UnlinkRecovered, Becomes, AttemptLeft,
     MovesLeft, pollVars
<1>r. CASE RecoverFails
  BY <1>r DEF RecoverFails, MovesLeft, pollVars
<1>8. QED
  BY <1>r, <1>1, <1>2, <1>3, <1>4, <1>5, <1>6, <1>7, MovingWriters, SavedWriters

LEMMA MovesKnownKept ==
  ASSUME TypeOK, Bounds, [Next]_vars
  PROVE  MovesKnown'
<1> AttemptLeft /\ MovesLeft /\ MovesKnown /\ WayOut
  BY DEF Bounds
<1>1. CASE UNCHANGED <<scan, moving, boot, saved>>
  BY <1>1 DEF Becomes, MovesKnown
<1>2. CASE \E p \in Polls : Tick(p)
  BY <1>2, TickDoes DEF Tick, Becomes, MovesKnown, pollVars, bootVars
<1>3. CASE \E p \in Polls, j \in Jobs : AbortPoll(p, j)
  BY <1>3, AbortPollDoes DEF AbortPoll, Becomes, MovesKnown, pollVars,
     bootVars
<1>4. CASE \E p \in Polls, j \in Jobs : BeginPromote(p, j)
  BY <1>4, BeginPromoteDoes DEF BeginPromote, Becomes, MovesKnown, bootVars
<1>5. CASE \E p \in Polls : EndPromote(p)
  BY <1>5, EndPromoteDoes DEF EndPromote, Becomes, MovesKnown, pollVars,
     bootVars
<1>6. CASE \E p \in Polls : PromoteFails(p)
  BY <1>6, PromoteFailsDoes DEF PromoteFails, Becomes, MovesKnown, bootVars
<1>7. CASE \E p \in Polls : UnlinkDelayed(p)
  BY <1>7, UnlinkDelayedDoes DEF UnlinkDelayed, Becomes, MovesKnown, bootVars
<1>8. CASE \E p \in Polls : CountSlots(p)
  BY <1>8, CountSlotsDoes, Types, LocalQueueAssumption DEF CountSlots,
     Becomes, MovesKnown, pollVars, bootVars
<1>9. CASE \E p \in Polls : PickJobs(p)
  <2>1. PICK p \in Polls :
           /\ Becomes(scan, scan', p, "running")
           /\ scan[p] = "counted"
           /\ UNCHANGED <<moving, boot, saved>>
    BY <1>9, PickJobsDoes DEF PickJobs, pollVars, bootVars
  <2>2. QED
    BY <2>1 DEF Becomes, MovesKnown
<1>10. CASE \E p \in Polls : EndPoll(p)
  BY <1>10, EndPollDoes DEF EndPoll, Becomes, MovesKnown, pollVars, bootVars
<1>11. CASE Crash
  BY <1>11 DEF Crash, Becomes, MovesKnown
<1>12. CASE \E j \in Jobs : BeginRecover(j)
  BY <1>12, BeginRecoverDoes DEF BeginRecover, Becomes, MovesKnown, pollVars
<1>13. CASE EndRecover
  BY <1>13, EndRecoverDoes DEF EndRecover, Becomes, MovesKnown, pollVars,
     bootVars
<1>14. CASE UnlinkRecovered
  BY <1>14, UnlinkRecoveredDoes DEF UnlinkRecovered, Becomes, MovesKnown,
     pollVars
<1>15. CASE StartPolling
  BY <1>15 DEF StartPolling, Becomes, MovesKnown, pollVars, bootVars
<1>r. CASE RecoverFails
  BY <1>r DEF RecoverFails, MovesKnown, pollVars
<1>16. QED
  BY <1>r, <1>1, <1>2, <1>3, <1>4, <1>5, <1>6, <1>7, <1>8, <1>9, <1>10, <1>11,
     <1>12, <1>13, <1>14, <1>15, ScanWriters, MovingWriters, BootWriters,
     SavedWriters

LEMMA WayOutKept ==
  ASSUME TypeOK, Bounds, [Next]_vars
  PROVE  WayOut'
<1> MaxAttempts \in Nat
  BY LocalQueueAssumption
<1> AttemptLeft /\ MovesLeft /\ MovesKnown /\ WayOut
  BY DEF Bounds
<1>1. CASE UNCHANGED <<run, mem, dest>>
  BY <1>1 DEF RunSet, Becomes2, WayOut, Leaving
<1>2. CASE \E p \in Polls : PickJobs(p)
  <2>1. PICK p \in Polls :
           /\ \A q \in Polls, j \in Jobs : q # p => run'[q][j] = run[q][j]
           /\ \A j \in Jobs :
                run'[p][j] = IF j \in FirstOf(Listed("waiting"), slots[p])
                             THEN "listed" ELSE "none"
           /\ scan[p] = "counted"
           /\ UNCHANGED <<mem, dest>>
    BY <1>2, PickJobsDoes DEF PickJobs, runVars
  <2>2. QED
    BY <2>1 DEF RunSet, Becomes2, WayOut, Leaving
<1>3. CASE \E p \in Polls, j \in Jobs : ReadNothing(p, j)
  BY <1>3, ReadNothingDoes DEF ReadNothing, RunSet, Becomes2, WayOut,
     Leaving, runVars
<1>4. CASE \E p \in Polls, j \in Jobs : ReadWaiting(p, j)
  <2>1. PICK p \in Polls, j \in Jobs :
               RunSet(p, j, "read") /\ UNCHANGED dest
               /\ Becomes2(mem, mem', p, j, file["waiting"][j] + 1)
    BY <1>4, ReadWaitingDoes DEF ReadWaiting
  <2>2. QED
    BY <2>1 DEF RunSet, Becomes2, WayOut, Leaving
<1>5. CASE \E p \in Polls, j \in Jobs : BeginActive(p, j)
  BY <1>5, BeginActiveDoes DEF BeginActive, RunSet, Becomes2, WayOut,
     Leaving, runVars
<1>6. CASE \E p \in Polls, j \in Jobs : EndActive(p, j)
  BY <1>6, EndActiveDoes DEF EndActive, RunSet, Becomes2, WayOut, Leaving,
     runVars
<1>7. CASE \E p \in Polls, j \in Jobs : ActiveFails(p, j)
  BY <1>7, ActiveFailsDoes DEF ActiveFails, RunSet, Becomes2, WayOut,
     Leaving, runVars
<1>8. CASE \E p \in Polls, j \in Jobs : UnlinkWaiting(p, j)
  BY <1>8, UnlinkWaitingDoes DEF UnlinkWaiting, RunSet, Becomes2, WayOut,
     Leaving, runVars
<1>9. CASE \E p \in Polls, j \in Jobs : ProcessorReturns(p, j)
  BY <1>9, ProcessorReturnsDoes DEF ProcessorReturns, RunSet, Becomes2,
     WayOut, Leaving, runVars
<1>10. CASE \E p \in Polls, j \in Jobs : ProcessorThrows(p, j)
  <2>1. PICK p \in Polls, j \in Jobs :
               RunSet(p, j, "decided") /\ UNCHANGED mem
               /\ Becomes2(dest, dest', p, j, RetryDir(mem[p][j]))
    BY <1>10, ProcessorThrowsDoes DEF ProcessorThrows
  <2>2. mem[p][j] \in Nat
    BY Types DEF Mems, Count
  <2>3. QED
    BY <2>1, <2>2 DEF RunSet, Becomes2, WayOut, RetryDir
<1>11. CASE \E p \in Polls, j \in Jobs : DropJob(p, j)
  BY <1>11, DropJobDoes DEF DropJob, RunSet, Becomes2, WayOut, Leaving,
     runVars
<1>12. CASE \E p \in Polls, j \in Jobs : BeginOut(p, j)
  BY <1>12, BeginOutDoes DEF BeginOut, RunSet, Becomes2, WayOut, Leaving,
     runVars
<1>13. CASE \E p \in Polls, j \in Jobs : EndOut(p, j)
  BY <1>13, EndOutDoes DEF EndOut, RunSet, Becomes2, WayOut, Leaving, runVars
<1>14. CASE \E p \in Polls, j \in Jobs : OutFails(p, j)
  BY <1>14, OutFailsDoes, Types DEF OutFails, RetryDir, Mems, Count, RunSet,
     Becomes2, WayOut, Leaving, runVars
<1>15. CASE \E p \in Polls, j \in Jobs : UnlinkActive(p, j)
  BY <1>15, UnlinkActiveDoes DEF UnlinkActive, RunSet, Becomes2, WayOut,
     Leaving, runVars
<1>16. CASE Crash
  BY <1>16 DEF Crash, RunSet, Becomes2, WayOut, Leaving, runVars
<1>17. QED
  BY <1>1, <1>2, <1>3, <1>4, <1>5, <1>6, <1>7, <1>8, <1>9, <1>10, <1>11,
     <1>12, <1>13, <1>14, <1>15, <1>16, RunWriters, MemWriters, DestWriters

-----------------------------------------------------------------------------
(* Attempts are errors thrown.                                              *)

(* A job whose attempts are all errors the processor threw: once a write to *)
(* completed/ has failed, a job it returned for counts one more.            *)
Fair(j) == j \notin ok \/ ioErrors = 0

EarnedFiles ==
  \A j \in Jobs : Fair(j) =>
    /\ file["waiting"][j] <= errs[j] /\ file["delayed"][j] <= errs[j]
    /\ file["active"][j] <= errs[j] + 1
EarnedMoves ==
  /\ \A p \in Polls : moving[p] # NoMove /\ Fair(moving[p][1]) =>
       moving[p][2] <= errs[moving[p][1]]
  /\ saved # NoMove /\ Fair(saved[1]) => saved[2] <= errs[saved[1]]
EarnedRuns ==
  \A p \in Polls, j \in Jobs : Fair(j) /\ Holds(p, j) =>
    /\ mem[p][j] <= errs[j] + 1
    /\ run[p][j] \in Leaving /\ dest[p][j] # "completed" => mem[p][j] <= errs[j]
CompletedIsOk ==
  \A p \in Polls, j \in Jobs :
    run[p][j] \in Leaving /\ dest[p][j] = "completed" => j \in ok

Earned == EarnedFiles /\ EarnedMoves /\ EarnedRuns /\ CompletedIsOk

(* A job is fair until it is no longer, and errors are never taken back.    *)
LEMMA FairBefore ==
  ASSUME TypeOK, [Next]_vars, NEW j \in Jobs
  PROVE  /\ Fair(j)' => Fair(j)
         /\ ioErrors > 0 => ioErrors' > 0
         /\ errs[j] \in Count /\ errs'[j] \in Count /\ errs[j] <= errs'[j]
<1>1. j \in ok => j \in ok'
  BY OkWriters DEF ProcessorReturns
<1>2. ioErrors \in Nat /\ ioErrors' \in Nat /\ (ioErrors > 0 => ioErrors' > 0)
  <2>1. ioErrors \in Nat
    BY LocalQueueAssumption DEF TypeOK
  <2>2. QED
    BY <2>1, IoErrorsWriters DEF AddFails, PromoteFails, ActiveFails, OutFails,
       RecoverFails
<1>3. errs[j] \in Count /\ errs'[j] \in Count /\ errs[j] <= errs'[j]
  <2>1. errs \in Errs
    BY Types
  <2>2. CASE \E p \in Polls, i \in Jobs : ProcessorThrows(p, i)
    BY <2>1, <2>2, LocalQueueAssumption
       DEF ProcessorThrows, Errs, Count
  <2>3. CASE errs' = errs
    BY <2>1, <2>3 DEF Errs, Count
  <2>4. QED
    BY <2>2, <2>3, ErrsWriters
<1>4. QED
  BY <1>1, <1>2, <1>3 DEF Fair

LEMMA EarnedBase ==
  ASSUME TypeOK, Bounds
  PROVE  /\ \A d \in Dirs, j \in Jobs : file[d][j] \in Int
         /\ \A p \in Polls, j \in Jobs : mem[p][j] \in Nat /\ dest[p][j] \in Dirs
         /\ \A p \in Polls : moving[p] # NoMove =>
              moving[p][1] \in Jobs /\ moving[p][2] \in Nat
         /\ saved # NoMove => saved[1] \in Jobs /\ saved[2] \in Nat
         /\ MaxAttempts \in Nat /\ ioErrors \in Nat
<1> USE LocalQueueAssumption
<1>1. \A d \in Dirs, j \in Jobs : file[d][j] \in Int
  BY Types DEF Files, Content, Count, Absent, Torn
<1>2. \A p \in Polls, j \in Jobs : mem[p][j] \in Nat /\ dest[p][j] \in Dirs
  BY Types DEF Mems, Dests, Count
<1>3. \A p \in Polls : moving[p] # NoMove =>
        moving[p][1] \in Jobs /\ moving[p][2] \in Nat
  BY Types DEF Moves, Count
<1>4. saved # NoMove => saved[1] \in Jobs /\ saved[2] \in Nat
  BY Types DEF Count
<1>5. ioErrors \in Nat
  BY DEF TypeOK
<1>6. QED
  BY <1>1, <1>2, <1>3, <1>4, <1>5

LEMMA EarnedFilesKept ==
  ASSUME TypeOK, Bounds, Earned, [Next]_vars
  PROVE  EarnedFiles'
<1> EarnedFiles /\ EarnedMoves /\ EarnedRuns /\ CompletedIsOk
  BY DEF Earned
<1> MovesKnown /\ WayOut
  BY DEF Bounds
<1>a. \A j \in Jobs : /\ Fair(j)' => Fair(j)
                      /\ errs[j] \in Nat /\ errs'[j] \in Nat
                      /\ errs[j] <= errs'[j]
  BY FairBefore DEF Count
<1>1. CASE UNCHANGED file
  BY <1>1, <1>a, EarnedBase DEF EarnedFiles, Dirs
<1>2. CASE \E j \in Jobs : BeginAdd(j)
  BY <1>2, BeginAddDoes, <1>a, EarnedBase DEF BeginAdd, FileSet, Dirs, Torn,
     Absent, EarnedFiles
<1>3. CASE \E j \in Jobs : EndAdd(j)
  BY <1>3, EndAddDoes, <1>a, EarnedBase DEF EndAdd, FileSet, Dirs, Torn,
     Absent, EarnedFiles
<1>4. CASE \E p \in Polls, j \in Jobs : BeginPromote(p, j)
  <2>1. PICK p \in Polls, j \in Jobs :
           /\ FileSet("waiting", j, Torn)
    BY <1>4, BeginPromoteDoes DEF BeginPromote
  <2>2. QED
    BY <2>1, <1>a, EarnedBase DEF FileSet, Dirs, Torn, Absent, EarnedFiles
<1>5. CASE \E p \in Polls : EndPromote(p)
  <2>1. PICK p \in Polls :
           /\ FileSet("waiting", moving[p][1], moving[p][2])
           /\ moving[p] # NoMove
    BY <1>5, EndPromoteDoes DEF EndPromote, MovesKnown
  <2>2. Fair(moving[p][1]) => moving[p][2] <= errs[moving[p][1]]
    BY <2>1 DEF EarnedMoves
  <2>3. QED
    BY <2>1, <2>2, <1>a, EarnedBase DEF FileSet, Dirs, Torn, Absent,
       EarnedFiles
<1>6. CASE \E p \in Polls : UnlinkDelayed(p)
  <2>1. PICK p \in Polls :
           /\ FileSet("delayed", moving[p][1], Absent)
    BY <1>6, UnlinkDelayedDoes DEF UnlinkDelayed
  <2>2. QED
    BY <2>1, <1>a, EarnedBase DEF FileSet, Dirs, Torn, Absent, EarnedFiles
<1>7. CASE \E p \in Polls, j \in Jobs : BeginActive(p, j)
  BY <1>7, BeginActiveDoes, <1>a, EarnedBase DEF BeginActive, FileSet, Dirs,
     Torn, Absent, EarnedFiles
<1>8. CASE \E p \in Polls, j \in Jobs : EndActive(p, j)
  BY <1>8, EndActiveDoes, <1>a, EarnedBase DEF EndActive, EarnedRuns, Holds,
     FileSet, Dirs, Torn, Absent, EarnedFiles
<1>9. CASE \E p \in Polls, j \in Jobs : UnlinkWaiting(p, j)
  BY <1>9, UnlinkWaitingDoes, <1>a, EarnedBase DEF UnlinkWaiting, FileSet,
     Dirs, Torn, Absent, EarnedFiles
<1>10. CASE \E p \in Polls, j \in Jobs : BeginOut(p, j)
  BY <1>10, BeginOutDoes, <1>a, EarnedBase DEF BeginOut, FileSet, Dirs, Torn,
     Absent, EarnedFiles
<1>11. CASE \E p \in Polls, j \in Jobs : EndOut(p, j)
  BY <1>11, EndOutDoes, <1>a, EarnedBase DEF EndOut, EarnedRuns, Holds,
     WayOut, Leaving, FileSet, Dirs, Torn, Absent, EarnedFiles
<1>12. CASE \E p \in Polls, j \in Jobs : UnlinkActive(p, j)
  BY <1>12, UnlinkActiveDoes, <1>a, EarnedBase DEF UnlinkActive, FileSet,
     Dirs, Torn, Absent, EarnedFiles
<1>13. CASE \E d \in Dirs, j \in Jobs : CleanUp(d, j)
  BY <1>13, CleanUpDoes, <1>a, EarnedBase DEF CleanUp, FileSet, Dirs, Torn,
     Absent, EarnedFiles
<1>14. CASE \E j \in Jobs : BeginRecover(j)
  BY <1>14, BeginRecoverDoes, <1>a, EarnedBase DEF BeginRecover, FileSet,
     Dirs, Torn, Absent, EarnedFiles
<1>15. CASE EndRecover
  BY <1>15, EndRecoverDoes, <1>a, EarnedBase DEF EndRecover, EarnedMoves,
     MovesKnown, FileSet, Dirs, Torn, Absent, EarnedFiles
<1>16. CASE UnlinkRecovered
  BY <1>16, UnlinkRecoveredDoes, <1>a, EarnedBase DEF UnlinkRecovered,
     FileSet, Dirs, Torn, Absent, EarnedFiles
<1>17. QED
  BY <1>1, <1>2, <1>3, <1>4, <1>5, <1>6, <1>7, <1>8, <1>9, <1>10, <1>11,
     <1>12, <1>13, <1>14, <1>15, <1>16, FileWriters

LEMMA EarnedMovesKept ==
  ASSUME TypeOK, Bounds, Earned, [Next]_vars
  PROVE  EarnedMoves'
<1> EarnedFiles /\ EarnedMoves /\ EarnedRuns /\ CompletedIsOk
  BY DEF Earned
<1> MovesKnown /\ WayOut
  BY DEF Bounds
<1>a. \A j \in Jobs : /\ Fair(j)' => Fair(j)
                      /\ errs[j] \in Nat /\ errs'[j] \in Nat
                      /\ errs[j] <= errs'[j]
  BY FairBefore DEF Count
<1>1. CASE UNCHANGED <<moving, saved>>
  BY <1>1, <1>a, EarnedBase DEF Becomes, EarnedMoves
<1>2. CASE \E p \in Polls, j \in Jobs : BeginPromote(p, j)
  BY <1>2, BeginPromoteDoes, <1>a, EarnedBase DEF BeginPromote, EarnedFiles,
     Dirs, Becomes, EarnedMoves, bootVars
<1>3. CASE \E p \in Polls : PromoteFails(p)
  BY <1>3, PromoteFailsDoes, <1>a, EarnedBase DEF PromoteFails, Becomes,
     EarnedMoves, bootVars
<1>4. CASE \E p \in Polls : UnlinkDelayed(p)
  BY <1>4, UnlinkDelayedDoes, <1>a, EarnedBase DEF UnlinkDelayed, Becomes,
     EarnedMoves, bootVars
<1>5. CASE Crash
  BY <1>5, <1>a, EarnedBase DEF Crash, Becomes, EarnedMoves
<1>6. CASE \E j \in Jobs : BeginRecover(j)
  BY <1>6, BeginRecoverDoes, <1>a, EarnedBase DEF BeginRecover, EarnedFiles,
     Dirs, GiveBack, Becomes, EarnedMoves, pollVars
<1>7. CASE UnlinkRecovered
  BY <1>7, UnlinkRecoveredDoes, <1>a, EarnedBase DEF UnlinkRecovered,
     Becomes, EarnedMoves, pollVars
<1>r. CASE RecoverFails
  BY <1>r, <1>a, EarnedBase DEF RecoverFails, EarnedMoves, pollVars
<1>8. QED
  BY <1>r, <1>1, <1>2, <1>3, <1>4, <1>5, <1>6, <1>7, MovingWriters, SavedWriters

LEMMA EarnedRunsKept ==
  ASSUME TypeOK, Bounds, Earned, [Next]_vars
  PROVE  EarnedRuns'
<1> EarnedFiles /\ EarnedMoves /\ EarnedRuns /\ CompletedIsOk
  BY DEF Earned
<1> MovesKnown /\ WayOut
  BY DEF Bounds
<1>a. \A j \in Jobs : /\ Fair(j)' => Fair(j)
                      /\ errs[j] \in Nat /\ errs'[j] \in Nat
                      /\ errs[j] <= errs'[j]
  BY FairBefore DEF Count
<1>1. CASE UNCHANGED <<run, mem, dest>>
  BY <1>1, <1>a, EarnedBase DEF RunSet, Becomes2, EarnedRuns, Holds, Leaving
<1>2. CASE \E p \in Polls : PickJobs(p)
  <2>1. PICK p \in Polls :
           /\ \A q \in Polls, j \in Jobs : q # p => run'[q][j] = run[q][j]
           /\ \A j \in Jobs :
                run'[p][j] = IF j \in FirstOf(Listed("waiting"), slots[p])
                             THEN "listed" ELSE "none"
           /\ scan[p] = "counted"
           /\ UNCHANGED <<mem, dest>>
    BY <1>2, PickJobsDoes DEF PickJobs, runVars
  <2>2. QED
    BY <2>1, <1>a, EarnedBase DEF RunSet, Becomes2, EarnedRuns, Holds,
       Leaving
<1>3. CASE \E p \in Polls, j \in Jobs : ReadNothing(p, j)
  BY <1>3, ReadNothingDoes, <1>a, EarnedBase DEF ReadNothing, RunSet,
     Becomes2, EarnedRuns, Holds, Leaving, runVars
<1>4. CASE \E p \in Polls, j \in Jobs : ReadWaiting(p, j)
  <2>1. PICK p \in Polls, j \in Jobs :
           /\ run[p][j] = "listed"
           /\ RunSet(p, j, "read")
           /\ Becomes2(mem, mem', p, j, file["waiting"][j] + 1)
           /\ UNCHANGED dest
    BY <1>4, ReadWaitingDoes DEF ReadWaiting
  <2>2. /\ Fair(j) => file["waiting"][j] <= errs[j]
        /\ file["waiting"][j] \in Int
    BY <2>1, EarnedBase DEF EarnedFiles, Dirs
  <2>3. QED
    BY <2>1, <2>2, <1>a, EarnedBase DEF RunSet, Becomes2, EarnedRuns, Holds,
       Leaving
<1>5. CASE \E p \in Polls, j \in Jobs : BeginActive(p, j)
  BY <1>5, BeginActiveDoes, <1>a, EarnedBase DEF BeginActive, RunSet,
     Becomes2, EarnedRuns, Holds, Leaving, runVars
<1>6. CASE \E p \in Polls, j \in Jobs : EndActive(p, j)
  BY <1>6, EndActiveDoes, <1>a, EarnedBase DEF EndActive, RunSet, Becomes2,
     EarnedRuns, Holds, Leaving, runVars
<1>7. CASE \E p \in Polls, j \in Jobs : ActiveFails(p, j)
  BY <1>7, ActiveFailsDoes, <1>a, EarnedBase DEF ActiveFails, RunSet,
     Becomes2, EarnedRuns, Holds, Leaving, runVars
<1>8. CASE \E p \in Polls, j \in Jobs : UnlinkWaiting(p, j)
  BY <1>8, UnlinkWaitingDoes, <1>a, EarnedBase DEF UnlinkWaiting, RunSet,
     Becomes2, EarnedRuns, Holds, Leaving, runVars
<1>9. CASE \E p \in Polls, j \in Jobs : ProcessorReturns(p, j)
  BY <1>9, ProcessorReturnsDoes, <1>a, EarnedBase DEF ProcessorReturns,
     RunSet, Becomes2, EarnedRuns, Holds, Leaving, runVars
<1>10. CASE \E p \in Polls, j \in Jobs : ProcessorThrows(p, j)
  <2>1. PICK p \in Polls, j \in Jobs :
           /\ run[p][j] = "running"
           /\ RunSet(p, j, "decided")
           /\ Becomes2(dest, dest', p, j, RetryDir(mem[p][j]))
           /\ \A i \in Jobs : errs'[i] = IF i = j /\ errs[j] <= MaxAttempts
                                    THEN errs[j] + 1 ELSE errs[i]
           /\ UNCHANGED mem
    BY <1>10, ProcessorThrowsDoes DEF ProcessorThrows
  <2>2. Fair(j) => mem[p][j] <= errs[j] + 1 /\ mem[p][j] <= MaxAttempts + 1
    BY <2>1, EarnedBase, Types DEF EarnedRuns, Holds, Mems, Count
  <2>3. Fair(j)' => mem[p][j] <= errs'[j]
    BY <2>1, <2>2, <1>a, EarnedBase DEF Count
  <2>4. QED
    BY <2>1, <2>2, <2>3, <1>a, EarnedBase DEF RunSet, Becomes2, EarnedRuns,
       Holds, Leaving
<1>11. CASE \E p \in Polls, j \in Jobs : DropJob(p, j)
  BY <1>11, DropJobDoes, <1>a, EarnedBase DEF DropJob, RunSet, Becomes2,
     EarnedRuns, Holds, Leaving, runVars
<1>12. CASE \E p \in Polls, j \in Jobs : BeginOut(p, j)
  BY <1>12, BeginOutDoes, <1>a, EarnedBase DEF BeginOut, RunSet, Becomes2,
     EarnedRuns, Holds, Leaving, runVars
<1>13. CASE \E p \in Polls, j \in Jobs : EndOut(p, j)
  BY <1>13, EndOutDoes, <1>a, EarnedBase DEF EndOut, RunSet, Becomes2,
     EarnedRuns, Holds, Leaving, runVars
<1>14. CASE \E p \in Polls, j \in Jobs : OutFails(p, j)
  <2>1. PICK p \in Polls, j \in Jobs :
           /\ dest[p][j] = "completed" =>
                /\ RunSet(p, j, "decided")
                /\ Becomes2(dest, dest', p, j, RetryDir(mem[p][j]))
                /\ UNCHANGED active
           /\ dest[p][j] # "completed" =>
                RunSet(p, j, "none") /\ Uncount /\ UNCHANGED dest
           /\ run[p][j] \in {"decided", "writeOut"}
           /\ ioErrors' = ioErrors + 1
           /\ UNCHANGED <<mem, ok>>
    BY <1>14, OutFailsDoes DEF OutFails, histVars
  <2>2. dest[p][j] = "completed" => ~Fair(j)'
    BY <2>1, EarnedBase DEF Fair, CompletedIsOk, Leaving
  <2>3. QED
    BY <2>1, <2>2, <1>a, EarnedBase DEF Fair, RunSet, Becomes2, EarnedRuns,
       Holds, Leaving
<1>15. CASE \E p \in Polls, j \in Jobs : UnlinkActive(p, j)
  BY <1>15, UnlinkActiveDoes, <1>a, EarnedBase DEF UnlinkActive, RunSet,
     Becomes2, EarnedRuns, Holds, Leaving, runVars
<1>16. CASE Crash
  BY <1>16, <1>a, EarnedBase DEF Crash, RunSet, Becomes2, EarnedRuns, Holds,
     Leaving, runVars
<1>17. QED
  BY <1>1, <1>2, <1>3, <1>4, <1>5, <1>6, <1>7, <1>8, <1>9, <1>10, <1>11,
     <1>12, <1>13, <1>14, <1>15, <1>16, RunWriters, MemWriters, DestWriters

LEMMA CompletedIsOkKept ==
  ASSUME TypeOK, Bounds, Earned, [Next]_vars
  PROVE  CompletedIsOk'
<1> EarnedFiles /\ EarnedMoves /\ EarnedRuns /\ CompletedIsOk
  BY DEF Earned
<1> MovesKnown /\ WayOut
  BY DEF Bounds
<1>1. CASE UNCHANGED <<run, dest, ok>>
  BY <1>1 DEF RunSet, Becomes2, CompletedIsOk, Leaving
<1>2. CASE \E p \in Polls : PickJobs(p)
  <2>1. PICK p \in Polls :
           /\ \A q \in Polls, j \in Jobs : q # p => run'[q][j] = run[q][j]
           /\ \A j \in Jobs :
                run'[p][j] = IF j \in FirstOf(Listed("waiting"), slots[p])
                             THEN "listed" ELSE "none"
           /\ scan[p] = "counted"
           /\ UNCHANGED <<dest, ok>>
    BY <1>2, PickJobsDoes DEF PickJobs, runVars, histVars
  <2>2. QED
    BY <2>1 DEF RunSet, Becomes2, CompletedIsOk, Leaving
<1>3. CASE \E p \in Polls, j \in Jobs : ReadNothing(p, j)
  BY <1>3, ReadNothingDoes DEF ReadNothing, RunSet, Becomes2, CompletedIsOk,
     Leaving, runVars, histVars
<1>4. CASE \E p \in Polls, j \in Jobs : ReadWaiting(p, j)
  <2>1. PICK p \in Polls, j \in Jobs :
           /\ RunSet(p, j, "read")
           /\ UNCHANGED <<dest, ok>>
    BY <1>4, ReadWaitingDoes DEF ReadWaiting, histVars
  <2>2. QED
    BY <2>1 DEF RunSet, Becomes2, CompletedIsOk, Leaving
<1>5. CASE \E p \in Polls, j \in Jobs : BeginActive(p, j)
  BY <1>5, BeginActiveDoes DEF BeginActive, RunSet, Becomes2, CompletedIsOk,
     Leaving, runVars, histVars
<1>6. CASE \E p \in Polls, j \in Jobs : EndActive(p, j)
  BY <1>6, EndActiveDoes DEF EndActive, RunSet, Becomes2, CompletedIsOk,
     Leaving, runVars, histVars
<1>7. CASE \E p \in Polls, j \in Jobs : ActiveFails(p, j)
  BY <1>7, ActiveFailsDoes DEF ActiveFails, RunSet, Becomes2, CompletedIsOk,
     Leaving, runVars, histVars
<1>8. CASE \E p \in Polls, j \in Jobs : UnlinkWaiting(p, j)
  BY <1>8, UnlinkWaitingDoes DEF UnlinkWaiting, RunSet, Becomes2,
     CompletedIsOk, Leaving, runVars, histVars
<1>9. CASE \E p \in Polls, j \in Jobs : ProcessorReturns(p, j)
  BY <1>9, ProcessorReturnsDoes DEF ProcessorReturns, RunSet, Becomes2,
     CompletedIsOk, Leaving
<1>10. CASE \E p \in Polls, j \in Jobs : ProcessorThrows(p, j)
  <2>1. PICK p \in Polls, j \in Jobs :
           /\ RunSet(p, j, "decided")
           /\ Becomes2(dest, dest', p, j, RetryDir(mem[p][j]))
           /\ UNCHANGED ok
    BY <1>10, ProcessorThrowsDoes DEF ProcessorThrows
  <2>2. QED
    BY <2>1 DEF RunSet, Becomes2, CompletedIsOk, Leaving, RetryDir
<1>11. CASE \E p \in Polls, j \in Jobs : DropJob(p, j)
  BY <1>11, DropJobDoes DEF DropJob, RunSet, Becomes2, CompletedIsOk,
     Leaving, runVars, histVars
<1>12. CASE \E p \in Polls, j \in Jobs : BeginOut(p, j)
  BY <1>12, BeginOutDoes DEF BeginOut, RunSet, Becomes2, CompletedIsOk,
     Leaving, runVars, histVars
<1>13. CASE \E p \in Polls, j \in Jobs : EndOut(p, j)
  BY <1>13, EndOutDoes DEF EndOut, RunSet, Becomes2, CompletedIsOk, Leaving,
     runVars, histVars
<1>14. CASE \E p \in Polls, j \in Jobs : OutFails(p, j)
  BY <1>14, OutFailsDoes DEF OutFails, RetryDir, RunSet, Becomes2,
     CompletedIsOk, Leaving, histVars
<1>15. CASE \E p \in Polls, j \in Jobs : UnlinkActive(p, j)
  BY <1>15, UnlinkActiveDoes DEF UnlinkActive, RunSet, Becomes2,
     CompletedIsOk, Leaving, runVars, histVars
<1>16. CASE Crash
  BY <1>16 DEF Crash, RunSet, Becomes2, CompletedIsOk, Leaving, runVars,
     histVars
<1>17. QED
  BY <1>1, <1>2, <1>3, <1>4, <1>5, <1>6, <1>7, <1>8, <1>9, <1>10, <1>11,
     <1>12, <1>13, <1>14, <1>15, <1>16, RunWriters, DestWriters, OkWriters

LEMMA FailedAfterAttemptsKept ==
  ASSUME TypeOK, Bounds, Earned, FailedAfterAttempts, [Next]_vars
  PROVE  FailedAfterAttempts'
<1> EarnedFiles /\ EarnedMoves /\ EarnedRuns /\ CompletedIsOk
  BY DEF Earned
<1> MovesKnown /\ WayOut
  BY DEF Bounds
<1>a. \A j \in Jobs : /\ Fair(j)' => Fair(j)
                      /\ errs[j] \in Nat /\ errs'[j] \in Nat
                      /\ errs[j] <= errs'[j]
  BY FairBefore DEF Count
<1>b. \A j \in Jobs : errs[j] > MaxAttempts \/ ioErrors > 0 =>
                      errs'[j] > MaxAttempts \/ ioErrors' > 0
  BY <1>a, FairBefore, EarnedBase
<1>1. CASE UNCHANGED file
  BY <1>1, <1>b DEF FileSet, Dirs, FailedAfterAttempts
<1>2. CASE \E j \in Jobs : BeginAdd(j)
  BY <1>2, BeginAddDoes, <1>b DEF BeginAdd, FileSet, Dirs,
     FailedAfterAttempts
<1>3. CASE \E j \in Jobs : EndAdd(j)
  BY <1>3, EndAddDoes, <1>b DEF EndAdd, FileSet, Dirs, FailedAfterAttempts
<1>4. CASE \E p \in Polls, j \in Jobs : BeginPromote(p, j)
  <2>1. PICK p \in Polls, j \in Jobs :
           /\ FileSet("waiting", j, Torn)
    BY <1>4, BeginPromoteDoes DEF BeginPromote
  <2>2. QED
    BY <2>1, <1>b DEF FileSet, Dirs, FailedAfterAttempts
<1>5. CASE \E p \in Polls : EndPromote(p)
  <2>1. PICK p \in Polls :
           /\ moving[p] \in Jobs \X Count
           /\ FileSet("waiting", moving[p][1], moving[p][2])
    BY <1>5, EndPromoteDoes DEF EndPromote
  <2>2. QED
    BY <2>1, <1>b DEF FileSet, Dirs, FailedAfterAttempts
<1>6. CASE \E p \in Polls : UnlinkDelayed(p)
  <2>1. PICK p \in Polls :
           /\ moving[p] \in Jobs \X Count
           /\ FileSet("delayed", moving[p][1], Absent)
    BY <1>6, UnlinkDelayedDoes DEF UnlinkDelayed
  <2>2. QED
    BY <2>1, <1>b DEF FileSet, Dirs, FailedAfterAttempts
<1>7. CASE \E p \in Polls, j \in Jobs : BeginActive(p, j)
  BY <1>7, BeginActiveDoes, <1>b DEF BeginActive, FileSet, Dirs,
     FailedAfterAttempts
<1>8. CASE \E p \in Polls, j \in Jobs : EndActive(p, j)
  BY <1>8, EndActiveDoes, <1>b DEF EndActive, FileSet, Dirs,
     FailedAfterAttempts
<1>9. CASE \E p \in Polls, j \in Jobs : UnlinkWaiting(p, j)
  BY <1>9, UnlinkWaitingDoes, <1>b DEF UnlinkWaiting, FileSet, Dirs,
     FailedAfterAttempts
<1>10. CASE \E p \in Polls, j \in Jobs : BeginOut(p, j)
  <2>1. PICK p \in Polls, j \in Jobs :
           /\ run[p][j] = "decided"
           /\ FileSet(dest[p][j], j, Torn)
           /\ dest[p][j] \in Dirs
    BY <1>10, BeginOutDoes, EarnedBase DEF BeginOut
  <2>2. dest[p][j] = "failed" => errs[j] > MaxAttempts \/ ioErrors > 0
    BY <2>1, <1>a, EarnedBase DEF EarnedRuns, Fair, Holds, WayOut, Leaving
  <2>3. QED
    BY <2>1, <2>2, <1>b DEF FileSet, Dirs, FailedAfterAttempts
<1>11. CASE \E p \in Polls, j \in Jobs : EndOut(p, j)
  <2>1. PICK p \in Polls, j \in Jobs :
           /\ run[p][j] = "writeOut"
           /\ FileSet(dest[p][j], j, mem[p][j])
           /\ dest[p][j] \in Dirs
    BY <1>11, EndOutDoes, EarnedBase DEF EndOut
  <2>2. dest[p][j] = "failed" => errs[j] > MaxAttempts \/ ioErrors > 0
    BY <2>1, <1>a, EarnedBase DEF EarnedRuns, Fair, Holds, WayOut, Leaving
  <2>3. QED
    BY <2>1, <2>2, <1>b DEF FileSet, Dirs, FailedAfterAttempts
<1>12. CASE \E p \in Polls, j \in Jobs : UnlinkActive(p, j)
  BY <1>12, UnlinkActiveDoes, <1>b DEF UnlinkActive, FileSet, Dirs,
     FailedAfterAttempts
<1>13. CASE \E d \in Dirs, j \in Jobs : CleanUp(d, j)
  BY <1>13, CleanUpDoes, <1>b DEF CleanUp, FileSet, Dirs, FailedAfterAttempts
<1>14. CASE \E j \in Jobs : BeginRecover(j)
  BY <1>14, BeginRecoverDoes, <1>b DEF BeginRecover, FileSet, Dirs,
     FailedAfterAttempts
<1>15. CASE EndRecover
  BY <1>15, EndRecoverDoes, <1>b DEF EndRecover, FileSet, Dirs,
     FailedAfterAttempts
<1>16. CASE UnlinkRecovered
  BY <1>16, UnlinkRecoveredDoes, <1>b DEF UnlinkRecovered, FileSet, Dirs,
     FailedAfterAttempts
<1>17. QED
  BY <1>1, <1>2, <1>3, <1>4, <1>5, <1>6, <1>7, <1>8, <1>9, <1>10, <1>11,
     <1>12, <1>13, <1>14, <1>15, <1>16, FileWriters

-----------------------------------------------------------------------------
(* One scan at a time, and the slots it gives out.                          *)

(* Nothing is polled before the recovery is over, and a poll whose runs are *)
(* not over scans no further.                                               *)
Quiet ==
  /\ \A p \in Polls : boot # "up" => scan[p] = "idle"
  /\ \A p \in Polls, j \in Jobs : run[p][j] # "none" => scan[p] = "running"

OneScan ==
  ~SlowDisk => \A p, q \in Polls : Scanning(p) /\ Scanning(q) => p = q

Holders == {r \in Polls \X Jobs : Holds(r[1], r[2])}
ListedBy(p) == {j \in Jobs : run[p][j] = "listed"}

(* activeJobsCount covers the runs that have read their job; a failed move  *)
(* to active/ leaves it one too high.                                       *)
Counted ==
  /\ IsFiniteSet(Holders) /\ Cardinality(Holders) <= active
  /\ active <= Cardinality(Holders) + ioErrors

(* What a scan still has to give out was free when it counted.              *)
SlotsLeft ==
  ~SlowDisk =>
    /\ active <= Concurrency
    /\ \A p \in Polls :
         /\ scan[p] = "counted" => slots[p] + active <= Concurrency
         /\ IsFiniteSet(ListedBy(p))
         /\ ListedBy(p) # {} =>
              Cardinality(ListedBy(p)) + active <= Concurrency

(* The first k jobs of a set are at most k.                                 *)
LEMMA FirstOfSmall ==
  ASSUME NEW S \in SUBSET Nat, NEW k \in Nat
  PROVE  /\ IsFiniteSet(FirstOf(S, k))
         /\ Cardinality(FirstOf(S, k)) <= k
<1> DEFINE T == FirstOf(S, k)
           Below(j) == {i \in S : i < j}
           rank == [j \in T |-> Cardinality(Below(j))]
<1>1. \A j \in S : IsFiniteSet(Below(j)) /\ Cardinality(Below(j)) \in Nat
  <2> SUFFICES ASSUME NEW j \in S
               PROVE  IsFiniteSet(Below(j)) /\ Cardinality(Below(j)) \in Nat
    OBVIOUS
  <2>1. IsFiniteSet(0..j)
    BY FS_Interval
  <2>2. Below(j) \in SUBSET (0..j)
    <3>1. j \in Nat
      OBVIOUS
    <3>2. \A i \in Below(j) : i \in 0..j
      BY <3>1
    <3>3. QED
      BY <3>2
  <2>3. IsFiniteSet(Below(j))
    BY <2>1, <2>2, FS_Subset
  <2>4. QED
    BY <2>3, FS_CardinalityType
<1>2. \A i, j \in S : i < j => Cardinality(Below(i)) < Cardinality(Below(j))
  <2> SUFFICES ASSUME NEW i \in S, NEW j \in S, i < j
               PROVE  Cardinality(Below(i)) < Cardinality(Below(j))
    OBVIOUS
  <2>0. i \in Nat /\ j \in Nat
    OBVIOUS
  <2>1. /\ \A x \in Below(i) : x \in Below(j)
        /\ i \in Below(j) /\ i \notin Below(i)
    BY <2>0
  <2>2. /\ Cardinality(Below(i)) <= Cardinality(Below(j))
        /\ Cardinality(Below(i)) # Cardinality(Below(j))
    BY <1>1, <2>1, FS_Subset
  <2>3. QED
    BY <1>1, <2>2
<1>3. rank \in [T -> 0..(k - 1)]
  <2>1. \A j \in T : j \in S /\ Cardinality(Below(j)) < k
    BY DEF FirstOf
  <2>2. \A j \in T : Cardinality(Below(j)) \in 0..(k - 1)
    <3> SUFFICES ASSUME NEW j \in T
                 PROVE  Cardinality(Below(j)) \in 0..(k - 1)
      OBVIOUS
    <3>1. Cardinality(Below(j)) \in Nat /\ Cardinality(Below(j)) < k
      BY <1>1, <2>1
    <3>2. QED
      BY <3>1
  <2>3. QED
    BY <2>2
<1>4. \A i, j \in T : rank[i] = rank[j] => i = j
  <2> SUFFICES ASSUME NEW i \in T, NEW j \in T, rank[i] = rank[j]
               PROVE  i = j
    OBVIOUS
  <2>1. i \in S /\ j \in S /\ i \in Nat /\ j \in Nat
    BY DEF FirstOf
  <2>2. Cardinality(Below(i)) = Cardinality(Below(j))
    OBVIOUS
  <2>3. ~(i < j) /\ ~(j < i)
    BY <1>1, <1>2, <2>1, <2>2
  <2>4. QED
    BY <2>1, <2>3
<1>5. rank \in Injection(T, 0..(k - 1))
  BY <1>3, <1>4 DEF Injection, IsInjective
<1>6. IsFiniteSet(0..(k - 1)) /\ Cardinality(0..(k - 1)) = k
  BY FS_Interval
<1>7. QED
  BY <1>5, <1>6, FS_Injection

LEMMA QuietKept ==
  ASSUME TypeOK, Bounds, Quiet, [Next]_vars
  PROVE  Quiet'
<1>1. CASE UNCHANGED <<scan, boot, run>>
  BY <1>1 DEF RunSet, Becomes, Quiet
<1>2. CASE \E p \in Polls : Tick(p)
  BY <1>2, TickDoes DEF Tick, RunSet, Becomes, Quiet, bootVars, runVars
<1>3. CASE \E p \in Polls, j \in Jobs : AbortPoll(p, j)
  BY <1>3, AbortPollDoes DEF AbortPoll, RunSet, Becomes, Quiet, bootVars,
     runVars
<1>4. CASE \E p \in Polls, j \in Jobs : BeginPromote(p, j)
  BY <1>4, BeginPromoteDoes DEF BeginPromote, RunSet, Becomes, Quiet,
     bootVars, runVars
<1>5. CASE \E p \in Polls : EndPromote(p)
  BY <1>5, EndPromoteDoes DEF EndPromote, RunSet, Becomes, Quiet, bootVars,
     runVars
<1>6. CASE \E p \in Polls : PromoteFails(p)
  BY <1>6, PromoteFailsDoes DEF PromoteFails, RunSet, Becomes, Quiet,
     bootVars, runVars
<1>7. CASE \E p \in Polls : UnlinkDelayed(p)
  BY <1>7, UnlinkDelayedDoes DEF UnlinkDelayed, RunSet, Becomes, Quiet,
     bootVars, runVars
<1>8. CASE \E p \in Polls : CountSlots(p)
  <2>1. PICK p \in Polls :
           /\ \/ Becomes(scan, scan', p, "counted")
              \/ Becomes(scan, scan', p, "idle")
           /\ scan[p] = "delayed"
           /\ UNCHANGED <<boot, run>>
    BY <1>8, CountSlotsDoes DEF CountSlots, runVars, bootVars
  <2>2. QED
    BY <2>1 DEF RunSet, Becomes, Quiet
<1>9. CASE \E p \in Polls : PickJobs(p)
  <2>1. PICK p \in Polls :
           /\ Becomes(scan, scan', p, "running")
           /\ \A q \in Polls, j \in Jobs : q # p => run'[q][j] = run[q][j]
           /\ \A j \in Jobs :
                run'[p][j] = IF j \in FirstOf(Listed("waiting"), slots[p])
                             THEN "listed" ELSE "none"
           /\ scan[p] = "counted"
           /\ UNCHANGED boot
    BY <1>9, PickJobsDoes DEF PickJobs, bootVars
  <2>2. QED
    BY <2>1 DEF RunSet, Becomes, Quiet
<1>10. CASE \E p \in Polls : EndPoll(p)
  BY <1>10, EndPollDoes DEF EndPoll, RunSet, Becomes, Quiet, bootVars,
     runVars
<1>11. CASE \E p \in Polls, j \in Jobs : ReadNothing(p, j)
  BY <1>11, ReadNothingDoes DEF ReadNothing, RunSet, Becomes, Quiet,
     pollVars, bootVars
<1>12. CASE \E p \in Polls, j \in Jobs : ReadWaiting(p, j)
  <2>1. PICK p \in Polls, j \in Jobs :
           /\ run[p][j] = "listed"
           /\ RunSet(p, j, "read")
           /\ UNCHANGED <<scan, boot>>
    BY <1>12, ReadWaitingDoes DEF ReadWaiting, pollVars, bootVars
  <2>2. QED
    BY <2>1 DEF RunSet, Becomes, Quiet
<1>13. CASE \E p \in Polls, j \in Jobs : BeginActive(p, j)
  BY <1>13, BeginActiveDoes DEF BeginActive, RunSet, Becomes, Quiet,
     pollVars, bootVars
<1>14. CASE \E p \in Polls, j \in Jobs : EndActive(p, j)
  BY <1>14, EndActiveDoes DEF EndActive, RunSet, Becomes, Quiet, pollVars,
     bootVars
<1>15. CASE \E p \in Polls, j \in Jobs : ActiveFails(p, j)
  BY <1>15, ActiveFailsDoes DEF ActiveFails, RunSet, Becomes, Quiet,
     pollVars, bootVars
<1>16. CASE \E p \in Polls, j \in Jobs : UnlinkWaiting(p, j)
  BY <1>16, UnlinkWaitingDoes DEF UnlinkWaiting, RunSet, Becomes, Quiet,
     pollVars, bootVars
<1>17. CASE \E p \in Polls, j \in Jobs : ProcessorReturns(p, j)
  BY <1>17, ProcessorReturnsDoes DEF ProcessorReturns, RunSet, Becomes,
     Quiet, pollVars, bootVars
<1>18. CASE \E p \in Polls, j \in Jobs : ProcessorThrows(p, j)
  <2>1. PICK p \in Polls, j \in Jobs :
           /\ run[p][j] = "running"
           /\ RunSet(p, j, "decided")
           /\ UNCHANGED <<scan, boot>>
    BY <1>18, ProcessorThrowsDoes DEF ProcessorThrows, pollVars, bootVars
  <2>2. QED
    BY <2>1 DEF RunSet, Becomes, Quiet
<1>19. CASE \E p \in Polls, j \in Jobs : DropJob(p, j)
  BY <1>19, DropJobDoes DEF DropJob, RunSet, Becomes, Quiet, pollVars,
     bootVars
<1>20. CASE \E p \in Polls, j \in Jobs : BeginOut(p, j)
  BY <1>20, BeginOutDoes DEF BeginOut, RunSet, Becomes, Quiet, pollVars,
     bootVars
<1>21. CASE \E p \in Polls, j \in Jobs : EndOut(p, j)
  BY <1>21, EndOutDoes DEF EndOut, RunSet, Becomes, Quiet, pollVars, bootVars
<1>22. CASE \E p \in Polls, j \in Jobs : OutFails(p, j)
  BY <1>22, OutFailsDoes DEF OutFails, RunSet, Becomes, Quiet, pollVars,
     bootVars
<1>23. CASE \E p \in Polls, j \in Jobs : UnlinkActive(p, j)
  BY <1>23, UnlinkActiveDoes DEF UnlinkActive, RunSet, Becomes, Quiet,
     pollVars, bootVars
<1>24. CASE Crash
  BY <1>24 DEF Crash, RunSet, Becomes, Quiet
<1>25. CASE \E j \in Jobs : BeginRecover(j)
  BY <1>25, BeginRecoverDoes DEF BeginRecover, RunSet, Becomes, Quiet,
     pollVars, runVars
<1>26. CASE EndRecover
  BY <1>26, EndRecoverDoes DEF EndRecover, RunSet, Becomes, Quiet, pollVars,
     runVars
<1>27. CASE UnlinkRecovered
  BY <1>27, UnlinkRecoveredDoes DEF UnlinkRecovered, RunSet, Becomes, Quiet,
     pollVars, runVars
<1>28. CASE StartPolling
  BY <1>28 DEF StartPolling, RunSet, Becomes, Quiet, pollVars, runVars
<1>r. CASE RecoverFails
  BY <1>r DEF RecoverFails, Quiet, pollVars, runVars
<1>29. QED
  BY <1>r, <1>1, <1>2, <1>3, <1>4, <1>5, <1>6, <1>7, <1>8, <1>9, <1>10, <1>11,
     <1>12, <1>13, <1>14, <1>15, <1>16, <1>17, <1>18, <1>19, <1>20, <1>21,
     <1>22, <1>23, <1>24, <1>25, <1>26, <1>27, <1>28, ScanWriters,
     BootWriters, RunWriters

LEMMA OneScanKept ==
  ASSUME TypeOK, Bounds, Quiet, OneScan, [Next]_vars
  PROVE  OneScan'
<1>1. CASE UNCHANGED <<scan, run>>
  BY <1>1 DEF RunSet, Becomes, Quiet, OneScan, Scanning, Picking, Leaving
<1>2. CASE \E p \in Polls : Tick(p)
  BY <1>2, TickDoes DEF Tick, RunSet, Becomes, Quiet, OneScan, Scanning,
     Picking, Leaving, runVars
<1>3. CASE \E p \in Polls, j \in Jobs : AbortPoll(p, j)
  BY <1>3, AbortPollDoes DEF AbortPoll, RunSet, Becomes, Quiet, OneScan,
     Scanning, Picking, Leaving, runVars
<1>4. CASE \E p \in Polls, j \in Jobs : BeginPromote(p, j)
  BY <1>4, BeginPromoteDoes DEF BeginPromote, RunSet, Becomes, Quiet,
     OneScan, Scanning, Picking, Leaving, runVars
<1>5. CASE \E p \in Polls : EndPromote(p)
  BY <1>5, EndPromoteDoes DEF EndPromote, RunSet, Becomes, Quiet, OneScan,
     Scanning, Picking, Leaving, runVars
<1>6. CASE \E p \in Polls : PromoteFails(p)
  BY <1>6, PromoteFailsDoes DEF PromoteFails, RunSet, Becomes, Quiet,
     OneScan, Scanning, Picking, Leaving, runVars
<1>7. CASE \E p \in Polls : UnlinkDelayed(p)
  BY <1>7, UnlinkDelayedDoes DEF UnlinkDelayed, RunSet, Becomes, Quiet,
     OneScan, Scanning, Picking, Leaving, runVars
<1>8. CASE \E p \in Polls : CountSlots(p)
  <2>1. PICK p \in Polls :
           /\ \/ Becomes(scan, scan', p, "counted")
              \/ Becomes(scan, scan', p, "idle")
           /\ scan[p] = "delayed"
           /\ UNCHANGED run
    BY <1>8, CountSlotsDoes DEF CountSlots, runVars
  <2>2. QED
    BY <2>1 DEF RunSet, Becomes, Quiet, OneScan, Scanning, Picking, Leaving
<1>9. CASE \E p \in Polls : PickJobs(p)
  <2>1. PICK p \in Polls :
           /\ Becomes(scan, scan', p, "running")
           /\ \A q \in Polls, j \in Jobs : q # p => run'[q][j] = run[q][j]
           /\ \A j \in Jobs :
                run'[p][j] = IF j \in FirstOf(Listed("waiting"), slots[p])
                             THEN "listed" ELSE "none"
           /\ scan[p] = "counted"
    BY <1>9, PickJobsDoes DEF PickJobs
  <2>2. QED
    BY <2>1 DEF RunSet, Becomes, Quiet, OneScan, Scanning, Picking, Leaving
<1>10. CASE \E p \in Polls : EndPoll(p)
  BY <1>10, EndPollDoes DEF EndPoll, RunSet, Becomes, Quiet, OneScan,
     Scanning, Picking, Leaving, runVars
<1>11. CASE \E p \in Polls, j \in Jobs : ReadNothing(p, j)
  BY <1>11, ReadNothingDoes DEF ReadNothing, RunSet, Becomes, Quiet, OneScan,
     Scanning, Picking, Leaving, pollVars
<1>12. CASE \E p \in Polls, j \in Jobs : ReadWaiting(p, j)
  <2>1. PICK p \in Polls, j \in Jobs :
           /\ run[p][j] = "listed"
           /\ RunSet(p, j, "read")
           /\ UNCHANGED scan
    BY <1>12, ReadWaitingDoes DEF ReadWaiting, pollVars
  <2>2. QED
    BY <2>1 DEF RunSet, Becomes, Quiet, OneScan, Scanning, Picking, Leaving
<1>13. CASE \E p \in Polls, j \in Jobs : BeginActive(p, j)
  BY <1>13, BeginActiveDoes DEF BeginActive, RunSet, Becomes, Quiet, OneScan,
     Scanning, Picking, Leaving, pollVars
<1>14. CASE \E p \in Polls, j \in Jobs : EndActive(p, j)
  BY <1>14, EndActiveDoes DEF EndActive, RunSet, Becomes, Quiet, OneScan,
     Scanning, Picking, Leaving, pollVars
<1>15. CASE \E p \in Polls, j \in Jobs : ActiveFails(p, j)
  BY <1>15, ActiveFailsDoes DEF ActiveFails, RunSet, Becomes, Quiet, OneScan,
     Scanning, Picking, Leaving, pollVars
<1>16. CASE \E p \in Polls, j \in Jobs : UnlinkWaiting(p, j)
  BY <1>16, UnlinkWaitingDoes DEF UnlinkWaiting, RunSet, Becomes, Quiet,
     OneScan, Scanning, Picking, Leaving, pollVars
<1>17. CASE \E p \in Polls, j \in Jobs : ProcessorReturns(p, j)
  BY <1>17, ProcessorReturnsDoes DEF ProcessorReturns, RunSet, Becomes,
     Quiet, OneScan, Scanning, Picking, Leaving, pollVars
<1>18. CASE \E p \in Polls, j \in Jobs : ProcessorThrows(p, j)
  <2>1. PICK p \in Polls, j \in Jobs :
           /\ run[p][j] = "running"
           /\ RunSet(p, j, "decided")
           /\ UNCHANGED scan
    BY <1>18, ProcessorThrowsDoes DEF ProcessorThrows, pollVars
  <2>2. QED
    BY <2>1 DEF RunSet, Becomes, Quiet, OneScan, Scanning, Picking, Leaving
<1>19. CASE \E p \in Polls, j \in Jobs : DropJob(p, j)
  BY <1>19, DropJobDoes DEF DropJob, RunSet, Becomes, Quiet, OneScan,
     Scanning, Picking, Leaving, pollVars
<1>20. CASE \E p \in Polls, j \in Jobs : BeginOut(p, j)
  BY <1>20, BeginOutDoes DEF BeginOut, RunSet, Becomes, Quiet, OneScan,
     Scanning, Picking, Leaving, pollVars
<1>21. CASE \E p \in Polls, j \in Jobs : EndOut(p, j)
  BY <1>21, EndOutDoes DEF EndOut, RunSet, Becomes, Quiet, OneScan, Scanning,
     Picking, Leaving, pollVars
<1>22. CASE \E p \in Polls, j \in Jobs : OutFails(p, j)
  BY <1>22, OutFailsDoes DEF OutFails, RunSet, Becomes, Quiet, OneScan,
     Scanning, Picking, Leaving, pollVars
<1>23. CASE \E p \in Polls, j \in Jobs : UnlinkActive(p, j)
  BY <1>23, UnlinkActiveDoes DEF UnlinkActive, RunSet, Becomes, Quiet,
     OneScan, Scanning, Picking, Leaving, pollVars
<1>24. CASE Crash
  BY <1>24 DEF Crash, RunSet, Becomes, Quiet, OneScan, Scanning, Picking,
     Leaving
<1>25. QED
  BY <1>1, <1>2, <1>3, <1>4, <1>5, <1>6, <1>7, <1>8, <1>9, <1>10, <1>11,
     <1>12, <1>13, <1>14, <1>15, <1>16, <1>17, <1>18, <1>19, <1>20, <1>21,
     <1>22, <1>23, <1>24, ScanWriters, RunWriters

(* Which runs hold a job, before and after a step.                          *)
SameHolds == \A q \in Polls, i \in Jobs : Holds(q, i)' <=> Holds(q, i)
NowHolds(p, j) ==
  \A q \in Polls, i \in Jobs :
    Holds(q, i)' <=> Holds(q, i) \/ (q = p /\ i = j)
NoLongerHolds(p, j) ==
  \A q \in Polls, i \in Jobs :
    Holds(q, i)' <=> Holds(q, i) /\ ~(q = p /\ i = j)

HoldsStep ==
  \/ SameHolds /\ UNCHANGED active
  \/ \E p \in Polls, j \in Jobs :
       ~Holds(p, j) /\ NowHolds(p, j) /\ active' = active + 1
  \/ \E p \in Polls, j \in Jobs :
       /\ Holds(p, j) /\ NoLongerHolds(p, j) /\ UNCHANGED active
       /\ ioErrors' = ioErrors + 1
  \/ \E p \in Polls, j \in Jobs : Holds(p, j) /\ NoLongerHolds(p, j) /\ Uncount
  \/ active' = 0 /\ \A q \in Polls, i \in Jobs : ~Holds(q, i)'

LEMMA HoldsChange ==
  ASSUME TypeOK, Bounds, Quiet, [Next]_vars
  PROVE  HoldsStep
<1>1. CASE UNCHANGED <<run, active>>
  BY <1>1 DEF RunSet, Holds, HoldsStep, SameHolds
<1>2. CASE \E p \in Polls : PickJobs(p)
  <2>1. PICK p \in Polls :
           /\ \A q \in Polls, j \in Jobs : q # p => run'[q][j] = run[q][j]
           /\ \A j \in Jobs :
                run'[p][j] = IF j \in FirstOf(Listed("waiting"), slots[p])
                             THEN "listed" ELSE "none"
           /\ scan[p] = "counted"
           /\ UNCHANGED active
    BY <1>2, PickJobsDoes DEF PickJobs, runVars
  <2>2. QED
    BY <2>1 DEF RunSet, Holds, HoldsStep, SameHolds, Quiet
<1>3. CASE \E p \in Polls, j \in Jobs : ReadNothing(p, j)
  BY <1>3, ReadNothingDoes DEF ReadNothing, RunSet, Holds, HoldsStep,
     SameHolds, runVars
<1>4. CASE \E p \in Polls, j \in Jobs : ReadWaiting(p, j)
  <2>1. PICK p \in Polls, j \in Jobs :
           /\ run[p][j] = "listed"
           /\ RunSet(p, j, "read")
           /\ active' = active + 1
    BY <1>4, ReadWaitingDoes DEF ReadWaiting
  <2>2. ~Holds(p, j) /\ NowHolds(p, j)
    BY <2>1 DEF NowHolds, RunSet, Holds
  <2>3. QED
    BY <2>1, <2>2 DEF HoldsStep
<1>5. CASE \E p \in Polls, j \in Jobs : BeginActive(p, j)
  BY <1>5, BeginActiveDoes DEF BeginActive, RunSet, Holds, HoldsStep,
     SameHolds, runVars
<1>6. CASE \E p \in Polls, j \in Jobs : EndActive(p, j)
  BY <1>6, EndActiveDoes DEF EndActive, RunSet, Holds, HoldsStep, SameHolds,
     runVars
<1>7. CASE \E p \in Polls, j \in Jobs : ActiveFails(p, j)
  <2>1. PICK p \in Polls, j \in Jobs :
           /\ run[p][j] \in {"read", "writeActive"} /\ RunSet(p, j, "none")
           /\ UNCHANGED active /\ ioErrors' = ioErrors + 1
    BY <1>7, ActiveFailsDoes DEF ActiveFails
  <2>2. Holds(p, j) /\ NoLongerHolds(p, j)
    BY <2>1 DEF NoLongerHolds, RunSet, Holds
  <2>3. QED
    BY <2>1, <2>2 DEF HoldsStep
<1>8. CASE \E p \in Polls, j \in Jobs : UnlinkWaiting(p, j)
  BY <1>8, UnlinkWaitingDoes DEF UnlinkWaiting, RunSet, Holds, HoldsStep,
     SameHolds, runVars
<1>9. CASE \E p \in Polls, j \in Jobs : ProcessorReturns(p, j)
  BY <1>9, ProcessorReturnsDoes DEF ProcessorReturns, RunSet, Holds,
     HoldsStep, SameHolds, runVars
<1>10. CASE \E p \in Polls, j \in Jobs : ProcessorThrows(p, j)
  <2>1. PICK p \in Polls, j \in Jobs :
           /\ run[p][j] = "running"
           /\ RunSet(p, j, "decided")
           /\ UNCHANGED active
    BY <1>10, ProcessorThrowsDoes DEF ProcessorThrows, runVars
  <2>2. QED
    BY <2>1 DEF RunSet, Holds, HoldsStep, SameHolds
<1>11. CASE \E p \in Polls, j \in Jobs : DropJob(p, j)
  BY <1>11, DropJobDoes DEF DropJob, RunSet, Holds, HoldsStep, SameHolds,
     runVars
<1>12. CASE \E p \in Polls, j \in Jobs : BeginOut(p, j)
  BY <1>12, BeginOutDoes DEF BeginOut, RunSet, Holds, HoldsStep, SameHolds,
     runVars
<1>13. CASE \E p \in Polls, j \in Jobs : EndOut(p, j)
  BY <1>13, EndOutDoes DEF EndOut, RunSet, Holds, HoldsStep, SameHolds,
     runVars
<1>14. CASE \E p \in Polls, j \in Jobs : OutFails(p, j)
  <2>1. PICK p \in Polls, j \in Jobs :
           /\ dest[p][j] = "completed" =>
                /\ RunSet(p, j, "decided")
                /\ Becomes2(dest, dest', p, j, RetryDir(mem[p][j]))
                /\ UNCHANGED active
           /\ dest[p][j] # "completed" =>
                RunSet(p, j, "none") /\ Uncount /\ UNCHANGED dest
           /\ run[p][j] \in {"decided", "writeOut"}
    BY <1>14, OutFailsDoes
  <2>2. dest[p][j] = "completed" => SameHolds
    BY <2>1 DEF SameHolds, RunSet, Holds
  <2>3. dest[p][j] # "completed" => Holds(p, j) /\ NoLongerHolds(p, j)
    BY <2>1 DEF NoLongerHolds, RunSet, Holds
  <2>4. QED
    BY <2>1, <2>2, <2>3 DEF HoldsStep
<1>15. CASE \E p \in Polls, j \in Jobs : UnlinkActive(p, j)
  <2>1. PICK p \in Polls, j \in Jobs :
           /\ run[p][j] = "unlinkActive"
           /\ RunSet(p, j, "none")
           /\ Uncount
    BY <1>15, UnlinkActiveDoes DEF UnlinkActive
  <2>2. Holds(p, j) /\ NoLongerHolds(p, j)
    BY <2>1 DEF NoLongerHolds, RunSet, Holds
  <2>3. QED
    BY <2>1, <2>2 DEF HoldsStep
<1>16. CASE Crash
  BY <1>16 DEF Crash, RunSet, Holds, HoldsStep, SameHolds
<1>17. QED
  BY <1>1, <1>2, <1>3, <1>4, <1>5, <1>6, <1>7, <1>8, <1>9, <1>10, <1>11,
     <1>12, <1>13, <1>14, <1>15, <1>16, RunWriters, ActiveWriters

(* Errors are only ever added to.                                           *)
LEMMA ErrorsGrow ==
  ASSUME TypeOK, [Next]_vars
  PROVE  ioErrors \in Nat /\ ioErrors' \in Nat /\ ioErrors <= ioErrors'
<1>1. ioErrors \in Nat
  BY LocalQueueAssumption DEF TypeOK
<1>2. QED
  BY <1>1, IoErrorsWriters DEF AddFails, PromoteFails, ActiveFails, OutFails,
     RecoverFails

LEMMA CountedKept ==
  ASSUME TypeOK, Bounds, Quiet, Counted, [Next]_vars
  PROVE  Counted'
<1>1. /\ IsFiniteSet(Holders) /\ Cardinality(Holders) <= active
      /\ active <= Cardinality(Holders) + ioErrors
  BY DEF Counted
<1>2. active \in Nat /\ Cardinality(Holders) \in Nat
  BY <1>1, Types, FS_CardinalityType
<1>e. ioErrors \in Nat /\ ioErrors' \in Nat /\ ioErrors <= ioErrors'
  BY ErrorsGrow
<1>3. CASE SameHolds /\ UNCHANGED active
  <2>1. Holders' = Holders
    BY <1>3 DEF SameHolds, Holders
  <2>2. QED
    BY <1>1, <1>2, <1>3, <1>e, <2>1 DEF Counted
<1>4. CASE \E p \in Polls, j \in Jobs :
             ~Holds(p, j) /\ NowHolds(p, j) /\ active' = active + 1
  <2>1. PICK p \in Polls, j \in Jobs :
               ~Holds(p, j) /\ NowHolds(p, j) /\ active' = active + 1
    BY <1>4
  <2>2. Holders' = Holders \cup {<<p, j>>} /\ <<p, j>> \notin Holders
    BY <2>1 DEF NowHolds, Holders
  <2>3. IsFiniteSet(Holders') /\ Cardinality(Holders') = Cardinality(Holders) + 1
    BY <1>1, <2>2, FS_AddElement
  <2>4. QED
    BY <1>1, <1>2, <1>e, <2>1, <2>3 DEF Counted
<1>5. CASE \E p \in Polls, j \in Jobs :
             /\ Holds(p, j) /\ NoLongerHolds(p, j) /\ UNCHANGED active
             /\ ioErrors' = ioErrors + 1
  <2>1. PICK p \in Polls, j \in Jobs :
             /\ Holds(p, j) /\ NoLongerHolds(p, j) /\ UNCHANGED active
             /\ ioErrors' = ioErrors + 1
    BY <1>5
  <2>2. Holders' = Holders \ {<<p, j>>} /\ <<p, j>> \in Holders
    BY <2>1 DEF NoLongerHolds, Holders
  <2>3. IsFiniteSet(Holders') /\ Cardinality(Holders') = Cardinality(Holders) - 1
    BY <1>1, <1>2, <2>2, FS_RemoveElement
  <2>4. QED
    BY <1>1, <1>2, <1>e, <2>1, <2>3 DEF Counted
<1>6. CASE \E p \in Polls, j \in Jobs :
             Holds(p, j) /\ NoLongerHolds(p, j) /\ Uncount
  <2>1. PICK p \in Polls, j \in Jobs :
               Holds(p, j) /\ NoLongerHolds(p, j) /\ Uncount
    BY <1>6
  <2>2. Holders' = Holders \ {<<p, j>>} /\ <<p, j>> \in Holders
    BY <2>1 DEF NoLongerHolds, Holders
  <2>3. IsFiniteSet(Holders') /\ Cardinality(Holders') = Cardinality(Holders) - 1
    BY <1>1, <1>2, <2>2, FS_RemoveElement
  <2>4. Cardinality(Holders') \in Nat
    BY <2>3, FS_CardinalityType
  <2>5. active # 0 /\ active' = active - 1
    BY <1>1, <1>2, <2>1, <2>3, <2>4 DEF Uncount
  <2>6. QED
    BY <1>1, <1>2, <1>e, <2>3, <2>5 DEF Counted
<1>7. CASE active' = 0 /\ \A q \in Polls, i \in Jobs : ~Holds(q, i)'
  <2>1. Holders' = {}
    BY <1>7 DEF Holders
  <2>2. IsFiniteSet(Holders') /\ Cardinality(Holders') = 0
    BY <2>1, FS_EmptySet
  <2>3. active' = 0
    BY <1>7
  <2>4. \A n \in Nat : 0 <= 0 + n
    OBVIOUS
  <2>5. Cardinality(Holders') <= active'
    BY <2>2, <2>3
  <2>6. active' <= Cardinality(Holders') + ioErrors'
    BY <1>e, <2>2, <2>3, <2>4
  <2>7. QED
    BY <2>2, <2>5, <2>6 DEF Counted
<1>8. QED
  BY <1>3, <1>4, <1>5, <1>6, <1>7, HoldsChange DEF HoldsStep

(* Runs in the processor are among those that hold a job.                   *)
LEMMA CountedCovers ==
  ASSUME Counted, TypeOK
  PROVE  CountFollowsRuns
<1>1. InProcessor \in SUBSET Holders
  BY DEF InProcessor, Holders, Holds
<1>2. /\ Cardinality(InProcessor) <= Cardinality(Holders)
      /\ Cardinality(InProcessor) \in Nat /\ Cardinality(Holders) \in Nat
  BY <1>1, FS_Subset, FS_CardinalityType DEF Counted
<1>3. Counting = Holders
  BY DEF Counting, Holders, Holds
<1>4. Cardinality(InProcessor) <= active
  BY <1>2, Types DEF Counted
<1>5. active <= Cardinality(Counting) + ioErrors
  BY <1>3 DEF Counted
<1>6. QED
  BY <1>4, <1>5 DEF CountFollowsRuns

(* Most steps give out no slot.                                             *)
NoNewSlots ==
  /\ \A q \in Polls, i \in Jobs : (run[q][i] = "listed")' <=> run[q][i] = "listed"
  /\ \A q \in Polls : (scan[q] = "counted")' =>
                        scan[q] = "counted" /\ slots'[q] = slots[q]
  /\ active' \in Nat /\ active' <= active

SlotsStep ==
  \/ NoNewSlots
  \/ \E p \in Polls : CountSlots(p) \/ PickJobs(p)
  \/ \E p \in Polls, j \in Jobs : ReadNothing(p, j) \/ ReadWaiting(p, j)
  \/ Crash

LEMMA SlotsChange ==
  ASSUME TypeOK, Bounds, Quiet, [Next]_vars
  PROVE  SlotsStep
<1>a. active \in Nat
  BY Types
<1>1. CASE UNCHANGED <<scan, slots, run, active>>
  BY <1>1, <1>a DEF RunSet, Becomes, NoNewSlots, SlotsStep
<1>2. CASE \E p \in Polls : Tick(p)
  BY <1>2, TickDoes, <1>a DEF Tick, RunSet, Becomes, NoNewSlots, SlotsStep,
     pollVars, runVars
<1>3. CASE \E p \in Polls, j \in Jobs : AbortPoll(p, j)
  BY <1>3, AbortPollDoes, <1>a DEF AbortPoll, RunSet, Becomes, NoNewSlots,
     SlotsStep, pollVars, runVars
<1>4. CASE \E p \in Polls, j \in Jobs : BeginPromote(p, j)
  BY <1>4, BeginPromoteDoes, <1>a DEF BeginPromote, RunSet, Becomes,
     NoNewSlots, SlotsStep, pollVars, runVars
<1>5. CASE \E p \in Polls : EndPromote(p)
  BY <1>5, EndPromoteDoes, <1>a DEF EndPromote, RunSet, Becomes, NoNewSlots,
     SlotsStep, pollVars, runVars
<1>6. CASE \E p \in Polls : PromoteFails(p)
  BY <1>6, PromoteFailsDoes, <1>a DEF PromoteFails, RunSet, Becomes,
     NoNewSlots, SlotsStep, pollVars, runVars
<1>7. CASE \E p \in Polls : UnlinkDelayed(p)
  BY <1>7, UnlinkDelayedDoes, <1>a DEF UnlinkDelayed, RunSet, Becomes,
     NoNewSlots, SlotsStep, pollVars, runVars
<1>8. CASE \E p \in Polls : CountSlots(p)
  BY <1>8 DEF SlotsStep
<1>9. CASE \E p \in Polls : PickJobs(p)
  BY <1>9 DEF SlotsStep
<1>10. CASE \E p \in Polls : EndPoll(p)
  BY <1>10, EndPollDoes, <1>a DEF EndPoll, RunSet, Becomes, NoNewSlots,
     SlotsStep, pollVars, runVars
<1>11. CASE \E p \in Polls, j \in Jobs : ReadNothing(p, j)
  BY <1>11 DEF SlotsStep
<1>12. CASE \E p \in Polls, j \in Jobs : ReadWaiting(p, j)
  BY <1>12 DEF SlotsStep
<1>13. CASE \E p \in Polls, j \in Jobs : BeginActive(p, j)
  BY <1>13, BeginActiveDoes, <1>a DEF BeginActive, RunSet, Becomes,
     NoNewSlots, SlotsStep, pollVars, runVars
<1>14. CASE \E p \in Polls, j \in Jobs : EndActive(p, j)
  BY <1>14, EndActiveDoes, <1>a DEF EndActive, RunSet, Becomes, NoNewSlots,
     SlotsStep, pollVars, runVars
<1>15. CASE \E p \in Polls, j \in Jobs : ActiveFails(p, j)
  BY <1>15, ActiveFailsDoes, <1>a DEF ActiveFails, RunSet, Becomes,
     NoNewSlots, SlotsStep, pollVars, runVars
<1>16. CASE \E p \in Polls, j \in Jobs : UnlinkWaiting(p, j)
  BY <1>16, UnlinkWaitingDoes, <1>a DEF UnlinkWaiting, RunSet, Becomes,
     NoNewSlots, SlotsStep, pollVars, runVars
<1>17. CASE \E p \in Polls, j \in Jobs : ProcessorReturns(p, j)
  BY <1>17, ProcessorReturnsDoes, <1>a DEF ProcessorReturns, RunSet, Becomes,
     NoNewSlots, SlotsStep, pollVars, runVars
<1>18. CASE \E p \in Polls, j \in Jobs : ProcessorThrows(p, j)
  <2>1. PICK p \in Polls, j \in Jobs :
           /\ run[p][j] = "running"
           /\ RunSet(p, j, "decided")
           /\ UNCHANGED <<scan, slots, active>>
    BY <1>18, ProcessorThrowsDoes DEF ProcessorThrows, pollVars, runVars
  <2>2. QED
    BY <2>1, <1>a DEF RunSet, Becomes, NoNewSlots, SlotsStep
<1>19. CASE \E p \in Polls, j \in Jobs : DropJob(p, j)
  BY <1>19, DropJobDoes, <1>a DEF DropJob, RunSet, Becomes, NoNewSlots,
     SlotsStep, pollVars, runVars
<1>20. CASE \E p \in Polls, j \in Jobs : BeginOut(p, j)
  BY <1>20, BeginOutDoes, <1>a DEF BeginOut, RunSet, Becomes, NoNewSlots,
     SlotsStep, pollVars, runVars
<1>21. CASE \E p \in Polls, j \in Jobs : EndOut(p, j)
  BY <1>21, EndOutDoes, <1>a DEF EndOut, RunSet, Becomes, NoNewSlots,
     SlotsStep, pollVars, runVars
<1>22. CASE \E p \in Polls, j \in Jobs : OutFails(p, j)
  <2>1. PICK p \in Polls, j \in Jobs :
           /\ dest[p][j] = "completed" =>
                /\ RunSet(p, j, "decided")
                /\ Becomes2(dest, dest', p, j, RetryDir(mem[p][j]))
                /\ UNCHANGED active
           /\ dest[p][j] # "completed" =>
                RunSet(p, j, "none") /\ Uncount /\ UNCHANGED dest
           /\ run[p][j] \in {"decided", "writeOut"}
           /\ UNCHANGED <<scan, slots>>
    BY <1>22, OutFailsDoes DEF OutFails, pollVars
  <2>2. QED
    BY <2>1, <1>a DEF RunSet, Becomes, NoNewSlots, SlotsStep, Uncount
<1>23. CASE \E p \in Polls, j \in Jobs : UnlinkActive(p, j)
  <2>1. PICK p \in Polls, j \in Jobs :
           /\ run[p][j] = "unlinkActive"
           /\ RunSet(p, j, "none")
           /\ Uncount
           /\ UNCHANGED <<scan, slots>>
    BY <1>23, UnlinkActiveDoes DEF UnlinkActive, pollVars
  <2>2. QED
    BY <2>1, <1>a DEF RunSet, Becomes, NoNewSlots, SlotsStep, Uncount
<1>24. CASE Crash
  BY <1>24 DEF SlotsStep
<1>25. QED
  BY <1>1, <1>2, <1>3, <1>4, <1>5, <1>6, <1>7, <1>8, <1>9, <1>10, <1>11,
     <1>12, <1>13, <1>14, <1>15, <1>16, <1>17, <1>18, <1>19, <1>20, <1>21,
     <1>22, <1>23, <1>24, ScanWriters, SlotsWriters, RunWriters,
     ActiveWriters

LEMMA SlotsLeftKept ==
  ASSUME TypeOK, Bounds, Quiet, OneScan, SlotsLeft, [Next]_vars
  PROVE  SlotsLeft'
<1> SUFFICES ASSUME ~SlowDisk PROVE SlotsLeft'
  BY DEF SlotsLeft
<1> USE DEF SlotsLeft
<1>1. /\ active \in Nat /\ Concurrency \in Nat
      /\ \A p \in Polls : slots[p] \in Nat /\ slots[p] <= Concurrency
  BY Types, LocalQueueAssumption DEF Slots
<1>2. \A p \in Polls : IsFiniteSet(ListedBy(p)) /\ Cardinality(ListedBy(p)) \in Nat
  BY FS_CardinalityType
<1>3. \A p, q \in Polls : q # p /\ Scanning(p) =>
                            scan[q] # "counted" /\ ListedBy(q) = {}
  BY DEF OneScan, Scanning, ListedBy, Picking
<1>4. CASE NoNewSlots
  <2>1. \A p \in Polls : ListedBy(p)' = ListedBy(p)
    BY <1>4 DEF NoNewSlots, ListedBy
  <2>2. active' \in Nat /\ active' <= active
    BY <1>4 DEF NoNewSlots
  <2>3. \A p \in Polls : (scan[p] = "counted")' => slots'[p] + active' <= Concurrency
    BY <1>1, <1>4, <2>2 DEF NoNewSlots
  <2>4. \A p \in Polls : ListedBy(p)' # {} =>
                           Cardinality(ListedBy(p)') + active' <= Concurrency
    BY <1>1, <1>2, <2>1, <2>2
  <2>5. \A p \in Polls : IsFiniteSet(ListedBy(p)')
    BY <1>2, <2>1
  <2>6. active' <= Concurrency
    BY <1>1, <2>2
  <2>7. QED
    BY <2>3, <2>4, <2>5, <2>6
<1>5. CASE \E p \in Polls : CountSlots(p)
  <2>1. PICK p \in Polls : CountSlots(p)
    BY <1>5
  <2>2. UNCHANGED <<run, active>>
    BY <2>1 DEF CountSlots, runVars
  <2>3. \A q \in Polls : ListedBy(q)' = ListedBy(q)
    BY <2>2 DEF ListedBy
  <2>4. \A q \in Polls : q # p =>
          slots'[q] = slots[q] /\ scan'[q] = scan[q]
    BY <2>1, <1>1, CountSlotsDoes DEF Becomes
  <2>5. scan'[p] = "counted" => slots'[p] = Concurrency - active
    BY <2>1, <1>1, CountSlotsDoes DEF Becomes
  <2>6. \A q \in Polls : (scan[q] = "counted")' => slots'[q] + active' <= Concurrency
    BY <1>1, <2>2, <2>4, <2>5
  <2>7. QED
    BY <1>2, <2>2, <2>3, <2>6
<1>6. CASE \E p \in Polls : PickJobs(p)
  <2>1. PICK p \in Polls : PickJobs(p)
    BY <1>6
  <2>2. /\ scan[p] = "counted" /\ UNCHANGED active
        /\ Becomes(scan, scan', p, "running") /\ Becomes(slots, slots', p, 0)
    BY <2>1, PickJobsDoes DEF PickJobs
  <2>3. \A q \in Polls : q # p => ListedBy(q)' = ListedBy(q)
    BY <2>1, PickJobsDoes DEF ListedBy
  <2>4. ListedBy(p)' = FirstOf(Listed("waiting"), slots[p])
    BY <2>1, PickJobsDoes DEF ListedBy, FirstOf, Listed
  <2>5. /\ IsFiniteSet(ListedBy(p)')
        /\ Cardinality(ListedBy(p)') <= slots[p]
    BY <1>1, <2>4, FirstOfSmall, LocalQueueAssumption DEF Listed
  <2>6. Cardinality(ListedBy(p)') + active' <= Concurrency
    BY <1>1, <2>2, <2>5, FS_CardinalityType
  <2>7. \A q \in Polls : IsFiniteSet(ListedBy(q)')
    BY <1>2, <2>3, <2>5
  <2>8. \A q \in Polls : ListedBy(q)' # {} =>
                           Cardinality(ListedBy(q)') + active' <= Concurrency
    BY <2>2, <2>3, <2>6
  <2>9. \A q \in Polls : (scan[q] = "counted")' => slots'[q] + active' <= Concurrency
    BY <2>2 DEF Becomes
  <2>10. QED
    BY <2>2, <2>7, <2>8, <2>9
<1>7. CASE \E p \in Polls, j \in Jobs : ReadNothing(p, j) \/ ReadWaiting(p, j)
  <2>1. PICK p \in Polls, j \in Jobs : ReadNothing(p, j) \/ ReadWaiting(p, j)
    BY <1>7
  <2>2. /\ run[p][j] = "listed" /\ (RunSet(p, j, "none") \/ RunSet(p, j, "read"))
        /\ UNCHANGED <<scan, slots>>
        /\ active' = active \/ active' = active + 1
    BY <2>1, ReadNothingDoes, ReadWaitingDoes
       DEF ReadNothing, ReadWaiting, pollVars
  <2>3. /\ ListedBy(p)' = ListedBy(p) \ {j} /\ j \in ListedBy(p)
        /\ \A q \in Polls : q # p => ListedBy(q)' = ListedBy(q)
    BY <2>2 DEF RunSet, ListedBy
  <2>4. /\ IsFiniteSet(ListedBy(p)')
        /\ Cardinality(ListedBy(p)') = Cardinality(ListedBy(p)) - 1
    BY <1>2, <2>3, FS_RemoveElement
  <2>5. /\ scan[p] # "counted"
        /\ \A q \in Polls : q # p => scan[q] # "counted" /\ ListedBy(q) = {}
    <3>1. Scanning(p) /\ scan[p] = "running"
      BY <2>2 DEF Scanning, Picking, Quiet
    <3>2. QED
      BY <1>3, <3>1
  <2>6. Cardinality(ListedBy(p)) + active <= Concurrency
    BY <2>3
  <2>7. active' \in Nat /\ Cardinality(ListedBy(p)') \in Nat
    BY <1>1, <2>2, <2>4, FS_CardinalityType
  <2>8. Cardinality(ListedBy(p)') + active' <= Concurrency
    BY <1>1, <1>2, <2>2, <2>4, <2>6
  <2>9. active' <= Concurrency
    BY <1>1, <2>7, <2>8
  <2>10. \A q \in Polls : IsFiniteSet(ListedBy(q)')
    BY <1>2, <2>3, <2>4
  <2>11. \A q \in Polls : ListedBy(q)' # {} =>
                            Cardinality(ListedBy(q)') + active' <= Concurrency
    BY <2>3, <2>5, <2>8
  <2>12. \A q \in Polls : scan'[q] # "counted"
    BY <2>2, <2>5
  <2>13. QED
    BY <2>9, <2>10, <2>11, <2>12
<1>8. CASE Crash
  <2>1. active' = 0 /\ \A q \in Polls : scan'[q] = "idle"
    BY <1>8 DEF Crash
  <2>2. \A q \in Polls : ListedBy(q)' = {}
    BY <1>8 DEF Crash, ListedBy
  <2>3. IsFiniteSet({})
    BY FS_EmptySet
  <2>4. \A q \in Polls : IsFiniteSet(ListedBy(q)')
    BY <2>2, <2>3
  <2>5. \A q \in Polls : (ListedBy(q) # {})' =>
                           (Cardinality(ListedBy(q)) + active <= Concurrency)'
    BY <2>2
  <2>6. (active <= Concurrency)' /\ \A q \in Polls : ~(scan[q] = "counted")'
    BY <1>1, <2>1
  <2>7. QED
    BY <2>4, <2>5, <2>6
<1>9. QED
  BY <1>4, <1>5, <1>6, <1>7, <1>8, SlotsChange DEF SlotsStep

-----------------------------------------------------------------------------
(* A job addJob has not returned for is nowhere but in waiting/, unreadable. *)

NewFiles ==
  /\ adding \cap accepted = {}
  /\ \A j \in Jobs \ accepted :
       /\ file["delayed"][j] = Absent /\ file["active"][j] = Absent
       /\ ~Whole("waiting", j)
NewRuns ==
  \A j \in Jobs \ accepted : j \notin ok /\ \A p \in Polls : ~Holds(p, j)
NewMoves ==
  \A j \in Jobs \ accepted :
    /\ \A p \in Polls : j \notin list[p]
                        /\ (moving[p] # NoMove => moving[p][1] # j)
    /\ saved # NoMove => saved[1] # j
    /\ j \notin todo

New == NewFiles /\ NewRuns /\ NewMoves

LEMMA NewFilesKept ==
  ASSUME TypeOK, Bounds, New, [Next]_vars
  PROVE  NewFiles'
<1> NewFiles /\ NewRuns /\ NewMoves /\ MovesKnown /\ WayOut
  BY DEF New, Bounds
<1>a. \A j \in Jobs \ accepted' : j \in Jobs \ accepted
  BY AcceptedWriters DEF EndAdd
<1>1. CASE UNCHANGED <<file, adding, accepted>>
  BY <1>1, <1>a DEF FileSet, Dirs, NewFiles, Absent, Torn, Whole
<1>2. CASE \E j \in Jobs : BeginAdd(j)
  BY <1>2, BeginAddDoes, <1>a DEF BeginAdd, FileSet, Dirs, NewFiles, Absent,
     Torn, Whole, fileVars
<1>3. CASE \E j \in Jobs : EndAdd(j)
  BY <1>3, EndAddDoes, <1>a DEF EndAdd, FileSet, Dirs, NewFiles, Absent,
     Torn, Whole
<1>4. CASE \E j \in Jobs : AddFails(j)
  BY <1>4, <1>a DEF AddFails, FileSet, Dirs, NewFiles, Absent, Torn, Whole,
     fileVars
<1>5. CASE \E p \in Polls, j \in Jobs : BeginPromote(p, j)
  <2>1. PICK p \in Polls, j \in Jobs :
           /\ FileSet("waiting", j, Torn)
           /\ j \in accepted
           /\ UNCHANGED <<adding, accepted>>
    BY <1>5, BeginPromoteDoes DEF BeginPromote, NewMoves
  <2>2. QED
    BY <2>1, <1>a DEF FileSet, Dirs, NewFiles, Absent, Torn, Whole
<1>6. CASE \E p \in Polls : EndPromote(p)
  <2>1. PICK p \in Polls :
           /\ FileSet("waiting", moving[p][1], moving[p][2])
           /\ moving[p][1] \in accepted
           /\ UNCHANGED <<adding, accepted>>
    BY <1>6, EndPromoteDoes DEF EndPromote, NewMoves, MovesKnown
  <2>2. QED
    BY <2>1, <1>a DEF FileSet, Dirs, NewFiles, Absent, Torn, Whole
<1>7. CASE \E p \in Polls : UnlinkDelayed(p)
  <2>1. PICK p \in Polls :
           /\ FileSet("delayed", moving[p][1], Absent)
           /\ moving[p][1] \in accepted
           /\ UNCHANGED <<adding, accepted>>
    BY <1>7, UnlinkDelayedDoes DEF UnlinkDelayed, NewMoves, MovesKnown
  <2>2. QED
    BY <2>1, <1>a DEF FileSet, Dirs, NewFiles, Absent, Torn, Whole
<1>8. CASE \E p \in Polls, j \in Jobs : BeginActive(p, j)
  <2>1. PICK p \in Polls, j \in Jobs :
           /\ FileSet("active", j, Torn)
           /\ j \in accepted
           /\ UNCHANGED <<adding, accepted>>
    BY <1>8, BeginActiveDoes DEF BeginActive, NewRuns, Holds
  <2>2. QED
    BY <2>1, <1>a DEF FileSet, Dirs, NewFiles, Absent, Torn, Whole
<1>9. CASE \E p \in Polls, j \in Jobs : EndActive(p, j)
  <2>1. PICK p \in Polls, j \in Jobs :
           /\ FileSet("active", j, mem[p][j])
           /\ j \in accepted
           /\ UNCHANGED <<adding, accepted>>
    BY <1>9, EndActiveDoes DEF EndActive, NewRuns, Holds
  <2>2. QED
    BY <2>1, <1>a DEF FileSet, Dirs, NewFiles, Absent, Torn, Whole
<1>10. CASE \E p \in Polls, j \in Jobs : UnlinkWaiting(p, j)
  BY <1>10, UnlinkWaitingDoes, <1>a DEF UnlinkWaiting, FileSet, Dirs,
     NewFiles, Absent, Torn, Whole, fileVars
<1>11. CASE \E p \in Polls, j \in Jobs : BeginOut(p, j)
  <2>1. PICK p \in Polls, j \in Jobs :
           /\ FileSet(dest[p][j], j, Torn)
           /\ dest[p][j] \in Dirs
           /\ j \in accepted
           /\ UNCHANGED <<adding, accepted>>
    BY <1>11, BeginOutDoes, EarnedBase DEF BeginOut, NewRuns, Holds
  <2>2. QED
    BY <2>1, <1>a DEF FileSet, Dirs, NewFiles, Absent, Torn, Whole
<1>12. CASE \E p \in Polls, j \in Jobs : EndOut(p, j)
  <2>1. PICK p \in Polls, j \in Jobs :
           /\ FileSet(dest[p][j], j, mem[p][j])
           /\ dest[p][j] \in Dirs
           /\ j \in accepted
           /\ UNCHANGED <<adding, accepted>>
    BY <1>12, EndOutDoes, EarnedBase DEF EndOut, NewRuns, Holds
  <2>2. QED
    BY <2>1, <1>a DEF FileSet, Dirs, NewFiles, Absent, Torn, Whole
<1>13. CASE \E p \in Polls, j \in Jobs : UnlinkActive(p, j)
  BY <1>13, UnlinkActiveDoes, <1>a DEF UnlinkActive, FileSet, Dirs, NewFiles,
     Absent, Torn, Whole, fileVars
<1>14. CASE \E d \in Dirs, j \in Jobs : CleanUp(d, j)
  BY <1>14, CleanUpDoes, <1>a DEF CleanUp, FileSet, Dirs, NewFiles, Absent,
     Torn, Whole, fileVars
<1>15. CASE Crash
  BY <1>15, <1>a DEF Crash, FileSet, Dirs, NewFiles, Absent, Torn, Whole,
     fileVars
<1>16. CASE \E j \in Jobs : BeginRecover(j)
  <2>1. PICK j \in Jobs :
           /\ FileSet("waiting", j, Torn)
           /\ j \in accepted
           /\ UNCHANGED <<adding, accepted>>
    BY <1>16, BeginRecoverDoes DEF BeginRecover, NewMoves
  <2>2. QED
    BY <2>1, <1>a DEF FileSet, Dirs, NewFiles, Absent, Torn, Whole
<1>17. CASE EndRecover
  <2>1. /\ FileSet("waiting", saved[1], saved[2])
        /\ saved[1] \in accepted
        /\ UNCHANGED <<adding, accepted>>
    BY <1>17, EndRecoverDoes DEF EndRecover, NewMoves, MovesKnown
  <2>2. QED
    BY <2>1, <1>a DEF FileSet, Dirs, NewFiles, Absent, Torn, Whole
<1>18. CASE UnlinkRecovered
  BY <1>18, UnlinkRecoveredDoes, <1>a DEF UnlinkRecovered, FileSet, Dirs,
     NewFiles, Absent, Torn, Whole, fileVars
<1>19. QED
  BY <1>1, <1>2, <1>3, <1>4, <1>5, <1>6, <1>7, <1>8, <1>9, <1>10, <1>11,
     <1>12, <1>13, <1>14, <1>15, <1>16, <1>17, <1>18, FileWriters,
     AddingWriters, AcceptedWriters

LEMMA NewRunsKept ==
  ASSUME TypeOK, Bounds, New, [Next]_vars
  PROVE  NewRuns'
<1> NewFiles /\ NewRuns /\ NewMoves /\ MovesKnown /\ WayOut
  BY DEF New, Bounds
<1>a. \A j \in Jobs \ accepted' : j \in Jobs \ accepted
  BY AcceptedWriters DEF EndAdd
<1>1. CASE UNCHANGED <<run, ok>>
  BY <1>1, <1>a DEF RunSet, NewRuns, Holds
<1>2. CASE \E p \in Polls : PickJobs(p)
  <2>1. PICK p \in Polls :
           /\ \A q \in Polls, j \in Jobs : q # p => run'[q][j] = run[q][j]
           /\ \A j \in Jobs :
                run'[p][j] = IF j \in FirstOf(Listed("waiting"), slots[p])
                             THEN "listed" ELSE "none"
           /\ scan[p] = "counted"
           /\ UNCHANGED ok
    BY <1>2, PickJobsDoes DEF PickJobs, histVars
  <2>2. QED
    BY <2>1, <1>a DEF RunSet, NewRuns, Holds
<1>3. CASE \E p \in Polls, j \in Jobs : ReadNothing(p, j)
  BY <1>3, ReadNothingDoes, <1>a DEF ReadNothing, RunSet, NewRuns, Holds,
     histVars
<1>4. CASE \E p \in Polls, j \in Jobs : ReadWaiting(p, j)
  <2>1. PICK p \in Polls, j \in Jobs :
           /\ RunSet(p, j, "read")
           /\ j \in accepted
           /\ UNCHANGED ok
    BY <1>4, ReadWaitingDoes DEF ReadWaiting, NewFiles, histVars
  <2>2. QED
    BY <2>1, <1>a DEF RunSet, NewRuns, Holds
<1>5. CASE \E p \in Polls, j \in Jobs : BeginActive(p, j)
  BY <1>5, BeginActiveDoes, <1>a DEF BeginActive, RunSet, NewRuns, Holds,
     histVars
<1>6. CASE \E p \in Polls, j \in Jobs : EndActive(p, j)
  BY <1>6, EndActiveDoes, <1>a DEF EndActive, RunSet, NewRuns, Holds,
     histVars
<1>7. CASE \E p \in Polls, j \in Jobs : ActiveFails(p, j)
  BY <1>7, ActiveFailsDoes, <1>a DEF ActiveFails, RunSet, NewRuns, Holds,
     histVars
<1>8. CASE \E p \in Polls, j \in Jobs : UnlinkWaiting(p, j)
  BY <1>8, UnlinkWaitingDoes, <1>a DEF UnlinkWaiting, RunSet, NewRuns, Holds,
     histVars
<1>9. CASE \E p \in Polls, j \in Jobs : ProcessorReturns(p, j)
  BY <1>9, ProcessorReturnsDoes, <1>a DEF ProcessorReturns, RunSet, NewRuns,
     Holds
<1>10. CASE \E p \in Polls, j \in Jobs : ProcessorThrows(p, j)
  <2>1. PICK p \in Polls, j \in Jobs :
           /\ run[p][j] = "running"
           /\ RunSet(p, j, "decided")
           /\ UNCHANGED ok
    BY <1>10, ProcessorThrowsDoes DEF ProcessorThrows, histVars
  <2>2. QED
    BY <2>1, <1>a DEF RunSet, NewRuns, Holds
<1>11. CASE \E p \in Polls, j \in Jobs : DropJob(p, j)
  BY <1>11, DropJobDoes, <1>a DEF DropJob, RunSet, NewRuns, Holds, histVars
<1>12. CASE \E p \in Polls, j \in Jobs : BeginOut(p, j)
  BY <1>12, BeginOutDoes, <1>a DEF BeginOut, RunSet, NewRuns, Holds, histVars
<1>13. CASE \E p \in Polls, j \in Jobs : EndOut(p, j)
  BY <1>13, EndOutDoes, <1>a DEF EndOut, RunSet, NewRuns, Holds, histVars
<1>14. CASE \E p \in Polls, j \in Jobs : OutFails(p, j)
  BY <1>14, OutFailsDoes, <1>a DEF OutFails, RunSet, NewRuns, Holds, histVars
<1>15. CASE \E p \in Polls, j \in Jobs : UnlinkActive(p, j)
  BY <1>15, UnlinkActiveDoes, <1>a DEF UnlinkActive, RunSet, NewRuns, Holds,
     histVars
<1>16. CASE Crash
  BY <1>16, <1>a DEF Crash, RunSet, NewRuns, Holds, histVars
<1>17. QED
  BY <1>1, <1>2, <1>3, <1>4, <1>5, <1>6, <1>7, <1>8, <1>9, <1>10, <1>11,
     <1>12, <1>13, <1>14, <1>15, <1>16, RunWriters, OkWriters

LEMMA NewMovesKept ==
  ASSUME TypeOK, Bounds, New, [Next]_vars
  PROVE  NewMoves'
<1> NewFiles /\ NewRuns /\ NewMoves /\ MovesKnown /\ WayOut
  BY DEF New, Bounds
<1>a. \A j \in Jobs \ accepted' : j \in Jobs \ accepted
  BY AcceptedWriters DEF EndAdd
<1>1. CASE UNCHANGED <<list, moving, todo, saved>>
  BY <1>1, <1>a DEF Becomes, NewMoves
<1>2. CASE \E p \in Polls : Tick(p)
  <2>1. PICK p \in Polls :
           /\ Becomes(list, list', p, Listed("delayed"))
           /\ UNCHANGED <<moving, todo, saved>>
    BY <1>2, TickDoes DEF Tick, bootVars
  <2>2. \A i \in Jobs \ accepted : i \notin Listed("delayed")
    BY <2>1 DEF Listed, NewFiles
  <2>3. QED
    BY <2>1, <2>2, <1>a DEF Becomes, NewMoves
<1>3. CASE \E p \in Polls, j \in Jobs : SkipDelayed(p, j)
  BY <1>3, SkipDelayedDoes, <1>a DEF SkipDelayed, Becomes, NewMoves,
     pollVars, bootVars
<1>4. CASE \E p \in Polls, j \in Jobs : AbortPoll(p, j)
  BY <1>4, AbortPollDoes, <1>a DEF AbortPoll, Becomes, NewMoves, pollVars,
     bootVars
<1>5. CASE \E p \in Polls, j \in Jobs : BeginPromote(p, j)
  <2>1. PICK p \in Polls, j \in Jobs :
           /\ Becomes(list, list', p, list[p] \ {j})
           /\ Becomes(moving, moving', p, <<j, file["delayed"][j]>>)
           /\ j \in list[p]
           /\ UNCHANGED <<todo, saved>>
    BY <1>5, BeginPromoteDoes DEF BeginPromote, bootVars
  <2>2. QED
    BY <2>1, <1>a DEF Becomes, NewMoves
<1>6. CASE \E p \in Polls : PromoteFails(p)
  BY <1>6, PromoteFailsDoes, <1>a DEF PromoteFails, Becomes, NewMoves,
     bootVars
<1>7. CASE \E p \in Polls : UnlinkDelayed(p)
  BY <1>7, UnlinkDelayedDoes, <1>a DEF UnlinkDelayed, Becomes, NewMoves,
     pollVars, bootVars
<1>8. CASE Crash
  BY <1>8, <1>a DEF Crash, Listed, NewFiles, NoMove, Becomes, NewMoves
<1>9. CASE \E j \in Jobs : SkipActive(j)
  BY <1>9, <1>a DEF SkipActive, Becomes, NewMoves, pollVars, bootVars
<1>10. CASE \E j \in Jobs : BeginRecover(j)
  BY <1>10, BeginRecoverDoes, <1>a DEF BeginRecover, Becomes, NewMoves,
     pollVars
<1>11. CASE UnlinkRecovered
  BY <1>11, UnlinkRecoveredDoes, <1>a DEF UnlinkRecovered, Becomes, NewMoves,
     pollVars, bootVars
<1>r. CASE RecoverFails
  BY <1>r, <1>a DEF RecoverFails, NewMoves, pollVars, fileVars
<1>12. QED
  BY <1>r, <1>1, <1>2, <1>3, <1>4, <1>5, <1>6, <1>7, <1>8, <1>9, <1>10, <1>11,
     ListWriters, MovingWriters, TodoWriters, SavedWriters

-----------------------------------------------------------------------------
(* Without scans that overlap: who is at work at the same time.             *)

Walking == {"delayed", "moving", "unlinkDelayed", "counted"}

Apart ==
  /\ \A p, q \in Polls : scan[p] \in Walking /\ scan[q] \in Walking => p = q
  /\ \A p, q \in Polls, i \in Jobs : scan[p] \in Walking => run[q][i] \notin Picking
  /\ \A p, q \in Polls, i, j \in Jobs :
       run[p][i] \in Picking /\ run[q][j] \in Picking => p = q
  /\ \A p \in Polls, j \in Jobs :
       boot # "up" => scan[p] \notin Walking /\ run[p][j] = "none"

LEMMA ScansApart ==
  ASSUME TypeOK, Quiet, OneScan, ~SlowDisk
  PROVE  Apart
<1>1. \A p, q \in Polls : Scanning(p) /\ Scanning(q) => p = q
  BY DEF OneScan
<1>2. \A p \in Polls : scan[p] \in Walking => Scanning(p)
  BY DEF Walking, Scanning
<1>3. \A p \in Polls, i \in Jobs : run[p][i] \in Picking =>
                                     Scanning(p) /\ scan[p] = "running"
  BY DEF Scanning, Picking, Quiet
<1>4. \A p \in Polls, j \in Jobs :
        boot # "up" => scan[p] \notin Walking /\ run[p][j] = "none"
  BY DEF Quiet, Walking
<1>5. \A p, q \in Polls, i \in Jobs : scan[p] \in Walking => run[q][i] \notin Picking
  BY <1>1, <1>2, <1>3 DEF Walking
<1>6. QED
  BY <1>1, <1>2, <1>3, <1>4, <1>5 DEF Apart

(* Before the first crash a job has one file the queue would run it from,    *)
(* but for the moves under way.                                             *)
Unbroken == ~SlowDisk /\ crashes = 0

Moving(p, j) == scan[p] = "moving" /\ moving[p][1] = j
Unlinking(p, j) == scan[p] = "unlinkDelayed" /\ moving[p][1] = j

OneFile ==
  \A j \in Jobs : Whole("waiting", j) /\ Whole("delayed", j) =>
                    \E q \in Polls : Unlinking(q, j)
RunHasFile ==
  \A p \in Polls, j \in Jobs :
    /\ Holds(p, j) /\ run[p][j] # "unlinkActive" => ~Whole("delayed", j)
    /\ run[p][j] \in {"running"} \cup Leaving => ~Whole("waiting", j)
MoveHasFile ==
  \A p \in Polls, j \in Jobs :
    /\ Moving(p, j) \/ Unlinking(p, j) => \A q \in Polls : ~Holds(q, j)
    /\ Moving(p, j) => Whole("delayed", j)

OnePlace == boot = "up" /\ OneFile /\ RunHasFile /\ MoveHasFile

(* A job is run at most once at a time when one slot is all there is, or no *)
(* crash has left a job in two directories.                                 *)
Calm == ~SlowDisk /\ (Concurrency = 1 \/ crashes = 0)

Alone ==
  \A p, q \in Polls, j \in Jobs : Holds(p, j) /\ Holds(q, j) => p = q

LEMMA ReadsAlone ==
  ASSUME TypeOK, Apart, Counted, SlotsLeft, Calm, Unbroken => OnePlace,
         NEW p \in Polls, NEW j \in Jobs,
         run[p][j] = "listed", Whole("waiting", j)
  PROVE  \A q \in Polls : ~Holds(q, j)
<1>1. CASE Concurrency = 1
  <2>1. /\ IsFiniteSet(ListedBy(p)) /\ j \in ListedBy(p)
        /\ Cardinality(ListedBy(p)) + active <= 1
    BY <1>1 DEF SlotsLeft, Calm, ListedBy
  <2>2. Cardinality(ListedBy(p)) \in Nat /\ Cardinality(ListedBy(p)) # 0
    BY <2>1, FS_CardinalityType, FS_EmptySet
  <2>3. Cardinality(Holders) = 0
    BY <2>1, <2>2, Types, FS_CardinalityType DEF Counted
  <2>4. Holders = {}
    BY <2>3, FS_EmptySet DEF Counted
  <2>5. \A q \in Polls : Holds(q, j) => <<q, j>> \in Holders
    BY DEF Holders
  <2>6. QED
    BY <2>4, <2>5
<1>2. CASE crashes = 0
  <2>1. RunHasFile
    BY <1>2 DEF Calm, Unbroken, OnePlace
  <2>2. \A q \in Polls : run[q][j] \in Picking => p = q
    BY DEF Apart, Picking
  <2>3. \A q \in Polls : run[q][j] \in RunSteps
    BY Types DEF Runs
  <2>4. QED
    BY <2>1, <2>2, <2>3 DEF RunHasFile, Holds, RunSteps
<1>3. QED
  BY <1>1, <1>2 DEF Calm

LEMMA AloneKept ==
  ASSUME TypeOK, Bounds, Quiet, Apart, Counted, SlotsLeft,
         Unbroken => OnePlace, Calm, Alone, [Next]_vars
  PROVE  Alone'
<1>1. CASE UNCHANGED run
  BY <1>1 DEF RunSet, Alone, Holds
<1>2. CASE \E p \in Polls : PickJobs(p)
  <2>1. PICK p \in Polls :
           /\ \A q \in Polls, j \in Jobs : q # p => run'[q][j] = run[q][j]
           /\ \A j \in Jobs :
                run'[p][j] = IF j \in FirstOf(Listed("waiting"), slots[p])
                             THEN "listed" ELSE "none"
           /\ scan[p] = "counted"
    BY <1>2, PickJobsDoes DEF PickJobs
  <2>2. QED
    BY <2>1 DEF RunSet, Alone, Holds, Quiet
<1>3. CASE \E p \in Polls, j \in Jobs : ReadNothing(p, j)
  BY <1>3, ReadNothingDoes DEF ReadNothing, RunSet, Alone, Holds
<1>4. CASE \E p \in Polls, j \in Jobs : ReadWaiting(p, j)
  <2>1. PICK p \in Polls, j \in Jobs :
           /\ run[p][j] = "listed"
           /\ RunSet(p, j, "read")
           /\ \A q \in Polls : ~Holds(q, j)
    BY <1>4, ReadWaitingDoes, ReadsAlone DEF ReadWaiting
  <2>2. QED
    BY <2>1 DEF RunSet, Alone, Holds
<1>5. CASE \E p \in Polls, j \in Jobs : BeginActive(p, j)
  BY <1>5, BeginActiveDoes DEF BeginActive, RunSet, Alone, Holds
<1>6. CASE \E p \in Polls, j \in Jobs : EndActive(p, j)
  BY <1>6, EndActiveDoes DEF EndActive, RunSet, Alone, Holds
<1>7. CASE \E p \in Polls, j \in Jobs : ActiveFails(p, j)
  BY <1>7, ActiveFailsDoes DEF ActiveFails, RunSet, Alone, Holds
<1>8. CASE \E p \in Polls, j \in Jobs : UnlinkWaiting(p, j)
  BY <1>8, UnlinkWaitingDoes DEF UnlinkWaiting, RunSet, Alone, Holds
<1>9. CASE \E p \in Polls, j \in Jobs : ProcessorReturns(p, j)
  BY <1>9, ProcessorReturnsDoes DEF ProcessorReturns, RunSet, Alone, Holds
<1>10. CASE \E p \in Polls, j \in Jobs : ProcessorThrows(p, j)
  <2>1. PICK p \in Polls, j \in Jobs :
           /\ run[p][j] = "running"
           /\ RunSet(p, j, "decided")
    BY <1>10, ProcessorThrowsDoes DEF ProcessorThrows
  <2>2. QED
    BY <2>1 DEF RunSet, Alone, Holds
<1>11. CASE \E p \in Polls, j \in Jobs : DropJob(p, j)
  BY <1>11, DropJobDoes DEF DropJob, RunSet, Alone, Holds
<1>12. CASE \E p \in Polls, j \in Jobs : BeginOut(p, j)
  BY <1>12, BeginOutDoes DEF BeginOut, RunSet, Alone, Holds
<1>13. CASE \E p \in Polls, j \in Jobs : EndOut(p, j)
  BY <1>13, EndOutDoes DEF EndOut, RunSet, Alone, Holds
<1>14. CASE \E p \in Polls, j \in Jobs : OutFails(p, j)
  BY <1>14, OutFailsDoes DEF OutFails, RunSet, Alone, Holds
<1>15. CASE \E p \in Polls, j \in Jobs : UnlinkActive(p, j)
  BY <1>15, UnlinkActiveDoes DEF UnlinkActive, RunSet, Alone, Holds
<1>16. CASE Crash
  BY <1>16 DEF Crash, RunSet, Alone, Holds
<1>17. QED
  BY <1>1, <1>2, <1>3, <1>4, <1>5, <1>6, <1>7, <1>8, <1>9, <1>10, <1>11,
     <1>12, <1>13, <1>14, <1>15, <1>16, RunWriters

LEMMA OneFileKept ==
  ASSUME TypeOK, Bounds, Quiet, Apart, New, Alone, Unbroken, OnePlace,
         crashes' = 0, [Next]_vars
  PROVE  OneFile'
<1> /\ boot = "up" /\ OneFile /\ RunHasFile /\ MoveHasFile
  BY DEF OnePlace
<1>a. crashes = 0 /\ crashes' = 0
  BY DEF Unbroken
<1>1. CASE UNCHANGED <<file, scan, moving>>
  BY <1>1 DEF FileSet, Becomes, OneFile, Unlinking, Whole, Dirs, Absent, Torn
<1>2. CASE \E j \in Jobs : BeginAdd(j)
  BY <1>2, BeginAddDoes DEF BeginAdd, FileSet, Becomes, OneFile, Unlinking,
     Whole, Dirs, Absent, Torn, pollVars
<1>3. CASE \E j \in Jobs : EndAdd(j)
  <2>1. PICK j \in Jobs :
           /\ FileSet("waiting", j, 0)
           /\ file["delayed"][j] = Absent
           /\ UNCHANGED <<scan, moving>>
    BY <1>3, EndAddDoes DEF EndAdd, New, NewFiles, pollVars
  <2>2. QED
    BY <2>1 DEF FileSet, Becomes, OneFile, Unlinking, Whole, Dirs, Absent,
       Torn
<1>4. CASE \E p \in Polls : Tick(p)
  BY <1>4, TickDoes DEF Tick, FileSet, Becomes, OneFile, Unlinking, Whole,
     Dirs, Absent, Torn, fileVars, pollVars
<1>5. CASE \E p \in Polls, j \in Jobs : AbortPoll(p, j)
  BY <1>5, AbortPollDoes DEF AbortPoll, FileSet, Becomes, OneFile, Unlinking,
     Whole, Dirs, Absent, Torn, fileVars, pollVars
<1>6. CASE \E p \in Polls, j \in Jobs : BeginPromote(p, j)
  <2>1. PICK p \in Polls, j \in Jobs :
           /\ Becomes(scan, scan', p, "moving")
           /\ Becomes(moving, moving', p, <<j, file["delayed"][j]>>)
           /\ FileSet("waiting", j, Torn)
           /\ scan[p] = "delayed"
    BY <1>6, BeginPromoteDoes DEF BeginPromote
  <2>2. QED
    BY <2>1 DEF FileSet, Becomes, OneFile, Unlinking, Whole, Dirs, Absent,
       Torn, Walking, Apart
<1>7. CASE \E p \in Polls : EndPromote(p)
  <2>1. PICK p \in Polls :
           /\ Becomes(scan, scan', p, "unlinkDelayed")
           /\ FileSet("waiting", moving[p][1], moving[p][2])
           /\ scan[p] = "moving"
           /\ moving[p][1] \in Jobs
           /\ UNCHANGED moving
    BY <1>7, EndPromoteDoes DEF EndPromote, pollVars
  <2>2. QED
    BY <2>1 DEF FileSet, Becomes, OneFile, Unlinking, Whole, Dirs, Absent,
       Torn, Walking, Apart
<1>8. CASE \E p \in Polls : PromoteFails(p)
  BY <1>8, PromoteFailsDoes DEF PromoteFails, FileSet, Becomes, OneFile,
     Unlinking, Whole, Dirs, Absent, Torn, fileVars
<1>9. CASE \E p \in Polls : UnlinkDelayed(p)
  <2>1. PICK p \in Polls :
           /\ Becomes(scan, scan', p, "delayed")
           /\ Becomes(moving, moving', p, NoMove)
           /\ FileSet("delayed", moving[p][1], Absent)
           /\ scan[p] = "unlinkDelayed"
           /\ moving[p][1] \in Jobs
    BY <1>9, UnlinkDelayedDoes DEF UnlinkDelayed
  <2>2. QED
    BY <2>1 DEF FileSet, Becomes, OneFile, Unlinking, Whole, Dirs, Absent,
       Torn, Walking, Apart
<1>10. CASE \E p \in Polls : CountSlots(p)
  <2>1. PICK p \in Polls :
           /\ \/ Becomes(scan, scan', p, "counted")
              \/ Becomes(scan, scan', p, "idle")
           /\ scan[p] = "delayed"
           /\ UNCHANGED <<file, moving>>
    BY <1>10, CountSlotsDoes DEF CountSlots, fileVars, pollVars
  <2>2. QED
    BY <2>1 DEF FileSet, Becomes, OneFile, Unlinking, Whole, Dirs, Absent,
       Torn
<1>11. CASE \E p \in Polls : PickJobs(p)
  <2>1. PICK p \in Polls :
           /\ Becomes(scan, scan', p, "running")
           /\ scan[p] = "counted"
           /\ UNCHANGED <<file, moving>>
    BY <1>11, PickJobsDoes DEF PickJobs, fileVars, pollVars
  <2>2. QED
    BY <2>1 DEF FileSet, Becomes, OneFile, Unlinking, Whole, Dirs, Absent,
       Torn
<1>12. CASE \E p \in Polls : EndPoll(p)
  BY <1>12, EndPollDoes DEF EndPoll, FileSet, Becomes, OneFile, Unlinking,
     Whole, Dirs, Absent, Torn, fileVars, pollVars
<1>13. CASE \E p \in Polls, j \in Jobs : BeginActive(p, j)
  BY <1>13, BeginActiveDoes DEF BeginActive, FileSet, Becomes, OneFile,
     Unlinking, Whole, Dirs, Absent, Torn, pollVars
<1>14. CASE \E p \in Polls, j \in Jobs : EndActive(p, j)
  BY <1>14, EndActiveDoes DEF EndActive, FileSet, Becomes, OneFile,
     Unlinking, Whole, Dirs, Absent, Torn, pollVars
<1>15. CASE \E p \in Polls, j \in Jobs : UnlinkWaiting(p, j)
  BY <1>15, UnlinkWaitingDoes DEF UnlinkWaiting, FileSet, Becomes, OneFile,
     Unlinking, Whole, Dirs, Absent, Torn, pollVars
<1>16. CASE \E p \in Polls, j \in Jobs : BeginOut(p, j)
  BY <1>16, BeginOutDoes DEF BeginOut, FileSet, Becomes, OneFile, Unlinking,
     Whole, Dirs, Absent, Torn, pollVars
<1>17. CASE \E p \in Polls, j \in Jobs : EndOut(p, j)
  <2>1. PICK p \in Polls, j \in Jobs :
           /\ FileSet(dest[p][j], j, mem[p][j])
           /\ dest[p][j] \in Dirs /\ dest[p][j] # "waiting"
           /\ ~Whole("waiting", j)
           /\ UNCHANGED <<scan, moving>>
    BY <1>17, EndOutDoes, EarnedBase DEF EndOut, Bounds, WayOut, RunHasFile,
       Leaving, pollVars
  <2>2. QED
    BY <2>1 DEF FileSet, Becomes, OneFile, Unlinking, Whole, Dirs, Absent,
       Torn
<1>18. CASE \E p \in Polls, j \in Jobs : UnlinkActive(p, j)
  BY <1>18, UnlinkActiveDoes DEF UnlinkActive, FileSet, Becomes, OneFile,
     Unlinking, Whole, Dirs, Absent, Torn, pollVars
<1>19. CASE \E d \in Dirs, j \in Jobs : CleanUp(d, j)
  BY <1>19, CleanUpDoes DEF CleanUp, FileSet, Becomes, OneFile, Unlinking,
     Whole, Dirs, Absent, Torn, pollVars
<1>20. CASE Crash
  BY <1>20, <1>a DEF Crash
<1>21. CASE \E j \in Jobs : BeginRecover(j)
  BY <1>21 DEF BeginRecover
<1>22. CASE EndRecover
  BY <1>22 DEF EndRecover
<1>23. CASE UnlinkRecovered
  BY <1>23 DEF UnlinkRecovered
<1>24. QED
  BY <1>1, <1>2, <1>3, <1>4, <1>5, <1>6, <1>7, <1>8, <1>9, <1>10, <1>11,
     <1>12, <1>13, <1>14, <1>15, <1>16, <1>17, <1>18, <1>19, <1>20, <1>21,
     <1>22, <1>23, FileWriters, ScanWriters, MovingWriters

LEMMA RunHasFileKept ==
  ASSUME TypeOK, Bounds, Quiet, Apart, New, Alone, Unbroken, OnePlace,
         crashes' = 0, [Next]_vars
  PROVE  RunHasFile'
<1> /\ boot = "up" /\ OneFile /\ RunHasFile /\ MoveHasFile
  BY DEF OnePlace
<1>a. crashes = 0 /\ crashes' = 0
  BY DEF Unbroken
<1>b. \A p, q \in Polls, j \in Jobs : run[p][j] = "listed" => scan[q] \notin Walking
  BY DEF Apart, Picking
<1>c. \A p \in Polls, j \in Jobs : run[p][j] = "listed" /\ Whole("waiting", j) =>
                                     ~Whole("delayed", j)
  BY <1>b DEF OneFile, Unlinking, Walking
<1>1. CASE UNCHANGED <<file, run>>
  BY <1>1 DEF FileSet, RunSet, RunHasFile, Holds, Whole, Dirs, Absent, Torn,
     Leaving
<1>2. CASE \E j \in Jobs : BeginAdd(j)
  BY <1>2, BeginAddDoes DEF BeginAdd, FileSet, RunSet, RunHasFile, Holds,
     Whole, Dirs, Absent, Torn, Leaving, runVars
<1>3. CASE \E j \in Jobs : EndAdd(j)
  <2>1. PICK j \in Jobs :
           /\ FileSet("waiting", j, 0)
           /\ \A q \in Polls : ~Holds(q, j)
           /\ UNCHANGED run
    BY <1>3, EndAddDoes DEF EndAdd, New, NewRuns, NewFiles, runVars
  <2>2. QED
    BY <2>1 DEF FileSet, RunSet, RunHasFile, Holds, Whole, Dirs, Absent,
       Torn, Leaving
<1>4. CASE \E p \in Polls, j \in Jobs : BeginPromote(p, j)
  <2>1. PICK p \in Polls, j \in Jobs :
           /\ FileSet("waiting", j, Torn)
           /\ scan[p] = "delayed"
           /\ UNCHANGED run
    BY <1>4, BeginPromoteDoes DEF BeginPromote, runVars
  <2>2. QED
    BY <2>1 DEF FileSet, RunSet, RunHasFile, Holds, Whole, Dirs, Absent,
       Torn, Leaving
<1>5. CASE \E p \in Polls : EndPromote(p)
  <2>1. PICK p \in Polls :
           /\ FileSet("waiting", moving[p][1], moving[p][2])
           /\ scan[p] = "moving"
           /\ moving[p][1] \in Jobs
           /\ \A q \in Polls : ~Holds(q, moving[p][1])
           /\ UNCHANGED run
    BY <1>5, EndPromoteDoes DEF EndPromote, runVars, MoveHasFile, Moving
  <2>2. QED
    BY <2>1 DEF FileSet, RunSet, RunHasFile, Holds, Whole, Dirs, Absent,
       Torn, Leaving
<1>6. CASE \E p \in Polls : UnlinkDelayed(p)
  <2>1. PICK p \in Polls :
           /\ FileSet("delayed", moving[p][1], Absent)
           /\ scan[p] = "unlinkDelayed"
           /\ moving[p][1] \in Jobs
           /\ UNCHANGED run
    BY <1>6, UnlinkDelayedDoes DEF UnlinkDelayed, runVars
  <2>2. QED
    BY <2>1 DEF FileSet, RunSet, RunHasFile, Holds, Whole, Dirs, Absent,
       Torn, Leaving
<1>7. CASE \E p \in Polls : PickJobs(p)
  <2>1. PICK p \in Polls :
           /\ \A q \in Polls, j \in Jobs : q # p => run'[q][j] = run[q][j]
           /\ \A j \in Jobs :
                run'[p][j] = IF j \in FirstOf(Listed("waiting"), slots[p])
                             THEN "listed" ELSE "none"
           /\ scan[p] = "counted"
           /\ UNCHANGED file
    BY <1>7, PickJobsDoes DEF PickJobs, fileVars
  <2>2. QED
    BY <2>1 DEF FileSet, RunSet, RunHasFile, Holds, Whole, Dirs, Absent,
       Torn, Leaving
<1>8. CASE \E p \in Polls, j \in Jobs : ReadNothing(p, j)
  BY <1>8, ReadNothingDoes DEF ReadNothing, FileSet, RunSet, RunHasFile,
     Holds, Whole, Dirs, Absent, Torn, Leaving, fileVars
<1>9. CASE \E p \in Polls, j \in Jobs : ReadWaiting(p, j)
  <2>1. PICK p \in Polls, j \in Jobs :
           /\ run[p][j] = "listed"
           /\ RunSet(p, j, "read")
           /\ ~Whole("delayed", j)
           /\ UNCHANGED file
    BY <1>9, ReadWaitingDoes, <1>c DEF ReadWaiting, fileVars
  <2>2. QED
    BY <2>1 DEF FileSet, RunSet, RunHasFile, Holds, Whole, Dirs, Absent,
       Torn, Leaving
<1>10. CASE \E p \in Polls, j \in Jobs : BeginActive(p, j)
  BY <1>10, BeginActiveDoes DEF BeginActive, FileSet, RunSet, RunHasFile,
     Holds, Whole, Dirs, Absent, Torn, Leaving
<1>11. CASE \E p \in Polls, j \in Jobs : EndActive(p, j)
  BY <1>11, EndActiveDoes DEF EndActive, FileSet, RunSet, RunHasFile, Holds,
     Whole, Dirs, Absent, Torn, Leaving
<1>12. CASE \E p \in Polls, j \in Jobs : ActiveFails(p, j)
  BY <1>12, ActiveFailsDoes DEF ActiveFails, FileSet, RunSet, RunHasFile,
     Holds, Whole, Dirs, Absent, Torn, Leaving, fileVars
<1>13. CASE \E p \in Polls, j \in Jobs : UnlinkWaiting(p, j)
  BY <1>13, UnlinkWaitingDoes DEF UnlinkWaiting, FileSet, RunSet, RunHasFile,
     Holds, Whole, Dirs, Absent, Torn, Leaving
<1>14. CASE \E p \in Polls, j \in Jobs : ProcessorReturns(p, j)
  BY <1>14, ProcessorReturnsDoes DEF ProcessorReturns, FileSet, RunSet,
     RunHasFile, Holds, Whole, Dirs, Absent, Torn, Leaving, fileVars
<1>15. CASE \E p \in Polls, j \in Jobs : ProcessorThrows(p, j)
  <2>1. PICK p \in Polls, j \in Jobs :
           /\ run[p][j] = "running"
           /\ RunSet(p, j, "decided")
           /\ UNCHANGED file
    BY <1>15, ProcessorThrowsDoes DEF ProcessorThrows, fileVars
  <2>2. QED
    BY <2>1 DEF FileSet, RunSet, RunHasFile, Holds, Whole, Dirs, Absent,
       Torn, Leaving
<1>16. CASE \E p \in Polls, j \in Jobs : DropJob(p, j)
  BY <1>16, DropJobDoes DEF DropJob, FileSet, RunSet, RunHasFile, Holds,
     Whole, Dirs, Absent, Torn, Leaving, fileVars
<1>17. CASE \E p \in Polls, j \in Jobs : BeginOut(p, j)
  BY <1>17, BeginOutDoes DEF BeginOut, FileSet, RunSet, RunHasFile, Holds,
     Whole, Dirs, Absent, Torn, Leaving
<1>18. CASE \E p \in Polls, j \in Jobs : EndOut(p, j)
  <2>1. PICK p \in Polls, j \in Jobs :
           /\ run[p][j] = "writeOut"
           /\ RunSet(p, j, "unlinkActive")
           /\ FileSet(dest[p][j], j, mem[p][j])
           /\ dest[p][j] \in Dirs /\ dest[p][j] # "waiting"
           /\ \A q \in Polls : Holds(q, j) => q = p
    BY <1>18, EndOutDoes, EarnedBase DEF EndOut, Bounds, WayOut, Alone, Holds,
       Leaving
  <2>2. QED
    BY <2>1 DEF FileSet, RunSet, RunHasFile, Holds, Whole, Dirs, Absent,
       Torn, Leaving
<1>19. CASE \E p \in Polls, j \in Jobs : OutFails(p, j)
  BY <1>19, OutFailsDoes DEF OutFails, FileSet, RunSet, RunHasFile, Holds,
     Whole, Dirs, Absent, Torn, Leaving, fileVars
<1>20. CASE \E p \in Polls, j \in Jobs : UnlinkActive(p, j)
  BY <1>20, UnlinkActiveDoes DEF UnlinkActive, FileSet, RunSet, RunHasFile,
     Holds, Whole, Dirs, Absent, Torn, Leaving
<1>21. CASE \E d \in Dirs, j \in Jobs : CleanUp(d, j)
  BY <1>21, CleanUpDoes DEF CleanUp, FileSet, RunSet, RunHasFile, Holds,
     Whole, Dirs, Absent, Torn, Leaving, runVars
<1>22. CASE Crash
  BY <1>22, <1>a DEF Crash
<1>23. CASE \E j \in Jobs : BeginRecover(j)
  BY <1>23 DEF BeginRecover
<1>24. CASE EndRecover
  BY <1>24 DEF EndRecover
<1>25. CASE UnlinkRecovered
  BY <1>25 DEF UnlinkRecovered
<1>26. QED
  BY <1>1, <1>2, <1>3, <1>4, <1>5, <1>6, <1>7, <1>8, <1>9, <1>10, <1>11,
     <1>12, <1>13, <1>14, <1>15, <1>16, <1>17, <1>18, <1>19, <1>20, <1>21,
     <1>22, <1>23, <1>24, <1>25, FileWriters, RunWriters

LEMMA MoveHasFileKept ==
  ASSUME TypeOK, Bounds, Quiet, Apart, New, Alone, Unbroken, OnePlace,
         crashes' = 0, [Next]_vars
  PROVE  MoveHasFile'
<1> /\ boot = "up" /\ OneFile /\ RunHasFile /\ MoveHasFile
  BY DEF OnePlace
<1>a. crashes = 0 /\ crashes' = 0
  BY DEF Unbroken
<1>b. \A p, q \in Polls, j \in Jobs : run[p][j] = "listed" => scan[q] \notin Walking
  BY DEF Apart, Picking
<1>c. \A p \in Polls, j \in Jobs : run[p][j] = "listed" /\ Whole("waiting", j) =>
                                     ~Whole("delayed", j)
  BY <1>b DEF OneFile, Unlinking, Walking
<1>d. \A j \in Jobs : /\ Whole("delayed", j)
                      /\ \A q \in Polls : run[q][j] \notin Leaving
                      => \A q \in Polls : ~Holds(q, j)
  BY DEF RunHasFile, Leaving
<1>e. \A p, q \in Polls : scan[p] \in Walking /\ scan[q] \in Walking => q = p
  BY DEF Apart
<1>1. CASE UNCHANGED <<file, scan, moving, run>>
  BY <1>1 DEF FileSet, RunSet, Becomes, MoveHasFile, Moving, Unlinking,
     Holds, Whole, Dirs
<1>2. CASE \E j \in Jobs : BeginAdd(j)
  BY <1>2, BeginAddDoes DEF BeginAdd, FileSet, RunSet, Becomes, MoveHasFile,
     Moving, Unlinking, Holds, Whole, Dirs, pollVars, runVars
<1>3. CASE \E j \in Jobs : EndAdd(j)
  BY <1>3, EndAddDoes DEF EndAdd, FileSet, RunSet, Becomes, MoveHasFile,
     Moving, Unlinking, Holds, Whole, Dirs, pollVars, runVars
<1>4. CASE \E p \in Polls : Tick(p)
  BY <1>4, TickDoes DEF Tick, FileSet, RunSet, Becomes, MoveHasFile, Moving,
     Unlinking, Holds, Whole, Dirs, fileVars, pollVars, runVars
<1>5. CASE \E p \in Polls, j \in Jobs : AbortPoll(p, j)
  BY <1>5, AbortPollDoes DEF AbortPoll, FileSet, RunSet, Becomes,
     MoveHasFile, Moving, Unlinking, Holds, Whole, Dirs, fileVars, pollVars,
     runVars
<1>6. CASE \E p \in Polls, j \in Jobs : BeginPromote(p, j)
  <2>1. PICK p \in Polls, j \in Jobs :
           /\ Becomes(scan, scan', p, "moving")
           /\ Becomes(moving, moving', p, <<j, file["delayed"][j]>>)
           /\ FileSet("waiting", j, Torn)
           /\ scan[p] = "delayed"
           /\ Whole("delayed", j)
           /\ \A q \in Polls : ~Holds(q, j)
           /\ moving'[p][1] = j
           /\ \A q \in Polls : scan[q] \in Walking => q = p
           /\ UNCHANGED run
    BY <1>6, BeginPromoteDoes, <1>d, <1>e DEF BeginPromote, runVars, Walking,
       Unbroken
  <2>2. QED
    BY <2>1 DEF FileSet, RunSet, Becomes, MoveHasFile, Moving, Unlinking,
       Holds, Whole, Dirs, Walking
<1>7. CASE \E p \in Polls : EndPromote(p)
  <2>1. PICK p \in Polls :
           /\ Becomes(scan, scan', p, "unlinkDelayed")
           /\ FileSet("waiting", moving[p][1], moving[p][2])
           /\ scan[p] = "moving"
           /\ moving[p][1] \in Jobs
           /\ \A q \in Polls : scan[q] \in Walking => q = p
           /\ UNCHANGED <<moving, run>>
    BY <1>7, EndPromoteDoes, <1>e DEF EndPromote, pollVars, runVars, Walking
  <2>2. QED
    BY <2>1 DEF FileSet, RunSet, Becomes, MoveHasFile, Moving, Unlinking,
       Holds, Whole, Dirs, Walking
<1>8. CASE \E p \in Polls : PromoteFails(p)
  <2>1. PICK p \in Polls :
           /\ Becomes(scan, scan', p, "idle")
           /\ Becomes(moving, moving', p, NoMove)
           /\ scan[p] \in {"delayed", "moving"}
           /\ \A q \in Polls : scan[q] \in Walking => q = p
           /\ UNCHANGED <<file, run>>
    BY <1>8, PromoteFailsDoes, <1>e DEF PromoteFails, fileVars, runVars,
       Walking
  <2>2. QED
    BY <2>1 DEF FileSet, RunSet, Becomes, MoveHasFile, Moving, Unlinking,
       Holds, Whole, Dirs, Walking
<1>9. CASE \E p \in Polls : UnlinkDelayed(p)
  <2>1. PICK p \in Polls :
           /\ Becomes(scan, scan', p, "delayed")
           /\ Becomes(moving, moving', p, NoMove)
           /\ FileSet("delayed", moving[p][1], Absent)
           /\ scan[p] = "unlinkDelayed"
           /\ moving[p][1] \in Jobs
           /\ \A q \in Polls : scan[q] \in Walking => q = p
           /\ UNCHANGED run
    BY <1>9, UnlinkDelayedDoes, <1>e DEF UnlinkDelayed, runVars, Walking
  <2>2. QED
    BY <2>1 DEF FileSet, RunSet, Becomes, MoveHasFile, Moving, Unlinking,
       Holds, Whole, Dirs, Walking
<1>10. CASE \E p \in Polls : CountSlots(p)
  <2>1. PICK p \in Polls :
           /\ \/ Becomes(scan, scan', p, "counted")
              \/ Becomes(scan, scan', p, "idle")
           /\ scan[p] = "delayed"
           /\ UNCHANGED <<file, moving, run>>
    BY <1>10, CountSlotsDoes DEF CountSlots, fileVars, pollVars, runVars
  <2>2. QED
    BY <2>1 DEF FileSet, RunSet, Becomes, MoveHasFile, Moving, Unlinking,
       Holds, Whole, Dirs
<1>11. CASE \E p \in Polls : PickJobs(p)
  <2>1. PICK p \in Polls :
           /\ Becomes(scan, scan', p, "running")
           /\ \A q \in Polls, j \in Jobs : q # p => run'[q][j] = run[q][j]
           /\ \A j \in Jobs :
                run'[p][j] = IF j \in FirstOf(Listed("waiting"), slots[p])
                             THEN "listed" ELSE "none"
           /\ scan[p] = "counted"
           /\ UNCHANGED <<file, moving>>
    BY <1>11, PickJobsDoes DEF PickJobs, fileVars, pollVars
  <2>2. QED
    BY <2>1 DEF FileSet, RunSet, Becomes, MoveHasFile, Moving, Unlinking,
       Holds, Whole, Dirs
<1>12. CASE \E p \in Polls : EndPoll(p)
  BY <1>12, EndPollDoes DEF EndPoll, FileSet, RunSet, Becomes, MoveHasFile,
     Moving, Unlinking, Holds, Whole, Dirs, fileVars, pollVars, runVars
<1>13. CASE \E p \in Polls, j \in Jobs : ReadNothing(p, j)
  BY <1>13, ReadNothingDoes DEF ReadNothing, FileSet, RunSet, Becomes,
     MoveHasFile, Moving, Unlinking, Holds, Whole, Dirs, fileVars, pollVars
<1>14. CASE \E p \in Polls, j \in Jobs : ReadWaiting(p, j)
  <2>1. PICK p \in Polls, j \in Jobs :
           /\ run[p][j] = "listed"
           /\ RunSet(p, j, "read")
           /\ \A q \in Polls : scan[q] \notin Walking
           /\ UNCHANGED <<file, scan, moving>>
    BY <1>14, ReadWaitingDoes, <1>b DEF ReadWaiting, fileVars, pollVars,
       runVars, bootVars, histVars
  <2>2. QED
    BY <2>1 DEF FileSet, RunSet, Becomes, MoveHasFile, Moving, Unlinking,
       Holds, Whole, Dirs, Walking
<1>15. CASE \E p \in Polls, j \in Jobs : BeginActive(p, j)
  BY <1>15, BeginActiveDoes DEF BeginActive, FileSet, RunSet, Becomes,
     MoveHasFile, Moving, Unlinking, Holds, Whole, Dirs, pollVars
<1>16. CASE \E p \in Polls, j \in Jobs : EndActive(p, j)
  BY <1>16, EndActiveDoes DEF EndActive, FileSet, RunSet, Becomes,
     MoveHasFile, Moving, Unlinking, Holds, Whole, Dirs, pollVars
<1>17. CASE \E p \in Polls, j \in Jobs : ActiveFails(p, j)
  BY <1>17, ActiveFailsDoes DEF ActiveFails, FileSet, RunSet, Becomes,
     MoveHasFile, Moving, Unlinking, Holds, Whole, Dirs, fileVars, pollVars
<1>18. CASE \E p \in Polls, j \in Jobs : UnlinkWaiting(p, j)
  BY <1>18, UnlinkWaitingDoes DEF UnlinkWaiting, FileSet, RunSet, Becomes,
     MoveHasFile, Moving, Unlinking, Holds, Whole, Dirs, pollVars
<1>19. CASE \E p \in Polls, j \in Jobs : ProcessorReturns(p, j)
  BY <1>19, ProcessorReturnsDoes DEF ProcessorReturns, FileSet, RunSet,
     Becomes, MoveHasFile, Moving, Unlinking, Holds, Whole, Dirs, fileVars,
     pollVars
<1>20. CASE \E p \in Polls, j \in Jobs : ProcessorThrows(p, j)
  <2>1. PICK p \in Polls, j \in Jobs :
           /\ run[p][j] = "running"
           /\ RunSet(p, j, "decided")
           /\ UNCHANGED <<file, scan, moving>>
    BY <1>20, ProcessorThrowsDoes DEF ProcessorThrows, fileVars, pollVars
  <2>2. QED
    BY <2>1 DEF FileSet, RunSet, Becomes, MoveHasFile, Moving, Unlinking,
       Holds, Whole, Dirs
<1>21. CASE \E p \in Polls, j \in Jobs : DropJob(p, j)
  BY <1>21, DropJobDoes DEF DropJob, FileSet, RunSet, Becomes, MoveHasFile,
     Moving, Unlinking, Holds, Whole, Dirs, fileVars, pollVars
<1>22. CASE \E p \in Polls, j \in Jobs : BeginOut(p, j)
  BY <1>22, BeginOutDoes DEF BeginOut, FileSet, RunSet, Becomes, MoveHasFile,
     Moving, Unlinking, Holds, Whole, Dirs, pollVars
<1>23. CASE \E p \in Polls, j \in Jobs : EndOut(p, j)
  BY <1>23, EndOutDoes DEF EndOut, FileSet, RunSet, Becomes, MoveHasFile,
     Moving, Unlinking, Holds, Whole, Dirs, pollVars
<1>24. CASE \E p \in Polls, j \in Jobs : OutFails(p, j)
  BY <1>24, OutFailsDoes DEF OutFails, FileSet, RunSet, Becomes, MoveHasFile,
     Moving, Unlinking, Holds, Whole, Dirs, fileVars, pollVars
<1>25. CASE \E p \in Polls, j \in Jobs : UnlinkActive(p, j)
  BY <1>25, UnlinkActiveDoes DEF UnlinkActive, FileSet, RunSet, Becomes,
     MoveHasFile, Moving, Unlinking, Holds, Whole, Dirs, pollVars
<1>26. CASE \E d \in Dirs, j \in Jobs : CleanUp(d, j)
  BY <1>26, CleanUpDoes DEF CleanUp, FileSet, RunSet, Becomes, MoveHasFile,
     Moving, Unlinking, Holds, Whole, Dirs, pollVars, runVars
<1>27. CASE Crash
  BY <1>27, <1>a DEF Crash
<1>28. CASE \E j \in Jobs : BeginRecover(j)
  BY <1>28 DEF BeginRecover
<1>29. CASE EndRecover
  BY <1>29 DEF EndRecover
<1>30. CASE UnlinkRecovered
  BY <1>30 DEF UnlinkRecovered
<1>31. QED
  BY <1>1, <1>2, <1>3, <1>4, <1>5, <1>6, <1>7, <1>8, <1>9, <1>10, <1>11,
     <1>12, <1>13, <1>14, <1>15, <1>16, <1>17, <1>18, <1>19, <1>20, <1>21,
     <1>22, <1>23, <1>24, <1>25, <1>26, <1>27, <1>28, <1>29, <1>30,
     FileWriters, ScanWriters, MovingWriters, RunWriters

-----------------------------------------------------------------------------
(* What keeps a readable file of a job while another one is written or       *)
(* unlinked.                                                                *)

PickGuard ==
  \A p \in Polls, j \in Jobs :
    run[p][j] \in {"read", "writeActive"} => Whole("waiting", j)
RunGuard ==
  \A p \in Polls, j \in Jobs :
    run[p][j] \in {"unlinkWaiting", "running", "decided", "writeOut"} =>
      Whole("active", j)
LeaveGuard ==
  \A p \in Polls, j \in Jobs :
    run[p][j] = "unlinkActive" =>
      Settled(j) \/ Whole("waiting", j) \/ Whole("delayed", j)
UnlinkGuard ==
  \A p \in Polls, j \in Jobs : Unlinking(p, j) => Whole("waiting", j)
MoveGuard ==
  \A p \in Polls, j \in Jobs : Moving(p, j) /\ ~Whole("delayed", j) =>
    /\ Whole("active", j)
    /\ \A q \in Polls :
         Holds(q, j) => run[q][j] = "writeOut" /\ dest[q][j] = "delayed"
BootGuard ==
  /\ boot = "writeWaiting" => Whole("active", saved[1])
  /\ boot = "unlinkActive" => Whole("waiting", saved[1])

Guarded ==
  /\ PickGuard /\ RunGuard /\ LeaveGuard
  /\ UnlinkGuard /\ MoveGuard /\ BootGuard

LEMMA PickGuardKept ==
  ASSUME TypeOK, Bounds, Quiet, Apart, New, Alone, Calm, Guarded, [Next]_vars
  PROVE  PickGuard'
<1> /\ PickGuard /\ RunGuard /\ LeaveGuard
    /\ UnlinkGuard /\ MoveGuard /\ BootGuard
  BY DEF Guarded
<1> NewFiles /\ NewRuns /\ NewMoves /\ MovesKnown /\ WayOut
  BY DEF New, Bounds
<1>a. \A p, q \in Polls, j \in Jobs :
        run[p][j] \in Picking => scan[q] \notin Walking
  BY DEF Apart
<1>b. \A p, q \in Polls : scan[p] \in Walking /\ scan[q] \in Walking => q = p
  BY DEF Apart
<1>c. \A p, q \in Polls, j \in Jobs : Holds(p, j) /\ Holds(q, j) => q = p
  BY DEF Alone
<1>d. \A p \in Polls, j \in Jobs :
        boot # "up" => scan[p] \notin Walking /\ run[p][j] = "none"
  BY DEF Apart
<1>1. CASE UNCHANGED <<run, file>>
  BY <1>1 DEF FileSet, Whole, Dirs, Absent, Torn, RunSet, PickGuard, Holds,
     Picking
<1>2. CASE \E j \in Jobs : BeginAdd(j)
  <2>1. PICK j \in Jobs :
           /\ FileSet("waiting", j, Torn)
           /\ \A q \in Polls : ~Holds(q, j)
           /\ UNCHANGED run
    BY <1>2, BeginAddDoes DEF BeginAdd, NewRuns, runVars
  <2>2. QED
    BY <2>1 DEF FileSet, Whole, Dirs, Absent, Torn, RunSet, PickGuard, Holds,
       Picking
<1>3. CASE \E j \in Jobs : EndAdd(j)
  BY <1>3, EndAddDoes DEF EndAdd, FileSet, Whole, Dirs, Absent, Torn, RunSet,
     PickGuard, Holds, Picking, runVars
<1>4. CASE \E p \in Polls, j \in Jobs : BeginPromote(p, j)
  <2>1. PICK p \in Polls, j \in Jobs :
           /\ FileSet("waiting", j, Torn)
           /\ scan[p] = "delayed"
           /\ \A q \in Polls, i \in Jobs : run[q][i] \notin Picking
           /\ UNCHANGED run
    BY <1>4, BeginPromoteDoes, <1>a DEF BeginPromote, runVars, Walking
  <2>2. QED
    BY <2>1 DEF FileSet, Whole, Dirs, Absent, Torn, RunSet, PickGuard, Holds,
       Picking
<1>5. CASE \E p \in Polls : EndPromote(p)
  <2>1. PICK p \in Polls :
           /\ FileSet("waiting", moving[p][1], moving[p][2])
           /\ scan[p] = "moving"
           /\ moving[p] \in Jobs \X Count
           /\ UNCHANGED run
    BY <1>5, EndPromoteDoes DEF EndPromote, runVars
  <2>2. QED
    BY <2>1 DEF FileSet, Whole, Dirs, Absent, Torn, RunSet, PickGuard, Holds,
       Picking, Count
<1>6. CASE \E p \in Polls : UnlinkDelayed(p)
  <2>1. PICK p \in Polls :
           /\ FileSet("delayed", moving[p][1], Absent)
           /\ scan[p] = "unlinkDelayed"
           /\ moving[p] \in Jobs \X Count
           /\ UNCHANGED run
    BY <1>6, UnlinkDelayedDoes DEF UnlinkDelayed, runVars
  <2>2. QED
    BY <2>1 DEF FileSet, Whole, Dirs, Absent, Torn, RunSet, PickGuard, Holds,
       Picking
<1>7. CASE \E p \in Polls : PickJobs(p)
  <2>1. PICK p \in Polls :
           /\ \A q \in Polls, j \in Jobs : q # p => run'[q][j] = run[q][j]
           /\ \A j \in Jobs :
                run'[p][j] = IF j \in FirstOf(Listed("waiting"), slots[p])
                             THEN "listed" ELSE "none"
           /\ scan[p] = "counted"
           /\ UNCHANGED file
    BY <1>7, PickJobsDoes DEF PickJobs, fileVars
  <2>2. QED
    BY <2>1 DEF FileSet, Whole, Dirs, Absent, Torn, RunSet, PickGuard, Holds,
       Picking
<1>8. CASE \E p \in Polls, j \in Jobs : ReadNothing(p, j)
  BY <1>8, ReadNothingDoes DEF ReadNothing, FileSet, Whole, Dirs, Absent,
     Torn, RunSet, PickGuard, Holds, Picking, fileVars
<1>9. CASE \E p \in Polls, j \in Jobs : ReadWaiting(p, j)
  <2>1. PICK p \in Polls, j \in Jobs :
           /\ run[p][j] = "listed"
           /\ RunSet(p, j, "read")
           /\ Whole("waiting", j)
           /\ UNCHANGED file
    BY <1>9, ReadWaitingDoes DEF ReadWaiting, fileVars
  <2>2. QED
    BY <2>1 DEF FileSet, Whole, Dirs, Absent, Torn, RunSet, PickGuard, Holds,
       Picking
<1>10. CASE \E p \in Polls, j \in Jobs : BeginActive(p, j)
  BY <1>10, BeginActiveDoes DEF BeginActive, FileSet, Whole, Dirs, Absent,
     Torn, RunSet, PickGuard, Holds, Picking
<1>11. CASE \E p \in Polls, j \in Jobs : EndActive(p, j)
  BY <1>11, EndActiveDoes DEF EndActive, FileSet, Whole, Dirs, Absent, Torn,
     RunSet, PickGuard, Holds, Picking
<1>12. CASE \E p \in Polls, j \in Jobs : ActiveFails(p, j)
  BY <1>12, ActiveFailsDoes DEF ActiveFails, FileSet, Whole, Dirs, Absent,
     Torn, RunSet, PickGuard, Holds, Picking, fileVars
<1>13. CASE \E p \in Polls, j \in Jobs : UnlinkWaiting(p, j)
  <2>1. PICK p \in Polls, j \in Jobs :
           /\ run[p][j] = "unlinkWaiting"
           /\ RunSet(p, j, "running")
           /\ FileSet("waiting", j, Absent)
           /\ \A q \in Polls : q # p => ~Holds(q, j)
    BY <1>13, UnlinkWaitingDoes, <1>c DEF UnlinkWaiting, Holds
  <2>2. QED
    BY <2>1 DEF FileSet, Whole, Dirs, Absent, Torn, RunSet, PickGuard, Holds,
       Picking
<1>14. CASE \E p \in Polls, j \in Jobs : ProcessorReturns(p, j)
  BY <1>14, ProcessorReturnsDoes DEF ProcessorReturns, FileSet, Whole, Dirs,
     Absent, Torn, RunSet, PickGuard, Holds, Picking, fileVars
<1>15. CASE \E p \in Polls, j \in Jobs : ProcessorThrows(p, j)
  <2>1. PICK p \in Polls, j \in Jobs :
           /\ run[p][j] = "running"
           /\ RunSet(p, j, "decided")
           /\ UNCHANGED file
    BY <1>15, ProcessorThrowsDoes DEF ProcessorThrows, fileVars
  <2>2. QED
    BY <2>1 DEF FileSet, Whole, Dirs, Absent, Torn, RunSet, PickGuard, Holds,
       Picking
<1>16. CASE \E p \in Polls, j \in Jobs : DropJob(p, j)
  BY <1>16, DropJobDoes DEF DropJob, FileSet, Whole, Dirs, Absent, Torn,
     RunSet, PickGuard, Holds, Picking, fileVars
<1>17. CASE \E p \in Polls, j \in Jobs : BeginOut(p, j)
  <2>1. PICK p \in Polls, j \in Jobs :
           /\ run[p][j] = "decided"
           /\ RunSet(p, j, "writeOut")
           /\ FileSet(dest[p][j], j, Torn)
           /\ dest[p][j] \in Dirs \ {"waiting", "active"}
    BY <1>17, BeginOutDoes, EarnedBase DEF BeginOut, WayOut, Leaving, Dirs
  <2>2. QED
    BY <2>1, <1>c DEF FileSet, Whole, Dirs, Absent, Torn, RunSet, PickGuard,
       Holds, Picking
<1>18. CASE \E p \in Polls, j \in Jobs : EndOut(p, j)
  <2>1. PICK p \in Polls, j \in Jobs :
           /\ run[p][j] = "writeOut"
           /\ RunSet(p, j, "unlinkActive")
           /\ FileSet(dest[p][j], j, mem[p][j])
           /\ dest[p][j] \in Dirs \ {"waiting", "active"}
    BY <1>18, EndOutDoes, EarnedBase DEF EndOut, WayOut, Leaving, Dirs
  <2>2. QED
    BY <2>1, <1>c DEF FileSet, Whole, Dirs, Absent, Torn, RunSet, PickGuard,
       Holds, Picking
<1>19. CASE \E p \in Polls, j \in Jobs : OutFails(p, j)
  BY <1>19, OutFailsDoes DEF OutFails, FileSet, Whole, Dirs, Absent, Torn,
     RunSet, PickGuard, Holds, Picking, fileVars
<1>20. CASE \E p \in Polls, j \in Jobs : UnlinkActive(p, j)
  BY <1>20, UnlinkActiveDoes DEF UnlinkActive, FileSet, Whole, Dirs, Absent,
     Torn, RunSet, PickGuard, Holds, Picking
<1>21. CASE \E d \in Dirs, j \in Jobs : CleanUp(d, j)
  BY <1>21, CleanUpDoes DEF CleanUp, FileSet, Whole, Dirs, Absent, Torn,
     RunSet, PickGuard, Holds, Picking, runVars
<1>22. CASE Crash
  BY <1>22 DEF Crash, FileSet, Whole, Dirs, Absent, Torn, RunSet, PickGuard,
     Holds, Picking, fileVars
<1>23. CASE \E j \in Jobs : BeginRecover(j)
  <2>1. PICK j \in Jobs :
           /\ FileSet("waiting", j, Torn)
           /\ boot = "recovering"
           /\ \A q \in Polls, i \in Jobs : run[q][i] = "none"
           /\ UNCHANGED run
    BY <1>23, BeginRecoverDoes, <1>d DEF BeginRecover, runVars
  <2>2. QED
    BY <2>1 DEF FileSet, Whole, Dirs, Absent, Torn, RunSet, PickGuard, Holds,
       Picking
<1>24. CASE EndRecover
  <2>1. /\ FileSet("waiting", saved[1], saved[2])
        /\ \A q \in Polls, i \in Jobs : run[q][i] = "none"
        /\ UNCHANGED run
    BY <1>24, EndRecoverDoes, <1>d DEF EndRecover, runVars
  <2>2. QED
    BY <2>1 DEF FileSet, Whole, Dirs, Absent, Torn, RunSet, PickGuard, Holds,
       Picking
<1>25. CASE UnlinkRecovered
  BY <1>25, UnlinkRecoveredDoes DEF UnlinkRecovered, FileSet, Whole, Dirs,
     Absent, Torn, RunSet, PickGuard, Holds, Picking, runVars
<1>26. QED
  BY <1>1, <1>2, <1>3, <1>4, <1>5, <1>6, <1>7, <1>8, <1>9, <1>10, <1>11,
     <1>12, <1>13, <1>14, <1>15, <1>16, <1>17, <1>18, <1>19, <1>20, <1>21,
     <1>22, <1>23, <1>24, <1>25, RunWriters, FileWriters

LEMMA RunGuardKept ==
  ASSUME TypeOK, Bounds, Quiet, Apart, New, Alone, Calm, Guarded, [Next]_vars
  PROVE  RunGuard'
<1> /\ PickGuard /\ RunGuard /\ LeaveGuard
    /\ UnlinkGuard /\ MoveGuard /\ BootGuard
  BY DEF Guarded
<1> NewFiles /\ NewRuns /\ NewMoves /\ MovesKnown /\ WayOut
  BY DEF New, Bounds
<1>a. \A p, q \in Polls, j \in Jobs :
        run[p][j] \in Picking => scan[q] \notin Walking
  BY DEF Apart
<1>b. \A p, q \in Polls : scan[p] \in Walking /\ scan[q] \in Walking => q = p
  BY DEF Apart
<1>c. \A p, q \in Polls, j \in Jobs : Holds(p, j) /\ Holds(q, j) => q = p
  BY DEF Alone
<1>d. \A p \in Polls, j \in Jobs :
        boot # "up" => scan[p] \notin Walking /\ run[p][j] = "none"
  BY DEF Apart
<1>1. CASE UNCHANGED <<run, file>>
  BY <1>1 DEF FileSet, Whole, Dirs, Absent, Torn, RunSet, RunGuard, Holds
<1>2. CASE \E j \in Jobs : BeginAdd(j)
  BY <1>2, BeginAddDoes DEF BeginAdd, FileSet, Whole, Dirs, Absent, Torn,
     RunSet, RunGuard, Holds, runVars
<1>3. CASE \E j \in Jobs : EndAdd(j)
  BY <1>3, EndAddDoes DEF EndAdd, FileSet, Whole, Dirs, Absent, Torn, RunSet,
     RunGuard, Holds, runVars
<1>4. CASE \E p \in Polls, j \in Jobs : BeginPromote(p, j)
  <2>1. PICK p \in Polls, j \in Jobs :
           /\ FileSet("waiting", j, Torn)
           /\ scan[p] = "delayed"
           /\ UNCHANGED run
    BY <1>4, BeginPromoteDoes DEF BeginPromote, runVars
  <2>2. QED
    BY <2>1 DEF FileSet, Whole, Dirs, Absent, Torn, RunSet, RunGuard, Holds
<1>5. CASE \E p \in Polls : EndPromote(p)
  <2>1. PICK p \in Polls :
           /\ FileSet("waiting", moving[p][1], moving[p][2])
           /\ scan[p] = "moving"
           /\ moving[p] \in Jobs \X Count
           /\ UNCHANGED run
    BY <1>5, EndPromoteDoes DEF EndPromote, runVars
  <2>2. QED
    BY <2>1 DEF FileSet, Whole, Dirs, Absent, Torn, RunSet, RunGuard, Holds,
       Count
<1>6. CASE \E p \in Polls : UnlinkDelayed(p)
  <2>1. PICK p \in Polls :
           /\ FileSet("delayed", moving[p][1], Absent)
           /\ scan[p] = "unlinkDelayed"
           /\ moving[p] \in Jobs \X Count
           /\ UNCHANGED run
    BY <1>6, UnlinkDelayedDoes DEF UnlinkDelayed, runVars
  <2>2. QED
    BY <2>1 DEF FileSet, Whole, Dirs, Absent, Torn, RunSet, RunGuard, Holds
<1>7. CASE \E p \in Polls : PickJobs(p)
  <2>1. PICK p \in Polls :
           /\ \A q \in Polls, j \in Jobs : q # p => run'[q][j] = run[q][j]
           /\ \A j \in Jobs :
                run'[p][j] = IF j \in FirstOf(Listed("waiting"), slots[p])
                             THEN "listed" ELSE "none"
           /\ scan[p] = "counted"
           /\ UNCHANGED file
    BY <1>7, PickJobsDoes DEF PickJobs, fileVars
  <2>2. QED
    BY <2>1 DEF FileSet, Whole, Dirs, Absent, Torn, RunSet, RunGuard, Holds
<1>8. CASE \E p \in Polls, j \in Jobs : ReadNothing(p, j)
  BY <1>8, ReadNothingDoes DEF ReadNothing, FileSet, Whole, Dirs, Absent,
     Torn, RunSet, RunGuard, Holds, fileVars
<1>9. CASE \E p \in Polls, j \in Jobs : ReadWaiting(p, j)
  <2>1. PICK p \in Polls, j \in Jobs :
           /\ run[p][j] = "listed"
           /\ RunSet(p, j, "read")
           /\ UNCHANGED file
    BY <1>9, ReadWaitingDoes DEF ReadWaiting, fileVars
  <2>2. QED
    BY <2>1 DEF FileSet, Whole, Dirs, Absent, Torn, RunSet, RunGuard, Holds
<1>10. CASE \E p \in Polls, j \in Jobs : BeginActive(p, j)
  <2>1. PICK p \in Polls, j \in Jobs :
           /\ run[p][j] = "read"
           /\ RunSet(p, j, "writeActive")
           /\ FileSet("active", j, Torn)
           /\ \A q \in Polls : q # p => ~Holds(q, j)
    BY <1>10, BeginActiveDoes, <1>c DEF BeginActive, Holds
  <2>2. QED
    BY <2>1 DEF FileSet, Whole, Dirs, Absent, Torn, RunSet, RunGuard, Holds
<1>11. CASE \E p \in Polls, j \in Jobs : EndActive(p, j)
  <2>1. PICK p \in Polls, j \in Jobs :
           /\ run[p][j] = "writeActive"
           /\ RunSet(p, j, "unlinkWaiting")
           /\ FileSet("active", j, mem[p][j])
           /\ mem[p][j] \in Nat
    BY <1>11, EndActiveDoes, EarnedBase DEF EndActive
  <2>2. QED
    BY <2>1 DEF FileSet, Whole, Dirs, Absent, Torn, RunSet, RunGuard, Holds
<1>12. CASE \E p \in Polls, j \in Jobs : ActiveFails(p, j)
  BY <1>12, ActiveFailsDoes DEF ActiveFails, FileSet, Whole, Dirs, Absent,
     Torn, RunSet, RunGuard, Holds, fileVars
<1>13. CASE \E p \in Polls, j \in Jobs : UnlinkWaiting(p, j)
  BY <1>13, UnlinkWaitingDoes DEF UnlinkWaiting, FileSet, Whole, Dirs,
     Absent, Torn, RunSet, RunGuard, Holds
<1>14. CASE \E p \in Polls, j \in Jobs : ProcessorReturns(p, j)
  BY <1>14, ProcessorReturnsDoes DEF ProcessorReturns, FileSet, Whole, Dirs,
     Absent, Torn, RunSet, RunGuard, Holds, fileVars
<1>15. CASE \E p \in Polls, j \in Jobs : ProcessorThrows(p, j)
  <2>1. PICK p \in Polls, j \in Jobs :
           /\ run[p][j] = "running"
           /\ RunSet(p, j, "decided")
           /\ UNCHANGED file
    BY <1>15, ProcessorThrowsDoes DEF ProcessorThrows, fileVars
  <2>2. QED
    BY <2>1 DEF FileSet, Whole, Dirs, Absent, Torn, RunSet, RunGuard, Holds
<1>16. CASE \E p \in Polls, j \in Jobs : DropJob(p, j)
  BY <1>16, DropJobDoes DEF DropJob, FileSet, Whole, Dirs, Absent, Torn,
     RunSet, RunGuard, Holds, fileVars
<1>17. CASE \E p \in Polls, j \in Jobs : BeginOut(p, j)
  <2>1. PICK p \in Polls, j \in Jobs :
           /\ run[p][j] = "decided"
           /\ RunSet(p, j, "writeOut")
           /\ FileSet(dest[p][j], j, Torn)
           /\ dest[p][j] \in Dirs \ {"waiting", "active"}
    BY <1>17, BeginOutDoes, EarnedBase DEF BeginOut, WayOut, Leaving, Dirs
  <2>2. QED
    BY <2>1, <1>c DEF FileSet, Whole, Dirs, Absent, Torn, RunSet, RunGuard,
       Holds
<1>18. CASE \E p \in Polls, j \in Jobs : EndOut(p, j)
  <2>1. PICK p \in Polls, j \in Jobs :
           /\ run[p][j] = "writeOut"
           /\ RunSet(p, j, "unlinkActive")
           /\ FileSet(dest[p][j], j, mem[p][j])
           /\ dest[p][j] \in Dirs \ {"waiting", "active"}
    BY <1>18, EndOutDoes, EarnedBase DEF EndOut, WayOut, Leaving, Dirs
  <2>2. QED
    BY <2>1, <1>c DEF FileSet, Whole, Dirs, Absent, Torn, RunSet, RunGuard,
       Holds
<1>19. CASE \E p \in Polls, j \in Jobs : OutFails(p, j)
  BY <1>19, OutFailsDoes DEF OutFails, FileSet, Whole, Dirs, Absent, Torn,
     RunSet, RunGuard, Holds, fileVars
<1>20. CASE \E p \in Polls, j \in Jobs : UnlinkActive(p, j)
  <2>1. PICK p \in Polls, j \in Jobs :
           /\ run[p][j] = "unlinkActive"
           /\ RunSet(p, j, "none")
           /\ FileSet("active", j, Absent)
           /\ \A q \in Polls : q # p => ~Holds(q, j)
    BY <1>20, UnlinkActiveDoes, <1>c DEF UnlinkActive, Holds
  <2>2. QED
    BY <2>1 DEF FileSet, Whole, Dirs, Absent, Torn, RunSet, RunGuard, Holds
<1>21. CASE \E d \in Dirs, j \in Jobs : CleanUp(d, j)
  BY <1>21, CleanUpDoes DEF CleanUp, FileSet, Whole, Dirs, Absent, Torn,
     RunSet, RunGuard, Holds, runVars
<1>22. CASE Crash
  BY <1>22 DEF Crash, FileSet, Whole, Dirs, Absent, Torn, RunSet, RunGuard,
     Holds, fileVars
<1>23. CASE \E j \in Jobs : BeginRecover(j)
  BY <1>23, BeginRecoverDoes DEF BeginRecover, FileSet, Whole, Dirs, Absent,
     Torn, RunSet, RunGuard, Holds, runVars
<1>24. CASE EndRecover
  BY <1>24, EndRecoverDoes DEF EndRecover, FileSet, Whole, Dirs, Absent,
     Torn, RunSet, RunGuard, Holds, runVars
<1>25. CASE UnlinkRecovered
  <2>1. /\ FileSet("active", saved[1], Absent)
        /\ \A q \in Polls, i \in Jobs : run[q][i] = "none"
        /\ UNCHANGED run
    BY <1>25, UnlinkRecoveredDoes, <1>d DEF UnlinkRecovered, runVars
  <2>2. QED
    BY <2>1 DEF FileSet, Whole, Dirs, Absent, Torn, RunSet, RunGuard, Holds
<1>26. QED
  BY <1>1, <1>2, <1>3, <1>4, <1>5, <1>6, <1>7, <1>8, <1>9, <1>10, <1>11,
     <1>12, <1>13, <1>14, <1>15, <1>16, <1>17, <1>18, <1>19, <1>20, <1>21,
     <1>22, <1>23, <1>24, <1>25, RunWriters, FileWriters

LEMMA SettledStays ==
  ASSUME TypeOK, [Next]_vars, NEW j \in Jobs, Settled(j)
  PROVE  Settled(j)'
<1>1. j \in ok => j \in ok'
  BY OkWriters DEF ProcessorReturns
<1>2. MaxAttempts \in Nat
  BY LocalQueueAssumption
<1>3. QED
  BY <1>1, <1>2, FairBefore DEF Settled, Count

(* A run that is about to drop the active file has settled the job, or has   *)
(* it in delayed/.                                                          *)
LEMMA LeavesSettled ==
  ASSUME TypeOK, Bounds, Earned, NEW p \in Polls, NEW j \in Jobs,
         run[p][j] \in Leaving, dest[p][j] # "delayed"
  PROVE  Settled(j)
<1>1. CASE dest[p][j] = "completed"
  BY <1>1 DEF Earned, CompletedIsOk, Settled
<1>2. CASE dest[p][j] = "failed" /\ mem[p][j] > MaxAttempts
  <2>1. Fair(j) => mem[p][j] <= errs[j]
    BY <1>2 DEF Earned, EarnedRuns, Holds, Leaving
  <2>2. mem[p][j] \in Nat /\ errs[j] \in Nat /\ MaxAttempts \in Nat
    BY EarnedBase, Types DEF Errs, Count
  <2>3. QED
    BY <1>2, <2>1, <2>2 DEF Settled, Fair
<1>3. QED
  BY <1>1, <1>2 DEF Bounds, WayOut

LEMMA LeaveGuardKept ==
  ASSUME TypeOK, Bounds, Quiet, Apart, New, Alone, Calm, Guarded,
         Earned, [Next]_vars
  PROVE  LeaveGuard'
<1> /\ PickGuard /\ RunGuard /\ LeaveGuard
    /\ UnlinkGuard /\ MoveGuard /\ BootGuard
  BY DEF Guarded
<1> NewFiles /\ NewRuns /\ NewMoves /\ MovesKnown /\ WayOut
  BY DEF New, Bounds
<1>a. \A p, q \in Polls, j \in Jobs :
        run[p][j] \in Picking => scan[q] \notin Walking
  BY DEF Apart
<1>b. \A p, q \in Polls : scan[p] \in Walking /\ scan[q] \in Walking => q = p
  BY DEF Apart
<1>c. \A p, q \in Polls, j \in Jobs : Holds(p, j) /\ Holds(q, j) => q = p
  BY DEF Alone
<1>d. \A p \in Polls, j \in Jobs :
        boot # "up" => scan[p] \notin Walking /\ run[p][j] = "none"
  BY DEF Apart
<1>e. \A j \in Jobs : Settled(j) => Settled(j)'
  BY SettledStays
<1>f. \A p \in Polls, j \in Jobs :
        run[p][j] \in Leaving /\ dest[p][j] # "delayed" => Settled(j)
  BY LeavesSettled
<1>1. CASE UNCHANGED <<run, file>>
  BY <1>1, <1>e DEF FileSet, Whole, Dirs, Absent, Torn, RunSet, LeaveGuard,
     Leaving
<1>2. CASE \E j \in Jobs : BeginAdd(j)
  <2>1. PICK j \in Jobs :
           /\ FileSet("waiting", j, Torn)
           /\ \A q \in Polls : ~Holds(q, j)
           /\ UNCHANGED run
    BY <1>2, BeginAddDoes DEF BeginAdd, NewRuns, runVars
  <2>2. QED
    BY <2>1, <1>e DEF FileSet, Whole, Dirs, Absent, Torn, RunSet, LeaveGuard,
       Leaving, Holds
<1>3. CASE \E j \in Jobs : EndAdd(j)
  BY <1>3, EndAddDoes, <1>e DEF EndAdd, FileSet, Whole, Dirs, Absent, Torn,
     RunSet, LeaveGuard, Leaving, runVars
<1>4. CASE \E p \in Polls, j \in Jobs : BeginPromote(p, j)
  <2>1. PICK p \in Polls, j \in Jobs :
           /\ FileSet("waiting", j, Torn)
           /\ scan[p] = "delayed"
           /\ \A q \in Polls : run[q][j] \notin Leaving
           /\ UNCHANGED run
    BY <1>4, BeginPromoteDoes DEF BeginPromote, runVars, Calm
  <2>2. QED
    BY <2>1, <1>e DEF FileSet, Whole, Dirs, Absent, Torn, RunSet, LeaveGuard,
       Leaving
<1>5. CASE \E p \in Polls : EndPromote(p)
  <2>1. PICK p \in Polls :
           /\ FileSet("waiting", moving[p][1], moving[p][2])
           /\ scan[p] = "moving"
           /\ moving[p] \in Jobs \X Count
           /\ UNCHANGED run
    BY <1>5, EndPromoteDoes DEF EndPromote, runVars
  <2>2. QED
    BY <2>1, <1>e DEF FileSet, Whole, Dirs, Absent, Torn, RunSet, LeaveGuard,
       Leaving, Count
<1>6. CASE \E p \in Polls : UnlinkDelayed(p)
  <2>1. PICK p \in Polls :
           /\ FileSet("delayed", moving[p][1], Absent)
           /\ scan[p] = "unlinkDelayed"
           /\ moving[p] \in Jobs \X Count
           /\ Whole("waiting", moving[p][1])
           /\ UNCHANGED run
    BY <1>6, UnlinkDelayedDoes DEF UnlinkDelayed, runVars, UnlinkGuard,
       Unlinking
  <2>2. QED
    BY <2>1, <1>e DEF FileSet, Whole, Dirs, Absent, Torn, RunSet, LeaveGuard,
       Leaving
<1>7. CASE \E p \in Polls : PickJobs(p)
  <2>1. PICK p \in Polls :
           /\ \A q \in Polls, j \in Jobs : q # p => run'[q][j] = run[q][j]
           /\ \A j \in Jobs :
                run'[p][j] = IF j \in FirstOf(Listed("waiting"), slots[p])
                             THEN "listed" ELSE "none"
           /\ scan[p] = "counted"
           /\ UNCHANGED file
    BY <1>7, PickJobsDoes DEF PickJobs, fileVars
  <2>2. QED
    BY <2>1, <1>e DEF FileSet, Whole, Dirs, Absent, Torn, RunSet, LeaveGuard,
       Leaving
<1>8. CASE \E p \in Polls, j \in Jobs : ReadNothing(p, j)
  BY <1>8, ReadNothingDoes, <1>e DEF ReadNothing, FileSet, Whole, Dirs,
     Absent, Torn, RunSet, LeaveGuard, Leaving, fileVars
<1>9. CASE \E p \in Polls, j \in Jobs : ReadWaiting(p, j)
  <2>1. PICK p \in Polls, j \in Jobs :
           /\ run[p][j] = "listed"
           /\ RunSet(p, j, "read")
           /\ UNCHANGED file
    BY <1>9, ReadWaitingDoes DEF ReadWaiting, fileVars
  <2>2. QED
    BY <2>1, <1>e DEF FileSet, Whole, Dirs, Absent, Torn, RunSet, LeaveGuard,
       Leaving
<1>10. CASE \E p \in Polls, j \in Jobs : BeginActive(p, j)
  BY <1>10, BeginActiveDoes, <1>e DEF BeginActive, FileSet, Whole, Dirs,
     Absent, Torn, RunSet, LeaveGuard, Leaving
<1>11. CASE \E p \in Polls, j \in Jobs : EndActive(p, j)
  BY <1>11, EndActiveDoes, <1>e DEF EndActive, FileSet, Whole, Dirs, Absent,
     Torn, RunSet, LeaveGuard, Leaving
<1>12. CASE \E p \in Polls, j \in Jobs : ActiveFails(p, j)
  BY <1>12, ActiveFailsDoes, <1>e DEF ActiveFails, FileSet, Whole, Dirs,
     Absent, Torn, RunSet, LeaveGuard, Leaving, fileVars
<1>13. CASE \E p \in Polls, j \in Jobs : UnlinkWaiting(p, j)
  <2>1. PICK p \in Polls, j \in Jobs :
           /\ run[p][j] = "unlinkWaiting"
           /\ RunSet(p, j, "running")
           /\ FileSet("waiting", j, Absent)
           /\ \A q \in Polls : q # p => ~Holds(q, j)
    BY <1>13, UnlinkWaitingDoes, <1>c DEF UnlinkWaiting, Holds
  <2>2. QED
    BY <2>1, <1>e DEF FileSet, Whole, Dirs, Absent, Torn, RunSet, LeaveGuard,
       Leaving, Holds
<1>14. CASE \E p \in Polls, j \in Jobs : ProcessorReturns(p, j)
  BY <1>14, ProcessorReturnsDoes, <1>e DEF ProcessorReturns, FileSet, Whole,
     Dirs, Absent, Torn, RunSet, LeaveGuard, Leaving, fileVars
<1>15. CASE \E p \in Polls, j \in Jobs : ProcessorThrows(p, j)
  <2>1. PICK p \in Polls, j \in Jobs :
           /\ run[p][j] = "running"
           /\ RunSet(p, j, "decided")
           /\ UNCHANGED file
    BY <1>15, ProcessorThrowsDoes DEF ProcessorThrows, fileVars
  <2>2. QED
    BY <2>1, <1>e DEF FileSet, Whole, Dirs, Absent, Torn, RunSet, LeaveGuard,
       Leaving
<1>16. CASE \E p \in Polls, j \in Jobs : DropJob(p, j)
  <2>1. PICK p \in Polls, j \in Jobs :
           /\ run[p][j] = "decided"
           /\ RunSet(p, j, "unlinkActive")
           /\ Settled(j)
           /\ UNCHANGED file
    BY <1>16, DropJobDoes, <1>f DEF DropJob, fileVars, Dropped, Leaving
  <2>2. QED
    BY <2>1, <1>e DEF FileSet, Whole, Dirs, Absent, Torn, RunSet, LeaveGuard,
       Leaving
<1>17. CASE \E p \in Polls, j \in Jobs : BeginOut(p, j)
  <2>1. PICK p \in Polls, j \in Jobs :
           /\ run[p][j] = "decided"
           /\ RunSet(p, j, "writeOut")
           /\ FileSet(dest[p][j], j, Torn)
           /\ dest[p][j] \in Dirs \ {"waiting", "active"}
           /\ \A q \in Polls : q # p => ~Holds(q, j)
    BY <1>17, BeginOutDoes, EarnedBase, <1>c DEF BeginOut, WayOut, Leaving,
       Dirs, Holds
  <2>2. QED
    BY <2>1, <1>e DEF FileSet, Whole, Dirs, Absent, Torn, RunSet, LeaveGuard,
       Leaving, Holds
<1>18. CASE \E p \in Polls, j \in Jobs : EndOut(p, j)
  <2>1. PICK p \in Polls, j \in Jobs :
           /\ run[p][j] = "writeOut"
           /\ RunSet(p, j, "unlinkActive")
           /\ FileSet(dest[p][j], j, mem[p][j])
           /\ dest[p][j] # "delayed" => Settled(j)
           /\ dest[p][j] \in Dirs \ {"waiting", "active"}
           /\ mem[p][j] \in Nat
    BY <1>18, EndOutDoes, <1>f, EarnedBase DEF EndOut, Leaving, WayOut, Dirs
  <2>2. QED
    BY <2>1, <1>e DEF FileSet, Whole, Dirs, Absent, Torn, RunSet, LeaveGuard,
       Leaving
<1>19. CASE \E p \in Polls, j \in Jobs : OutFails(p, j)
  BY <1>19, OutFailsDoes, <1>e DEF OutFails, FileSet, Whole, Dirs, Absent,
     Torn, RunSet, LeaveGuard, Leaving, fileVars
<1>20. CASE \E p \in Polls, j \in Jobs : UnlinkActive(p, j)
  BY <1>20, UnlinkActiveDoes, <1>e DEF UnlinkActive, FileSet, Whole, Dirs,
     Absent, Torn, RunSet, LeaveGuard, Leaving
<1>21. CASE \E d \in Dirs, j \in Jobs : CleanUp(d, j)
  BY <1>21, CleanUpDoes, <1>e DEF CleanUp, FileSet, Whole, Dirs, Absent,
     Torn, RunSet, LeaveGuard, Leaving, runVars
<1>22. CASE Crash
  BY <1>22, <1>e DEF Crash, FileSet, Whole, Dirs, Absent, Torn, RunSet,
     LeaveGuard, Leaving, fileVars
<1>23. CASE \E j \in Jobs : BeginRecover(j)
  <2>1. PICK j \in Jobs :
           /\ FileSet("waiting", j, Torn)
           /\ boot = "recovering"
           /\ \A q \in Polls, i \in Jobs : run[q][i] = "none"
           /\ UNCHANGED run
    BY <1>23, BeginRecoverDoes, <1>d DEF BeginRecover, runVars
  <2>2. QED
    BY <2>1, <1>e DEF FileSet, Whole, Dirs, Absent, Torn, RunSet, LeaveGuard,
       Leaving
<1>24. CASE EndRecover
  <2>1. /\ FileSet("waiting", saved[1], saved[2])
        /\ \A q \in Polls, i \in Jobs : run[q][i] = "none"
        /\ UNCHANGED run
    BY <1>24, EndRecoverDoes, <1>d DEF EndRecover, runVars
  <2>2. QED
    BY <2>1, <1>e DEF FileSet, Whole, Dirs, Absent, Torn, RunSet, LeaveGuard,
       Leaving
<1>25. CASE UnlinkRecovered
  BY <1>25, UnlinkRecoveredDoes, <1>e DEF UnlinkRecovered, FileSet, Whole,
     Dirs, Absent, Torn, RunSet, LeaveGuard, Leaving, runVars
<1>26. QED
  BY <1>1, <1>2, <1>3, <1>4, <1>5, <1>6, <1>7, <1>8, <1>9, <1>10, <1>11,
     <1>12, <1>13, <1>14, <1>15, <1>16, <1>17, <1>18, <1>19, <1>20, <1>21,
     <1>22, <1>23, <1>24, <1>25, RunWriters, FileWriters

LEMMA UnlinkGuardKept ==
  ASSUME TypeOK, Bounds, Quiet, Apart, New, Alone, Calm, Guarded, [Next]_vars
  PROVE  UnlinkGuard'
<1> /\ PickGuard /\ RunGuard /\ LeaveGuard
    /\ UnlinkGuard /\ MoveGuard /\ BootGuard
  BY DEF Guarded
<1> NewFiles /\ NewRuns /\ NewMoves /\ MovesKnown /\ WayOut
  BY DEF New, Bounds
<1>a. \A p, q \in Polls, j \in Jobs :
        run[p][j] \in Picking => scan[q] \notin Walking
  BY DEF Apart
<1>b. \A p, q \in Polls : scan[p] \in Walking /\ scan[q] \in Walking => q = p
  BY DEF Apart
<1>c. \A p, q \in Polls, j \in Jobs : Holds(p, j) /\ Holds(q, j) => q = p
  BY DEF Alone
<1>d. \A p \in Polls, j \in Jobs :
        boot # "up" => scan[p] \notin Walking /\ run[p][j] = "none"
  BY DEF Apart
<1>1. CASE UNCHANGED <<file, scan, moving>>
  BY <1>1 DEF FileSet, Whole, Dirs, Absent, Torn, Becomes, UnlinkGuard,
     Unlinking
<1>2. CASE \E j \in Jobs : BeginAdd(j)
  <2>1. PICK j \in Jobs :
           /\ FileSet("waiting", j, Torn)
           /\ \A q \in Polls : ~Unlinking(q, j)
           /\ UNCHANGED <<scan, moving>>
    BY <1>2, BeginAddDoes DEF BeginAdd, pollVars, NewMoves, MovesKnown,
       Unlinking
  <2>2. QED
    BY <2>1 DEF FileSet, Whole, Dirs, Absent, Torn, Becomes, UnlinkGuard,
       Unlinking
<1>3. CASE \E j \in Jobs : EndAdd(j)
  BY <1>3, EndAddDoes DEF EndAdd, FileSet, Whole, Dirs, Absent, Torn,
     Becomes, UnlinkGuard, Unlinking, pollVars
<1>4. CASE \E p \in Polls : Tick(p)
  BY <1>4, TickDoes DEF Tick, FileSet, Whole, Dirs, Absent, Torn, Becomes,
     UnlinkGuard, Unlinking, fileVars, pollVars
<1>5. CASE \E p \in Polls, j \in Jobs : AbortPoll(p, j)
  BY <1>5, AbortPollDoes DEF AbortPoll, FileSet, Whole, Dirs, Absent, Torn,
     Becomes, UnlinkGuard, Unlinking, fileVars, pollVars
<1>6. CASE \E p \in Polls, j \in Jobs : BeginPromote(p, j)
  <2>1. PICK p \in Polls, j \in Jobs :
           /\ Becomes(scan, scan', p, "moving")
           /\ Becomes(moving, moving', p, <<j, file["delayed"][j]>>)
           /\ FileSet("waiting", j, Torn)
           /\ scan[p] = "delayed"
           /\ moving'[p][1] = j
           /\ \A q \in Polls : scan[q] \in Walking => q = p
    BY <1>6, BeginPromoteDoes, <1>b DEF BeginPromote, Walking
  <2>2. QED
    BY <2>1 DEF FileSet, Whole, Dirs, Absent, Torn, Becomes, UnlinkGuard,
       Unlinking, Walking
<1>7. CASE \E p \in Polls : EndPromote(p)
  <2>1. PICK p \in Polls :
           /\ Becomes(scan, scan', p, "unlinkDelayed")
           /\ FileSet("waiting", moving[p][1], moving[p][2])
           /\ scan[p] = "moving"
           /\ moving[p] \in Jobs \X Count
           /\ \A q \in Polls : scan[q] \in Walking => q = p
           /\ UNCHANGED moving
    BY <1>7, EndPromoteDoes, <1>b DEF EndPromote, pollVars, Walking
  <2>2. QED
    BY <2>1 DEF FileSet, Whole, Dirs, Absent, Torn, Becomes, UnlinkGuard,
       Unlinking, Walking, Count
<1>8. CASE \E p \in Polls : PromoteFails(p)
  BY <1>8, PromoteFailsDoes DEF PromoteFails, FileSet, Whole, Dirs, Absent,
     Torn, Becomes, UnlinkGuard, Unlinking, fileVars
<1>9. CASE \E p \in Polls : UnlinkDelayed(p)
  <2>1. PICK p \in Polls :
           /\ Becomes(scan, scan', p, "delayed")
           /\ Becomes(moving, moving', p, NoMove)
           /\ FileSet("delayed", moving[p][1], Absent)
           /\ scan[p] = "unlinkDelayed"
           /\ moving[p] \in Jobs \X Count
           /\ \A q \in Polls : scan[q] \in Walking => q = p
    BY <1>9, UnlinkDelayedDoes, <1>b DEF UnlinkDelayed, Walking
  <2>2. QED
    BY <2>1 DEF FileSet, Whole, Dirs, Absent, Torn, Becomes, UnlinkGuard,
       Unlinking, Walking
<1>10. CASE \E p \in Polls : CountSlots(p)
  <2>1. PICK p \in Polls :
           /\ \/ Becomes(scan, scan', p, "counted")
              \/ Becomes(scan, scan', p, "idle")
           /\ scan[p] = "delayed"
           /\ UNCHANGED <<file, moving>>
    BY <1>10, CountSlotsDoes DEF CountSlots, fileVars, pollVars
  <2>2. QED
    BY <2>1 DEF FileSet, Whole, Dirs, Absent, Torn, Becomes, UnlinkGuard,
       Unlinking
<1>11. CASE \E p \in Polls : PickJobs(p)
  <2>1. PICK p \in Polls :
           /\ Becomes(scan, scan', p, "running")
           /\ scan[p] = "counted"
           /\ UNCHANGED <<file, moving>>
    BY <1>11, PickJobsDoes DEF PickJobs, fileVars, pollVars
  <2>2. QED
    BY <2>1 DEF FileSet, Whole, Dirs, Absent, Torn, Becomes, UnlinkGuard,
       Unlinking
<1>12. CASE \E p \in Polls : EndPoll(p)
  BY <1>12, EndPollDoes DEF EndPoll, FileSet, Whole, Dirs, Absent, Torn,
     Becomes, UnlinkGuard, Unlinking, fileVars, pollVars
<1>13. CASE \E p \in Polls, j \in Jobs : BeginActive(p, j)
  BY <1>13, BeginActiveDoes DEF BeginActive, FileSet, Whole, Dirs, Absent,
     Torn, Becomes, UnlinkGuard, Unlinking, pollVars
<1>14. CASE \E p \in Polls, j \in Jobs : EndActive(p, j)
  BY <1>14, EndActiveDoes DEF EndActive, FileSet, Whole, Dirs, Absent, Torn,
     Becomes, UnlinkGuard, Unlinking, pollVars
<1>15. CASE \E p \in Polls, j \in Jobs : UnlinkWaiting(p, j)
  <2>1. PICK p \in Polls, j \in Jobs :
           /\ FileSet("waiting", j, Absent)
           /\ \A q \in Polls : scan[q] \notin Walking
           /\ UNCHANGED <<scan, moving>>
    BY <1>15, UnlinkWaitingDoes, <1>a DEF UnlinkWaiting, pollVars, Picking
  <2>2. QED
    BY <2>1 DEF FileSet, Whole, Dirs, Absent, Torn, Becomes, UnlinkGuard,
       Unlinking, Walking
<1>16. CASE \E p \in Polls, j \in Jobs : BeginOut(p, j)
  <2>1. PICK p \in Polls, j \in Jobs :
           /\ FileSet(dest[p][j], j, Torn)
           /\ dest[p][j] \in Dirs \ {"waiting", "active"}
           /\ UNCHANGED <<scan, moving>>
    BY <1>16, BeginOutDoes, EarnedBase DEF BeginOut, pollVars, WayOut,
       Leaving, Dirs
  <2>2. QED
    BY <2>1 DEF FileSet, Whole, Dirs, Absent, Torn, Becomes, UnlinkGuard,
       Unlinking
<1>17. CASE \E p \in Polls, j \in Jobs : EndOut(p, j)
  <2>1. PICK p \in Polls, j \in Jobs :
           /\ FileSet(dest[p][j], j, mem[p][j])
           /\ dest[p][j] \in Dirs \ {"waiting", "active"}
           /\ UNCHANGED <<scan, moving>>
    BY <1>17, EndOutDoes, EarnedBase DEF EndOut, pollVars, WayOut, Leaving,
       Dirs
  <2>2. QED
    BY <2>1 DEF FileSet, Whole, Dirs, Absent, Torn, Becomes, UnlinkGuard,
       Unlinking
<1>18. CASE \E p \in Polls, j \in Jobs : UnlinkActive(p, j)
  BY <1>18, UnlinkActiveDoes DEF UnlinkActive, FileSet, Whole, Dirs, Absent,
     Torn, Becomes, UnlinkGuard, Unlinking, pollVars
<1>19. CASE \E d \in Dirs, j \in Jobs : CleanUp(d, j)
  BY <1>19, CleanUpDoes DEF CleanUp, FileSet, Whole, Dirs, Absent, Torn,
     Becomes, UnlinkGuard, Unlinking, pollVars
<1>20. CASE Crash
  BY <1>20 DEF Crash, FileSet, Whole, Dirs, Absent, Torn, Becomes,
     UnlinkGuard, Unlinking, fileVars
<1>21. CASE \E j \in Jobs : BeginRecover(j)
  <2>1. PICK j \in Jobs :
           /\ FileSet("waiting", j, Torn)
           /\ boot = "recovering"
           /\ \A q \in Polls : scan[q] \notin Walking
           /\ UNCHANGED <<scan, moving>>
    BY <1>21, BeginRecoverDoes, <1>d DEF BeginRecover, pollVars
  <2>2. QED
    BY <2>1 DEF FileSet, Whole, Dirs, Absent, Torn, Becomes, UnlinkGuard,
       Unlinking, Walking
<1>22. CASE EndRecover
  <2>1. /\ FileSet("waiting", saved[1], saved[2])
        /\ \A q \in Polls : scan[q] \notin Walking
        /\ UNCHANGED <<scan, moving>>
    BY <1>22, EndRecoverDoes, <1>d DEF EndRecover, pollVars
  <2>2. QED
    BY <2>1 DEF FileSet, Whole, Dirs, Absent, Torn, Becomes, UnlinkGuard,
       Unlinking, Walking
<1>23. CASE UnlinkRecovered
  BY <1>23, UnlinkRecoveredDoes DEF UnlinkRecovered, FileSet, Whole, Dirs,
     Absent, Torn, Becomes, UnlinkGuard, Unlinking, pollVars
<1>24. QED
  BY <1>1, <1>2, <1>3, <1>4, <1>5, <1>6, <1>7, <1>8, <1>9, <1>10, <1>11,
     <1>12, <1>13, <1>14, <1>15, <1>16, <1>17, <1>18, <1>19, <1>20, <1>21,
     <1>22, <1>23, FileWriters, ScanWriters, MovingWriters

LEMMA MoveGuardKept ==
  ASSUME TypeOK, Bounds, Quiet, Apart, New, Alone, Calm, Guarded, [Next]_vars
  PROVE  MoveGuard'
<1> /\ PickGuard /\ RunGuard /\ LeaveGuard
    /\ UnlinkGuard /\ MoveGuard /\ BootGuard
  BY DEF Guarded
<1> NewFiles /\ NewRuns /\ NewMoves /\ MovesKnown /\ WayOut
  BY DEF New, Bounds
<1>a. \A p, q \in Polls, j \in Jobs :
        run[p][j] \in Picking => scan[q] \notin Walking
  BY DEF Apart
<1>b. \A p, q \in Polls : scan[p] \in Walking /\ scan[q] \in Walking => q = p
  BY DEF Apart
<1>c. \A p, q \in Polls, j \in Jobs : Holds(p, j) /\ Holds(q, j) => q = p
  BY DEF Alone
<1>d. \A p \in Polls, j \in Jobs :
        boot # "up" => scan[p] \notin Walking /\ run[p][j] = "none"
  BY DEF Apart
<1>1. CASE UNCHANGED <<file, scan, moving, run, dest>>
  BY <1>1 DEF FileSet, Whole, Dirs, Absent, Torn, RunSet, Becomes, Becomes2,
     MoveGuard, Moving, Holds
<1>2. CASE \E j \in Jobs : BeginAdd(j)
  BY <1>2, BeginAddDoes DEF BeginAdd, FileSet, Whole, Dirs, Absent, Torn,
     RunSet, Becomes, Becomes2, MoveGuard, Moving, Holds, pollVars, runVars
<1>3. CASE \E j \in Jobs : EndAdd(j)
  BY <1>3, EndAddDoes DEF EndAdd, FileSet, Whole, Dirs, Absent, Torn, RunSet,
     Becomes, Becomes2, MoveGuard, Moving, Holds, pollVars, runVars
<1>4. CASE \E p \in Polls : Tick(p)
  BY <1>4, TickDoes DEF Tick, FileSet, Whole, Dirs, Absent, Torn, RunSet,
     Becomes, Becomes2, MoveGuard, Moving, Holds, fileVars, pollVars, runVars
<1>5. CASE \E p \in Polls, j \in Jobs : AbortPoll(p, j)
  BY <1>5, AbortPollDoes DEF AbortPoll, FileSet, Whole, Dirs, Absent, Torn,
     RunSet, Becomes, Becomes2, MoveGuard, Moving, Holds, fileVars, pollVars,
     runVars
<1>6. CASE \E p \in Polls, j \in Jobs : BeginPromote(p, j)
  <2>1. PICK p \in Polls, j \in Jobs :
           /\ Becomes(scan, scan', p, "moving")
           /\ Becomes(moving, moving', p, <<j, file["delayed"][j]>>)
           /\ FileSet("waiting", j, Torn)
           /\ scan[p] = "delayed"
           /\ moving'[p][1] = j
           /\ Whole("delayed", j)
           /\ \A q \in Polls : scan[q] \in Walking => q = p
           /\ UNCHANGED <<run, dest>>
    BY <1>6, BeginPromoteDoes, <1>b DEF BeginPromote, runVars, Walking
  <2>2. QED
    BY <2>1 DEF FileSet, Whole, Dirs, Absent, Torn, RunSet, Becomes,
       Becomes2, MoveGuard, Moving, Holds, Walking
<1>7. CASE \E p \in Polls : EndPromote(p)
  <2>1. PICK p \in Polls :
           /\ Becomes(scan, scan', p, "unlinkDelayed")
           /\ FileSet("waiting", moving[p][1], moving[p][2])
           /\ scan[p] = "moving"
           /\ moving[p] \in Jobs \X Count
           /\ \A q \in Polls : scan[q] \in Walking => q = p
           /\ UNCHANGED <<moving, run, dest>>
    BY <1>7, EndPromoteDoes, <1>b DEF EndPromote, pollVars, runVars, Walking
  <2>2. QED
    BY <2>1 DEF FileSet, Whole, Dirs, Absent, Torn, RunSet, Becomes,
       Becomes2, MoveGuard, Moving, Holds, Walking
<1>8. CASE \E p \in Polls : PromoteFails(p)
  <2>1. PICK p \in Polls :
           /\ Becomes(scan, scan', p, "idle")
           /\ Becomes(moving, moving', p, NoMove)
           /\ scan[p] \in {"delayed", "moving"}
           /\ \A q \in Polls : scan[q] \in Walking => q = p
           /\ UNCHANGED <<file, run, dest>>
    BY <1>8, PromoteFailsDoes, <1>b DEF PromoteFails, fileVars, runVars,
       Walking
  <2>2. QED
    BY <2>1 DEF FileSet, Whole, Dirs, Absent, Torn, RunSet, Becomes,
       Becomes2, MoveGuard, Moving, Holds, Walking
<1>9. CASE \E p \in Polls : UnlinkDelayed(p)
  <2>1. PICK p \in Polls :
           /\ Becomes(scan, scan', p, "delayed")
           /\ Becomes(moving, moving', p, NoMove)
           /\ FileSet("delayed", moving[p][1], Absent)
           /\ scan[p] = "unlinkDelayed"
           /\ moving[p] \in Jobs \X Count
           /\ \A q \in Polls : scan[q] \in Walking => q = p
           /\ UNCHANGED <<run, dest>>
    BY <1>9, UnlinkDelayedDoes, <1>b DEF UnlinkDelayed, runVars, Walking
  <2>2. QED
    BY <2>1 DEF FileSet, Whole, Dirs, Absent, Torn, RunSet, Becomes,
       Becomes2, MoveGuard, Moving, Holds, Walking
<1>10. CASE \E p \in Polls : CountSlots(p)
  <2>1. PICK p \in Polls :
           /\ \/ Becomes(scan, scan', p, "counted")
              \/ Becomes(scan, scan', p, "idle")
           /\ scan[p] = "delayed"
           /\ UNCHANGED <<file, moving, run, dest>>
    BY <1>10, CountSlotsDoes DEF CountSlots, fileVars, pollVars, runVars
  <2>2. QED
    BY <2>1 DEF FileSet, Whole, Dirs, Absent, Torn, RunSet, Becomes,
       Becomes2, MoveGuard, Moving, Holds
<1>11. CASE \E p \in Polls : PickJobs(p)
  <2>1. PICK p \in Polls :
           /\ Becomes(scan, scan', p, "running")
           /\ \A q \in Polls, j \in Jobs : q # p => run'[q][j] = run[q][j]
           /\ \A j \in Jobs :
                run'[p][j] = IF j \in FirstOf(Listed("waiting"), slots[p])
                             THEN "listed" ELSE "none"
           /\ scan[p] = "counted"
           /\ UNCHANGED <<file, moving, dest>>
    BY <1>11, PickJobsDoes DEF PickJobs, fileVars, pollVars, runVars
  <2>2. QED
    BY <2>1 DEF FileSet, Whole, Dirs, Absent, Torn, RunSet, Becomes,
       Becomes2, MoveGuard, Moving, Holds, Quiet
<1>12. CASE \E p \in Polls : EndPoll(p)
  BY <1>12, EndPollDoes DEF EndPoll, FileSet, Whole, Dirs, Absent, Torn,
     RunSet, Becomes, Becomes2, MoveGuard, Moving, Holds, fileVars, pollVars,
     runVars
<1>13. CASE \E p \in Polls, j \in Jobs : ReadNothing(p, j)
  BY <1>13, ReadNothingDoes DEF ReadNothing, FileSet, Whole, Dirs, Absent,
     Torn, RunSet, Becomes, Becomes2, MoveGuard, Moving, Holds, fileVars,
     pollVars, runVars
<1>14. CASE \E p \in Polls, j \in Jobs : ReadWaiting(p, j)
  <2>1. PICK p \in Polls, j \in Jobs :
           /\ run[p][j] = "listed"
           /\ RunSet(p, j, "read")
           /\ \A q \in Polls : scan[q] \notin Walking
           /\ UNCHANGED <<file, scan, moving, dest>>
    BY <1>14, ReadWaitingDoes, <1>a DEF ReadWaiting, fileVars, pollVars,
       runVars, Picking
  <2>2. QED
    BY <2>1 DEF FileSet, Whole, Dirs, Absent, Torn, RunSet, Becomes,
       Becomes2, MoveGuard, Moving, Holds, Walking
<1>15. CASE \E p \in Polls, j \in Jobs : BeginActive(p, j)
  <2>1. PICK p \in Polls, j \in Jobs :
           /\ run[p][j] = "read"
           /\ RunSet(p, j, "writeActive")
           /\ FileSet("active", j, Torn)
           /\ \A q \in Polls : scan[q] \notin Walking
           /\ UNCHANGED <<scan, moving, dest>>
    BY <1>15, BeginActiveDoes, <1>a DEF BeginActive, pollVars, runVars,
       Picking
  <2>2. QED
    BY <2>1 DEF FileSet, Whole, Dirs, Absent, Torn, RunSet, Becomes,
       Becomes2, MoveGuard, Moving, Holds, Walking
<1>16. CASE \E p \in Polls, j \in Jobs : EndActive(p, j)
  <2>1. PICK p \in Polls, j \in Jobs :
           /\ run[p][j] = "writeActive"
           /\ RunSet(p, j, "unlinkWaiting")
           /\ FileSet("active", j, mem[p][j])
           /\ \A q \in Polls : scan[q] \notin Walking
           /\ UNCHANGED <<scan, moving, dest>>
    BY <1>16, EndActiveDoes, <1>a DEF EndActive, pollVars, runVars, Picking
  <2>2. QED
    BY <2>1 DEF FileSet, Whole, Dirs, Absent, Torn, RunSet, Becomes,
       Becomes2, MoveGuard, Moving, Holds, Walking
<1>17. CASE \E p \in Polls, j \in Jobs : ActiveFails(p, j)
  BY <1>17, ActiveFailsDoes DEF ActiveFails, FileSet, Whole, Dirs, Absent,
     Torn, RunSet, Becomes, Becomes2, MoveGuard, Moving, Holds, fileVars,
     pollVars, runVars
<1>18. CASE \E p \in Polls, j \in Jobs : UnlinkWaiting(p, j)
  BY <1>18, UnlinkWaitingDoes DEF UnlinkWaiting, FileSet, Whole, Dirs,
     Absent, Torn, RunSet, Becomes, Becomes2, MoveGuard, Moving, Holds,
     pollVars, runVars
<1>19. CASE \E p \in Polls, j \in Jobs : ProcessorReturns(p, j)
  BY <1>19, ProcessorReturnsDoes DEF ProcessorReturns, FileSet, Whole, Dirs,
     Absent, Torn, RunSet, Becomes, Becomes2, MoveGuard, Moving, Holds,
     fileVars, pollVars
<1>20. CASE \E p \in Polls, j \in Jobs : ProcessorThrows(p, j)
  <2>1. PICK p \in Polls, j \in Jobs :
           /\ run[p][j] = "running"
           /\ RunSet(p, j, "decided")
           /\ Becomes2(dest, dest', p, j, RetryDir(mem[p][j]))
           /\ UNCHANGED <<file, scan, moving>>
    BY <1>20, ProcessorThrowsDoes DEF ProcessorThrows, fileVars, pollVars
  <2>2. QED
    BY <2>1 DEF FileSet, Whole, Dirs, Absent, Torn, RunSet, Becomes,
       Becomes2, MoveGuard, Moving, Holds
<1>21. CASE \E p \in Polls, j \in Jobs : DropJob(p, j)
  BY <1>21, DropJobDoes DEF DropJob, FileSet, Whole, Dirs, Absent, Torn,
     RunSet, Becomes, Becomes2, MoveGuard, Moving, Holds, fileVars, pollVars,
     runVars
<1>22. CASE \E p \in Polls, j \in Jobs : BeginOut(p, j)
  <2>1. PICK p \in Polls, j \in Jobs :
           /\ run[p][j] = "decided"
           /\ RunSet(p, j, "writeOut")
           /\ FileSet(dest[p][j], j, Torn)
           /\ dest[p][j] \in Dirs \ {"waiting", "active"}
           /\ Whole("active", j)
           /\ \A q \in Polls : q # p => ~Holds(q, j)
           /\ UNCHANGED <<scan, moving, dest>>
    BY <1>22, BeginOutDoes, EarnedBase, <1>c DEF BeginOut, pollVars, runVars,
       WayOut, Leaving, Dirs, RunGuard, Holds
  <2>2. QED
    BY <2>1 DEF FileSet, Whole, Dirs, Absent, Torn, RunSet, Becomes,
       Becomes2, MoveGuard, Moving, Holds
<1>23. CASE \E p \in Polls, j \in Jobs : EndOut(p, j)
  <2>1. PICK p \in Polls, j \in Jobs :
           /\ run[p][j] = "writeOut"
           /\ RunSet(p, j, "unlinkActive")
           /\ FileSet(dest[p][j], j, mem[p][j])
           /\ dest[p][j] \in Dirs \ {"waiting", "active"}
           /\ mem[p][j] \in Nat
           /\ Whole("active", j)
           /\ \A q \in Polls : q # p => ~Holds(q, j)
           /\ UNCHANGED <<scan, moving, dest>>
    BY <1>23, EndOutDoes, EarnedBase, <1>c DEF EndOut, pollVars, runVars,
       WayOut, Leaving, Dirs, RunGuard, Holds
  <2>2. QED
    BY <2>1 DEF FileSet, Whole, Dirs, Absent, Torn, RunSet, Becomes,
       Becomes2, MoveGuard, Moving, Holds
<1>24. CASE \E p \in Polls, j \in Jobs : OutFails(p, j)
  BY <1>24, OutFailsDoes DEF OutFails, FileSet, Whole, Dirs, Absent, Torn,
     RunSet, Becomes, Becomes2, MoveGuard, Moving, Holds, fileVars, pollVars
<1>25. CASE \E p \in Polls, j \in Jobs : UnlinkActive(p, j)
  BY <1>25, UnlinkActiveDoes DEF UnlinkActive, FileSet, Whole, Dirs, Absent,
     Torn, RunSet, Becomes, Becomes2, MoveGuard, Moving, Holds, pollVars,
     runVars
<1>26. CASE \E d \in Dirs, j \in Jobs : CleanUp(d, j)
  BY <1>26, CleanUpDoes DEF CleanUp, FileSet, Whole, Dirs, Absent, Torn,
     RunSet, Becomes, Becomes2, MoveGuard, Moving, Holds, pollVars, runVars
<1>27. CASE Crash
  BY <1>27 DEF Crash, FileSet, Whole, Dirs, Absent, Torn, RunSet, Becomes,
     Becomes2, MoveGuard, Moving, Holds, fileVars, runVars
<1>28. CASE \E j \in Jobs : BeginRecover(j)
  <2>1. PICK j \in Jobs :
           /\ FileSet("waiting", j, Torn)
           /\ boot = "recovering"
           /\ \A q \in Polls : scan[q] \notin Walking
           /\ UNCHANGED <<scan, moving, run, dest>>
    BY <1>28, BeginRecoverDoes, <1>d DEF BeginRecover, pollVars, runVars
  <2>2. QED
    BY <2>1 DEF FileSet, Whole, Dirs, Absent, Torn, RunSet, Becomes,
       Becomes2, MoveGuard, Moving, Holds, Walking
<1>29. CASE EndRecover
  <2>1. /\ FileSet("waiting", saved[1], saved[2])
        /\ \A q \in Polls : scan[q] \notin Walking
        /\ UNCHANGED <<scan, moving, run, dest>>
    BY <1>29, EndRecoverDoes, <1>d DEF EndRecover, pollVars, runVars
  <2>2. QED
    BY <2>1 DEF FileSet, Whole, Dirs, Absent, Torn, RunSet, Becomes,
       Becomes2, MoveGuard, Moving, Holds, Walking
<1>30. CASE UnlinkRecovered
  <2>1. /\ FileSet("active", saved[1], Absent)
        /\ \A q \in Polls : scan[q] \notin Walking
        /\ UNCHANGED <<scan, moving, run, dest>>
    BY <1>30, UnlinkRecoveredDoes, <1>d DEF UnlinkRecovered, pollVars, runVars
  <2>2. QED
    BY <2>1 DEF FileSet, Whole, Dirs, Absent, Torn, RunSet, Becomes,
       Becomes2, MoveGuard, Moving, Holds, Walking
<1>31. QED
  BY <1>1, <1>2, <1>3, <1>4, <1>5, <1>6, <1>7, <1>8, <1>9, <1>10, <1>11,
     <1>12, <1>13, <1>14, <1>15, <1>16, <1>17, <1>18, <1>19, <1>20, <1>21,
     <1>22, <1>23, <1>24, <1>25, <1>26, <1>27, <1>28, <1>29, <1>30,
     FileWriters, ScanWriters, MovingWriters, RunWriters, DestWriters

LEMMA BootGuardKept ==
  ASSUME TypeOK, Bounds, Quiet, Apart, New, Alone, Calm, Guarded, [Next]_vars
  PROVE  BootGuard'
<1> /\ PickGuard /\ RunGuard /\ LeaveGuard
    /\ UnlinkGuard /\ MoveGuard /\ BootGuard
  BY DEF Guarded
<1> NewFiles /\ NewRuns /\ NewMoves /\ MovesKnown /\ WayOut
  BY DEF New, Bounds
<1>a. \A p, q \in Polls, j \in Jobs :
        run[p][j] \in Picking => scan[q] \notin Walking
  BY DEF Apart
<1>b. \A p, q \in Polls : scan[p] \in Walking /\ scan[q] \in Walking => q = p
  BY DEF Apart
<1>c. \A p, q \in Polls, j \in Jobs : Holds(p, j) /\ Holds(q, j) => q = p
  BY DEF Alone
<1>d. \A p \in Polls, j \in Jobs :
        boot # "up" => scan[p] \notin Walking /\ run[p][j] = "none"
  BY DEF Apart
<1>1. CASE UNCHANGED <<boot, saved, file>>
  BY <1>1 DEF FileSet, Whole, Dirs, Absent, Torn, BootGuard
<1>2. CASE \E j \in Jobs : BeginAdd(j)
  BY <1>2, BeginAddDoes DEF BeginAdd, FileSet, Whole, Dirs, Absent, Torn,
     BootGuard, bootVars
<1>3. CASE \E j \in Jobs : EndAdd(j)
  <2>1. PICK j \in Jobs :
           /\ FileSet("waiting", j, 0)
           /\ boot \in {"writeWaiting", "unlinkActive"} =>
                saved[1] \in Jobs /\ saved[2] \in Nat
           /\ UNCHANGED <<boot, saved>>
    BY <1>3, EndAddDoes, EarnedBase DEF EndAdd, bootVars, MovesKnown
  <2>2. QED
    BY <2>1 DEF FileSet, Whole, Dirs, Absent, Torn, BootGuard
<1>4. CASE \E p \in Polls, j \in Jobs : BeginPromote(p, j)
  <2>1. PICK p \in Polls, j \in Jobs :
           /\ FileSet("waiting", j, Torn)
           /\ scan[p] = "delayed"
           /\ boot = "up"
           /\ UNCHANGED <<boot, saved>>
    BY <1>4, BeginPromoteDoes, <1>d DEF BeginPromote, bootVars, Walking,
       Picking, Leaving
  <2>2. QED
    BY <2>1 DEF FileSet, Whole, Dirs, Absent, Torn, BootGuard
<1>5. CASE \E p \in Polls : EndPromote(p)
  <2>1. PICK p \in Polls :
           /\ FileSet("waiting", moving[p][1], moving[p][2])
           /\ scan[p] = "moving"
           /\ boot = "up"
           /\ UNCHANGED <<boot, saved>>
    BY <1>5, EndPromoteDoes, <1>d DEF EndPromote, bootVars, Walking, Picking,
       Leaving
  <2>2. QED
    BY <2>1 DEF FileSet, Whole, Dirs, Absent, Torn, BootGuard
<1>6. CASE \E p \in Polls : UnlinkDelayed(p)
  <2>1. PICK p \in Polls :
           /\ FileSet("delayed", moving[p][1], Absent)
           /\ scan[p] = "unlinkDelayed"
           /\ boot = "up"
           /\ UNCHANGED <<boot, saved>>
    BY <1>6, UnlinkDelayedDoes, <1>d DEF UnlinkDelayed, bootVars, Walking,
       Picking, Leaving
  <2>2. QED
    BY <2>1 DEF FileSet, Whole, Dirs, Absent, Torn, BootGuard
<1>7. CASE \E p \in Polls, j \in Jobs : BeginActive(p, j)
  <2>1. PICK p \in Polls, j \in Jobs :
           /\ FileSet("active", j, Torn)
           /\ boot = "up"
           /\ UNCHANGED <<boot, saved>>
    BY <1>7, BeginActiveDoes, <1>d DEF BeginActive, bootVars, Walking,
       Picking, Leaving
  <2>2. QED
    BY <2>1 DEF FileSet, Whole, Dirs, Absent, Torn, BootGuard
<1>8. CASE \E p \in Polls, j \in Jobs : EndActive(p, j)
  <2>1. PICK p \in Polls, j \in Jobs :
           /\ FileSet("active", j, mem[p][j])
           /\ boot = "up"
           /\ UNCHANGED <<boot, saved>>
    BY <1>8, EndActiveDoes, <1>d DEF EndActive, bootVars, Walking, Picking,
       Leaving
  <2>2. QED
    BY <2>1 DEF FileSet, Whole, Dirs, Absent, Torn, BootGuard
<1>9. CASE \E p \in Polls, j \in Jobs : UnlinkWaiting(p, j)
  <2>1. PICK p \in Polls, j \in Jobs :
           /\ FileSet("waiting", j, Absent)
           /\ boot = "up"
           /\ UNCHANGED <<boot, saved>>
    BY <1>9, UnlinkWaitingDoes, <1>d DEF UnlinkWaiting, bootVars, Walking,
       Picking, Leaving
  <2>2. QED
    BY <2>1 DEF FileSet, Whole, Dirs, Absent, Torn, BootGuard
<1>10. CASE \E p \in Polls, j \in Jobs : BeginOut(p, j)
  <2>1. PICK p \in Polls, j \in Jobs :
           /\ FileSet(dest[p][j], j, Torn)
           /\ boot = "up"
           /\ UNCHANGED <<boot, saved>>
    BY <1>10, BeginOutDoes, <1>d DEF BeginOut, bootVars, Walking, Picking,
       Leaving
  <2>2. QED
    BY <2>1 DEF FileSet, Whole, Dirs, Absent, Torn, BootGuard
<1>11. CASE \E p \in Polls, j \in Jobs : EndOut(p, j)
  <2>1. PICK p \in Polls, j \in Jobs :
           /\ FileSet(dest[p][j], j, mem[p][j])
           /\ boot = "up"
           /\ UNCHANGED <<boot, saved>>
    BY <1>11, EndOutDoes, <1>d DEF EndOut, bootVars, Walking, Picking, Leaving
  <2>2. QED
    BY <2>1 DEF FileSet, Whole, Dirs, Absent, Torn, BootGuard
<1>12. CASE \E p \in Polls, j \in Jobs : UnlinkActive(p, j)
  <2>1. PICK p \in Polls, j \in Jobs :
           /\ FileSet("active", j, Absent)
           /\ boot = "up"
           /\ UNCHANGED <<boot, saved>>
    BY <1>12, UnlinkActiveDoes, <1>d DEF UnlinkActive, bootVars, Walking,
       Picking, Leaving
  <2>2. QED
    BY <2>1 DEF FileSet, Whole, Dirs, Absent, Torn, BootGuard
<1>13. CASE \E d \in Dirs, j \in Jobs : CleanUp(d, j)
  BY <1>13, CleanUpDoes DEF CleanUp, FileSet, Whole, Dirs, Absent, Torn,
     BootGuard, bootVars
<1>14. CASE Crash
  BY <1>14 DEF Crash, FileSet, Whole, Dirs, Absent, Torn, BootGuard, fileVars
<1>15. CASE \E j \in Jobs : BeginRecover(j)
  BY <1>15, BeginRecoverDoes DEF BeginRecover, FileSet, Whole, Dirs, Absent,
     Torn, BootGuard
<1>16. CASE EndRecover
  <2>1. /\ FileSet("waiting", saved[1], saved[2])
        /\ boot = "writeWaiting"
        /\ boot' = "unlinkActive"
        /\ boot \in {"writeWaiting", "unlinkActive"} =>
              saved[1] \in Jobs /\ saved[2] \in Nat
        /\ UNCHANGED saved
    BY <1>16, EndRecoverDoes, EarnedBase DEF EndRecover, bootVars, MovesKnown
  <2>2. QED
    BY <2>1 DEF FileSet, Whole, Dirs, Absent, Torn, BootGuard
<1>17. CASE UnlinkRecovered
  BY <1>17, UnlinkRecoveredDoes DEF UnlinkRecovered, FileSet, Whole, Dirs,
     Absent, Torn, BootGuard
<1>18. CASE StartPolling
  BY <1>18 DEF StartPolling, FileSet, Whole, Dirs, Absent, Torn, BootGuard,
     bootVars, fileVars
<1>r. CASE RecoverFails
  BY <1>r DEF RecoverFails, BootGuard
<1>19. QED
  BY <1>r, <1>1, <1>2, <1>3, <1>4, <1>5, <1>6, <1>7, <1>8, <1>9, <1>10, <1>11,
     <1>12, <1>13, <1>14, <1>15, <1>16, <1>17, <1>18, BootWriters,
     SavedWriters, FileWriters

-----------------------------------------------------------------------------
(* No job is lost.                                                          *)

NothingLost == \A j \in accepted : Live(j) \/ Settled(j)

LEMMA NothingLostKept ==
  ASSUME TypeOK, Bounds, Quiet, Apart, New, Alone, Calm, Guarded, NothingLost, [Next]_vars
  PROVE  NothingLost'
<1> /\ PickGuard /\ RunGuard /\ LeaveGuard
    /\ UnlinkGuard /\ MoveGuard /\ BootGuard
  BY DEF Guarded
<1> NewFiles /\ NewRuns /\ NewMoves /\ MovesKnown /\ WayOut
  BY DEF New, Bounds
<1>a. \A p, q \in Polls, j \in Jobs :
        run[p][j] \in Picking => scan[q] \notin Walking
  BY DEF Apart
<1>b. \A p, q \in Polls : scan[p] \in Walking /\ scan[q] \in Walking => q = p
  BY DEF Apart
<1>c. \A p, q \in Polls, j \in Jobs : Holds(p, j) /\ Holds(q, j) => q = p
  BY DEF Alone
<1>d. \A p \in Polls, j \in Jobs :
        boot # "up" => scan[p] \notin Walking /\ run[p][j] = "none"
  BY DEF Apart
<1>e. \A j \in Jobs : Settled(j) => Settled(j)'
  BY SettledStays
<1>f. accepted \subseteq Jobs
  BY DEF TypeOK
<1>1. CASE UNCHANGED <<file, accepted>>
  BY <1>1, <1>e, <1>f DEF FileSet, Whole, Dirs, Absent, Torn, Live,
     NothingLost
<1>2. CASE \E j \in Jobs : BeginAdd(j)
  <2>1. PICK j \in Jobs :
           /\ FileSet("waiting", j, Torn)
           /\ j \notin accepted
           /\ UNCHANGED accepted
    BY <1>2, BeginAddDoes DEF BeginAdd, fileVars
  <2>2. QED
    BY <2>1, <1>e, <1>f DEF FileSet, Whole, Dirs, Absent, Torn, Live,
       NothingLost
<1>3. CASE \E j \in Jobs : EndAdd(j)
  <2>1. PICK j \in Jobs :
           /\ FileSet("waiting", j, 0)
           /\ accepted' = accepted \cup {j}
    BY <1>3, EndAddDoes DEF EndAdd
  <2>2. QED
    BY <2>1, <1>e, <1>f DEF FileSet, Whole, Dirs, Absent, Torn, Live,
       NothingLost
<1>4. CASE \E p \in Polls, j \in Jobs : BeginPromote(p, j)
  <2>1. PICK p \in Polls, j \in Jobs :
           /\ FileSet("waiting", j, Torn)
           /\ scan[p] = "delayed"
           /\ Whole("delayed", j)
           /\ UNCHANGED accepted
    BY <1>4, BeginPromoteDoes DEF BeginPromote, fileVars
  <2>2. QED
    BY <2>1, <1>e, <1>f DEF FileSet, Whole, Dirs, Absent, Torn, Live,
       NothingLost
<1>5. CASE \E p \in Polls : EndPromote(p)
  <2>1. PICK p \in Polls :
           /\ FileSet("waiting", moving[p][1], moving[p][2])
           /\ scan[p] = "moving"
           /\ moving[p] \in Jobs \X Count
           /\ UNCHANGED accepted
    BY <1>5, EndPromoteDoes DEF EndPromote, fileVars
  <2>2. moving[p][2] \in Nat
    BY <2>1 DEF Count
  <2>3. QED
    BY <2>1, <2>2, <1>e, <1>f DEF FileSet, Whole, Dirs, Absent, Torn, Live,
       NothingLost
<1>6. CASE \E p \in Polls : UnlinkDelayed(p)
  <2>1. PICK p \in Polls :
           /\ FileSet("delayed", moving[p][1], Absent)
           /\ scan[p] = "unlinkDelayed"
           /\ Whole("waiting", moving[p][1])
           /\ UNCHANGED accepted
    BY <1>6, UnlinkDelayedDoes DEF UnlinkDelayed, fileVars, UnlinkGuard,
       Unlinking
  <2>2. QED
    BY <2>1, <1>e, <1>f DEF FileSet, Whole, Dirs, Absent, Torn, Live,
       NothingLost
<1>7. CASE \E p \in Polls, j \in Jobs : BeginActive(p, j)
  <2>1. PICK p \in Polls, j \in Jobs :
           /\ FileSet("active", j, Torn)
           /\ Whole("waiting", j)
           /\ UNCHANGED accepted
    BY <1>7, BeginActiveDoes DEF BeginActive, fileVars, PickGuard, GoRun
  <2>2. QED
    BY <2>1, <1>e, <1>f DEF FileSet, Whole, Dirs, Absent, Torn, Live,
       NothingLost
<1>8. CASE \E p \in Polls, j \in Jobs : EndActive(p, j)
  <2>1. PICK p \in Polls, j \in Jobs :
           /\ FileSet("active", j, mem[p][j])
           /\ Whole("waiting", j)
           /\ UNCHANGED accepted
    BY <1>8, EndActiveDoes DEF EndActive, fileVars, PickGuard, GoRun
  <2>2. QED
    BY <2>1, <1>e, <1>f DEF FileSet, Whole, Dirs, Absent, Torn, Live,
       NothingLost
<1>9. CASE \E p \in Polls, j \in Jobs : UnlinkWaiting(p, j)
  <2>1. PICK p \in Polls, j \in Jobs :
           /\ FileSet("waiting", j, Absent)
           /\ Whole("active", j)
           /\ UNCHANGED accepted
    BY <1>9, UnlinkWaitingDoes DEF UnlinkWaiting, fileVars, RunGuard, GoRun
  <2>2. QED
    BY <2>1, <1>e, <1>f DEF FileSet, Whole, Dirs, Absent, Torn, Live,
       NothingLost
<1>10. CASE \E p \in Polls, j \in Jobs : BeginOut(p, j)
  <2>1. PICK p \in Polls, j \in Jobs :
           /\ FileSet(dest[p][j], j, Torn)
           /\ Whole("active", j)
           /\ dest[p][j] \in Dirs \ {"waiting", "active"}
           /\ UNCHANGED accepted
    BY <1>10, BeginOutDoes, EarnedBase DEF BeginOut, fileVars, RunGuard,
       WayOut, Leaving, Dirs
  <2>2. QED
    BY <2>1, <1>e, <1>f DEF FileSet, Whole, Dirs, Absent, Torn, Live,
       NothingLost
<1>11. CASE \E p \in Polls, j \in Jobs : EndOut(p, j)
  <2>1. PICK p \in Polls, j \in Jobs :
           /\ FileSet(dest[p][j], j, mem[p][j])
           /\ Whole("active", j)
           /\ dest[p][j] \in Dirs \ {"waiting", "active"}
           /\ UNCHANGED accepted
    BY <1>11, EndOutDoes, EarnedBase DEF EndOut, fileVars, RunGuard, WayOut,
       Leaving, Dirs
  <2>2. QED
    BY <2>1, <1>e, <1>f DEF FileSet, Whole, Dirs, Absent, Torn, Live,
       NothingLost
<1>12. CASE \E p \in Polls, j \in Jobs : UnlinkActive(p, j)
  <2>1. PICK p \in Polls, j \in Jobs :
           /\ FileSet("active", j, Absent)
           /\ Settled(j) \/ Whole("waiting", j) \/ Whole("delayed", j)
           /\ UNCHANGED accepted
    BY <1>12, UnlinkActiveDoes DEF UnlinkActive, fileVars, LeaveGuard, GoRun
  <2>2. QED
    BY <2>1, <1>e, <1>f DEF FileSet, Whole, Dirs, Absent, Torn, Live,
       NothingLost
<1>13. CASE \E d \in Dirs, j \in Jobs : CleanUp(d, j)
  <2>1. PICK d \in Dirs, j \in Jobs :
           /\ FileSet(d, j, Absent)
           /\ d \in {"completed", "failed"}
           /\ UNCHANGED accepted
    BY <1>13, CleanUpDoes DEF CleanUp, fileVars
  <2>2. QED
    BY <2>1, <1>e, <1>f DEF FileSet, Whole, Dirs, Absent, Torn, Live,
       NothingLost
<1>14. CASE \E j \in Jobs : BeginRecover(j)
  <2>1. PICK j \in Jobs :
           /\ FileSet("waiting", j, Torn)
           /\ boot = "recovering"
           /\ Whole("active", j)
           /\ UNCHANGED accepted
    BY <1>14, BeginRecoverDoes DEF BeginRecover, fileVars
  <2>2. QED
    BY <2>1, <1>e, <1>f DEF FileSet, Whole, Dirs, Absent, Torn, Live,
       NothingLost
<1>15. CASE EndRecover
  <2>1. /\ FileSet("waiting", saved[1], saved[2])
        /\ saved \in Jobs \X Count
        /\ Whole("active", saved[1])
        /\ UNCHANGED accepted
    BY <1>15, EndRecoverDoes DEF EndRecover, fileVars, BootGuard
  <2>2. saved[2] \in Nat
    BY <2>1 DEF Count
  <2>3. QED
    BY <2>1, <2>2, <1>e, <1>f DEF FileSet, Whole, Dirs, Absent, Torn, Live,
       NothingLost
<1>16. CASE UnlinkRecovered
  <2>1. /\ FileSet("active", saved[1], Absent)
        /\ Whole("waiting", saved[1])
        /\ UNCHANGED accepted
    BY <1>16, UnlinkRecoveredDoes DEF UnlinkRecovered, fileVars, BootGuard
  <2>2. QED
    BY <2>1, <1>e, <1>f DEF FileSet, Whole, Dirs, Absent, Torn, Live,
       NothingLost
<1>17. QED
  BY <1>1, <1>2, <1>3, <1>4, <1>5, <1>6, <1>7, <1>8, <1>9, <1>10, <1>11,
     <1>12, <1>13, <1>14, <1>15, <1>16, FileWriters, AcceptedWriters

-----------------------------------------------------------------------------
(* Before the first crash and the first failed write, a job the processor    *)
(* has returned for is only on its way to completed/.                       *)

OverFiles == \A j \in ok : ~Whole("waiting", j) /\ ~Whole("delayed", j)
OverMoves == \A p \in Polls, j \in ok : ~Moving(p, j) /\ ~Unlinking(p, j)
OverRuns ==
  \A p \in Polls, j \in ok : Holds(p, j) =>
    run[p][j] \in Leaving /\ dest[p][j] = "completed"

Over == OverFiles /\ OverMoves /\ OverRuns

LEMMA OverFilesKept ==
  ASSUME TypeOK, Bounds, Quiet, Apart, New, Alone, Unbroken, OnePlace,
         crashes' = 0,
         CompletedIsOk, ioErrors = 0, ioErrors' = 0, Over, [Next]_vars
  PROVE  OverFiles'
<1> /\ boot = "up" /\ OneFile /\ RunHasFile /\ MoveHasFile
  BY DEF OnePlace
<1>a. crashes = 0 /\ crashes' = 0
  BY DEF Unbroken
<1> OverFiles /\ OverMoves /\ OverRuns /\ NewFiles /\ NewRuns /\ NewMoves
  BY DEF Over, New
<1>b. ok \subseteq Jobs
  BY DEF TypeOK
<1>c. \A p, q \in Polls, j \in Jobs : Holds(p, j) /\ Holds(q, j) => q = p
  BY DEF Alone
<1>1. CASE UNCHANGED <<file, ok>>
  BY <1>1, <1>b DEF FileSet, Whole, Dirs, Absent, Torn, OverFiles
<1>2. CASE \E j \in Jobs : BeginAdd(j)
  BY <1>2, BeginAddDoes, <1>b DEF BeginAdd, FileSet, Whole, Dirs, Absent,
     Torn, OverFiles, histVars
<1>3. CASE \E j \in Jobs : EndAdd(j)
  <2>1. PICK j \in Jobs :
           /\ FileSet("waiting", j, 0)
           /\ j \notin ok
           /\ UNCHANGED ok
    BY <1>3, EndAddDoes DEF EndAdd, histVars, NewFiles, NewRuns
  <2>2. QED
    BY <2>1, <1>b DEF FileSet, Whole, Dirs, Absent, Torn, OverFiles
<1>4. CASE \E p \in Polls, j \in Jobs : BeginPromote(p, j)
  <2>1. PICK p \in Polls, j \in Jobs :
           /\ FileSet("waiting", j, Torn)
           /\ scan[p] = "delayed"
           /\ UNCHANGED ok
    BY <1>4, BeginPromoteDoes DEF BeginPromote, histVars
  <2>2. QED
    BY <2>1, <1>b DEF FileSet, Whole, Dirs, Absent, Torn, OverFiles
<1>5. CASE \E p \in Polls : EndPromote(p)
  <2>1. PICK p \in Polls :
           /\ FileSet("waiting", moving[p][1], moving[p][2])
           /\ scan[p] = "moving"
           /\ moving[p] \in Jobs \X Count
           /\ moving[p][1] \notin ok
           /\ UNCHANGED ok
    BY <1>5, EndPromoteDoes DEF EndPromote, histVars, OverMoves, Moving
  <2>2. QED
    BY <2>1, <1>b DEF FileSet, Whole, Dirs, Absent, Torn, OverFiles
<1>6. CASE \E p \in Polls : UnlinkDelayed(p)
  <2>1. PICK p \in Polls :
           /\ FileSet("delayed", moving[p][1], Absent)
           /\ scan[p] = "unlinkDelayed"
           /\ moving[p] \in Jobs \X Count
           /\ UNCHANGED ok
    BY <1>6, UnlinkDelayedDoes DEF UnlinkDelayed, histVars
  <2>2. QED
    BY <2>1, <1>b DEF FileSet, Whole, Dirs, Absent, Torn, OverFiles
<1>7. CASE \E p \in Polls, j \in Jobs : BeginActive(p, j)
  BY <1>7, BeginActiveDoes, <1>b DEF BeginActive, FileSet, Whole, Dirs,
     Absent, Torn, OverFiles, histVars
<1>8. CASE \E p \in Polls, j \in Jobs : EndActive(p, j)
  BY <1>8, EndActiveDoes, <1>b DEF EndActive, FileSet, Whole, Dirs, Absent,
     Torn, OverFiles, histVars
<1>9. CASE \E p \in Polls, j \in Jobs : UnlinkWaiting(p, j)
  BY <1>9, UnlinkWaitingDoes, <1>b DEF UnlinkWaiting, FileSet, Whole, Dirs,
     Absent, Torn, OverFiles, histVars
<1>10. CASE \E p \in Polls, j \in Jobs : ProcessorReturns(p, j)
  <2>1. PICK p \in Polls, j \in Jobs :
           /\ ~Whole("waiting", j) /\ ~Whole("delayed", j)
           /\ ok' = ok \cup {j}
           /\ UNCHANGED file
    BY <1>10, ProcessorReturnsDoes DEF ProcessorReturns, GoRun, fileVars,
       RunHasFile, Holds
  <2>2. QED
    BY <2>1, <1>b DEF FileSet, Whole, Dirs, Absent, Torn, OverFiles
<1>11. CASE \E p \in Polls, j \in Jobs : BeginOut(p, j)
  <2>1. PICK p \in Polls, j \in Jobs :
           /\ FileSet(dest[p][j], j, Torn)
           /\ dest[p][j] \in Dirs
           /\ UNCHANGED ok
    BY <1>11, BeginOutDoes, EarnedBase DEF BeginOut, histVars
  <2>2. QED
    BY <2>1, <1>b DEF FileSet, Whole, Dirs, Absent, Torn, OverFiles
<1>12. CASE \E p \in Polls, j \in Jobs : EndOut(p, j)
  <2>1. PICK p \in Polls, j \in Jobs :
           /\ FileSet(dest[p][j], j, mem[p][j])
           /\ dest[p][j] \in Dirs \ {"waiting"}
           /\ j \in ok => dest[p][j] = "completed"
           /\ UNCHANGED ok
    BY <1>12, EndOutDoes, EarnedBase DEF EndOut, histVars, OverRuns, Holds,
       Bounds, WayOut, Leaving, Dirs
  <2>2. QED
    BY <2>1, <1>b DEF FileSet, Whole, Dirs, Absent, Torn, OverFiles
<1>13. CASE \E p \in Polls, j \in Jobs : UnlinkActive(p, j)
  BY <1>13, UnlinkActiveDoes, <1>b DEF UnlinkActive, FileSet, Whole, Dirs,
     Absent, Torn, OverFiles, histVars
<1>14. CASE \E d \in Dirs, j \in Jobs : CleanUp(d, j)
  BY <1>14, CleanUpDoes, <1>b DEF CleanUp, FileSet, Whole, Dirs, Absent,
     Torn, OverFiles, histVars
<1>15. CASE \E j \in Jobs : BeginRecover(j)
  BY <1>15 DEF BeginRecover
<1>16. CASE EndRecover
  BY <1>16 DEF EndRecover
<1>17. CASE UnlinkRecovered
  BY <1>17 DEF UnlinkRecovered
<1>18. QED
  BY <1>1, <1>2, <1>3, <1>4, <1>5, <1>6, <1>7, <1>8, <1>9, <1>10, <1>11,
     <1>12, <1>13, <1>14, <1>15, <1>16, <1>17, FileWriters, OkWriters

LEMMA OverMovesKept ==
  ASSUME TypeOK, Bounds, Quiet, Apart, New, Alone, Unbroken, OnePlace,
         crashes' = 0,
         CompletedIsOk, ioErrors = 0, ioErrors' = 0, Over, [Next]_vars
  PROVE  OverMoves'
<1> /\ boot = "up" /\ OneFile /\ RunHasFile /\ MoveHasFile
  BY DEF OnePlace
<1>a. crashes = 0 /\ crashes' = 0
  BY DEF Unbroken
<1> OverFiles /\ OverMoves /\ OverRuns /\ NewFiles /\ NewRuns /\ NewMoves
  BY DEF Over, New
<1>b. ok \subseteq Jobs
  BY DEF TypeOK
<1>c. \A p, q \in Polls, j \in Jobs : Holds(p, j) /\ Holds(q, j) => q = p
  BY DEF Alone
<1>1. CASE UNCHANGED <<scan, moving, ok>>
  BY <1>1, <1>b DEF Becomes, Moving, Unlinking, OverMoves
<1>2. CASE \E p \in Polls : Tick(p)
  BY <1>2, TickDoes, <1>b DEF Tick, Becomes, Moving, Unlinking, OverMoves,
     pollVars, histVars
<1>3. CASE \E p \in Polls, j \in Jobs : AbortPoll(p, j)
  BY <1>3, AbortPollDoes, <1>b DEF AbortPoll, Becomes, Moving, Unlinking,
     OverMoves, pollVars, histVars
<1>4. CASE \E p \in Polls, j \in Jobs : BeginPromote(p, j)
  <2>1. PICK p \in Polls, j \in Jobs :
           /\ Becomes(scan, scan', p, "moving")
           /\ Becomes(moving, moving', p, <<j, file["delayed"][j]>>)
           /\ scan[p] = "delayed"
           /\ moving'[p][1] = j
           /\ j \notin ok
           /\ UNCHANGED ok
    BY <1>4, BeginPromoteDoes DEF BeginPromote, histVars, OverFiles
  <2>2. QED
    BY <2>1, <1>b DEF Becomes, Moving, Unlinking, OverMoves
<1>5. CASE \E p \in Polls : EndPromote(p)
  <2>1. PICK p \in Polls :
           /\ Becomes(scan, scan', p, "unlinkDelayed")
           /\ scan[p] = "moving"
           /\ moving[p] \in Jobs \X Count
           /\ UNCHANGED <<moving, ok>>
    BY <1>5, EndPromoteDoes DEF EndPromote, pollVars, histVars
  <2>2. QED
    BY <2>1, <1>b DEF Becomes, Moving, Unlinking, OverMoves
<1>6. CASE \E p \in Polls : PromoteFails(p)
  BY <1>6 DEF PromoteFails
<1>7. CASE \E p \in Polls : UnlinkDelayed(p)
  <2>1. PICK p \in Polls :
           /\ Becomes(scan, scan', p, "delayed")
           /\ Becomes(moving, moving', p, NoMove)
           /\ scan[p] = "unlinkDelayed"
           /\ moving[p] \in Jobs \X Count
           /\ UNCHANGED ok
    BY <1>7, UnlinkDelayedDoes DEF UnlinkDelayed, histVars
  <2>2. QED
    BY <2>1, <1>b DEF Becomes, Moving, Unlinking, OverMoves
<1>8. CASE \E p \in Polls : CountSlots(p)
  <2>1. PICK p \in Polls :
           /\ \/ Becomes(scan, scan', p, "counted")
              \/ Becomes(scan, scan', p, "idle")
           /\ scan[p] = "delayed"
           /\ UNCHANGED <<moving, ok>>
    BY <1>8, CountSlotsDoes DEF CountSlots, pollVars, histVars
  <2>2. QED
    BY <2>1, <1>b DEF Becomes, Moving, Unlinking, OverMoves
<1>9. CASE \E p \in Polls : PickJobs(p)
  <2>1. PICK p \in Polls :
           /\ Becomes(scan, scan', p, "running")
           /\ scan[p] = "counted"
           /\ UNCHANGED <<moving, ok>>
    BY <1>9, PickJobsDoes DEF PickJobs, pollVars, histVars
  <2>2. QED
    BY <2>1, <1>b DEF Becomes, Moving, Unlinking, OverMoves
<1>10. CASE \E p \in Polls : EndPoll(p)
  BY <1>10, EndPollDoes, <1>b DEF EndPoll, Becomes, Moving, Unlinking,
     OverMoves, pollVars, histVars
<1>11. CASE \E p \in Polls, j \in Jobs : ProcessorReturns(p, j)
  <2>1. PICK p \in Polls, j \in Jobs :
           /\ \A q \in Polls : ~Moving(q, j) /\ ~Unlinking(q, j)
           /\ ok' = ok \cup {j}
           /\ UNCHANGED <<scan, moving>>
    BY <1>11, ProcessorReturnsDoes DEF ProcessorReturns, GoRun, pollVars,
       MoveHasFile, Holds
  <2>2. QED
    BY <2>1, <1>b DEF Becomes, Moving, Unlinking, OverMoves
<1>12. CASE Crash
  BY <1>12, <1>a DEF Crash
<1>13. QED
  BY <1>1, <1>2, <1>3, <1>4, <1>5, <1>6, <1>7, <1>8, <1>9, <1>10, <1>11,
     <1>12, ScanWriters, MovingWriters, OkWriters

LEMMA OverRunsKept ==
  ASSUME TypeOK, Bounds, Quiet, Apart, New, Alone, Unbroken, OnePlace,
         crashes' = 0,
         CompletedIsOk, ioErrors = 0, ioErrors' = 0, Over, [Next]_vars
  PROVE  OverRuns'
<1> /\ boot = "up" /\ OneFile /\ RunHasFile /\ MoveHasFile
  BY DEF OnePlace
<1>a. crashes = 0 /\ crashes' = 0
  BY DEF Unbroken
<1> OverFiles /\ OverMoves /\ OverRuns /\ NewFiles /\ NewRuns /\ NewMoves
  BY DEF Over, New
<1>b. ok \subseteq Jobs
  BY DEF TypeOK
<1>c. \A p, q \in Polls, j \in Jobs : Holds(p, j) /\ Holds(q, j) => q = p
  BY DEF Alone
<1>1. CASE UNCHANGED <<run, dest, ok>>
  BY <1>1, <1>b DEF RunSet, Becomes2, Holds, Leaving, OverRuns
<1>2. CASE \E p \in Polls : PickJobs(p)
  <2>1. PICK p \in Polls :
           /\ \A q \in Polls, j \in Jobs : q # p => run'[q][j] = run[q][j]
           /\ \A j \in Jobs :
                run'[p][j] = IF j \in FirstOf(Listed("waiting"), slots[p])
                             THEN "listed" ELSE "none"
           /\ scan[p] = "counted"
           /\ UNCHANGED <<dest, ok>>
    BY <1>2, PickJobsDoes DEF PickJobs, runVars, histVars
  <2>2. QED
    BY <2>1, <1>b DEF RunSet, Becomes2, Holds, Leaving, OverRuns
<1>3. CASE \E p \in Polls, j \in Jobs : ReadNothing(p, j)
  BY <1>3, ReadNothingDoes, <1>b DEF ReadNothing, RunSet, Becomes2, Holds,
     Leaving, OverRuns, runVars, histVars
<1>4. CASE \E p \in Polls, j \in Jobs : ReadWaiting(p, j)
  <2>1. PICK p \in Polls, j \in Jobs :
           /\ RunSet(p, j, "read")
           /\ j \notin ok
           /\ UNCHANGED <<dest, ok>>
    BY <1>4, ReadWaitingDoes DEF ReadWaiting, histVars, OverFiles
  <2>2. QED
    BY <2>1, <1>b DEF RunSet, Becomes2, Holds, Leaving, OverRuns
<1>5. CASE \E p \in Polls, j \in Jobs : BeginActive(p, j)
  BY <1>5, BeginActiveDoes, <1>b DEF BeginActive, RunSet, Becomes2, Holds,
     Leaving, OverRuns, runVars, histVars
<1>6. CASE \E p \in Polls, j \in Jobs : EndActive(p, j)
  BY <1>6, EndActiveDoes, <1>b DEF EndActive, RunSet, Becomes2, Holds,
     Leaving, OverRuns, runVars, histVars
<1>7. CASE \E p \in Polls, j \in Jobs : ActiveFails(p, j)
  BY <1>7 DEF ActiveFails
<1>8. CASE \E p \in Polls, j \in Jobs : UnlinkWaiting(p, j)
  BY <1>8, UnlinkWaitingDoes, <1>b DEF UnlinkWaiting, RunSet, Becomes2,
     Holds, Leaving, OverRuns, runVars, histVars
<1>9. CASE \E p \in Polls, j \in Jobs : ProcessorReturns(p, j)
  <2>1. PICK p \in Polls, j \in Jobs :
           /\ RunSet(p, j, "decided")
           /\ Becomes2(dest, dest', p, j, "completed")
           /\ ok' = ok \cup {j}
           /\ \A q \in Polls : q # p => ~Holds(q, j)
    BY <1>9, ProcessorReturnsDoes, <1>c DEF ProcessorReturns, GoRun, Holds
  <2>2. QED
    BY <2>1, <1>b DEF RunSet, Becomes2, Holds, Leaving, OverRuns
<1>10. CASE \E p \in Polls, j \in Jobs : ProcessorThrows(p, j)
  <2>1. PICK p \in Polls, j \in Jobs :
           /\ RunSet(p, j, "decided")
           /\ Becomes2(dest, dest', p, j, RetryDir(mem[p][j]))
           /\ j \notin ok
           /\ UNCHANGED ok
    BY <1>10, ProcessorThrowsDoes DEF ProcessorThrows, GoRun, Holds, Leaving,
       OverRuns
  <2>2. QED
    BY <2>1, <1>b DEF RunSet, Becomes2, Holds, Leaving, OverRuns
<1>11. CASE \E p \in Polls, j \in Jobs : DropJob(p, j)
  BY <1>11, DropJobDoes, <1>b DEF DropJob, RunSet, Becomes2, Holds, Leaving,
     OverRuns, runVars, histVars
<1>12. CASE \E p \in Polls, j \in Jobs : BeginOut(p, j)
  BY <1>12, BeginOutDoes, <1>b DEF BeginOut, RunSet, Becomes2, Holds,
     Leaving, OverRuns, runVars, histVars
<1>13. CASE \E p \in Polls, j \in Jobs : EndOut(p, j)
  BY <1>13, EndOutDoes, <1>b DEF EndOut, RunSet, Becomes2, Holds, Leaving,
     OverRuns, runVars, histVars
<1>14. CASE \E p \in Polls, j \in Jobs : OutFails(p, j)
  BY <1>14 DEF OutFails
<1>15. CASE \E p \in Polls, j \in Jobs : UnlinkActive(p, j)
  BY <1>15, UnlinkActiveDoes, <1>b DEF UnlinkActive, RunSet, Becomes2, Holds,
     Leaving, OverRuns, runVars, histVars
<1>16. CASE Crash
  BY <1>16, <1>a DEF Crash
<1>17. QED
  BY <1>1, <1>2, <1>3, <1>4, <1>5, <1>6, <1>7, <1>8, <1>9, <1>10, <1>11,
     <1>12, <1>13, <1>14, <1>15, <1>16, RunWriters, DestWriters, OkWriters

-----------------------------------------------------------------------------
(* A job that has left the queue does not come back.                        *)

Gone(j) == ~Live(j) /\ \A p \in Polls : ~Holds(p, j)

LEMMA GoneFilesStay ==
  ASSUME TypeOK, Bounds, Quiet, Apart, New, Alone, Calm, Guarded, [Next]_vars
  PROVE  \A j \in accepted : Gone(j) => ~Live(j)'
<1> /\ PickGuard /\ RunGuard /\ LeaveGuard
    /\ UnlinkGuard /\ MoveGuard /\ BootGuard
  BY DEF Guarded
<1> NewFiles /\ NewRuns /\ NewMoves /\ MovesKnown /\ WayOut
  BY DEF New, Bounds
<1>a. \A p, q \in Polls, j \in Jobs :
        run[p][j] \in Picking => scan[q] \notin Walking
  BY DEF Apart
<1>b. \A p, q \in Polls : scan[p] \in Walking /\ scan[q] \in Walking => q = p
  BY DEF Apart
<1>c. \A p, q \in Polls, j \in Jobs : Holds(p, j) /\ Holds(q, j) => q = p
  BY DEF Alone
<1>d. \A p \in Polls, j \in Jobs :
        boot # "up" => scan[p] \notin Walking /\ run[p][j] = "none"
  BY DEF Apart
<1>f. accepted \subseteq Jobs /\ adding \subseteq Jobs
  BY DEF TypeOK
<1>1. CASE UNCHANGED file
  BY <1>1, <1>f DEF FileSet, Whole, Dirs, Absent, Torn, Live, Gone
<1>2. CASE \E j \in Jobs : BeginAdd(j)
  <2>1. PICK j \in Jobs :
           /\ FileSet("waiting", j, Torn)
    BY <1>2, BeginAddDoes DEF BeginAdd
  <2>2. QED
    BY <2>1, <1>f DEF FileSet, Whole, Dirs, Absent, Torn, Live, Gone
<1>3. CASE \E j \in Jobs : EndAdd(j)
  <2>1. PICK j \in Jobs :
           /\ FileSet("waiting", j, 0)
           /\ j \notin accepted
    BY <1>3, EndAddDoes DEF EndAdd, NewFiles
  <2>2. QED
    BY <2>1, <1>f DEF FileSet, Whole, Dirs, Absent, Torn, Live, Gone
<1>4. CASE \E p \in Polls, j \in Jobs : BeginPromote(p, j)
  <2>1. PICK p \in Polls, j \in Jobs :
           /\ FileSet("waiting", j, Torn)
           /\ scan[p] = "delayed"
    BY <1>4, BeginPromoteDoes DEF BeginPromote
  <2>2. QED
    BY <2>1, <1>f DEF FileSet, Whole, Dirs, Absent, Torn, Live, Gone
<1>5. CASE \E p \in Polls : EndPromote(p)
  <2>1. PICK p \in Polls :
           /\ FileSet("waiting", moving[p][1], moving[p][2])
           /\ scan[p] = "moving"
           /\ moving[p] \in Jobs \X Count
           /\ Live(moving[p][1])
    BY <1>5, EndPromoteDoes DEF EndPromote, MoveGuard, Moving, Live
  <2>2. QED
    BY <2>1, <1>f DEF FileSet, Whole, Dirs, Absent, Torn, Live, Gone
<1>6. CASE \E p \in Polls : UnlinkDelayed(p)
  <2>1. PICK p \in Polls :
           /\ FileSet("delayed", moving[p][1], Absent)
           /\ scan[p] = "unlinkDelayed"
           /\ moving[p] \in Jobs \X Count
    BY <1>6, UnlinkDelayedDoes DEF UnlinkDelayed
  <2>2. QED
    BY <2>1, <1>f DEF FileSet, Whole, Dirs, Absent, Torn, Live, Gone
<1>7. CASE \E p \in Polls, j \in Jobs : BeginActive(p, j)
  <2>1. PICK p \in Polls, j \in Jobs :
           /\ FileSet("active", j, Torn)
    BY <1>7, BeginActiveDoes DEF BeginActive
  <2>2. QED
    BY <2>1, <1>f DEF FileSet, Whole, Dirs, Absent, Torn, Live, Gone
<1>8. CASE \E p \in Polls, j \in Jobs : EndActive(p, j)
  <2>1. PICK p \in Polls, j \in Jobs :
           /\ FileSet("active", j, mem[p][j])
           /\ Holds(p, j)
    BY <1>8, EndActiveDoes DEF EndActive, Holds, GoRun
  <2>2. QED
    BY <2>1, <1>f DEF FileSet, Whole, Dirs, Absent, Torn, Live, Gone
<1>9. CASE \E p \in Polls, j \in Jobs : UnlinkWaiting(p, j)
  <2>1. PICK p \in Polls, j \in Jobs :
           /\ FileSet("waiting", j, Absent)
    BY <1>9, UnlinkWaitingDoes DEF UnlinkWaiting
  <2>2. QED
    BY <2>1, <1>f DEF FileSet, Whole, Dirs, Absent, Torn, Live, Gone
<1>10. CASE \E p \in Polls, j \in Jobs : BeginOut(p, j)
  <2>1. PICK p \in Polls, j \in Jobs :
           /\ FileSet(dest[p][j], j, Torn)
           /\ Holds(p, j)
    BY <1>10, BeginOutDoes DEF BeginOut, Holds, GoRun
  <2>2. QED
    BY <2>1, <1>f DEF FileSet, Whole, Dirs, Absent, Torn, Live, Gone
<1>11. CASE \E p \in Polls, j \in Jobs : EndOut(p, j)
  <2>1. PICK p \in Polls, j \in Jobs :
           /\ FileSet(dest[p][j], j, mem[p][j])
           /\ Holds(p, j)
    BY <1>11, EndOutDoes DEF EndOut, Holds, GoRun
  <2>2. QED
    BY <2>1, <1>f DEF FileSet, Whole, Dirs, Absent, Torn, Live, Gone
<1>12. CASE \E p \in Polls, j \in Jobs : UnlinkActive(p, j)
  <2>1. PICK p \in Polls, j \in Jobs :
           /\ FileSet("active", j, Absent)
    BY <1>12, UnlinkActiveDoes DEF UnlinkActive
  <2>2. QED
    BY <2>1, <1>f DEF FileSet, Whole, Dirs, Absent, Torn, Live, Gone
<1>13. CASE \E d \in Dirs, j \in Jobs : CleanUp(d, j)
  <2>1. PICK d \in Dirs, j \in Jobs :
           /\ FileSet(d, j, Absent)
    BY <1>13, CleanUpDoes DEF CleanUp
  <2>2. QED
    BY <2>1, <1>f DEF FileSet, Whole, Dirs, Absent, Torn, Live, Gone
<1>14. CASE \E j \in Jobs : BeginRecover(j)
  <2>1. PICK j \in Jobs :
           /\ FileSet("waiting", j, Torn)
           /\ boot = "recovering"
    BY <1>14, BeginRecoverDoes DEF BeginRecover
  <2>2. QED
    BY <2>1, <1>f DEF FileSet, Whole, Dirs, Absent, Torn, Live, Gone
<1>15. CASE EndRecover
  <2>1. /\ FileSet("waiting", saved[1], saved[2])
        /\ saved \in Jobs \X Count
        /\ Whole("active", saved[1])
    BY <1>15, EndRecoverDoes DEF EndRecover, BootGuard
  <2>2. QED
    BY <2>1, <1>f DEF FileSet, Whole, Dirs, Absent, Torn, Live, Gone
<1>16. CASE UnlinkRecovered
  <2>1. /\ FileSet("active", saved[1], Absent)
        /\ saved \in Jobs \X Count
    BY <1>16, UnlinkRecoveredDoes DEF UnlinkRecovered
  <2>2. QED
    BY <2>1, <1>f DEF FileSet, Whole, Dirs, Absent, Torn, Live, Gone
<1>17. QED
  BY <1>1, <1>2, <1>3, <1>4, <1>5, <1>6, <1>7, <1>8, <1>9, <1>10, <1>11,
     <1>12, <1>13, <1>14, <1>15, <1>16, FileWriters

LEMMA GoneRunsStay ==
  ASSUME TypeOK, Bounds, Quiet, Apart, New, Alone, Calm, Guarded, [Next]_vars
  PROVE  \A j \in accepted, p \in Polls : Gone(j) => ~Holds(p, j)'
<1> /\ PickGuard /\ RunGuard /\ LeaveGuard
    /\ UnlinkGuard /\ MoveGuard /\ BootGuard
  BY DEF Guarded
<1> NewFiles /\ NewRuns /\ NewMoves /\ MovesKnown /\ WayOut
  BY DEF New, Bounds
<1>a. \A p, q \in Polls, j \in Jobs :
        run[p][j] \in Picking => scan[q] \notin Walking
  BY DEF Apart
<1>b. \A p, q \in Polls : scan[p] \in Walking /\ scan[q] \in Walking => q = p
  BY DEF Apart
<1>c. \A p, q \in Polls, j \in Jobs : Holds(p, j) /\ Holds(q, j) => q = p
  BY DEF Alone
<1>d. \A p \in Polls, j \in Jobs :
        boot # "up" => scan[p] \notin Walking /\ run[p][j] = "none"
  BY DEF Apart
<1>f. accepted \subseteq Jobs /\ adding \subseteq Jobs
  BY DEF TypeOK
<1>1. CASE UNCHANGED run
  BY <1>1, <1>f DEF RunSet, Holds, Gone
<1>2. CASE \E p \in Polls : PickJobs(p)
  <2>1. PICK p \in Polls :
           /\ \A q \in Polls, j \in Jobs : q # p => run'[q][j] = run[q][j]
           /\ \A j \in Jobs :
                run'[p][j] = IF j \in FirstOf(Listed("waiting"), slots[p])
                             THEN "listed" ELSE "none"
           /\ scan[p] = "counted"
    BY <1>2, PickJobsDoes DEF PickJobs
  <2>2. QED
    BY <2>1, <1>f DEF RunSet, Holds, Gone
<1>3. CASE \E p \in Polls, j \in Jobs : ReadNothing(p, j)
  BY <1>3, ReadNothingDoes, <1>f DEF ReadNothing, RunSet, Holds, Gone
<1>4. CASE \E p \in Polls, j \in Jobs : ReadWaiting(p, j)
  <2>1. PICK p \in Polls, j \in Jobs :
           /\ run[p][j] = "listed"
           /\ RunSet(p, j, "read")
           /\ Whole("waiting", j)
    BY <1>4, ReadWaitingDoes DEF ReadWaiting
  <2>2. QED
    BY <2>1, <1>f DEF RunSet, Holds, Gone, Live
<1>5. CASE \E p \in Polls, j \in Jobs : BeginActive(p, j)
  BY <1>5, BeginActiveDoes, <1>f DEF BeginActive, RunSet, Holds, Gone
<1>6. CASE \E p \in Polls, j \in Jobs : EndActive(p, j)
  BY <1>6, EndActiveDoes, <1>f DEF EndActive, RunSet, Holds, Gone
<1>7. CASE \E p \in Polls, j \in Jobs : ActiveFails(p, j)
  BY <1>7, ActiveFailsDoes, <1>f DEF ActiveFails, RunSet, Holds, Gone
<1>8. CASE \E p \in Polls, j \in Jobs : UnlinkWaiting(p, j)
  BY <1>8, UnlinkWaitingDoes, <1>f DEF UnlinkWaiting, RunSet, Holds, Gone
<1>9. CASE \E p \in Polls, j \in Jobs : ProcessorReturns(p, j)
  BY <1>9, ProcessorReturnsDoes, <1>f DEF ProcessorReturns, RunSet, Holds,
     Gone
<1>10. CASE \E p \in Polls, j \in Jobs : ProcessorThrows(p, j)
  <2>1. PICK p \in Polls, j \in Jobs :
           /\ run[p][j] = "running"
           /\ RunSet(p, j, "decided")
    BY <1>10, ProcessorThrowsDoes DEF ProcessorThrows
  <2>2. QED
    BY <2>1, <1>f DEF RunSet, Holds, Gone
<1>11. CASE \E p \in Polls, j \in Jobs : DropJob(p, j)
  BY <1>11, DropJobDoes, <1>f DEF DropJob, RunSet, Holds, Gone
<1>12. CASE \E p \in Polls, j \in Jobs : BeginOut(p, j)
  BY <1>12, BeginOutDoes, <1>f DEF BeginOut, RunSet, Holds, Gone
<1>13. CASE \E p \in Polls, j \in Jobs : EndOut(p, j)
  BY <1>13, EndOutDoes, <1>f DEF EndOut, RunSet, Holds, Gone
<1>14. CASE \E p \in Polls, j \in Jobs : OutFails(p, j)
  BY <1>14, OutFailsDoes, <1>f DEF OutFails, RunSet, Holds, Gone
<1>15. CASE \E p \in Polls, j \in Jobs : UnlinkActive(p, j)
  BY <1>15, UnlinkActiveDoes, <1>f DEF UnlinkActive, RunSet, Holds, Gone
<1>16. CASE Crash
  BY <1>16, <1>f DEF Crash, RunSet, Holds, Gone
<1>17. QED
  BY <1>1, <1>2, <1>3, <1>4, <1>5, <1>6, <1>7, <1>8, <1>9, <1>10, <1>11,
     <1>12, <1>13, <1>14, <1>15, <1>16, RunWriters

-----------------------------------------------------------------------------
(* The inductive invariant.                                                 *)

QueueInv ==
  /\ TypeOK /\ Bounds /\ Earned /\ FailedAfterAttempts
  /\ Quiet /\ OneScan /\ Counted /\ SlotsLeft /\ New
  /\ Unbroken => OnePlace
  /\ Calm => Alone /\ Guarded /\ NothingLost
  /\ Unbroken /\ ioErrors = 0 => Over

LEMMA QueueInvInit == Init => QueueInv
<1> SUFFICES ASSUME Init PROVE QueueInv
  OBVIOUS
<1> LocalQueueAssumption
  BY LocalQueueAssumption
<1>1. TypeOK /\ Bounds
  BY InitTyped
<1>2. /\ \A d \in Dirs, j \in Jobs : file[d][j] = Absent
      /\ \A p \in Polls : scan[p] = "idle" /\ list[p] = {} /\ moving[p] = NoMove
      /\ \A p \in Polls, j \in Jobs : run[p][j] = "none"
      /\ \A j \in Jobs : errs[j] = 0
  BY DEF Init
<1>3. /\ adding = {} /\ accepted = {} /\ active = 0 /\ boot = "up" /\ todo = {}
      /\ saved = NoMove /\ ok = {} /\ ioErrors = 0
  BY DEF Init
<1>4. Earned /\ FailedAfterAttempts
  <2>1. EarnedFiles /\ FailedAfterAttempts
    BY <1>2 DEF EarnedFiles, FailedAfterAttempts, Dirs, Absent
  <2>2. EarnedMoves
    BY <1>2, <1>3 DEF EarnedMoves
  <2>3. EarnedRuns /\ CompletedIsOk
    BY <1>2 DEF EarnedRuns, CompletedIsOk, Holds, Leaving
  <2>4. QED
    BY <2>1, <2>2, <2>3 DEF Earned
<1>5. Quiet /\ OneScan
  BY <1>2, <1>3 DEF Quiet, OneScan, Scanning, Picking
<1>6. Counted
  <2>1. \A r \in Polls \X Jobs : ~Holds(r[1], r[2])
    BY <1>2 DEF Holds
  <2>2. Holders = {}
    BY <2>1 DEF Holders
  <2>3. QED
    BY <2>2, <1>3, FS_EmptySet DEF Counted
<1>7. SlotsLeft
  <2>1. \A p \in Polls : ListedBy(p) = {} /\ scan[p] # "counted"
    BY <1>2 DEF ListedBy
  <2>2. QED
    BY <2>1, <1>3, FS_EmptySet DEF SlotsLeft
<1>8. New
  BY <1>2, <1>3 DEF New, NewFiles, NewRuns, NewMoves, Holds, Whole, Dirs, Absent
<1>9. OnePlace
  BY <1>2, <1>3 DEF OnePlace, OneFile, RunHasFile, MoveHasFile, Moving,
     Unlinking, Whole, Dirs, Absent, Holds, Leaving
<1>10. Alone /\ NothingLost
  BY <1>2, <1>3 DEF Alone, Holds, NothingLost
<1>11. Guarded
  BY <1>2, <1>3 DEF Guarded, PickGuard, RunGuard, LeaveGuard, UnlinkGuard,
     MoveGuard, BootGuard, Moving, Unlinking
<1>12. Over
  BY <1>3 DEF Over, OverFiles, OverMoves, OverRuns
<1>13. QED
  BY <1>1, <1>4, <1>5, <1>6, <1>7, <1>8, <1>9, <1>10, <1>11, <1>12 DEF QueueInv

(* Crashes and failed writes are never taken back.                          *)
LEMMA CalmBefore ==
  ASSUME TypeOK, Bounds, [Next]_vars
  PROVE  /\ Unbroken' => Unbroken /\ crashes' = 0
         /\ Calm' => Calm
         /\ ioErrors' = 0 => ioErrors = 0
<1>1. crashes \in Nat /\ (crashes' = 0 => crashes = 0)
  <2>1. crashes \in Nat
    BY LocalQueueAssumption DEF TypeOK
  <2>2. QED
    BY <2>1, CrashesWriters DEF Crash
<1>2. ioErrors \in Nat /\ (ioErrors' = 0 => ioErrors = 0)
  <2>1. ioErrors \in Nat
    BY LocalQueueAssumption DEF TypeOK
  <2>2. QED
    BY <2>1, IoErrorsWriters DEF AddFails, PromoteFails, ActiveFails, OutFails,
       RecoverFails
<1>3. QED
  BY <1>1, <1>2 DEF Unbroken, Calm

LEMMA QueueInvNext == QueueInv /\ [Next]_vars => QueueInv'
<1> SUFFICES ASSUME QueueInv, [Next]_vars PROVE QueueInv'
  OBVIOUS
<1>1. /\ TypeOK /\ Bounds /\ Earned /\ FailedAfterAttempts
      /\ Quiet /\ OneScan /\ Counted /\ SlotsLeft /\ New
  BY DEF QueueInv
<1>2. TypeOK' /\ Bounds'
  BY <1>1, TypeKept, AttemptLeftKept, MovesLeftKept, MovesKnownKept, WayOutKept
     DEF Bounds
<1>3. Earned' /\ FailedAfterAttempts'
  BY <1>1, EarnedFilesKept, EarnedMovesKept, EarnedRunsKept, CompletedIsOkKept,
     FailedAfterAttemptsKept DEF Earned
<1>4. Quiet' /\ OneScan' /\ Counted' /\ SlotsLeft'
  BY <1>1, QuietKept, OneScanKept, CountedKept, SlotsLeftKept
<1>5. New'
  BY <1>1, NewFilesKept, NewRunsKept, NewMovesKept DEF New
<1>6. /\ Unbroken' => Unbroken /\ crashes' = 0
      /\ Calm' => Calm
      /\ ioErrors' = 0 => ioErrors = 0
  BY <1>1, CalmBefore
<1>7. Unbroken => Calm
  BY DEF Unbroken, Calm
<1>8. Calm => Apart /\ Alone /\ Guarded /\ NothingLost
  BY <1>1, ScansApart DEF QueueInv, Calm
<1>9. Unbroken => OnePlace
  BY DEF QueueInv
<1>10. Unbroken' => OnePlace'
  <2> SUFFICES ASSUME Unbroken' PROVE OnePlace'
    OBVIOUS
  <2>1. Unbroken /\ crashes' = 0 /\ Apart /\ Alone /\ OnePlace
    BY <1>6, <1>7, <1>8, <1>9
  <2>2. OneFile' /\ RunHasFile' /\ MoveHasFile'
    BY <1>1, <2>1, OneFileKept, RunHasFileKept, MoveHasFileKept
  <2>3. boot' = "up"
    BY <2>1, BootWriters DEF Unbroken, OnePlace, Crash, BeginRecover, EndRecover,
       UnlinkRecovered, RecoverFails, StartPolling
  <2>4. QED
    BY <2>2, <2>3 DEF OnePlace
<1>11. Calm' => Alone' /\ Guarded' /\ NothingLost'
  <2> SUFFICES ASSUME Calm' PROVE Alone' /\ Guarded' /\ NothingLost'
    OBVIOUS
  <2>1. Calm /\ Apart /\ Alone /\ Guarded /\ NothingLost
    BY <1>6, <1>8
  <2>2. Alone'
    BY <1>1, <1>9, <2>1, AloneKept
  <2>3. Guarded'
    BY <1>1, <2>1, PickGuardKept, RunGuardKept, LeaveGuardKept, UnlinkGuardKept,
       MoveGuardKept, BootGuardKept DEF Guarded
  <2>4. NothingLost'
    BY <1>1, <2>1, NothingLostKept
  <2>5. QED
    BY <2>2, <2>3, <2>4
<1>12. Unbroken' /\ ioErrors' = 0 => Over'
  <2> SUFFICES ASSUME Unbroken', ioErrors' = 0 PROVE Over'
    OBVIOUS
  <2>1. Unbroken /\ crashes' = 0 /\ Apart /\ Alone /\ OnePlace /\ ioErrors = 0
    BY <1>6, <1>7, <1>8, <1>9
  <2>2. Over /\ CompletedIsOk
    BY <1>1, <2>1 DEF QueueInv, Earned
  <2>3. OverFiles' /\ OverMoves' /\ OverRuns'
    BY <1>1, <2>1, <2>2, OverFilesKept, OverMovesKept, OverRunsKept
  <2>4. QED
    BY <2>3 DEF Over
<1>13. QED
  BY <1>2, <1>3, <1>4, <1>5, <1>10, <1>11, <1>12 DEF QueueInv

THEOREM QueueInductive == Spec => []QueueInv
BY QueueInvInit, QueueInvNext, PTL DEF Spec

(* Type correctness.                                                        *)
THEOREM QueueTypeCorrect == Spec => []TypeOK
<1>1. QueueInv => TypeOK
  BY DEF QueueInv
<1>2. QED
  BY <1>1, QueueInductive, PTL

(* A job reaches failed/ only after more than maxAttempts errors, or a write *)
(* that failed.                                                             *)
THEOREM FailsAfterAttempts == Spec => []FailedAfterAttempts
<1>1. QueueInv => FailedAfterAttempts
  BY DEF QueueInv
<1>2. QED
  BY <1>1, QueueInductive, PTL

(* activeJobsCount covers the processor calls under way, and exceeds the     *)
(* runs that have read their job by no more than the writes that failed,     *)
(* whatever crashes and overlapping scans there are.                        *)
THEOREM CountIsEnough == Spec => []CountFollowsRuns
<1>1. QueueInv => CountFollowsRuns
  BY CountedCovers DEF QueueInv
<1>2. QED
  BY <1>1, QueueInductive, PTL

(* While scans do not overlap, no more than concurrency jobs are in the      *)
(* processor.                                                               *)
THEOREM ConcurrencyHolds == Spec => []ConcurrencyRespected
<1>1. ASSUME QueueInv, ~SlowDisk
      PROVE  Cardinality(InProcessor) <= Concurrency
  <2>1. /\ Cardinality(InProcessor) <= active
        /\ active <= Concurrency
    BY <1>1, CountedCovers DEF QueueInv, CountFollowsRuns, SlotsLeft
  <2>2. /\ active \in Nat /\ Concurrency \in Nat
        /\ Cardinality(InProcessor) \in Nat
    <3>1. InProcessor \in SUBSET Holders /\ IsFiniteSet(Holders)
      BY <1>1 DEF InProcessor, Holders, Holds, QueueInv, Counted
    <3>2. QED
      BY <1>1, <3>1, FS_Subset, FS_CardinalityType, LocalQueueAssumption, Types
         DEF QueueInv
  <2>3. QED
    BY <2>1, <2>2
<1>2. QueueInv => ConcurrencyRespected
  BY <1>1 DEF ConcurrencyRespected
<1>3. QED
  BY <1>2, QueueInductive, PTL

(* An accepted job that is not over has a readable file the queue comes back *)
(* to, on a disk that is not slow and with one slot or before any crash.     *)
THEOREM JobsAreKept == Spec => []NoJobLost
<1>1. QueueInv => NoJobLost
  BY DEF QueueInv, NoJobLost, NothingLost, Calm
<1>2. QED
  BY <1>1, QueueInductive, PTL

(* Before the first crash and the first failed write no job is in the        *)
(* processor twice, and none that was returned for will be run again.        *)
THEOREM JobsRunOnce == Spec => []OnceUnlessCrashed
<1>1. ASSUME QueueInv, Unbroken, ioErrors = 0, NEW j \in Jobs
      PROVE  Cardinality({r \in InProcessor : r[2] = j}) <= 1
  <2> DEFINE S == {r \in InProcessor : r[2] = j}
  <2>1. Alone
    BY <1>1 DEF QueueInv, Unbroken, Calm
  <2>2. \A r, s \in S : r = s
    <3> SUFFICES ASSUME NEW r \in S, NEW s \in S PROVE r = s
      OBVIOUS
    <3>1. /\ r \in Polls \X Jobs /\ s \in Polls \X Jobs
          /\ r[2] = j /\ s[2] = j
          /\ Holds(r[1], j) /\ Holds(s[1], j)
      BY DEF InProcessor, Holds
    <3>2. r[1] = s[1]
      BY <2>1, <3>1 DEF Alone
    <3>3. r = <<r[1], r[2]>> /\ s = <<s[1], s[2]>>
      BY <3>1
    <3>4. QED
      BY <3>1, <3>2, <3>3
  <2>3. CASE S = {}
    BY <2>3, FS_EmptySet
  <2>4. CASE S # {}
    <3>1. PICK r \in S : TRUE
      BY <2>4
    <3>2. S = {r}
      BY <2>2, <3>1
    <3>3. Cardinality({r}) = 1
      BY FS_Singleton
    <3>4. QED
      BY <3>2, <3>3
  <2>5. QED
    BY <2>3, <2>4
<1>2. ASSUME QueueInv, Unbroken, ioErrors = 0, NEW j \in ok
      PROVE  ~(Whole("waiting", j) \/ Whole("delayed", j))
  BY <1>2 DEF QueueInv, Over, OverFiles
<1>3. QueueInv => OnceUnlessCrashed
  BY <1>1, <1>2 DEF OnceUnlessCrashed, Unbroken
<1>4. QED
  BY <1>3, QueueInductive, PTL

-----------------------------------------------------------------------------
(* The queue implements JobQueue.                                           *)

(* Steps that call the processor leave every file and promise in place.     *)
LEMMA AnswersKeepState ==
  ASSUME QueueInv, NEW p \in Polls, NEW i \in Jobs,
         ProcessorReturns(p, i) \/ ProcessorThrows(p, i)
  PROVE  /\ QueueState(i) = "pending"
         /\ \A j \in Jobs : QueueState(j) = "pending" => QueueState(j)' = "pending"
         /\ \A j \in Jobs : QueueState(j) = "new" => QueueState(j)' = "new"
         /\ \A j \in Jobs : QueueState(j) \notin {"new", "pending"} =>
              /\ QueueState(j)' \notin {"new", "pending"}
              /\ j # i
<1>1. TypeOK /\ Bounds /\ NewRuns
  BY DEF QueueInv, New
<1>2. /\ run[p][i] = "running" /\ RunSet(p, i, "decided")
      /\ UNCHANGED <<file, accepted>>
  BY <1>1, ProcessorReturnsDoes, ProcessorThrowsDoes
     DEF ProcessorReturns, ProcessorThrows, fileVars
<1>3. i \in accepted /\ InMemory(i)
  BY <1>1, <1>2 DEF NewRuns, Holds, InMemory
<1>4. \A j \in Jobs : InMemory(j)' <=> InMemory(j)
  BY <1>2 DEF InMemory, RunSet
<1>5. \A j \in Jobs : Live(j)' <=> Live(j)
  BY <1>2 DEF Live, Whole
<1>6. QED
  BY <1>2, <1>3, <1>4, <1>5 DEF QueueState

(* Every other step adds jobs to the queue, or settles some.                *)
LEMMA OthersSettle ==
  ASSUME QueueInv, QueueInv', Calm, Calm', [Next]_vars, UNCHANGED histVars,
         NEW j \in Jobs
  PROVE  /\ j \in accepted => j \in accepted'
         /\ QueueState(j) \notin {"new", "pending"} => QueueState(j)' = QueueState(j)
         /\ QueueState(j) = "pending" =>
              \/ QueueState(j)' = "pending"
              \/ /\ j \in ok \/ errs[j] > MaxAttempts
                 /\ QueueState(j)' = IF j \in ok THEN "done" ELSE "dead"
<1>1. /\ TypeOK /\ Bounds /\ Quiet /\ New /\ Alone /\ Guarded /\ Apart
      /\ NothingLost'
  BY ScansApart DEF QueueInv, Calm
<1>2. accepted \subseteq accepted'
  BY AcceptedWriters DEF EndAdd
<1>3. ok' = ok /\ errs' = errs
  BY DEF histVars
<1>4. \A i \in Jobs : InMemory(i) <=> \E p \in Polls : Holds(p, i)
  BY DEF InMemory, Holds
<1>5. InMemory(j)' <=> (\E p \in Polls : Holds(p, j))'
  BY DEF InMemory, Holds
<1>6. j \in accepted /\ Gone(j) => ~Live(j)' /\ ~InMemory(j)'
  <2>1. \A i \in accepted : Gone(i) => ~Live(i)'
    BY <1>1, GoneFilesStay
  <2>2. \A i \in accepted, p \in Polls : Gone(i) => ~Holds(p, i)'
    BY <1>1, GoneRunsStay
  <2>3. QED
    BY <1>5, <2>1, <2>2
<1>7. j \in accepted' => Live(j)' \/ Settled(j)'
  BY <1>1 DEF NothingLost
<1>8. Settled(j)' <=> j \in ok \/ errs[j] > MaxAttempts
  BY <1>3 DEF Settled
<1>9. Gone(j) <=> ~Live(j) /\ ~InMemory(j)
  BY <1>4 DEF Gone
<1>10. QED
  BY <1>2, <1>3, <1>6, <1>7, <1>8, <1>9 DEF QueueState

(* Only addJob brings a job in.                                             *)
LEMMA AddsOne ==
  ASSUME QueueInv, QueueInv', NEW i \in Jobs, EndAdd(i)
  PROVE  /\ QueueState(i) = "new" /\ QueueState(i)' = "pending"
         /\ \A j \in Jobs : j # i => QueueState(j)' = QueueState(j)
         /\ UNCHANGED <<ok, errs>>
<1>1. TypeOK /\ Bounds /\ NewFiles
  BY DEF QueueInv, New
<1>2. /\ FileSet("waiting", i, 0) /\ accepted' = accepted \cup {i}
      /\ i \notin accepted /\ run' = run
      /\ UNCHANGED <<ok, errs>>
  BY <1>1, EndAddDoes DEF EndAdd, NewFiles, runVars, histVars
<1>3. Live(i)' /\ \A j \in Jobs : j # i => (Live(j)' <=> Live(j))
  BY <1>2 DEF Live, Whole, FileSet, Dirs
<1>4. \A j \in Jobs : InMemory(j)' <=> InMemory(j)
  BY <1>2 DEF InMemory
<1>5. QED
  BY <1>2, <1>3, <1>4 DEF QueueState

LEMMA QueueInits ==
  ASSUME Init
  PROVE  Queue!Init
<1>1. \A j \in Jobs : QueueState(j) = "new"
  BY DEF Init, QueueState
<1>2. ok = {} /\ errs = [j \in Jobs |-> 0]
  BY DEF Init
<1>3. QED
  BY <1>1, <1>2 DEF Queue!Init

LEMMA QueueSteps ==
  ASSUME QueueInv, QueueInv', Calm, Calm', [Next]_vars
  PROVE  [Queue!Next]_(Queue!vars)
<1> DEFINE S0 == [j \in Jobs |-> QueueState(j)]
           S1 == [j \in Jobs |-> QueueState(j)']
<1>1. CASE \E p \in Polls, i \in Jobs :
             ProcessorReturns(p, i) \/ ProcessorThrows(p, i)
  <2>1. PICK p \in Polls, i \in Jobs :
          ProcessorReturns(p, i) \/ ProcessorThrows(p, i)
    BY <1>1
  <2>2. \A j \in Jobs : QueueState(j)' = QueueState(j)
    BY <2>1, AnswersKeepState DEF QueueState, ProcessorReturns, ProcessorThrows
  <2>3. QueueState(i) = "pending"
    BY <2>1, AnswersKeepState
  <2>4. CASE ProcessorReturns(p, i)
    <3>1. ok' = ok \cup {i} /\ errs' = errs
      BY <2>4 DEF ProcessorReturns
    <3>2. Queue!Return(i)
      BY <2>2, <2>3, <3>1 DEF Queue!Return
    <3>3. QED
      BY <3>2 DEF Queue!Next
  <2>5. CASE ProcessorThrows(p, i)
    <3>1. /\ errs' = [errs EXCEPT ![i] = IF @ <= MaxAttempts THEN @ + 1 ELSE @]
          /\ ok' = ok
      BY <2>5 DEF ProcessorThrows
    <3>2. Queue!Throw(i)
      BY <2>2, <2>3, <3>1 DEF Queue!Throw
    <3>3. QED
      BY <3>2 DEF Queue!Next
  <2>6. QED
    BY <2>1, <2>4, <2>5
<1>2. CASE \E i \in Jobs : EndAdd(i)
  <2>1. PICK i \in Jobs : EndAdd(i)
    BY <1>2
  <2>2. /\ QueueState(i) = "new" /\ QueueState(i)' = "pending"
        /\ \A j \in Jobs : j # i => QueueState(j)' = QueueState(j)
        /\ UNCHANGED <<ok, errs>>
    BY <2>1, AddsOne
  <2>3. Queue!Add(i)
    BY <2>2 DEF Queue!Add
  <2>4. QED
    BY <2>3 DEF Queue!Next
<1>3. CASE UNCHANGED histVars /\ accepted' = accepted
  <2> DEFINE S == {j \in Jobs : QueueState(j) = "pending"
                                /\ QueueState(j)' # "pending"}
  <2>1. \A j \in S : j \in ok \/ errs[j] > MaxAttempts
    BY <1>3, OthersSettle
  <2>2. \A j \in Jobs : QueueState(j)' = IF j \notin S THEN QueueState(j)
                                ELSE IF j \in ok THEN "done" ELSE "dead"
    <3> SUFFICES ASSUME NEW j \in Jobs
                 PROVE  QueueState(j)' = IF j \notin S THEN QueueState(j)
                                ELSE IF j \in ok THEN "done" ELSE "dead"
      OBVIOUS
    <3>1. QueueState(j) = "new" => QueueState(j)' = "new"
      BY <1>3 DEF QueueState
    <3>2. QED
      BY <1>3, <3>1, OthersSettle
  <2>3. Queue!Settle(S)
    <3> HIDE DEF S
    <3>1. \A j \in S : j \in Jobs /\ QueueState(j) = "pending"
      BY DEF S
    <3>2. QED
      BY <1>3, <2>1, <2>2, <3>1 DEF Queue!Settle, histVars
  <2>4. QED
    BY <2>3 DEF Queue!Next
<1>4. QED
  BY <1>1, <1>2, <1>3, AcceptedWriters, OkWriters, ErrsWriters DEF histVars

(* On a disk that is not slow, with one slot or no crash at all, every       *)
(* behaviour of files and promises is one of the queue IJobQueuePort         *)
(* promises: no job is dropped, none comes back once it is over.            *)
THEOREM QueueRefines ==
  ASSUME ~SlowDisk, Concurrency = 1 \/ MaxCrashes = 0
  PROVE  Spec => ImplementsJobQueue
<1>1. QueueInv => Calm
  BY DEF QueueInv, TypeOK, Calm
<1>2. Init => Queue!Init
  BY QueueInits
<1>3. QueueInv /\ QueueInv' /\ [Next]_vars => [Queue!Next]_(Queue!vars)
  <2>1. QueueInv' => Calm'
    BY DEF QueueInv, TypeOK, Calm
  <2>2. QED
    BY <1>1, <2>1, QueueSteps
<1>4. QED
  BY <1>2, <1>3, QueueInductive, PTL DEF Spec, ImplementsJobQueue, Queue!Spec

-----------------------------------------------------------------------------
(***************************************************************************)
(* The lock, for any number of calls and any times that LockAssumption     *)
(* allows.                                                                 *)
(*                                                                         *)
(* Mutual exclusion is not inductive: that a call at work is alone says    *)
(* nothing about the lease it works under.  Timely says it: the value      *)
(* under the key is that of the call, and what is left of the lease and    *)
(* the time on the call's stopwatch make up the TTL.                       *)
(***************************************************************************)

Timely ==
  \A p \in Calls : Working(p) /\ p \notin late =>
    /\ owner = p
    /\ left + timer[p] = TTL
    /\ timer[p] <= Deadline(p)

LockInv == LockTypeOK /\ Timely

\* A deadline lies before the end of the lease.
LEMMA DeadlineBound == \A p \in Calls : Deadline(p) \in Nat /\ Deadline(p) < TTL
BY LockAssumption, SMT DEF Deadline

LEMMA LockInvInit == LockInit => LockInv
<1> SUFFICES ASSUME LockInit PROVE LockInv
  OBVIOUS
<1>1. LockTypeOK
  BY LockAssumption DEF LockInit, LockTypeOK
<1>2. Timely
  BY DEF LockInit, Timely, Working
<1> QED
  BY <1>1, <1>2 DEF LockInv

\* A call that is over and took no other call's entry with it.
LEMMA LeaveKeeps ==
  ASSUME LockInv, NEW p \in Calls, NEW end \in {"done", "refused", "dead"}, Leave(p, end),
         \/ owner' = owner /\ left' = left
         \/ owner = p /\ owner' = None /\ left' = 0
  PROVE  LockInv'
<1>1. LockTypeOK'
  BY LockAssumption DEF LockInv, LockTypeOK, Leave
<1>2. Timely'
  BY LockAssumption DEF LockInv, LockTypeOK, Timely, Leave, Working, Deadline
<1> QED
  BY <1>1, <1>2 DEF LockInv

LEMMA LockInvNext == LockInv /\ [LockNext]_lockVars => LockInv'
<1> SUFFICES ASSUME LockInv, [LockNext]_lockVars PROVE LockInv'
  OBVIOUS
<1> USE LockAssumption
<1>1. ASSUME NEW p \in Calls, Ask(p) PROVE LockInv'
  BY <1>1 DEF LockInv, LockTypeOK, Timely, Ask, Working, Deadline
<1>2. ASSUME NEW p \in Calls, Acquire(p) PROVE LockInv'
  <2>1. LockTypeOK'
    BY <1>2 DEF LockInv, LockTypeOK, Acquire
  <2>2. \A q \in Calls : Working(q) => q \in late
    BY <1>2, DeadlineBound DEF LockInv, LockTypeOK, Timely, Acquire, Free
  <2>3. Timely'
    BY <1>2, <2>2, DeadlineBound DEF LockInv, LockTypeOK, Timely, Acquire, Working, Deadline
  <2> QED
    BY <2>1, <2>3 DEF LockInv
<1>3. ASSUME NEW p \in Calls, GiveUp(p) PROVE LockInv'
  BY <1>3, LeaveKeeps DEF GiveUp
<1>4. ASSUME NEW p \in Calls, Renew(p) PROVE LockInv'
  <2>1. LockTypeOK'
    BY <1>4 DEF LockInv, LockTypeOK, Renew
  <2>2. Timely'
    BY <1>4, DeadlineBound DEF LockInv, LockTypeOK, Timely, Renew, Working, Deadline
  <2> QED
    BY <2>1, <2>2 DEF LockInv
<1>5. ASSUME NEW p \in Calls, Finish(p) PROVE LockInv'
  BY <1>5, LeaveKeeps DEF Finish
<1>6. ASSUME NEW p \in Calls, Stall(p) PROVE LockInv'
  BY <1>6 DEF LockInv, LockTypeOK, Timely, Stall, Working, Deadline
<1>7. ASSUME NEW p \in Calls, ProcessDies(p) PROVE LockInv'
  BY <1>7, LeaveKeeps DEF ProcessDies
<1>8. ASSUME Expire PROVE LockInv'
  BY <1>8, DeadlineBound DEF LockInv, LockTypeOK, Timely, Expire, Working, Deadline
<1>9. ASSUME Elapse PROVE LockInv'
  <2>1. left' \in 0 .. TTL
    BY <1>9 DEF LockInv, LockTypeOK, Elapse, Lowered
  <2>2. \A p \in Calls : timer'[p] \in 0 .. (TTL + WaitTimeout)
    BY <1>9 DEF LockInv, LockTypeOK, Elapse, Raised
  <2>3. LockTypeOK'
    BY <1>9, <2>1, <2>2 DEF LockInv, LockTypeOK, Elapse
  <2>4. ASSUME NEW p \in Calls, Working(p)', p \notin late'
        PROVE  owner' = p /\ left' + timer'[p] = TTL /\ timer'[p] <= Deadline(p)
    <3>1. /\ Working(p) /\ p \notin late /\ owner' = owner
          /\ timer[p] < Deadline(p) /\ timer[p] \in Nat /\ left \in Nat
      BY <1>9, <2>4 DEF LockInv, LockTypeOK, Elapse, Working
    <3>2. timer'[p] = timer[p] + 1
      BY <1>9, <3>1, DeadlineBound DEF Elapse, Raised, Working
    <3>3. left + timer[p] = TTL
      BY <3>1 DEF LockInv, Timely
    <3>4. left' = left - 1
      BY <1>9, <3>1, <3>3, DeadlineBound DEF Elapse, Lowered
    <3> QED
      BY <3>1, <3>2, <3>3, <3>4, DeadlineBound DEF LockInv, Timely
  <2>5. Timely'
    BY <2>4 DEF Timely, Working, Deadline
  <2> QED
    BY <2>3, <2>5 DEF LockInv
<1>10. ASSUME CrashAll PROVE LockInv'
  BY <1>10 DEF LockInv, LockTypeOK, Timely, CrashAll, Working
<1>11. ASSUME UNCHANGED lockVars PROVE LockInv'
  BY <1>11 DEF LockInv, LockTypeOK, Timely, lockVars, Working, Deadline
<1> QED
  BY <1>1, <1>2, <1>3, <1>4, <1>5, <1>6, <1>7, <1>8, <1>9, <1>10, <1>11 DEF LockNext, Poll

\* The strengthened invariant holds in every reachable state.
THEOREM LockInductive == LockSpec => []LockInv
BY LockInvInit, LockInvNext, PTL DEF LockSpec

\* Every variable keeps its type; in particular what is left of a lease and the
\* stopwatches of withLock stay within their bounds.
THEOREM LockTypesCorrect == LockSpec => []LockTypeOK
<1>1. LockInv => LockTypeOK
  BY DEF LockInv
<1> QED
  BY <1>1, LockInductive, PTL

\* A call whose function runs on time is the one whose value is stored, and its
\* lease has time left.
THEOREM TimelyHolds == LockSpec => []TimelyCallHoldsLock
<1>1. LockInv => TimelyCallHoldsLock
  BY DeadlineBound DEF LockInv, LockTypeOK, Timely, TimelyCallHoldsLock
<1> QED
  BY <1>1, LockInductive, PTL

\* Two functions of withLock run at once only if one of their calls was late.
THEOREM LocksExclude == LockSpec => []MutualExclusion
<1>1. LockInv => MutualExclusion
  BY DEF LockInv, Timely, MutualExclusion
<1> QED
  BY <1>1, LockInductive, PTL

=============================================================================
