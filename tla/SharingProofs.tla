---------------------------- MODULE SharingProofs ----------------------------
(***************************************************************************)
(* Proofs about Sharing, for any number of requests, pairs and commands.   *)
(*                                                                         *)
(* Knows says what a command may rely on although nothing protects the     *)
(* rows between its steps: no row of a share is ever deleted, the ids of   *)
(* the shares it has made are its own, and what it has made and what it    *)
(* has left are the pairs of its request.  From this follow that an        *)
(* approved request lists a share for every pair, and, with Unborn, that a *)
(* row that was never saved over a newer one counts what it served.        *)
(* Undisturbed adds what a command relies on for a pair that no other      *)
(* handles; from it follows that the pair has one active share at most.    *)
(***************************************************************************)
EXTENDS Sharing, FiniteSetTheorems, SequenceTheorems, TLAPS

Decisions == {"none", "PENDING", "APPROVED", "REJECTED", "CANCELED"}
CallRec ==
  [step: Steps, todo: Seq(Requests), left: Seq(Pairs), made: SUBSET Shares,
   decision: Decisions, share: SUBSET Shares, seen: Row, change: Changes]

\* Steps of a command on requests.
Working == {"shares", "pending", "make", "save"}

\* What the command i relies on, for the rows of the shares.
Knows(i, c, rows) ==
  /\ c.step = "idle" => \A s \in Shares : s[1] = i => ~rows[s].exists
  /\ c.step \in Working =>
       /\ c.todo # <<>> /\ IsInjective(c.todo)
       /\ \A s \in Shares : s[1] = i /\ s[2] \in ToSet(c.todo) /\ rows[s].exists => s \in c.made
       /\ \A s \in c.made : s[1] = i /\ s[2] = Head(c.todo) /\ rows[s].exists
  /\ c.step \in {"shares", "pending", "make"} =>
       /\ c.left # <<>> /\ IsInjective(c.left)
       /\ ToSet(c.left) \subseteq ToSet(PairsOf[Head(c.todo)])
  /\ c.step \in {"shares", "pending"} =>
       c.decision \in {"PENDING", "APPROVED"} /\ c.made = {}
  /\ c.step = "make" =>
       /\ c.decision = "APPROVED"
       /\ \A s \in c.made : s[3] \notin ToSet(c.left)
       /\ \A p \in ToSet(PairsOf[Head(c.todo)]) \ ToSet(c.left) : \E s \in c.made : s[3] = p
  /\ c.step = "save" /\ c.decision = "APPROVED" =>
       \A p \in ToSet(PairsOf[Head(c.todo)]) : \E s \in c.made : s[3] = p
  /\ c.step = "row" =>
       /\ c.made = {} /\ c.change # "none" /\ c.seen.exists
       /\ c.change = "count" => c.seen.count < MaxDownloads
       /\ \A s \in c.share : rows[s].exists

\* From rows to newer no share is lost, and the command i creates none.
Grown(i, rows, newer) ==
  \A s \in Shares : /\ rows[s].exists => newer[s].exists
                    /\ s[1] = i /\ newer[s].exists => rows[s].exists

\* A share that does not exist has served nobody.
Unborn ==
  \A s \in Shares : ~share[s].exists =>
    share[s].count = 0 /\ served[s] = 0 /\ s \notin revoked

Known == \A i \in Calls : Knows(i, call[i], share)
IndInv == TypeOK /\ Known /\ Unborn /\ ApprovedHasItsShares /\ FreshRowIsRight

-----------------------------------------------------------------------------
(* Shares, rows and sequences.                                             *)

LEMMA ShareIds ==
  /\ \A s \in Shares : /\ s[1] \in Calls /\ s[2] \in Requests /\ s[3] \in Pairs
                       /\ s = <<s[1], s[2], s[3]>> /\ s[3] \in ToSet(PairsOf[s[2]])
  /\ \A i \in Calls, r \in Requests, p \in Pairs :
       p \in ToSet(PairsOf[r]) => <<i, r, p>> \in Shares
<1>1. ASSUME NEW s \in Shares
      PROVE  /\ s[1] \in Calls /\ s[2] \in Requests /\ s[3] \in Pairs
             /\ s = <<s[1], s[2], s[3]>> /\ s[3] \in ToSet(PairsOf[s[2]])
  <2>1. s \in Calls \X Requests \X Pairs /\ s[3] \in ToSet(PairsOf[s[2]])
    BY DEF Shares
  <2>2. PICK i \in Calls, r \in Requests, p \in Pairs : s = <<i, r, p>>
    BY <2>1
  <2> QED
    BY <2>1, <2>2
<1>2. ASSUME NEW i \in Calls, NEW r \in Requests, NEW p \in Pairs, p \in ToSet(PairsOf[r])
      PROVE  <<i, r, p>> \in Shares
  <2>1. <<i, r, p>> \in Calls \X Requests \X Pairs
    OBVIOUS
  <2> QED
    BY <1>2, <2>1 DEF Shares
<1> QED
  BY <1>1, <1>2

LEMMA RowTypes ==
  /\ NoRow \in Row /\ NewRow \in Row
  /\ ~NoRow.exists /\ NoRow.count = 0
  /\ NewRow.exists /\ NewRow.count = 0 /\ ~NewRow.revoked
<1>1. 0 \in 0 .. MaxDownloads
  BY SharingAssumption
<1>2. NoRow \in Row /\ ~NoRow.exists /\ ~NoRow.revoked /\ NoRow.count = 0
  BY <1>1 DEF NoRow, Row
<1>3. NewRow \in Row /\ NewRow.exists /\ NewRow.count = 0 /\ ~NewRow.revoked
  BY <1>2 DEF NewRow, Row
<1> QED
  BY <1>2, <1>3

LEMMA CallTypes ==
  /\ Idle \in CallRec /\ Ended \in CallRec
  /\ Idle.step = "idle" /\ Idle.made = {} /\ Ended.step = "end"
BY RowTypes, EmptySeq DEF Idle, Ended, CallRec, Steps, Changes, Decisions

LEMMA HeadAndTail ==
  ASSUME NEW S, NEW q \in Seq(S), q # <<>>
  PROVE  /\ Head(q) \in S /\ Tail(q) \in Seq(S)
         /\ ToSet(q) = {Head(q)} \cup ToSet(Tail(q))
         /\ IsInjective(q) => IsInjective(Tail(q)) /\ Head(q) \notin ToSet(Tail(q))
<1>1. /\ Head(q) \in S /\ Tail(q) \in Seq(S) /\ Len(Tail(q)) = Len(q) - 1
      /\ \A k \in 1 .. Len(Tail(q)) : Tail(q)[k] = q[k + 1]
  BY HeadTailProperties
<1>2. /\ Len(q) \in Nat \ {0} /\ DOMAIN q = 1 .. Len(q)
      /\ DOMAIN Tail(q) = 1 .. Len(Tail(q)) /\ Head(q) = q[1]
  BY <1>1, LenProperties, EmptySeq
<1>3. ToSet(q) \subseteq {Head(q)} \cup ToSet(Tail(q))
  <2> SUFFICES ASSUME NEW k \in 1 .. Len(q)
               PROVE  q[k] \in {Head(q)} \cup ToSet(Tail(q))
    BY <1>2 DEF ToSet
  <2>1. CASE k = 1
    BY <2>1, <1>2
  <2>2. CASE k # 1
    <3>1. k - 1 \in 1 .. Len(Tail(q)) /\ Tail(q)[k - 1] = q[k]
      BY <2>2, <1>1, <1>2
    <3> QED
      BY <3>1, <1>2 DEF ToSet
  <2> QED
    BY <2>1, <2>2
<1>4. {Head(q)} \cup ToSet(Tail(q)) \subseteq ToSet(q)
  BY <1>1, <1>2 DEF ToSet
<1>5. ASSUME IsInjective(q)
      PROVE  IsInjective(Tail(q)) /\ Head(q) \notin ToSet(Tail(q))
  BY <1>1, <1>2, <1>5 DEF IsInjective, ToSet
<1> QED
  BY <1>1, <1>3, <1>4, <1>5

LEMMA PairsOfFacts ==
  ASSUME NEW r \in Requests
  PROVE  /\ PairsOf[r] \in Seq(Pairs) /\ PairsOf[r] # <<>> /\ IsInjective(PairsOf[r])
         /\ ToSet(PairsOf[r]) \subseteq Pairs
<1>1. PairsOf[r] \in Seq(Pairs) /\ PairsOf[r] # <<>> /\ IsInjective(PairsOf[r])
  BY SharingAssumption
<1> QED
  BY <1>1, ElementOfSeq, LenProperties DEF ToSet

\* The requests that a command names, each once.
LEMMA TodoType ==
  /\ \A r \in Requests : /\ <<r>> \in Seq(Requests) /\ <<r>> # <<>> /\ IsInjective(<<r>>)
                         /\ Head(<<r>>) = r /\ ToSet(<<r>>) = {r}
  /\ \A rs \in (SUBSET Requests) \ {{}} : \A todo \in SetToSeqs(rs) :
       todo \in Seq(Requests) /\ todo # <<>> /\ IsInjective(todo)
<1>1. ASSUME NEW r \in Requests
      PROVE  /\ <<r>> \in Seq(Requests) /\ <<r>> # <<>> /\ IsInjective(<<r>>)
             /\ Head(<<r>>) = r /\ ToSet(<<r>>) = {r}
  BY DEF IsInjective, ToSet
<1>2. ASSUME NEW rs \in (SUBSET Requests) \ {{}}, NEW todo \in SetToSeqs(rs)
      PROVE  todo \in Seq(Requests) /\ todo # <<>> /\ IsInjective(todo)
  <2>1. IsFiniteSet(rs)
    BY FS_Subset, SharingAssumption
  <2>2. Cardinality(rs) \in Nat /\ Cardinality(rs) # 0
    BY <2>1, FS_CardinalityType, FS_EmptySet
  <2>3. /\ todo \in [1 .. Cardinality(rs) -> rs]
        /\ \A k, m \in 1 .. Cardinality(rs) : k # m => todo[k] # todo[m]
    BY DEF SetToSeqs
  <2>4. todo \in Seq(rs) /\ Len(todo) = Cardinality(rs)
    BY <2>2, <2>3, IsASeq, LenProperties
  <2>5. todo # <<>>
    BY <2>2, <2>4, EmptySeq
  <2>6. IsInjective(todo)
    BY <2>3 DEF IsInjective
  <2> QED
    BY <2>4, <2>5, <2>6, SeqMonotonic
<1> QED
  BY <1>1, <1>2

\* A command goes on knowing what it knew while others create shares.
LEMMA KnowsStays ==
  ASSUME NEW i \in Calls, NEW c \in CallRec, NEW rows, NEW newer, Knows(i, c, rows),
         Grown(i, rows, newer)
  PROVE  Knows(i, c, newer)
<1>1. c.made \subseteq Shares /\ c.share \subseteq Shares
  BY DEF CallRec
<1> QED
  BY <1>1 DEF Knows, Grown

\* A request keeps its shares as long as none of them is deleted.
LEMMA ApprovedStays ==
  ASSUME TypeOK, ApprovedHasItsShares, request' = request,
         \A s \in Shares : share[s].exists => share'[s].exists
  PROVE  ApprovedHasItsShares'
<1>1. \A r \in Requests : request[r].shares \subseteq Shares
  BY DEF TypeOK
<1> SUFFICES ASSUME NEW r \in Requests, request[r].status = "APPROVED"
             PROVE  /\ \A p \in ToSet(PairsOf[r]) : \E s \in request[r].shares : s[3] = p
                    /\ \A s \in request[r].shares : share'[s].exists /\ s[2] = r
                    /\ \A s, t \in request[r].shares : s[3] = t[3] => s = t
  BY DEF ApprovedHasItsShares
<1> QED
  BY <1>1 DEF ApprovedHasItsShares

LEMMA EndedKnows == \A i, rows : Knows(i, Ended, rows)
BY CallTypes DEF Knows, Working

LEMMA InitIndInv == Init => IndInv
<1> SUFFICES ASSUME Init PROVE IndInv
  OBVIOUS
<1>1. TypeOK
  BY RowTypes, CallTypes, SharingAssumption DEF Init, TypeOK, CallRec, Decisions
<1>2. Known
  BY RowTypes, CallTypes DEF Init, Known, Knows, Working
<1>3. Unborn /\ FreshRowIsRight /\ ApprovedHasItsShares
  BY RowTypes, SharingAssumption
  DEF Init, Unborn, FreshRowIsRight, ApprovedHasItsShares
<1> QED
  BY <1>1, <1>2, <1>3 DEF IndInv

-----------------------------------------------------------------------------
(* Steps that change no share and no request.                              *)

LEMMA CommandKeeps ==
  ASSUME IndInv, NEW i \in Calls, NEW c \in CallRec, Knows(i, c, share),
         call' = [call EXCEPT ![i] = c], UNCHANGED <<request, shares>>,
         disturbed' \subseteq Pairs, troubles' \in 0 .. MaxTroubles
  PROVE  IndInv'
<1>1. TypeOK'
  BY DEF IndInv, TypeOK, shares, CallRec, Decisions
<1>2. Known'
  BY DEF IndInv, TypeOK, Known, shares
<1>3. Unborn' /\ FreshRowIsRight' /\ ApprovedHasItsShares'
  BY DEF IndInv, Unborn, FreshRowIsRight, ApprovedHasItsShares, shares
<1> QED
  BY <1>1, <1>2, <1>3 DEF IndInv

\* A command on requests begins.
LEMMA BeginKeeps ==
  ASSUME IndInv, NEW i \in Calls, NEW todo \in Seq(Requests), todo # <<>>, IsInjective(todo),
         NEW decision \in Decisions, NEW step \in Working \ {"pending"},
         step = "shares" => decision \in {"PENDING", "APPROVED"},
         step = "make" => decision = "APPROVED",
         step = "save" => decision # "APPROVED",
         Begin(i, todo, decision, step)
  PROVE  IndInv'
<1> DEFINE c == [Idle EXCEPT !.step = step, !.todo = todo, !.decision = decision,
                             !.left = PairsOf[Head(todo)]]
<1>1. Head(todo) \in Requests
  BY HeadAndTail
<1>2. /\ PairsOf[Head(todo)] \in Seq(Pairs) /\ PairsOf[Head(todo)] # <<>>
      /\ IsInjective(PairsOf[Head(todo)])
  BY <1>1, PairsOfFacts
<1>3. /\ c.step = step /\ c.todo = todo /\ c.decision = decision /\ c.made = {}
      /\ c.left = PairsOf[Head(todo)]
  BY DEF Idle
<1>4. c \in CallRec
  BY <1>2, CallTypes DEF Working, CallRec, Steps
<1>5. /\ call[i].step = "idle" /\ call' = [call EXCEPT ![i] = c]
      /\ UNCHANGED <<request, shares, troubles>>
      /\ disturbed' = disturbed \cup
           {p \in Pairs : /\ \E r \in ToSet(todo) : p \in ToSet(PairsOf[r])
                          /\ \E j \in Calls : Handles(j, p)}
  BY DEF Begin, Begins
<1>6. \A s \in Shares : s[1] = i => ~share[s].exists
  BY <1>5 DEF IndInv, Known, Knows
<1> HIDE DEF c
<1>7. Knows(i, c, share)
  BY <1>2, <1>3, <1>6 DEF Knows, Working
<1>8. disturbed' \subseteq Pairs /\ troubles' \in 0 .. MaxTroubles
  BY <1>5 DEF IndInv, TypeOK
<1> QED
  BY <1>4, <1>5, <1>7, <1>8, CommandKeeps

LEMMA RequestCommands ==
  ASSUME IndInv, NEW i \in Calls,
         \/ \E r \in Requests : Create(i, r) \/ Approve(i, r) \/ RejectOrCancel(i, r)
         \/ \E rs \in (SUBSET Requests) \ {{}} : \E todo \in SetToSeqs(rs) : Bulk(i, todo)
  PROVE  IndInv'
<1> USE DEF Decisions, Working
<1>1. CASE \E r \in Requests : Create(i, r)
  <2>1. PICK r \in Requests, decision \in {"PENDING", "APPROVED"} :
          Begin(i, <<r>>, decision, "shares")
    BY <1>1 DEF Create
  <2>2. decision \in Decisions /\ "shares" \in Working \ {"pending"}
    OBVIOUS
  <2> HIDE DEF Decisions, Working
  <2> QED
    BY <2>1, <2>2, TodoType, BeginKeeps
<1>2. CASE \E r \in Requests : Approve(i, r)
  <2>1. PICK r \in Requests : Begin(i, <<r>>, "APPROVED", "make")
    BY <1>2 DEF Approve
  <2> QED
    BY <2>1, TodoType, BeginKeeps
<1>3. CASE \E r \in Requests : RejectOrCancel(i, r)
  <2>1. PICK r \in Requests, decision \in {"REJECTED", "CANCELED"} :
          Begin(i, <<r>>, decision, "save")
    BY <1>3 DEF RejectOrCancel
  <2>2. decision \in Decisions /\ decision # "APPROVED" /\ "save" \in Working \ {"pending"}
    OBVIOUS
  <2> HIDE DEF Decisions, Working
  <2> QED
    BY <2>1, <2>2, TodoType, BeginKeeps
<1>4. CASE \E rs \in (SUBSET Requests) \ {{}} : \E todo \in SetToSeqs(rs) : Bulk(i, todo)
  <2>1. PICK rs \in (SUBSET Requests) \ {{}} : \E todo \in SetToSeqs(rs) : Bulk(i, todo)
    BY <1>4
  <2>2. PICK todo \in SetToSeqs(rs) : Bulk(i, todo)
    BY <2>1
  <2>3. todo \in Seq(Requests) /\ todo # <<>> /\ IsInjective(todo)
    BY TodoType
  <2>4. \/ Begin(i, todo, "APPROVED", "shares")
        \/ Begin(i, todo, "REJECTED", "save")
    BY <2>2 DEF Bulk
  <2> QED
    BY <2>3, <2>4, BeginKeeps
<1> QED
  BY <1>1, <1>2, <1>3, <1>4

\* A command stops; what it had to do is forgotten.
LEMMA EndKeeps ==
  ASSUME IndInv, NEW i \in Calls, End(i), UNCHANGED <<request, shares>>,
         disturbed' \subseteq Pairs, troubles' \in 0 .. MaxTroubles
  PROVE  IndInv'
BY CallTypes, EndedKnows, CommandKeeps DEF End

LEMMA CheckSteps ==
  ASSUME IndInv, NEW i \in Calls, CheckShares(i) \/ CheckPending(i)
  PROVE  IndInv'
<1>1. /\ call[i] \in CallRec /\ Knows(i, call[i], share)
      /\ disturbed \subseteq Pairs /\ troubles \in 0 .. MaxTroubles
  BY DEF IndInv, Known, TypeOK, CallRec, Decisions
<1>2. UNCHANGED <<request, shares, disturbed, troubles>>
  BY DEF CheckShares, CheckPending
<1>3. CASE End(i)
  BY <1>1, <1>2, <1>3, EndKeeps
<1>4. CASE CheckShares(i) /\ ~End(i)
  <2> DEFINE c == [call[i] EXCEPT !.step = "pending"]
  <2>1. call[i].step = "shares" /\ call' = [call EXCEPT ![i] = c]
    BY <1>1, <1>4 DEF CheckShares, IndInv, TypeOK
  <2>2. /\ c \in CallRec /\ c.step = "pending" /\ c.todo = call[i].todo /\ c.left = call[i].left
        /\ c.made = call[i].made /\ c.decision = call[i].decision
    BY <1>1 DEF CallRec, Steps
  <2> HIDE DEF c
  <2>3. Knows(i, c, share)
    BY <1>1, <2>1, <2>2 DEF Knows, Working
  <2> QED
    BY <1>1, <1>2, <2>1, <2>2, <2>3, CommandKeeps
<1>5. CASE CheckPending(i) /\ ~End(i)
  <2> DEFINE old == call[i]
             rest == Tail(old.left)
             all == PairsOf[Head(old.todo)]
  <2>1. old.step = "pending" /\ old.left # <<>> /\ old.todo # <<>> /\ old \in CallRec
    BY <1>1, <1>5 DEF CheckPending, Knows, Working
  <2>2. /\ rest \in Seq(Pairs) /\ ToSet(rest) \subseteq ToSet(old.left)
        /\ IsInjective(rest) /\ ToSet(rest) \subseteq ToSet(all)
    <3>1. old.left \in Seq(Pairs) /\ IsInjective(old.left) /\ ToSet(old.left) \subseteq ToSet(all)
      BY <1>1, <2>1 DEF CallRec, Knows
    <3> HIDE DEF old
    <3> QED
      BY <3>1, <2>1, HeadAndTail
  <2>3. /\ all \in Seq(Pairs) /\ all # <<>> /\ IsInjective(all)
    <3>1. Head(old.todo) \in Requests
      BY <2>1, HeadAndTail DEF CallRec
    <3> QED
      BY <3>1, PairsOfFacts
  <2>4. CASE rest # <<>>
    <3> DEFINE c == [old EXCEPT !.step = "shares", !.left = rest]
    <3>1. call' = [call EXCEPT ![i] = c]
      BY <1>5, <2>4 DEF CheckPending
    <3>2. /\ c.step = "shares" /\ c.left = rest /\ c.todo = old.todo
          /\ c.made = old.made /\ c.decision = old.decision
      BY <2>1 DEF CallRec
    <3>3. c \in CallRec
      BY <2>1, <2>2 DEF CallRec, Steps
    <3> HIDE DEF c, rest
    <3>4. Knows(i, c, share)
      BY <1>1, <2>1, <2>2, <2>4, <3>2 DEF Knows, Working
    <3> QED
      BY <1>1, <1>2, <3>1, <3>3, <3>4, CommandKeeps
  <2>5. CASE rest = <<>>
    <3> DEFINE next == IF old.decision = "PENDING" THEN "save" ELSE "make"
               c == [old EXCEPT !.step = next, !.left = all]
    <3>1. call' = [call EXCEPT ![i] = c]
      BY <1>5, <2>5 DEF CheckPending
    <3>2. /\ c.step = next /\ c.left = all /\ c.todo = old.todo
          /\ c.made = old.made /\ c.decision = old.decision
      BY <2>1 DEF CallRec
    <3>3. c \in CallRec
      BY <2>1, <2>3 DEF CallRec, Steps
    <3>4. old.decision \in {"PENDING", "APPROVED"} /\ old.made = {}
      BY <1>1, <2>1 DEF Knows
    <3> HIDE DEF c
    <3>5. Knows(i, c, share)
      BY <1>1, <2>1, <2>3, <3>2, <3>4 DEF Knows, Working
    <3> QED
      BY <1>1, <1>2, <3>1, <3>3, <3>5, CommandKeeps
  <2> QED
    BY <2>4, <2>5
<1> QED
  BY <1>3, <1>4, <1>5

LEMMA ReadShareKeeps ==
  ASSUME IndInv, NEW i \in Calls, NEW s \in Shares, NEW change \in Changes \ {"none"},
         ReadShare(i, s, change)
  PROVE  IndInv'
<1> DEFINE c == [Idle EXCEPT !.step = "row", !.share = {s}, !.seen = share[s],
                             !.change = change]
<1>1. /\ share[s] \in Row /\ disturbed \subseteq Pairs /\ troubles \in 0 .. MaxTroubles
  BY DEF IndInv, TypeOK
<1>2. /\ call' = [call EXCEPT ![i] = c] /\ share[s].exists
      /\ change = "count" => share[s].count < MaxDownloads
      /\ UNCHANGED <<request, shares, disturbed, troubles>>
  BY DEF ReadShare
<1>3. c.made = {} /\ c.step = "row" /\ c.share = {s} /\ c.seen = share[s] /\ c.change = change
  BY DEF Idle
<1>4. c \in CallRec
  BY <1>1, CallTypes DEF CallRec, Steps
<1> HIDE DEF c
<1>5. Knows(i, c, share)
  BY <1>2, <1>3 DEF Knows, Working
<1> QED
  BY <1>1, <1>2, <1>4, <1>5, CommandKeeps

LEMMA HalfDoneType ==
  ASSUME IndInv, NEW i \in Calls
  PROVE  HalfDone(i) \subseteq Pairs
<1>1. CASE UnderWay(i) /\ call[i].made # {}
  <2>1. call[i] \in CallRec /\ Knows(i, call[i], share)
    BY DEF IndInv, Known, TypeOK, CallRec, Decisions
  <2>2. call[i].step \in Working
    BY <1>1, <2>1 DEF UnderWay, Knows, Working, CallRec, Steps
  <2>3. Head(call[i].todo) \in Requests
    BY <2>1, <2>2, HeadAndTail DEF Knows, CallRec
  <2> QED
    BY <2>3, PairsOfFacts DEF HalfDone
<1>2. CASE ~(UnderWay(i) /\ call[i].made # {})
  BY <1>2 DEF HalfDone
<1> QED
  BY <1>1, <1>2

LEMMA FailKeeps ==
  ASSUME IndInv, NEW i \in Calls, Fail(i)
  PROVE  IndInv'
<1>1. /\ troubles < MaxTroubles /\ troubles' = troubles + 1 /\ End(i)
      /\ disturbed' = disturbed \cup HalfDone(i) /\ UNCHANGED <<request, shares>>
  BY DEF Fail
<1>2. troubles \in 0 .. MaxTroubles /\ disturbed \subseteq Pairs
  BY DEF IndInv, TypeOK
<1>3. troubles' \in 0 .. MaxTroubles
  BY <1>1, <1>2, SharingAssumption
<1> QED
  BY <1>1, <1>2, <1>3, HalfDoneType, EndKeeps

-----------------------------------------------------------------------------
(* Steps that change a row.                                                *)

LEMMA CreatePublicShareKeeps ==
  ASSUME IndInv, NEW i \in Calls, CreatePublicShare(i)
  PROVE  IndInv'
<1> DEFINE old == call[i]
           r == Head(old.todo)
           p == Head(old.left)
           s == <<i, r, p>>
           rest == Tail(old.left)
           next == IF rest = <<>> THEN "save" ELSE "make"
           c == [old EXCEPT !.step = next, !.left = rest, !.made = @ \cup {s}]
<1>1. /\ old.step = "make" /\ share' = [share EXCEPT ![s] = NewRow]
      /\ call' = [call EXCEPT ![i] = c]
      /\ UNCHANGED <<request, served, revoked, stale, disturbed, troubles>>
  BY DEF CreatePublicShare
<1>2. old \in CallRec /\ Knows(i, old, share)
  BY DEF IndInv, Known, TypeOK, CallRec, Decisions
<1>3. /\ old.decision = "APPROVED" /\ old.todo # <<>> /\ IsInjective(old.todo)
      /\ old.left # <<>> /\ IsInjective(old.left)
      /\ ToSet(old.left) \subseteq ToSet(PairsOf[r])
      /\ \A q \in old.made : q[1] = i /\ q[2] = r /\ share[q].exists /\ q[3] \notin ToSet(old.left)
      /\ \A q \in ToSet(PairsOf[r]) \ ToSet(old.left) : \E z \in old.made : z[3] = q
      /\ \A q \in Shares : q[1] = i /\ q[2] \in ToSet(old.todo) /\ share[q].exists => q \in old.made
  BY <1>1, <1>2 DEF Knows, Working
<1>4. /\ r \in Requests /\ r \in ToSet(old.todo)
  <2>1. old.todo \in Seq(Requests)
    BY <1>2 DEF CallRec
  <2> HIDE DEF old
  <2> QED
    BY <2>1, <1>3, HeadAndTail
<1>5. /\ p \in Pairs /\ rest \in Seq(Pairs) /\ IsInjective(rest) /\ p \notin ToSet(rest)
      /\ ToSet(old.left) = {p} \cup ToSet(rest)
  <2>1. old.left \in Seq(Pairs)
    BY <1>2 DEF CallRec
  <2> HIDE DEF old
  <2> QED
    BY <2>1, <1>3, HeadAndTail
<1>6. s \in Shares /\ s[1] = i /\ s[2] = r /\ s[3] = p
  BY <1>3, <1>4, <1>5, ShareIds
<1>7. ~share[s].exists
  BY <1>3, <1>4, <1>5, <1>6
<1>8. /\ c \in CallRec /\ c.step = next /\ c.left = rest /\ c.made = old.made \cup {s}
      /\ c.todo = old.todo /\ c.decision = old.decision
  BY <1>2, <1>5, <1>6 DEF CallRec, Steps
<1> HIDE DEF c, s, rest, p, r, old
<1>9. /\ share' \in [Shares -> Row] /\ share'[s] = NewRow
      /\ \A q \in Shares \ {s} : share'[q] = share[q]
  BY <1>1, <1>6, RowTypes DEF IndInv, TypeOK
<1>10. Knows(i, c, share')
  <2>1. \A q \in Shares : share'[q].exists <=> share[q].exists \/ q = s
    BY <1>9, RowTypes
  <2>2. /\ c.todo # <<>> /\ IsInjective(c.todo)
        /\ \A q \in Shares : q[1] = i /\ q[2] \in ToSet(c.todo) /\ share'[q].exists => q \in c.made
    BY <1>3, <1>8, <2>1
  <2>3. old.made \subseteq Shares
    BY <1>2 DEF CallRec
  <2>4. \A q \in c.made : /\ q[1] = i /\ q[2] = Head(c.todo) /\ share'[q].exists
                          /\ q[3] \notin ToSet(rest)
    <3>1. Head(c.todo) = r
      BY <1>8 DEF r
    <3> QED
      BY <1>3, <1>5, <1>6, <1>8, <2>1, <2>3, <3>1
  <2>5. \A q \in ToSet(PairsOf[Head(c.todo)]) \ ToSet(rest) : \E z \in c.made : z[3] = q
    <3>1. Head(c.todo) = r
      BY <1>8 DEF r
    <3> QED
      BY <1>3, <1>5, <1>6, <1>8, <3>1
  <2>6. ToSet(rest) \subseteq ToSet(PairsOf[Head(c.todo)])
    BY <1>3, <1>5, <1>8 DEF r
  <2>7. rest = <<>> => ToSet(rest) = {}
    BY DEF ToSet
  <2> QED
    BY <1>3, <1>5, <1>8, <2>2, <2>4, <2>5, <2>6, <2>7 DEF Knows, Working
<1>11. Known'
  <2> SUFFICES ASSUME NEW j \in Calls PROVE Knows(j, call'[j], share')
    BY DEF Known
  <2>1. CASE j = i
    BY <2>1, <1>1, <1>10 DEF IndInv, TypeOK
  <2>2. CASE j # i
    <3>1. call'[j] = call[j] /\ call[j] \in CallRec /\ Knows(j, call[j], share)
      BY <1>1, <2>2 DEF IndInv, Known, TypeOK, CallRec, Decisions
    <3>2. Grown(j, share, share')
      BY <2>2, <1>6, <1>9, RowTypes DEF Grown
    <3> QED
      BY <3>1, <3>2, KnowsStays
  <2> QED
    BY <2>1, <2>2
<1>12. TypeOK'
  BY <1>1, <1>8, <1>9 DEF IndInv, TypeOK, CallRec, Decisions
<1>13. Unborn' /\ FreshRowIsRight'
  BY <1>1, <1>6, <1>7, <1>9, RowTypes, SharingAssumption
  DEF IndInv, TypeOK, Unborn, FreshRowIsRight
<1>14. ApprovedHasItsShares'
  <2>1. \A q \in Shares : share[q].exists => share'[q].exists
    BY <1>9, RowTypes
  <2> QED
    BY <1>1, <2>1, ApprovedStays DEF IndInv
<1> QED
  BY <1>11, <1>12, <1>13, <1>14 DEF IndInv

\* Rows change and no share is lost or created, or a command stops.
LEMMA RowsKeep ==
  ASSUME IndInv, share' \in [Shares -> Row], call' \in [Calls -> CallRec],
         \A s \in Shares : share'[s].exists <=> share[s].exists,
         \A j \in Calls : call'[j] = call[j] \/ call'[j] = Ended
  PROVE  Known'
<1> SUFFICES ASSUME NEW j \in Calls PROVE Knows(j, call'[j], share')
  BY DEF Known
<1>1. CASE call'[j] = Ended
  BY <1>1, EndedKnows
<1>2. CASE call'[j] = call[j]
  <2>1. call[j] \in CallRec /\ Knows(j, call[j], share)
    BY DEF IndInv, Known, TypeOK, CallRec, Decisions
  <2>2. Grown(j, share, share')
    BY DEF Grown
  <2> QED
    BY <1>2, <2>1, <2>2, KnowsStays
<1> QED
  BY <1>1, <1>2

LEMMA SaveRequestKeeps ==
  ASSUME IndInv, NEW i \in Calls, SaveRequest(i)
  PROVE  IndInv'
<1> DEFINE old == call[i]
           r == Head(old.todo)
           rest == Tail(old.todo)
           row == [status |-> old.decision, shares |-> old.made]
<1>1. /\ old.step = "save" /\ request' = [request EXCEPT ![r] = row]
      /\ UNCHANGED <<shares, disturbed, troubles>>
  BY DEF SaveRequest
<1>2. old \in CallRec /\ Knows(i, old, share)
  BY DEF IndInv, Known, TypeOK, CallRec, Decisions
<1>3. /\ old.todo # <<>> /\ IsInjective(old.todo)
      /\ \A q \in Shares : q[1] = i /\ q[2] \in ToSet(old.todo) /\ share[q].exists => q \in old.made
      /\ \A q \in old.made : q[1] = i /\ q[2] = r /\ share[q].exists
      /\ old.decision = "APPROVED" => \A p \in ToSet(PairsOf[r]) : \E q \in old.made : q[3] = p
      /\ old.made \subseteq Shares
  BY <1>1, <1>2 DEF Knows, Working, CallRec
<1>4. /\ r \in Requests /\ rest \in Seq(Requests) /\ IsInjective(rest)
      /\ ToSet(old.todo) = {r} \cup ToSet(rest) /\ r \notin ToSet(rest)
  <2>1. old.todo \in Seq(Requests)
    BY <1>2 DEF CallRec
  <2> HIDE DEF old
  <2> QED
    BY <2>1, <1>3, HeadAndTail
<1>5. \E c \in CallRec : call' = [call EXCEPT ![i] = c] /\ Knows(i, c, share)
  <2>1. CASE rest = <<>>
    <3>1. call' = [call EXCEPT ![i] = Ended]
      BY <2>1 DEF SaveRequest
    <3> QED
      BY <3>1, CallTypes, EndedKnows
  <2>2. CASE rest # <<>>
    <3> DEFINE next == IF old.decision = "APPROVED" THEN "shares" ELSE "save"
               all == PairsOf[Head(rest)]
               c == [old EXCEPT !.step = next, !.todo = rest, !.left = all, !.made = {}]
    <3>1. call' = [call EXCEPT ![i] = c]
      BY <2>2 DEF SaveRequest
    <3>2. all \in Seq(Pairs) /\ all # <<>> /\ IsInjective(all)
      <4>1. Head(rest) \in Requests
        BY <1>4, <2>2, HeadAndTail
      <4> QED
        BY <4>1, PairsOfFacts
    <3>3. /\ c \in CallRec /\ c.step = next /\ c.todo = rest /\ c.left = all /\ c.made = {}
          /\ c.decision = old.decision
      BY <1>2, <1>4, <3>2 DEF CallRec, Steps
    <3>4. \A q \in Shares : ~(q[1] = i /\ q[2] \in ToSet(rest) /\ share[q].exists)
      BY <1>3, <1>4
    <3>5. all = PairsOf[Head(c.todo)]
      BY <3>3
    <3> HIDE DEF c, rest, old, all
    <3>6. Knows(i, c, share)
      BY <1>4, <2>2, <3>2, <3>3, <3>4, <3>5 DEF Knows, Working
    <3> QED
      BY <3>1, <3>3, <3>6
  <2> QED
    BY <2>1, <2>2
<1>6. /\ row \in [status: Decisions, shares: SUBSET Shares]
      /\ row.status = old.decision /\ row.shares = old.made
  BY <1>2 DEF CallRec
<1> HIDE DEF old, r, rest, row
<1>7. TypeOK'
  BY <1>1, <1>4, <1>5, <1>6 DEF IndInv, TypeOK, CallRec, Decisions, shares
<1>8. Known'
  BY <1>1, <1>5 DEF IndInv, TypeOK, Known, shares
<1>9. Unborn' /\ FreshRowIsRight'
  BY <1>1 DEF IndInv, Unborn, FreshRowIsRight, shares
<1>10. ApprovedHasItsShares'
  <2> SUFFICES ASSUME NEW q \in Requests, request'[q].status = "APPROVED"
               PROVE  /\ \A p \in ToSet(PairsOf[q]) : \E s \in request'[q].shares : s[3] = p
                      /\ \A s \in request'[q].shares : share'[s].exists /\ s[2] = q
                      /\ \A s, t \in request'[q].shares : s[3] = t[3] => s = t
    BY DEF ApprovedHasItsShares
  <2>1. CASE q = r
    <3>1. request'[q] = row
      BY <2>1, <1>1 DEF IndInv, TypeOK
    <3>2. \A s, t \in old.made : s[3] = t[3] => s = t
      BY <1>3, ShareIds
    <3> QED
      BY <2>1, <3>1, <3>2, <1>1, <1>3, <1>6 DEF shares
  <2>2. CASE q # r
    <3>1. request'[q] = request[q] /\ share' = share
      BY <2>2, <1>1 DEF IndInv, TypeOK, shares
    <3> QED
      BY <3>1 DEF IndInv, ApprovedHasItsShares
  <2> QED
    BY <2>1, <2>2
<1> QED
  BY <1>7, <1>8, <1>9, <1>10 DEF IndInv

\* A row that was read is changed and saved.
LEMMA SaveShareKeeps ==
  ASSUME IndInv, NEW i \in Calls, SaveShare(i)
  PROVE  IndInv'
<1>1. PICK s \in call[i].share :
        /\ call[i].step = "row"
        /\ share' = [share EXCEPT ![s] = Changed(call[i].seen, call[i].change)]
        /\ stale' = IF share[s] = call[i].seen THEN stale ELSE stale \cup {s}
        /\ served' = [served EXCEPT ![s] = IF call[i].change = "count" THEN @ + 1 ELSE @]
        /\ revoked' = IF call[i].change = "revoke" THEN revoked \cup {s} ELSE revoked
        /\ disturbed' = IF Reactivates(s) THEN disturbed \cup {s[3]} ELSE disturbed
        /\ End(i)
        /\ UNCHANGED <<request, troubles>>
  BY DEF SaveShare
<1> DEFINE seen == call[i].seen
           change == call[i].change
           new == Changed(seen, change)
<1>2. /\ s \in Shares /\ s[3] \in Pairs /\ seen \in Row /\ seen.exists
      /\ change \in {"block", "unblock", "revoke", "count"}
      /\ change = "count" => seen.count < MaxDownloads
      /\ share[s].exists
  <2>1. call[i] \in CallRec /\ Knows(i, call[i], share)
    BY DEF IndInv, Known, TypeOK, CallRec, Decisions
  <2> QED
    BY <1>1, <2>1, ShareIds DEF Knows, CallRec, Changes
<1>3. /\ seen.count \in 0 .. MaxDownloads
      /\ change = "count" => seen.count + 1 \in 0 .. MaxDownloads
  BY <1>2, SharingAssumption DEF Row
<1> HIDE DEF seen, change
<1>4. /\ new \in Row /\ new.exists
      /\ new.count = IF change = "count" THEN seen.count + 1 ELSE seen.count
      /\ new.revoked = (seen.revoked \/ change = "revoke")
  <2>1. CASE change = "block"
    BY <2>1, <1>2, <1>3 DEF Changed, Row
  <2>2. CASE change = "unblock"
    BY <2>2, <1>2, <1>3 DEF Changed, Row
  <2>3. CASE change = "revoke"
    BY <2>3, <1>2, <1>3 DEF Changed, Row
  <2>4. CASE change = "count"
    BY <2>4, <1>2, <1>3 DEF Changed, Row
  <2> QED
    BY <2>1, <2>2, <2>3, <2>4, <1>2
<1>5. /\ share' = [share EXCEPT ![s] = new]
      /\ stale' = IF share[s] = seen THEN stale ELSE stale \cup {s}
      /\ served' = [served EXCEPT ![s] = IF change = "count" THEN @ + 1 ELSE @]
      /\ revoked' = IF change = "revoke" THEN revoked \cup {s} ELSE revoked
  BY <1>1 DEF seen, change
<1> HIDE DEF new
<1>6. /\ share' \in [Shares -> Row] /\ share'[s] = new
      /\ \A q \in Shares \ {s} : share'[q] = share[q] /\ served'[q] = served[q]
      /\ served' \in [Shares -> Nat]
      /\ served'[s] = IF change = "count" THEN served[s] + 1 ELSE served[s]
  BY <1>2, <1>4, <1>5 DEF IndInv, TypeOK
<1>7. /\ call' \in [Calls -> CallRec]
      /\ \A j \in Calls : call'[j] = call[j] \/ call'[j] = Ended
  BY <1>1, CallTypes DEF End, IndInv, TypeOK, CallRec, Decisions
<1>8. \A q \in Shares : share'[q].exists <=> share[q].exists
  BY <1>2, <1>4, <1>6
<1>9. TypeOK'
  <2>1. stale' \subseteq Shares /\ revoked' \subseteq Shares /\ disturbed' \subseteq Pairs
    BY <1>1, <1>2, <1>5 DEF IndInv, TypeOK
  <2> QED
    BY <1>1, <1>6, <1>7, <2>1 DEF IndInv, TypeOK, CallRec, Decisions
<1>10. Known'
  BY <1>6, <1>7, <1>8, RowsKeep
<1>11. Unborn'
  BY <1>2, <1>5, <1>6, <1>8 DEF IndInv, Unborn
<1>12. FreshRowIsRight'
  <2> SUFFICES ASSUME NEW q \in Shares \ stale'
               PROVE  /\ share'[q].count = served'[q] /\ served'[q] <= MaxDownloads
                      /\ q \in revoked' => share'[q].revoked
    BY DEF FreshRowIsRight
  <2>1. /\ share[q].count = served[q] /\ served[q] <= MaxDownloads
        /\ q \in revoked => share[q].revoked
    BY <1>5 DEF IndInv, FreshRowIsRight
  <2>2. CASE q = s
    <3>1. share[s] = seen
      BY <2>2, <1>5
    <3>2. new.count = served'[s] /\ new.count <= MaxDownloads
      BY <2>1, <2>2, <3>1, <1>3, <1>4, <1>6, SharingAssumption
    <3>3. s \in revoked' => new.revoked
      BY <2>1, <2>2, <3>1, <1>4, <1>5
    <3> QED
      BY <2>2, <3>2, <3>3, <1>6
  <2>3. CASE q # s
    BY <2>1, <2>3, <1>5, <1>6
  <2> QED
    BY <2>2, <2>3
<1>13. ApprovedHasItsShares'
  BY <1>1, <1>8, ApprovedStays DEF IndInv
<1> QED
  BY <1>9, <1>10, <1>11, <1>12, <1>13 DEF IndInv

LEMMA BlockAllKeeps ==
  ASSUME IndInv, NEW i \in Calls, NEW ps \in SUBSET Pairs, NEW blocked \in BOOLEAN,
         BlockAll(i, ps, blocked)
  PROVE  IndInv'
<1>1. /\ share' = [s \in Shares |-> IF share[s].exists /\ s[3] \in ps
                                   THEN [share[s] EXCEPT !.blocked = blocked] ELSE share[s]]
      /\ End(i) /\ UNCHANGED <<request, served, revoked, stale, troubles>>
      /\ disturbed' = disturbed \cup {p \in Pairs : \E s \in Shares : s[3] = p /\ Reactivates(s)}
  BY DEF BlockAll
<1>2. ASSUME NEW s \in Shares
      PROVE  /\ share'[s] \in Row /\ share'[s].exists = share[s].exists
             /\ share'[s].count = share[s].count /\ share'[s].revoked = share[s].revoked
  <2>1. share[s] \in Row
    BY DEF IndInv, TypeOK
  <2>2. \/ share'[s] = share[s]
        \/ share'[s] = [share[s] EXCEPT !.blocked = blocked]
    BY <1>1
  <2> QED
    BY <2>1, <2>2 DEF Row
<1>3. share' \in [Shares -> Row]
  BY <1>1, <1>2
<1>4. /\ call' \in [Calls -> CallRec]
      /\ \A j \in Calls : call'[j] = call[j] \/ call'[j] = Ended
  BY <1>1, CallTypes DEF End, IndInv, TypeOK, CallRec, Decisions
<1>5. TypeOK'
  BY <1>1, <1>3, <1>4 DEF IndInv, TypeOK, CallRec, Decisions
<1>6. Known'
  BY <1>2, <1>3, <1>4, RowsKeep
<1>7. Unborn' /\ FreshRowIsRight'
  BY <1>1, <1>2 DEF IndInv, Unborn, FreshRowIsRight
<1>8. ApprovedHasItsShares'
  BY <1>1, <1>2, ApprovedStays DEF IndInv
<1> QED
  BY <1>5, <1>6, <1>7, <1>8 DEF IndInv

LEMMA CrashKeeps ==
  ASSUME IndInv, Crash
  PROVE  IndInv'
<1>1. /\ troubles < MaxTroubles /\ troubles' = troubles + 1
      /\ disturbed' = disturbed \cup UNION {HalfDone(i) : i \in Calls}
      /\ call' = [i \in Calls |-> IF UnderWay(i) THEN Ended ELSE call[i]]
      /\ UNCHANGED <<request, shares>>
  BY DEF Crash
<1>2. troubles' \in 0 .. MaxTroubles
  BY <1>1, SharingAssumption DEF IndInv, TypeOK
<1>3. disturbed' \subseteq Pairs
  <2>1. \A i \in Calls : HalfDone(i) \subseteq Pairs
    BY HalfDoneType
  <2> QED
    BY <1>1, <2>1 DEF IndInv, TypeOK
<1>4. /\ call' \in [Calls -> CallRec]
      /\ \A j \in Calls : call'[j] = call[j] \/ call'[j] = Ended
  BY <1>1, CallTypes DEF IndInv, TypeOK, CallRec, Decisions
<1>5. TypeOK'
  BY <1>1, <1>2, <1>3, <1>4 DEF IndInv, TypeOK, CallRec, Decisions, shares
<1>6. Known'
  BY <1>1, <1>4, RowsKeep DEF IndInv, TypeOK, shares
<1>7. Unborn' /\ FreshRowIsRight' /\ ApprovedHasItsShares'
  BY <1>1 DEF IndInv, Unborn, FreshRowIsRight, ApprovedHasItsShares, shares
<1> QED
  BY <1>5, <1>6, <1>7 DEF IndInv

LEMMA StutterKeeps == IndInv /\ UNCHANGED vars => IndInv'
<1> SUFFICES ASSUME IndInv, UNCHANGED vars PROVE IndInv'
  OBVIOUS
<1>1. TypeOK' /\ Known'
  BY DEF vars, IndInv, TypeOK, Known
<1>2. Unborn' /\ FreshRowIsRight' /\ ApprovedHasItsShares'
  BY DEF vars, IndInv, Unborn, FreshRowIsRight, ApprovedHasItsShares
<1> QED
  BY <1>1, <1>2 DEF IndInv

-----------------------------------------------------------------------------

\* The strengthened invariant holds in every reachable state.
THEOREM InductiveInvariant == Spec => []IndInv
<1>1. IndInv /\ Next => IndInv'
  <2> SUFFICES ASSUME IndInv, Next PROVE IndInv'
    OBVIOUS
  <2>1. CASE Crash
    BY <2>1, CrashKeeps
  <2>2. CASE \E i \in Calls : Command(i)
    <3>1. PICK i \in Calls : Command(i)
      BY <2>2
    <3>2. CASE \/ \E r \in Requests : Create(i, r) \/ Approve(i, r) \/ RejectOrCancel(i, r)
               \/ \E rs \in (SUBSET Requests) \ {{}} : \E todo \in SetToSeqs(rs) : Bulk(i, todo)
      BY <3>2, RequestCommands
    <3>3. CASE \E s \in Shares, change \in Changes \ {"none"} : ReadShare(i, s, change)
      BY <3>3, ReadShareKeeps
    <3>4. CASE \E ps \in SUBSET Pairs, blocked \in BOOLEAN : BlockAll(i, ps, blocked)
      BY <3>4, BlockAllKeeps
    <3> QED
      BY <3>1, <3>2, <3>3, <3>4 DEF Command
  <2>3. CASE \E i \in Calls : \/ CheckShares(i) \/ CheckPending(i)
                              \/ CreatePublicShare(i) \/ SaveRequest(i) \/ SaveShare(i)
                              \/ Fail(i)
    BY <2>3, CheckSteps, CreatePublicShareKeeps, SaveRequestKeeps, SaveShareKeeps, FailKeeps
  <2> QED
    BY <2>1, <2>2, <2>3 DEF Next
<1> QED
  BY InitIndInv, <1>1, StutterKeeps, PTL DEF Spec

\* Rows of requests and shares, commands and histories keep their types.
THEOREM TypeCorrect == Spec => []TypeOK
<1>1. IndInv => TypeOK
  BY DEF IndInv
<1> QED
  BY InductiveInvariant, <1>1, PTL

\* Whatever is decided at the same time, fails or crashes, a request that
\* ShareRequestCommandService calls APPROVED lists an existing share for each of its
\* pairs, and one only.
THEOREM ApprovalIsComplete == Spec => []ApprovedHasItsShares
<1>1. IndInv => ApprovedHasItsShares
  BY DEF IndInv
<1> QED
  BY InductiveInvariant, <1>1, PTL

\* As long as no row is saved over a newer one, a share counts every download it
\* serves, keeps its limit and stays revoked.
THEOREM FreshRowsAreRight == Spec => []FreshRowIsRight
<1>1. IndInv => FreshRowIsRight
  BY DEF IndInv
<1> QED
  BY InductiveInvariant, <1>1, PTL

-----------------------------------------------------------------------------
(* Pairs that nothing has disturbed.                                       *)

\* The active shares of a pair, and the requests that wait for a decision about it.
ActiveOf(rows, p) ==
  {s \in Shares : s[3] = p /\ rows[s].exists /\ ~rows[s].blocked /\ ~rows[s].revoked}
AskingFor(reqs, p) ==
  {r \in Requests : reqs[r].status = "PENDING" /\ p \in ToSet(PairsOf[r])}

Listed(s, reqs) == \E r \in Requests : reqs[r].status = "APPROVED" /\ s \in reqs[r].shares
Held(s, calls) == \E i \in Calls : s \in calls[i].made

Busy(c, p) == c.step \notin {"idle", "end"} /\ \E r \in ToSet(c.todo) : p \in ToSet(PairsOf[r])

\* A command has looked for active shares of a pair of its request; it has also
\* looked for requests.
Looked(c, p) ==
  /\ c.decision \in {"PENDING", "APPROVED"} /\ c.step \in Working
  /\ p \in ToSet(PairsOf[Head(c.todo)])
  /\ c.step \in {"shares", "pending"} =>
       p \notin ToSet(c.left) \/ (c.step = "pending" /\ p = Head(c.left))
Checked(c, p) == Looked(c, p) /\ (c.step \in {"shares", "pending"} => p \notin ToSet(c.left))

\* What a command relies on for a pair that no other handles.
Careful(c, p, rows, reqs) ==
  /\ c.step \in Working =>
       \A r \in ToSet(c.todo) : p \in ToSet(PairsOf[r]) =>
         /\ reqs[r].status \in {"none", "PENDING"}
         /\ c.decision = "PENDING" => reqs[r].status = "none"
  /\ Looked(c, p) => ActiveOf(rows, p) \subseteq c.made
  /\ Checked(c, p) => AskingFor(reqs, p) \subseteq {Head(c.todo)}

PairInv(p) ==
  /\ \A i, j \in Calls : Busy(call[i], p) /\ Busy(call[j], p) => i = j
  /\ \A s, t \in ActiveOf(share, p) : s = t
  /\ \A s \in ActiveOf(share, p) : Listed(s, request) \/ Held(s, call)
  /\ \A r \in AskingFor(request, p) :
       /\ AskingFor(request, p) \subseteq {r}
       /\ \A s \in ActiveOf(share, p) : Held(s, call)
  /\ \A i \in Calls : Careful(call[i], p, share, request)

\* Only a command that approves has made shares; one request is asked for at a time.
Bare(c) ==
  /\ c.step \notin Working => c.todo = <<>>
  /\ c.step \notin Working \/ c.decision # "APPROVED" => c.made = {}
  /\ c.decision = "PENDING" => Tail(c.todo) = <<>>

Undisturbed ==
  /\ \A i \in Calls : Bare(call[i])
  /\ \A p \in Pairs \ disturbed : PairInv(p)

\* What the inductive invariant says of one command.
LEMMA CallFacts ==
  ASSUME IndInv, NEW i \in Calls
  PROVE  /\ call[i] \in CallRec /\ Knows(i, call[i], share)
         /\ call[i].made \subseteq Shares
BY DEF IndInv, Known, TypeOK, CallRec, Decisions

\* A command at work handles every pair of the request it is at.
LEMMA AtWork ==
  ASSUME IndInv, NEW i \in Calls, call[i].step \in Working
  PROVE  /\ call[i].todo # <<>> /\ call[i].todo \in Seq(Requests)
         /\ Head(call[i].todo) \in Requests /\ Head(call[i].todo) \in ToSet(call[i].todo)
         /\ Tail(call[i].todo) \in Seq(Requests)
         /\ ToSet(call[i].todo) = {Head(call[i].todo)} \cup ToSet(Tail(call[i].todo))
         /\ Head(call[i].todo) \notin ToSet(Tail(call[i].todo))
         /\ \A p \in ToSet(PairsOf[Head(call[i].todo)]) : Busy(call[i], p)
<1>1. call[i].todo # <<>> /\ call[i].todo \in Seq(Requests) /\ IsInjective(call[i].todo)
  BY CallFacts DEF Knows, CallRec
<1> DEFINE todo == call[i].todo
<1> HIDE DEF todo
<1>2. /\ Head(todo) \in Requests /\ Tail(todo) \in Seq(Requests)
      /\ ToSet(todo) = {Head(todo)} \cup ToSet(Tail(todo)) /\ Head(todo) \notin ToSet(Tail(todo))
  BY <1>1, HeadAndTail DEF todo
<1> QED
  BY <1>1, <1>2 DEF todo, Busy, Working

\* A share that a command has made and not saved in its request is of a pair it handles.
LEMMA HeldByHandler ==
  ASSUME IndInv, \A j \in Calls : Bare(call[j]), NEW i \in Calls, NEW s \in call[i].made
  PROVE  /\ s \in Shares /\ call[i].step \in Working /\ call[i].decision = "APPROVED"
         /\ s[1] = i /\ s[2] = Head(call[i].todo)
         /\ s[3] \in ToSet(PairsOf[Head(call[i].todo)]) /\ Busy(call[i], s[3])
<1>1. call[i].step \in Working /\ call[i].decision = "APPROVED" /\ s \in Shares
  BY CallFacts DEF Bare
<1>2. s[1] = i /\ s[2] = Head(call[i].todo)
  BY <1>1, CallFacts DEF Knows
<1>3. s[3] \in ToSet(PairsOf[Head(call[i].todo)])
  BY <1>1, <1>2, ShareIds
<1> QED
  BY <1>1, <1>2, <1>3, AtWork

\* A command takes a step that creates no share and changes no request.
LEMMA QuietStep ==
  ASSUME IndInv, NEW p \in Pairs, PairInv(p), NEW i \in Calls, NEW c,
         request' = request, call' = [call EXCEPT ![i] = c],
         ActiveOf(share', p) \subseteq ActiveOf(share, p),
         \A s \in ActiveOf(share', p) : s \in call[i].made => s \in c.made,
         Busy(c, p) => \A j \in Calls \ {i} : ~Busy(call[j], p),
         Careful(c, p, share', request)
  PROVE  PairInv(p)'
<1>1. /\ call'[i] = c /\ \A j \in Calls \ {i} : call'[j] = call[j]
  BY DEF IndInv, TypeOK
<1>2. \A j, k \in Calls : Busy(call'[j], p) /\ Busy(call'[k], p) => j = k
  BY <1>1 DEF PairInv
<1>3. \A s \in ActiveOf(share', p) : Held(s, call) => Held(s, call')
  BY <1>1 DEF Held
<1>4. \A s, t \in ActiveOf(share', p) : s = t
  BY DEF PairInv
<1>5. \A s \in ActiveOf(share', p) : Listed(s, request) \/ Held(s, call')
  BY <1>3 DEF PairInv
<1>6. \A r \in AskingFor(request, p) : /\ AskingFor(request, p) \subseteq {r}
                                      /\ \A s \in ActiveOf(share', p) : Held(s, call')
  BY <1>3 DEF PairInv
<1>7. \A j \in Calls : Careful(call'[j], p, share', request)
  <2> SUFFICES ASSUME NEW j \in Calls, j # i PROVE Careful(call[j], p, share', request)
    BY <1>1
  <2>1. Careful(call[j], p, share, request)
    BY DEF PairInv
  <2> QED
    BY <2>1 DEF Careful
<1> QED
  BY <1>2, <1>4, <1>5, <1>6, <1>7 DEF PairInv

\* A command that stops, or that only reads a share, relies on nothing.
LEMMA IdleIsCareful ==
  ASSUME NEW c, c.step \notin Working, NEW p, NEW rows, NEW reqs
  PROVE  Careful(c, p, rows, reqs)
BY DEF Careful, Looked, Checked

LEMMA NothingInEmpty == ToSet(<<>>) = {}
BY DEF ToSet

\* One command takes a step; what it relies on afterwards is to be shown.
LEMMA CommandStep ==
  ASSUME IndInv, Undisturbed, NEW i \in Calls, NEW c, Bare(c),
         request' = request, call' = [call EXCEPT ![i] = c], disturbed \subseteq disturbed',
         \A p \in Pairs \ disturbed' :
           /\ ActiveOf(share', p) \subseteq ActiveOf(share, p)
           /\ \A s \in ActiveOf(share', p) : s \in call[i].made => s \in c.made
           /\ Busy(c, p) => \A j \in Calls \ {i} : ~Busy(call[j], p)
           /\ Careful(c, p, share', request)
  PROVE  Undisturbed'
<1>1. \A j \in Calls : Bare(call'[j])
  BY DEF IndInv, TypeOK, Undisturbed
<1>2. \A p \in Pairs \ disturbed' : PairInv(p)'
  <2> SUFFICES ASSUME NEW p \in Pairs \ disturbed' PROVE PairInv(p)'
    OBVIOUS
  <2>1. PairInv(p)
    BY DEF Undisturbed
  <2> QED
    BY <2>1, QuietStep
<1> QED
  BY <1>1, <1>2 DEF Undisturbed

LEMMA EndedIsBare == Bare(Ended) /\ Ended.step \notin Working /\ ~(\E p : Busy(Ended, p))
BY DEF Ended, Idle, Bare, Busy, Working

\* A command stops and leaves no share of an undisturbed pair behind.
LEMMA EndStep ==
  ASSUME IndInv, Undisturbed, NEW i \in Calls, End(i),
         request' = request, disturbed \subseteq disturbed',
         \A p \in Pairs \ disturbed' :
           /\ ActiveOf(share', p) \subseteq ActiveOf(share, p)
           /\ \A s \in ActiveOf(share', p) : s \notin call[i].made
  PROVE  Undisturbed'
BY EndedIsBare, IdleIsCareful, CommandStep DEF End

\* A command on requests begins: an undisturbed pair is handled by no other.
LEMMA BeginStep ==
  ASSUME IndInv, Undisturbed, NEW i \in Calls, NEW todo \in Seq(Requests), todo # <<>>,
         NEW decision \in Decisions, NEW step \in {"shares", "make", "save"},
         Begin(i, todo, decision, step),
         step = "save" => decision \in {"REJECTED", "CANCELED"},
         step = "make" => request[Head(todo)].status = "PENDING",
         decision = "PENDING" => Tail(todo) = <<>>,
         \A r \in ToSet(todo) : /\ request[r].status \in {"none", "PENDING"}
                                /\ decision = "PENDING" => request[r].status = "none"
  PROVE  Undisturbed'
<1> DEFINE c == [Idle EXCEPT !.step = step, !.todo = todo, !.decision = decision,
                             !.left = PairsOf[Head(todo)]]
<1>1. /\ c.step = step /\ c.todo = todo /\ c.decision = decision /\ c.made = {}
      /\ c.left = PairsOf[Head(todo)]
  BY DEF Idle
<1>2. /\ call[i].step = "idle" /\ call' = [call EXCEPT ![i] = c]
      /\ UNCHANGED <<request, share>>
      /\ disturbed' = disturbed \cup
           {p \in Pairs : /\ \E r \in ToSet(todo) : p \in ToSet(PairsOf[r])
                          /\ \E j \in Calls : Handles(j, p)}
  BY DEF Begin, Begins, shares
<1>3. call[i].made = {} /\ Bare(c)
  BY <1>1, <1>2 DEF Undisturbed, Bare, Working
<1>4. Head(todo) \in ToSet(todo) /\ Head(todo) \in Requests
  BY HeadAndTail
<1> HIDE DEF c
<1>5. ASSUME NEW p \in Pairs \ disturbed'
      PROVE  /\ ActiveOf(share', p) \subseteq ActiveOf(share, p)
             /\ \A s \in ActiveOf(share', p) : s \in call[i].made => s \in c.made
             /\ Busy(c, p) => \A j \in Calls \ {i} : ~Busy(call[j], p)
             /\ Careful(c, p, share', request)
  <2>1. share' = share /\ PairInv(p)
    BY <1>2 DEF Undisturbed
  <2>2. (\E r \in ToSet(todo) : p \in ToSet(PairsOf[r])) => \A j \in Calls : ~Busy(call[j], p)
    BY <1>2 DEF Handles, UnderWay, Busy
  <2>3. ASSUME Looked(c, p)
        PROVE  /\ ActiveOf(share, p) \subseteq c.made
               /\ AskingFor(request, p) \subseteq {Head(todo)}
    <3>1. p \in ToSet(PairsOf[Head(todo)]) /\ c.step = "make"
      BY <2>3, <1>1 DEF Looked
    <3>2. Head(todo) \in AskingFor(request, p)
      BY <3>1, <1>1, <1>4 DEF AskingFor
    <3>3. ActiveOf(share, p) = {}
      <4> SUFFICES ASSUME NEW s \in ActiveOf(share, p) PROVE FALSE
        OBVIOUS
      <4>1. PICK j \in Calls : s \in call[j].made
        BY <3>2, <2>1 DEF PairInv, Held
      <4>2. s[3] = p /\ Busy(call[j], p)
        BY <4>1, HeldByHandler DEF ActiveOf, Undisturbed
      <4> QED
        BY <4>2, <2>2, <3>1, <1>4
    <3> QED
      BY <3>2, <3>3, <2>1 DEF PairInv
  <2>4. Careful(c, p, share, request)
    BY <1>1, <2>3 DEF Careful, Checked
  <2> QED
    BY <1>1, <1>3, <2>1, <2>2, <2>4 DEF Busy
<1> QED
  BY <1>2, <1>3, <1>5, CommandStep

LEMMA BeginsUndisturbed ==
  ASSUME IndInv, Undisturbed, NEW i \in Calls,
         \/ \E r \in Requests : Create(i, r) \/ Approve(i, r) \/ RejectOrCancel(i, r)
         \/ \E rs \in (SUBSET Requests) \ {{}} : \E todo \in SetToSeqs(rs) : Bulk(i, todo)
  PROVE  Undisturbed'
<1>1. CASE \E r \in Requests : Create(i, r)
  <2>1. PICK r \in Requests, decision \in {"PENDING", "APPROVED"} :
          request[r].status = "none" /\ Begin(i, <<r>>, decision, "shares")
    BY <1>1 DEF Create
  <2>2. decision \in Decisions
    BY DEF Decisions
  <2>3. /\ <<r>> \in Seq(Requests) /\ <<r>> # <<>>
        /\ \A q \in ToSet(<<r>>) : request[q].status = "none"
        /\ Tail(<<r>>) = <<>>
    BY <2>1, TodoType
  <2> QED
    BY <2>1, <2>2, <2>3, BeginStep
<1>2. CASE \E r \in Requests : Approve(i, r)
  <2>1. PICK r \in Requests : request[r].status = "PENDING" /\ Begin(i, <<r>>, "APPROVED", "make")
    BY <1>2 DEF Approve
  <2>2. "APPROVED" \in Decisions
    BY DEF Decisions
  <2>3. /\ <<r>> \in Seq(Requests) /\ <<r>> # <<>> /\ Head(<<r>>) = r
        /\ \A q \in ToSet(<<r>>) : request[q].status = "PENDING"
    BY <2>1, TodoType
  <2> QED
    BY <2>1, <2>2, <2>3, BeginStep
<1>3. CASE \E r \in Requests : RejectOrCancel(i, r)
  <2>1. PICK r \in Requests, decision \in {"REJECTED", "CANCELED"} :
          request[r].status = "PENDING" /\ Begin(i, <<r>>, decision, "save")
    BY <1>3 DEF RejectOrCancel
  <2>2. decision \in Decisions
    BY DEF Decisions
  <2> QED
    BY <2>1, <2>2, TodoType, BeginStep
<1>4. CASE \E rs \in (SUBSET Requests) \ {{}} : \E todo \in SetToSeqs(rs) : Bulk(i, todo)
  <2>1. PICK rs \in (SUBSET Requests) \ {{}} : \E todo \in SetToSeqs(rs) : Bulk(i, todo)
    BY <1>4
  <2>2. PICK todo \in SetToSeqs(rs) : Bulk(i, todo)
    BY <2>1
  <2>3. todo \in Seq(Requests) /\ todo # <<>>
    BY TodoType
  <2>4. /\ \A r \in ToSet(todo) : request[r].status = "PENDING"
        /\ \/ Begin(i, todo, "APPROVED", "shares")
           \/ Begin(i, todo, "REJECTED", "save")
    BY <2>2 DEF Bulk
  <2>5. "APPROVED" \in Decisions /\ "REJECTED" \in Decisions
    BY DEF Decisions
  <2> QED
    BY <2>3, <2>4, <2>5, BeginStep
<1> QED
  BY <1>1, <1>2, <1>3, <1>4

LEMMA ReadShareUndisturbed ==
  ASSUME IndInv, Undisturbed, NEW i \in Calls, NEW s \in Shares, NEW change \in Changes \ {"none"},
         ReadShare(i, s, change)
  PROVE  Undisturbed'
<1> DEFINE c == [Idle EXCEPT !.step = "row", !.share = {s}, !.seen = share[s],
                             !.change = change]
<1>1. /\ call[i].step = "idle" /\ call' = [call EXCEPT ![i] = c]
      /\ UNCHANGED <<request, share, disturbed>>
  BY DEF ReadShare, Begins, shares
<1>2. c.step = "row" /\ c.todo = <<>> /\ c.made = {}
  BY DEF Idle
<1> HIDE DEF c
<1>3. c.step \notin Working /\ Bare(c) /\ (\A p : ~Busy(c, p))
  BY <1>2, NothingInEmpty DEF Bare, Working, Busy
<1>4. call[i].made = {}
  BY <1>1 DEF Undisturbed, Bare, Working
<1> QED
  BY <1>1, <1>3, <1>4, IdleIsCareful, CommandStep

\* Looking for duplicates tells the command what it relies on.
LEMMA CheckUndisturbed ==
  ASSUME IndInv, Undisturbed, NEW i \in Calls, CheckShares(i) \/ CheckPending(i)
  PROVE  Undisturbed'
<1> DEFINE old == call[i]
<1>1. /\ old \in CallRec /\ old.step \in {"shares", "pending"} /\ old.step \in Working
      /\ UNCHANGED <<request, share, disturbed>>
  BY CallFacts DEF CheckShares, CheckPending, shares, Working
<1>2. /\ old.made = {} /\ old.decision \in {"PENDING", "APPROVED"}
      /\ old.left # <<>> /\ old.left \in Seq(Pairs)
  BY <1>1, CallFacts DEF Knows, CallRec
<1>3. /\ Head(old.left) \in Pairs /\ ToSet(old.left) = {Head(old.left)} \cup ToSet(Tail(old.left))
      /\ (Tail(old.left) = <<>> => ToSet(Tail(old.left)) = {})
  <2> HIDE DEF old
  <2> QED
    BY <1>2, NothingInEmpty, HeadAndTail
<1>4. CASE End(i)
  BY <1>1, <1>2, <1>4, EndStep
<1>5. CASE CheckShares(i) /\ ~End(i)
  <2> DEFINE c == [old EXCEPT !.step = "pending"]
  <2>1. /\ old.step = "shares" /\ ActiveShares(Head(old.left)) = {}
        /\ call' = [call EXCEPT ![i] = c]
    BY <1>1, <1>5 DEF CheckShares, IndInv, TypeOK
  <2>2. /\ c.step = "pending" /\ c.todo = old.todo /\ c.left = old.left /\ c.made = old.made
        /\ c.decision = old.decision
    BY <1>1 DEF CallRec
  <2> HIDE DEF c, old
  <2>3. ASSUME NEW p \in Pairs \ disturbed'
        PROVE  /\ Busy(c, p) => \A j \in Calls \ {i} : ~Busy(call[j], p)
               /\ Careful(c, p, share, request)
    <3>1. PairInv(p) /\ Careful(old, p, share, request) /\ (Busy(old, p) <=> Busy(c, p))
      BY <1>1, <2>1, <2>2 DEF old, Undisturbed, PairInv, Busy
    <3>2. ActiveOf(share, Head(old.left)) = {}
      BY <2>1 DEF ActiveShares, Active, ActiveOf
    <3>3. Looked(c, p) => Looked(old, p) \/ p = Head(old.left)
      BY <1>1, <2>1, <2>2 DEF Looked
    <3>4. Checked(c, p) => Checked(old, p)
      BY <1>1, <2>1, <2>2 DEF Looked, Checked
    <3>5. Careful(c, p, share, request)
      BY <1>1, <2>2, <3>1, <3>2, <3>3, <3>4 DEF Careful
    <3> QED
      BY <3>1, <3>5 DEF PairInv, old
  <2>4. Bare(c)
    BY <1>1, <1>2, <2>1, <2>2 DEF Bare, Working, Undisturbed, old
  <2> QED
    BY <1>1, <2>1, <2>2, <2>3, <2>4, CommandStep DEF old
<1>6. CASE CheckPending(i) /\ ~End(i)
  <2> DEFINE rest == Tail(old.left)
             all == PairsOf[Head(old.todo)]
             c == IF rest # <<>> THEN [old EXCEPT !.step = "shares", !.left = rest]
                  ELSE [old EXCEPT !.step = IF old.decision = "PENDING" THEN "save" ELSE "make",
                                   !.left = all]
  <2>1. /\ old.step = "pending" /\ ~PendingRequest(Head(old.left))
        /\ call' = [call EXCEPT ![i] = c]
    BY <1>1, <1>6 DEF CheckPending
  <2>2. /\ c.step \in Working \ {"pending"} /\ c.todo = old.todo /\ c.made = old.made
        /\ c.decision = old.decision
        /\ c.step = "shares" => c.left = rest
        /\ c.step # "shares" => rest = <<>>
    BY <1>1 DEF CallRec, Working
  <2> HIDE DEF c, old, rest
  <2>3. ASSUME NEW p \in Pairs \ disturbed'
        PROVE  /\ Busy(c, p) => \A j \in Calls \ {i} : ~Busy(call[j], p)
               /\ Careful(c, p, share, request)
    <3>1. PairInv(p) /\ Careful(old, p, share, request) /\ (Busy(old, p) <=> Busy(c, p))
      BY <1>1, <2>1, <2>2 DEF old, Undisturbed, PairInv, Busy, Working
    <3>2. AskingFor(request, Head(old.left)) = {}
      BY <2>1 DEF PendingRequest, AskingFor
    <3>3. Looked(c, p) => Looked(old, p) /\ (Checked(old, p) \/ p = Head(old.left))
      BY <1>1, <1>2, <1>3, <2>1, <2>2 DEF Looked, Checked, rest
    <3>4. Careful(c, p, share, request)
      BY <1>1, <2>2, <3>1, <3>2, <3>3 DEF Careful, Checked
    <3> QED
      BY <3>1, <3>4 DEF PairInv, old
  <2>4. Bare(c)
    BY <1>2, <2>2 DEF Bare, Undisturbed, old
  <2> QED
    BY <1>1, <2>1, <2>2, <2>3, <2>4, CommandStep DEF old
<1> QED
  BY <1>4, <1>5, <1>6

\* A failure that leaves shares behind disturbs their pairs.
LEMMA FailUndisturbed ==
  ASSUME IndInv, Undisturbed, NEW i \in Calls, Fail(i)
  PROVE  Undisturbed'
<1>1. /\ UNCHANGED <<request, share>> /\ End(i) /\ disturbed' = disturbed \cup HalfDone(i)
  BY DEF Fail, shares
<1>2. ASSUME NEW p \in Pairs \ disturbed', NEW s \in ActiveOf(share', p), s \in call[i].made
      PROVE  FALSE
  <2>1. call[i].step \in Working /\ p \in ToSet(PairsOf[Head(call[i].todo)])
    BY <1>2, HeldByHandler DEF Undisturbed, ActiveOf
  <2>2. p \in HalfDone(i)
    BY <1>2, <2>1 DEF HalfDone, UnderWay, Working
  <2> QED
    BY <1>1, <2>2
<1> QED
  BY <1>1, <1>2, EndStep

\* Rows are saved and the pair of one that becomes active again is disturbed.
LEMMA SaveRowsUndisturbed ==
  ASSUME IndInv, Undisturbed, NEW i \in Calls, End(i), call[i].step \in {"idle", "row"},
         request' = request, disturbed \subseteq disturbed',
         \A s \in Shares : Reactivates(s) => s[3] \in disturbed'
  PROVE  Undisturbed'
<1>1. call[i].made = {}
  BY DEF Undisturbed, Bare, Working
<1>2. \A p \in Pairs \ disturbed' : ActiveOf(share', p) \subseteq ActiveOf(share, p)
  BY DEF Reactivates, Active, ActiveOf
<1> QED
  BY <1>1, <1>2, EndStep

LEMMA SaveShareUndisturbed ==
  ASSUME IndInv, Undisturbed, NEW i \in Calls, SaveShare(i)
  PROVE  Undisturbed'
<1>1. PICK s \in call[i].share :
        /\ call[i].step = "row" /\ End(i) /\ UNCHANGED request
        /\ share' = [share EXCEPT ![s] = Changed(call[i].seen, call[i].change)]
        /\ disturbed' = IF Reactivates(s) THEN disturbed \cup {s[3]} ELSE disturbed
  BY DEF SaveShare
<1>2. \A q \in Shares \ {s} : ~Reactivates(q)
  BY <1>1 DEF IndInv, TypeOK, Reactivates, Active
<1>3. \A q \in Shares : Reactivates(q) => q[3] \in disturbed'
  BY <1>1, <1>2
<1> QED
  BY <1>1, <1>3, SaveRowsUndisturbed

LEMMA BlockAllUndisturbed ==
  ASSUME IndInv, Undisturbed, NEW i \in Calls, NEW ps \in SUBSET Pairs, NEW blocked \in BOOLEAN,
         BlockAll(i, ps, blocked)
  PROVE  Undisturbed'
<1>1. /\ call[i].step = "idle" /\ End(i) /\ UNCHANGED request
      /\ disturbed' = disturbed \cup {p \in Pairs : \E s \in Shares : s[3] = p /\ Reactivates(s)}
  BY DEF BlockAll, Begins
<1>2. \A s \in Shares : Reactivates(s) => s[3] \in disturbed'
  BY <1>1, ShareIds
<1> QED
  BY <1>1, <1>2, SaveRowsUndisturbed

\* A crash does so for every command.
LEMMA CrashUndisturbed ==
  ASSUME IndInv, Undisturbed, Crash
  PROVE  Undisturbed'
<1>1. /\ UNCHANGED <<request, share>>
      /\ disturbed' = disturbed \cup UNION {HalfDone(i) : i \in Calls}
      /\ \A i \in Calls : call'[i] = IF UnderWay(i) THEN Ended ELSE call[i]
  BY DEF Crash, shares
<1>2. \A i \in Calls : Bare(call'[i]) /\ call'[i].step \notin Working
  BY <1>1, EndedIsBare DEF Undisturbed, UnderWay, Working
<1>3. ASSUME NEW p \in Pairs \ disturbed' PROVE PairInv(p)'
  <2>1. PairInv(p)
    BY <1>1 DEF Undisturbed
  <2>2. \A s \in ActiveOf(share, p) : ~Held(s, call)
    <3> SUFFICES ASSUME NEW s \in ActiveOf(share, p), NEW i \in Calls, s \in call[i].made
                 PROVE  FALSE
      BY DEF Held
    <3>1. call[i].step \in Working /\ p \in ToSet(PairsOf[Head(call[i].todo)])
      BY HeldByHandler DEF Undisturbed, ActiveOf
    <3>2. p \in HalfDone(i)
      BY <3>1 DEF HalfDone, UnderWay, Working
    <3> QED
      BY <1>1, <3>2
  <2>3. \A i \in Calls : ~Busy(call'[i], p)
    BY <1>1, EndedIsBare DEF UnderWay, Busy
  <2>4. \A i \in Calls : Careful(call'[i], p, share, request)
    BY <1>2, IdleIsCareful
  <2> QED
    BY <1>1, <2>1, <2>2, <2>3, <2>4 DEF PairInv
<1> QED
  BY <1>2, <1>3 DEF Undisturbed

\* The pair of a new share had none, since it was looked for and nobody else created one.
LEMMA CreatePublicShareUndisturbed ==
  ASSUME IndInv, Undisturbed, NEW i \in Calls, CreatePublicShare(i)
  PROVE  Undisturbed'
<1> DEFINE old == call[i]
           r == Head(old.todo)
           first == Head(old.left)
           s == <<i, r, first>>
           rest == Tail(old.left)
           c == [old EXCEPT !.step = IF rest = <<>> THEN "save" ELSE "make",
                            !.left = rest, !.made = @ \cup {s}]
<1>1. /\ old.step = "make" /\ share' = [share EXCEPT ![s] = NewRow]
      /\ call' = [call EXCEPT ![i] = c] /\ UNCHANGED <<request, disturbed>>
  BY DEF CreatePublicShare
<1>2. /\ old \in CallRec /\ old.decision = "APPROVED"
      /\ old.left # <<>> /\ old.left \in Seq(Pairs)
      /\ ToSet(old.left) \subseteq ToSet(PairsOf[r])
      /\ \A q \in old.made : q[3] \notin ToSet(old.left)
  BY <1>1, CallFacts DEF Knows, CallRec
<1>3. /\ c.step \in {"make", "save"} /\ c.todo = old.todo /\ c.decision = old.decision
      /\ c.made = old.made \cup {s}
  BY <1>2 DEF CallRec
<1>4. first \in Pairs /\ first \in ToSet(old.left)
  <2> HIDE DEF old
  <2> QED
    BY <1>2, HeadAndTail
<1>5. r \in Requests /\ r \in ToSet(old.todo)
  BY <1>1, AtWork DEF Working
<1>6. s \in Shares /\ s[3] = first
  BY <1>2, <1>4, <1>5, ShareIds
<1>7. \A p : ActiveOf(share', p) = IF p = first THEN ActiveOf(share, p) \cup {s}
                                   ELSE ActiveOf(share, p)
  <2>1. /\ NewRow.exists /\ ~NewRow.blocked /\ ~NewRow.revoked
        /\ \A q \in Shares : share'[q] = IF q = s THEN NewRow ELSE share[q]
    BY <1>1, <1>6 DEF NewRow, NoRow, IndInv, TypeOK
  <2> QED
    BY <1>6, <2>1 DEF ActiveOf
<1> HIDE DEF c, old, r, first, rest, s
<1>8. Bare(c)
  BY <1>1, <1>2, <1>3 DEF Bare, Undisturbed, old, Working
<1>9. ASSUME NEW p \in Pairs \ disturbed' PROVE PairInv(p)'
  <2>1. PairInv(p) /\ Careful(old, p, share, request)
    BY <1>1 DEF Undisturbed, PairInv, old
  <2>2. \A j \in Calls : Busy(call'[j], p) <=> Busy(call[j], p)
    BY <1>1, <1>3 DEF Busy, old, IndInv, TypeOK
  <2>3. (Looked(c, p) <=> Looked(old, p)) /\ (Checked(c, p) <=> Checked(old, p))
    BY <1>1, <1>3 DEF Looked, Checked, Working
  <2>4. Careful(c, p, share', request)
    BY <1>1, <1>3, <1>7, <2>1, <2>3 DEF Careful, Working
  <2>5. CASE p # first
    <3>1. ActiveOf(share', p) = ActiveOf(share, p)
      BY <1>7, <2>5
    <3>2. Busy(c, p) => \A j \in Calls \ {i} : ~Busy(call[j], p)
      BY <1>1, <1>3, <2>1 DEF PairInv, Busy, old
    <3> QED
      BY <1>1, <1>3, <2>1, <2>4, <3>1, <3>2, QuietStep DEF old
  <2>6. CASE p = first
    <3>1. Looked(old, p) /\ Checked(old, p)
      BY <1>1, <1>2, <1>4, <2>6 DEF Looked, Checked, Working, r
    <3>2. ActiveOf(share, p) = {} /\ AskingFor(request, p) \subseteq {r}
      <4>1. ActiveOf(share, p) \subseteq old.made /\ AskingFor(request, p) \subseteq {r}
        BY <2>1, <3>1 DEF Careful, r
      <4> QED
        BY <4>1, <1>2, <1>4, <2>6 DEF ActiveOf
    <3>3. ActiveOf(share', p) = {s} /\ Held(s, call')
      <4>1. call'[i].made = c.made
        BY <1>1 DEF IndInv, TypeOK
      <4> QED
        BY <1>3, <1>7, <2>6, <3>2, <4>1 DEF Held
    <3>4. Busy(old, p)
      BY <1>1, <1>2, <1>4, <1>5, <2>6 DEF Busy
    <3>5. \A j \in Calls : Careful(call'[j], p, share', request)
      <4> SUFFICES ASSUME NEW j \in Calls, j # i PROVE Careful(call[j], p, share', request)
        BY <1>1, <2>4 DEF IndInv, TypeOK
      <4>1. ~Busy(call[j], p)
        BY <2>1, <3>4 DEF PairInv, old
      <4>2. call[j].step \in Working => p \notin ToSet(PairsOf[Head(call[j].todo)])
        BY <4>1, AtWork
      <4>3. Careful(call[j], p, share, request)
        BY <2>1 DEF PairInv
      <4> QED
        BY <4>2, <4>3 DEF Careful, Looked, Checked
    <3>6. \A j, k \in Calls : Busy(call'[j], p) /\ Busy(call'[k], p) => j = k
      BY <2>1, <2>2 DEF PairInv
    <3>7. \A q, z \in ActiveOf(share', p) : q = z
      BY <3>3
    <3>8. \A q \in ActiveOf(share', p) : Listed(q, request') \/ Held(q, call')
      BY <3>3
    <3>9. \A q \in AskingFor(request', p) :
            /\ AskingFor(request', p) \subseteq {q}
            /\ \A z \in ActiveOf(share', p) : Held(z, call')
      BY <1>1, <3>2, <3>3
    <3> QED
      BY <1>1, <3>5, <3>6, <3>7, <3>8, <3>9 DEF PairInv
  <2> QED
    BY <2>5, <2>6
<1>10. \A j \in Calls : Bare(call'[j])
  BY <1>1, <1>8 DEF Undisturbed, IndInv, TypeOK
<1> QED
  BY <1>9, <1>10 DEF Undisturbed

\* The shares that were made become listed, or the request begins or ceases to wait.
LEMMA SaveRequestUndisturbed ==
  ASSUME IndInv, Undisturbed, NEW i \in Calls, SaveRequest(i)
  PROVE  Undisturbed'
<1> DEFINE old == call[i]
           r == Head(old.todo)
           rest == Tail(old.todo)
           row == [status |-> old.decision, shares |-> old.made]
           next == IF old.decision = "APPROVED" THEN "shares" ELSE "save"
           c == IF rest = <<>> THEN Ended
                ELSE [old EXCEPT !.step = next, !.todo = rest,
                                 !.left = PairsOf[Head(rest)], !.made = {}]
<1>1. /\ old.step = "save" /\ old.step \in Working /\ request' = [request EXCEPT ![r] = row]
      /\ call' = [call EXCEPT ![i] = c] /\ UNCHANGED <<share, disturbed>>
  BY DEF SaveRequest, shares, Working
<1>2. old \in CallRec /\ old.decision \in Decisions
  BY CallFacts DEF CallRec
<1>3. /\ r \in Requests /\ r \in ToSet(old.todo) /\ ToSet(old.todo) = {r} \cup ToSet(rest)
      /\ r \notin ToSet(rest) /\ \A p \in ToSet(PairsOf[r]) : Busy(old, p)
  BY <1>1, AtWork
<1>4. /\ old.decision # "APPROVED" => old.made = {}
      /\ old.decision = "PENDING" => rest = <<>>
  BY DEF Undisturbed, Bare
<1>5. \/ c = Ended
      \/ /\ rest # <<>> /\ c.step \in {"shares", "save"} /\ c.todo = rest
         /\ c.decision = old.decision /\ c.made = {} /\ c.left = PairsOf[Head(rest)]
         /\ c.step = "shares" <=> old.decision = "APPROVED"
  BY <1>2 DEF CallRec
<1>6. /\ row.status = old.decision /\ row.shares = old.made
      /\ \A q \in Requests : request'[q] = IF q = r THEN row ELSE request[q]
  BY <1>1, <1>3 DEF IndInv, TypeOK
<1>7. \A s \in old.made : s \in Shares /\ s[2] = r /\ s[3] \in ToSet(PairsOf[r])
  BY HeldByHandler DEF Undisturbed
<1>8. /\ call'[i] = c /\ \A j \in Calls \ {i} : call'[j] = call[j]
  BY <1>1 DEF IndInv, TypeOK
<1> HIDE DEF c, old, r, rest, row, next
<1>9. Bare(c)
  BY <1>4, <1>5, EndedIsBare DEF Bare, Working
<1>10. \A p : ~Looked(c, p)
  BY <1>4, <1>5, EndedIsBare DEF Looked, Working
<1>11. \A p : Busy(c, p) => Busy(old, p)
  BY <1>1, <1>3, <1>5, EndedIsBare DEF Busy
<1>12. ASSUME NEW p \in Pairs \ disturbed' PROVE PairInv(p)'
  <2>1. PairInv(p) /\ Careful(old, p, share, request)
    BY <1>1 DEF Undisturbed, PairInv, old
  <2>2. \A j, k \in Calls : Busy(call'[j], p) /\ Busy(call'[k], p) => j = k
    BY <1>8, <1>11, <2>1 DEF PairInv, old
  <2>3. Careful(c, p, share, request')
    <3> SUFFICES ASSUME c.step \in Working, NEW q \in ToSet(c.todo), p \in ToSet(PairsOf[q])
                 PROVE  /\ request'[q].status \in {"none", "PENDING"}
                        /\ c.decision = "PENDING" => request'[q].status = "none"
      BY <1>10 DEF Careful, Checked
    <3>1. /\ q \in ToSet(rest) /\ rest # <<>> /\ c.decision = old.decision
      BY <1>5, EndedIsBare
    <3>2. q \in Requests
      <4>1. ToSet(old.todo) \subseteq Requests
        BY <1>2, ElementOfSeq, LenProperties DEF CallRec, ToSet
      <4> QED
        BY <3>1, <4>1, <1>3
    <3>3. request'[q] = request[q] /\ q \in ToSet(old.todo)
      BY <3>1, <3>2, <1>3, <1>6
    <3> QED
      BY <3>1, <3>3, <2>1, <1>1 DEF Careful
  <2>4. CASE p \notin ToSet(PairsOf[r])
    <3>1. AskingFor(request', p) = AskingFor(request, p)
      BY <2>4, <1>6 DEF AskingFor
    <3>2. \A s \in ActiveOf(share, p) : Held(s, call) => Held(s, call')
      <4>1. \A s \in ActiveOf(share, p) : s \notin old.made
        BY <1>7, <2>4 DEF ActiveOf
      <4> QED
        BY <4>1, <1>8 DEF Held, old
    <3>3. \A s \in ActiveOf(share, p) : Listed(s, request) => Listed(s, request')
      <4> SUFFICES ASSUME NEW s \in ActiveOf(share, p), NEW q \in Requests,
                          request[q].status = "APPROVED", s \in request[q].shares
                   PROVE  request'[q] = request[q]
        BY DEF Listed
      <4>1. s[2] = q /\ s \in Shares /\ s[3] = p
        BY DEF IndInv, ApprovedHasItsShares, ActiveOf
      <4> QED
        BY <4>1, <2>4, <1>6, ShareIds
    <3>4. \A j \in Calls : Careful(call'[j], p, share, request')
      <4> SUFFICES ASSUME NEW j \in Calls, j # i PROVE Careful(call[j], p, share, request')
        BY <1>8, <2>3
      <4>1. Careful(call[j], p, share, request)
        BY <2>1 DEF PairInv
      <4>2. \A q \in ToSet(call[j].todo) : q \in Requests
        <5>1. call[j].todo \in Seq(Requests)
          BY CallFacts DEF CallRec
        <5> QED
          BY <5>1, ElementOfSeq, LenProperties DEF ToSet
      <4>3. \A q \in ToSet(call[j].todo) : p \in ToSet(PairsOf[q]) => request'[q] = request[q]
        BY <4>2, <2>4, <1>6
      <4> QED
        BY <4>1, <4>3, <3>1 DEF Careful
    <3> QED
      BY <1>1, <2>1, <2>2, <3>1, <3>2, <3>3, <3>4 DEF PairInv
  <2>5. CASE p \in ToSet(PairsOf[r])
    <3>1. \A j \in Calls \ {i} : ~Busy(call[j], p)
      BY <2>1, <2>5, <1>3 DEF PairInv, old
    <3>2. \A s \in ActiveOf(share, p) : Held(s, call) => s \in old.made
      <4> SUFFICES ASSUME NEW s \in ActiveOf(share, p), NEW j \in Calls, s \in call[j].made
                   PROVE  s \in old.made
        BY DEF Held
      <4>1. Busy(call[j], p)
        BY HeldByHandler DEF Undisturbed, ActiveOf
      <4> QED
        BY <4>1, <3>1 DEF old
    <3>3. /\ request[r].status \in {"none", "PENDING"}
          /\ old.decision = "PENDING" => request[r].status = "none"
      BY <2>1, <2>5, <1>1, <1>3 DEF Careful
    <3>4. old.decision \in {"PENDING", "APPROVED"} =>
            ActiveOf(share, p) \subseteq old.made /\ AskingFor(request, p) \subseteq {r}
      BY <2>1, <2>5, <1>1 DEF Careful, Checked, Looked, r
    <3>5. \A s \in ActiveOf(share, p) : Listed(s, request')
      <4> SUFFICES ASSUME NEW s \in ActiveOf(share, p) PROVE Listed(s, request')
        OBVIOUS
      <4>1. CASE s \in old.made
        BY <4>1, <1>3, <1>4, <1>6 DEF Listed
      <4>2. CASE s \notin old.made
        <5>1. PICK q \in Requests : request[q].status = "APPROVED" /\ s \in request[q].shares
          BY <4>2, <2>1, <3>2 DEF PairInv, Listed
        <5> QED
          BY <5>1, <3>3, <1>6 DEF Listed
      <4> QED
        BY <4>1, <4>2
    <3>6. AskingFor(request', p) =
            IF old.decision = "PENDING" THEN AskingFor(request, p) \cup {r}
            ELSE AskingFor(request, p) \ {r}
      BY <2>5, <1>3, <1>6 DEF AskingFor
    <3>7. \A q \in AskingFor(request', p) : /\ AskingFor(request', p) \subseteq {q}
                                           /\ ActiveOf(share, p) = {}
      <4>1. CASE old.decision = "PENDING"
        BY <4>1, <3>4, <3>6, <1>4
      <4>2. CASE old.decision = "APPROVED"
        BY <4>2, <3>4, <3>6
      <4>3. CASE old.decision \notin {"PENDING", "APPROVED"}
        BY <4>3, <2>1, <3>2, <3>6, <1>4 DEF PairInv
      <4> QED
        BY <4>1, <4>2, <4>3
    <3>8. \A j \in Calls : Careful(call'[j], p, share, request')
      <4> SUFFICES ASSUME NEW j \in Calls, j # i PROVE Careful(call[j], p, share, request')
        BY <1>8, <2>3
      <4>1. call[j].step \in Working => p \notin ToSet(PairsOf[Head(call[j].todo)])
        BY <3>1, AtWork
      <4>2. call[j].step \in Working => \A q \in ToSet(call[j].todo) : p \notin ToSet(PairsOf[q])
        BY <3>1 DEF Busy, Working
      <4> QED
        BY <4>1, <4>2 DEF Careful, Looked, Checked
    <3> QED
      BY <1>1, <2>1, <2>2, <3>5, <3>7, <3>8 DEF PairInv
  <2> QED
    BY <2>4, <2>5
<1>13. \A j \in Calls : Bare(call'[j])
  BY <1>8, <1>9 DEF Undisturbed
<1> QED
  BY <1>12, <1>13 DEF Undisturbed

LEMMA InitUndisturbed == Init => Undisturbed
<1> SUFFICES ASSUME Init PROVE Undisturbed
  OBVIOUS
<1>1. /\ Idle.step = "idle" /\ Idle.todo = <<>> /\ Idle.made = {} /\ Idle.decision = "none"
      /\ \A i \in Calls : call[i] = Idle
      /\ \A s \in Shares : ~share[s].exists
      /\ \A r \in Requests : request[r].status = "none"
  BY DEF Init, Idle, NoRow
<1>2. \A i \in Calls : Bare(call[i])
  BY <1>1 DEF Bare
<1>3. ASSUME NEW p \in Pairs PROVE PairInv(p)
  <2>1. ActiveOf(share, p) = {} /\ AskingFor(request, p) = {}
    BY <1>1 DEF ActiveOf, AskingFor
  <2>2. \A i \in Calls : ~Busy(call[i], p) /\ Careful(call[i], p, share, request)
    BY <1>1, IdleIsCareful DEF Busy, Working
  <2> QED
    BY <2>1, <2>2 DEF PairInv
<1> QED
  BY <1>2, <1>3 DEF Undisturbed

LEMMA NextUndisturbed == IndInv /\ Undisturbed /\ [Next]_vars => Undisturbed'
<1> SUFFICES ASSUME IndInv, Undisturbed, [Next]_vars PROVE Undisturbed'
  OBVIOUS
<1>1. CASE UNCHANGED vars
  <2>1. UNCHANGED <<request, share, call, disturbed>>
    BY <1>1 DEF vars
  <2>2. \A p : PairInv(p)' <=> PairInv(p)
    BY <2>1 DEF PairInv
  <2> QED
    BY <2>1, <2>2 DEF Undisturbed
<1>2. CASE Crash
  BY <1>2, CrashUndisturbed
<1>3. CASE \E i \in Calls : Command(i)
  <2>1. PICK i \in Calls : Command(i)
    BY <1>3
  <2>2. CASE \/ \E r \in Requests : Create(i, r) \/ Approve(i, r) \/ RejectOrCancel(i, r)
             \/ \E rs \in (SUBSET Requests) \ {{}} : \E todo \in SetToSeqs(rs) : Bulk(i, todo)
    BY <2>2, BeginsUndisturbed
  <2>3. CASE \E s \in Shares, change \in Changes \ {"none"} : ReadShare(i, s, change)
    BY <2>3, ReadShareUndisturbed
  <2>4. CASE \E ps \in SUBSET Pairs, blocked \in BOOLEAN : BlockAll(i, ps, blocked)
    BY <2>4, BlockAllUndisturbed
  <2> QED
    BY <2>1, <2>2, <2>3, <2>4 DEF Command
<1>4. CASE \E i \in Calls : \/ CheckShares(i) \/ CheckPending(i)
                            \/ CreatePublicShare(i) \/ SaveRequest(i) \/ SaveShare(i)
                            \/ Fail(i)
  BY <1>4, CheckUndisturbed, CreatePublicShareUndisturbed, SaveRequestUndisturbed,
     SaveShareUndisturbed, FailUndisturbed
<1> QED
  BY <1>1, <1>2, <1>3, <1>4 DEF Next

\* Unless two commands of ShareRequestCommandService handled a pair at once, one
\* stopped half way or a share became active again, the pair has one active share
\* at most, and an approved request lists it or a command is about to.
THEOREM PairsHaveOneShare == Spec => []OneActiveShare
<1>1. IndInv /\ Undisturbed => OneActiveShare
  <2> SUFFICES ASSUME IndInv, Undisturbed, NEW p \in Pairs \ disturbed
               PROVE  /\ Cardinality(ActiveShares(p)) <= 1
                      /\ \A s \in ActiveShares(p) :
                           \/ \E r \in Requests :
                                request[r].status = "APPROVED" /\ s \in request[r].shares
                           \/ \E i \in Calls : s \in call[i].made
    BY DEF OneActiveShare
  <2>1. PairInv(p) /\ ActiveShares(p) = ActiveOf(share, p)
    BY DEF Undisturbed, ActiveShares, Active, ActiveOf
  <2>2. ActiveShares(p) = {} \/ \E s : ActiveShares(p) = {s}
    BY <2>1 DEF PairInv
  <2>3. Cardinality(ActiveShares(p)) <= 1
    <3>1. CASE ActiveShares(p) = {}
      BY <3>1, FS_EmptySet
    <3>2. CASE ActiveShares(p) # {}
      <4>1. PICK s : ActiveShares(p) = {s}
        BY <3>2, <2>2
      <4>2. Cardinality({s}) = 1
        BY FS_Singleton
      <4> QED
        BY <4>1, <4>2
    <3> QED
      BY <3>1, <3>2
  <2> QED
    BY <2>1, <2>3 DEF PairInv, Listed, Held
<1> QED
  BY <1>1, InitIndInv, InitUndisturbed, InductiveInvariant, NextUndisturbed, PTL DEF Spec
=============================================================================
