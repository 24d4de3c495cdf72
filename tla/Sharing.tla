------------------------------ MODULE Sharing ------------------------------
(***************************************************************************)
(* Share requests, the shares that approving them creates, and the use of  *)
(* a share by the person it is for.                                        *)
(*                                                                         *)
(* Every command reads a row, changes the copy and saves it whole.  The    *)
(* commands that create several shares open a transaction that none of     *)
(* their saves takes part in: each save stands for itself, and a rollback  *)
(* takes nothing back.  Commands are numbered in the order in which they   *)
(* begin; a share is named by the command that created it, the request it  *)
(* comes from and what it shares with whom (a pair of a file and a person).*)
(* Tokens, permissions and dates only refuse an access; they are left out. *)
(***************************************************************************)
EXTENDS Naturals, FiniteSets, SequencesExt

CONSTANTS
  Pairs,         \* what is shared with whom
  Requests,      \* share requests
  PairsOf,       \* the pairs of each request, in the order of its files and targets
  MaxDownloads,  \* maxDownloadCount of every share
  MaxCalls,      \* bound: commands and accesses
  MaxTroubles    \* bound: refused saves and crashes

ASSUME SharingAssumption ==
  /\ IsFiniteSet(Requests)
  /\ PairsOf \in [Requests -> Seq(Pairs)]
  /\ \A r \in Requests : PairsOf[r] # <<>> /\ IsInjective(PairsOf[r])
  /\ MaxDownloads \in Nat /\ MaxCalls \in Nat /\ MaxTroubles \in Nat

VARIABLES
  request,    \* share_requests rows: status, publicShareIds
  share,      \* public_shares rows
  call,       \* the commands: step, what is left to do, what was read
  served,     \* history: downloads served by each share
  revoked,    \* history: shares whose owner has revoked them
  stale,      \* history: shares saved over a change made since they were read
  disturbed,  \* history: pairs that two commands handled at once, that a failed
              \* one left half done, or with a share that is active again
  troubles

vars == <<request, share, call, served, revoked, stale, disturbed, troubles>>
shares == <<share, served, revoked, stale>>

Calls == 1 .. MaxCalls
Shares == {s \in Calls \X Requests \X Pairs : s[3] \in ToSet(PairsOf[s[2]])}
Row == [exists: BOOLEAN, blocked: BOOLEAN, revoked: BOOLEAN, count: 0 .. MaxDownloads]
NoRow == [exists |-> FALSE, blocked |-> FALSE, revoked |-> FALSE, count |-> 0]
NewRow == [NoRow EXCEPT !.exists = TRUE]

Steps == {"idle", "shares", "pending", "make", "save", "row", "end"}
Changes == {"none", "block", "unblock", "revoke", "count"}

\* Between calls.
Idle == [step |-> "idle", todo |-> <<>>, left |-> <<>>, made |-> {},
         decision |-> "none", share |-> {}, seen |-> NoRow, change |-> "none"]
Ended == [Idle EXCEPT !.step = "end"]

TypeOK ==
  /\ request \in [Requests ->
       [status: {"none", "PENDING", "APPROVED", "REJECTED", "CANCELED"},
        shares: SUBSET Shares]]
  /\ share \in [Shares -> Row]
  /\ call \in [Calls ->
       [step: Steps, todo: Seq(Requests), left: Seq(Pairs), made: SUBSET Shares,
        decision: {"none", "PENDING", "APPROVED", "REJECTED", "CANCELED"},
        share: SUBSET Shares, seen: Row, change: Changes]]
  /\ served \in [Shares -> Nat]
  /\ revoked \subseteq Shares /\ stale \subseteq Shares
  /\ disturbed \subseteq Pairs
  /\ troubles \in 0 .. MaxTroubles

Init ==
  /\ request = [r \in Requests |-> [status |-> "none", shares |-> {}]]
  /\ share = [s \in Shares |-> NoRow]
  /\ call = [i \in Calls |-> Idle]
  /\ served = [s \in Shares |-> 0]
  /\ revoked = {} /\ stale = {} /\ disturbed = {}
  /\ troubles = 0

-----------------------------------------------------------------------------
(* Helpers                                                                 *)

Active(s) == share[s].exists /\ ~share[s].blocked /\ ~share[s].revoked
ActiveShares(p) == {s \in Shares : s[3] = p /\ Active(s)}
PendingRequest(p) ==
  \E r \in Requests : request[r].status = "PENDING" /\ p \in ToSet(PairsOf[r])

UnderWay(i) == call[i].step \notin {"idle", "end"}
Handles(i, p) == UnderWay(i) /\ \E r \in ToSet(call[i].todo) : p \in ToSet(PairsOf[r])

\* Commands begin in the order of their numbers.
Begins(i) == call[i].step = "idle" /\ \A j \in 1 .. i - 1 : call[j].step # "idle"

\* A command on requests starts; the pairs it has in common with another are
\* disturbed.
Begin(i, todo, decision, step) ==
  /\ Begins(i)
  /\ call' = [call EXCEPT ![i] =
       [Idle EXCEPT !.step = step, !.todo = todo, !.decision = decision,
                    !.left = PairsOf[Head(todo)]]]
  /\ disturbed' = disturbed \cup
       {p \in Pairs : /\ \E r \in ToSet(todo) : p \in ToSet(PairsOf[r])
                      /\ \E j \in Calls : Handles(j, p)}
  /\ UNCHANGED <<request, shares, troubles>>

End(i) == call' = [call EXCEPT ![i] = Ended]

-----------------------------------------------------------------------------
(* Requests                                                                *)

\* createShareRequest: with the permission to share directly the request is
\* approved at once, without it the request is PENDING.
Create(i, r) ==
  /\ request[r].status = "none"
  /\ \A j \in Calls : r \notin ToSet(call[j].todo)
  /\ \E decision \in {"PENDING", "APPROVED"} : Begin(i, <<r>>, decision, "shares")

\* approveRequest does not look for duplicates again.
Approve(i, r) ==
  /\ request[r].status = "PENDING"
  /\ Begin(i, <<r>>, "APPROVED", "make")

RejectOrCancel(i, r) ==
  /\ request[r].status = "PENDING"
  /\ \E decision \in {"REJECTED", "CANCELED"} : Begin(i, <<r>>, decision, "save")

\* bulkApprove looks for duplicates before each of its requests; bulkReject saves
\* them one after the other.
Bulk(i, todo) ==
  /\ \A r \in ToSet(todo) : request[r].status = "PENDING"
  /\ \/ Begin(i, todo, "APPROVED", "shares")
     \/ Begin(i, todo, "REJECTED", "save")

-----------------------------------------------------------------------------
(* checkDuplicates, pair after pair                                        *)

\* Mutant: only pending requests are looked for.
CheckNothing(i) ==
  /\ call[i].step = "shares"
  /\ call' = [call EXCEPT ![i].step = "pending"]
  /\ UNCHANGED <<request, shares, disturbed, troubles>>

CheckShares(i) ==
  /\ call[i].step = "shares"
  /\ IF ActiveShares(Head(call[i].left)) # {}
     THEN End(i)
     ELSE call' = [call EXCEPT ![i].step = "pending"]
  /\ UNCHANGED <<request, shares, disturbed, troubles>>

\* The request that is being approved in bulk is itself PENDING.
CheckPending(i) ==
  LET c == call[i]  rest == Tail(c.left) IN
  /\ c.step = "pending"
  /\ IF PendingRequest(Head(c.left))
     THEN End(i)
     ELSE call' = [call EXCEPT ![i] =
            IF rest # <<>> THEN [c EXCEPT !.step = "shares", !.left = rest]
            ELSE [c EXCEPT !.step = IF c.decision = "PENDING" THEN "save" ELSE "make",
                           !.left = PairsOf[Head(c.todo)]]]
  /\ UNCHANGED <<request, shares, disturbed, troubles>>

-----------------------------------------------------------------------------
(* Creating shares, saving the request                                     *)

\* Mutant: the request keeps the id of its last share only.
CreateLastShare(i) ==
  LET c == call[i]  s == <<i, Head(c.todo), Head(c.left)>>  rest == Tail(c.left) IN
  /\ c.step = "make"
  /\ share' = [share EXCEPT ![s] = NewRow]
  /\ call' = [call EXCEPT ![i] =
       [c EXCEPT !.step = IF rest = <<>> THEN "save" ELSE "make",
                 !.left = rest, !.made = {s}]]
  /\ UNCHANGED <<request, served, revoked, stale, disturbed, troubles>>

CreatePublicShare(i) ==
  LET c == call[i]  s == <<i, Head(c.todo), Head(c.left)>>  rest == Tail(c.left) IN
  /\ c.step = "make"
  /\ share' = [share EXCEPT ![s] = NewRow]
  /\ call' = [call EXCEPT ![i] =
       [c EXCEPT !.step = IF rest = <<>> THEN "save" ELSE "make",
                 !.left = rest, !.made = @ \cup {s}]]
  /\ UNCHANGED <<request, served, revoked, stale, disturbed, troubles>>

SaveRequest(i) ==
  LET c == call[i]  rest == Tail(c.todo) IN
  /\ c.step = "save"
  /\ request' = [request EXCEPT ![Head(c.todo)] =
                   [status |-> c.decision, shares |-> c.made]]
  /\ call' = [call EXCEPT ![i] =
       IF rest = <<>> THEN Ended
       ELSE [c EXCEPT !.step = IF c.decision = "APPROVED" THEN "shares" ELSE "save",
                      !.todo = rest, !.left = PairsOf[Head(rest)], !.made = {}]]
  /\ UNCHANGED <<shares, disturbed, troubles>>

-----------------------------------------------------------------------------
(* The life of a share: revoke, block, unblock, access                     *)

\* Read the row.  An access is refused when the share is blocked, revoked or at
\* its limit; the file is then opened and the count saved from the same copy.
ReadShare(i, s, change) ==
  /\ Begins(i)
  /\ share[s].exists
  /\ change = "count" => Active(s) /\ share[s].count < MaxDownloads
  /\ call' = [call EXCEPT ![i] =
       [Idle EXCEPT !.step = "row", !.share = {s}, !.seen = share[s], !.change = change]]
  /\ UNCHANGED <<request, shares, disturbed, troubles>>

\* Mutant: the access is not counted.
ChangedUncounted(row, change) ==
  CASE change = "block"   -> [row EXCEPT !.blocked = TRUE]
    [] change = "unblock" -> [row EXCEPT !.blocked = FALSE]
    [] change = "revoke"  -> [row EXCEPT !.revoked = TRUE]
    [] change = "count"   -> row

Changed(row, change) ==
  CASE change = "block"   -> [row EXCEPT !.blocked = TRUE]
    [] change = "unblock" -> [row EXCEPT !.blocked = FALSE]
    [] change = "revoke"  -> [row EXCEPT !.revoked = TRUE]
    [] change = "count"   -> [row EXCEPT !.count = @ + 1]

\* A share that becomes active again disturbs its pair.
Reactivates(s) == ~Active(s) /\ Active(s)'

SaveShare(i) ==
  LET c == call[i] IN
  \E s \in c.share :
    /\ c.step = "row"
    /\ share' = [share EXCEPT ![s] = Changed(c.seen, c.change)]
    /\ stale' = IF share[s] = c.seen THEN stale ELSE stale \cup {s}
    /\ served' = [served EXCEPT ![s] = IF c.change = "count" THEN @ + 1 ELSE @]
    /\ revoked' = IF c.change = "revoke" THEN revoked \cup {s} ELSE revoked
    /\ disturbed' = IF Reactivates(s) THEN disturbed \cup {s[3]} ELSE disturbed
    /\ End(i)
    /\ UNCHANGED <<request, troubles>>

\* All shares of a file or of a person, in one UPDATE.
BlockAll(i, ps, blocked) ==
  /\ Begins(i)
  /\ share' = [s \in Shares |-> IF share[s].exists /\ s[3] \in ps
                                THEN [share[s] EXCEPT !.blocked = blocked]
                                ELSE share[s]]
  /\ disturbed' = disturbed \cup {p \in Pairs : \E s \in Shares : s[3] = p /\ Reactivates(s)}
  /\ End(i)
  /\ UNCHANGED <<request, served, revoked, stale, troubles>>

-----------------------------------------------------------------------------
(* Failures                                                                *)

HalfDone(i) ==
  IF UnderWay(i) /\ call[i].made # {} THEN ToSet(PairsOf[Head(call[i].todo)]) ELSE {}

\* The database refuses a save, the file cannot be opened: what was saved stays.
Fail(i) ==
  /\ call[i].step \in {"make", "save", "row"}
  /\ troubles < MaxTroubles /\ troubles' = troubles + 1
  /\ disturbed' = disturbed \cup HalfDone(i)
  /\ End(i)
  /\ UNCHANGED <<request, shares>>

Crash ==
  /\ troubles < MaxTroubles /\ troubles' = troubles + 1
  /\ \E i \in Calls : UnderWay(i)
  /\ disturbed' = disturbed \cup UNION {HalfDone(i) : i \in Calls}
  /\ call' = [i \in Calls |-> IF UnderWay(i) THEN Ended ELSE call[i]]
  /\ UNCHANGED <<request, shares>>

-----------------------------------------------------------------------------

Command(i) ==
  \/ \E r \in Requests : Create(i, r) \/ Approve(i, r) \/ RejectOrCancel(i, r)
  \/ \E rs \in (SUBSET Requests) \ {{}} : \E todo \in SetToSeqs(rs) : Bulk(i, todo)
  \/ \E s \in Shares, change \in Changes \ {"none"} : ReadShare(i, s, change)
  \/ \E ps \in SUBSET Pairs, blocked \in BOOLEAN : BlockAll(i, ps, blocked)

Next ==
  \/ \E i \in Calls :
       \/ Command(i)
       \/ CheckShares(i) \/ CheckPending(i)
       \/ CreatePublicShare(i) \/ SaveRequest(i) \/ SaveShare(i)
       \/ Fail(i)
  \/ Crash

Spec == Init /\ [][Next]_vars

-----------------------------------------------------------------------------
(* Properties                                                              *)

\* A request that says APPROVED lists one existing share for each of its pairs,
\* whatever was decided at the same time, failed or crashed.
ApprovedHasItsShares ==
  \A r \in Requests : request[r].status = "APPROVED" =>
    /\ \A p \in ToSet(PairsOf[r]) : \E s \in request[r].shares : s[3] = p
    /\ \A s \in request[r].shares : share[s].exists /\ s[2] = r
    /\ \A s, t \in request[r].shares : s[3] = t[3] => s = t

\* A pair has two active shares, or one that no approved request lists, only if
\* two commands handled it at once, one stopped half way, or an inactive share
\* became active again.
OneActiveShare ==
  \A p \in Pairs \ disturbed :
    /\ Cardinality(ActiveShares(p)) <= 1
    /\ \A s \in ActiveShares(p) :
         \/ \E r \in Requests : request[r].status = "APPROVED" /\ s \in request[r].shares
         \/ \E i \in Calls : s \in call[i].made

\* A share serves more downloads than its limit, counts fewer than it served, or
\* forgets that it was revoked, only if a row was saved over a newer one.
FreshRowIsRight ==
  \A s \in Shares \ stale :
    /\ share[s].count = served[s] /\ served[s] <= MaxDownloads
    /\ s \in revoked => share[s].revoked
=============================================================================
