------------------------------ MODULE JobQueue ------------------------------
(***************************************************************************)
(* What a job queue promises the code that calls addJob (IJobQueuePort):   *)
(* an accepted job stays pending, and is handed to the processor again and *)
(* again, until the processor has returned or has thrown more than         *)
(* maxAttempts times; then it is over for good.  The processor may be      *)
(* called again for a job it already returned for (at-least-once).         *)
(*                                                                         *)
(* LocalFileQueue implements it, and so do SyncOutbox and NasFileSync, in  *)
(* which the queue is no more than a state per job.                        *)
(***************************************************************************)
EXTENDS Naturals

CONSTANTS
  Jobs,        \* job identities
  MaxAttempts  \* attempts a failed job is retried

VARIABLES
  state,  \* "new", "pending", "done" or "dead"
  ok,     \* jobs the processor has returned for
  errs    \* errors the processor has thrown, counted up to MaxAttempts + 1

vars == <<state, ok, errs>>

Init ==
  /\ state = [j \in Jobs |-> "new"]
  /\ ok = {}
  /\ errs = [j \in Jobs |-> 0]

Add(j) ==
  /\ state[j] = "new"
  /\ state' = [state EXCEPT ![j] = "pending"]
  /\ UNCHANGED <<ok, errs>>

Return(j) ==
  /\ state[j] = "pending"
  /\ ok' = ok \cup {j}
  /\ UNCHANGED <<state, errs>>

Throw(j) ==
  /\ state[j] = "pending"
  /\ errs' = [errs EXCEPT ![j] = IF @ <= MaxAttempts THEN @ + 1 ELSE @]
  /\ UNCHANGED <<state, ok>>

(* Jobs leave the queue; a crash can end several at once. *)
Settle(S) ==
  /\ \A j \in S : state[j] = "pending" /\ (j \in ok \/ errs[j] > MaxAttempts)
  /\ state' = [j \in Jobs |-> IF j \notin S THEN state[j]
                              ELSE IF j \in ok THEN "done" ELSE "dead"]
  /\ UNCHANGED <<ok, errs>>

(* Answer and end of a job seen as one step: Return(j) and Settle({j}), or  *)
(* the last Throw(j) and Settle({j}).                                       *)
Complete(j) ==
  /\ state[j] = "pending"
  /\ ok' = ok \cup {j}
  /\ state' = [state EXCEPT ![j] = "done"]
  /\ UNCHANGED errs

GiveUp(j) ==
  /\ state[j] = "pending" /\ j \notin ok /\ errs[j] >= MaxAttempts
  /\ errs' = [errs EXCEPT ![j] = MaxAttempts + 1]
  /\ state' = [state EXCEPT ![j] = "dead"]
  /\ UNCHANGED ok

Next ==
  \/ \E j \in Jobs : Add(j) \/ Return(j) \/ Throw(j) \/ Complete(j) \/ GiveUp(j)
  \/ \E S \in SUBSET Jobs : Settle(S)

Spec == Init /\ [][Next]_vars
=============================================================================
