-------------------------- MODULE DistributedLock --------------------------
(***************************************************************************)
(* The lock the workers take around a job (IDistributedLockPort), one key, *)
(* in both implementations: InMemoryLockAdapter and RedisLockAdapter run   *)
(* the same protocol.  A call of withLock writes a value of its own with a *)
(* time to live if the key is absent, polls until its wait timeout, renews *)
(* the lease on an interval while its function runs, and deletes the key   *)
(* when the function ends; renewing and deleting check the value first.    *)
(*                                                                         *)
(* Each element of Calls is one call of withLock and stands for its value. *)
(* Time is counted in ticks and every clock is a countdown or a stopwatch. *)
(* The protocol is only as good as its timing: a call whose timers come    *)
(* later than Lag, or whose work outlasts a lease nobody renews, is late.  *)
(***************************************************************************)
EXTENDS Integers

CONSTANTS Calls,        \* the calls of withLock for one key
          Renewing,     \* those made with autoRenew
          TTL,          \* options.ttl
          WaitTimeout,  \* options.waitTimeout
          RenewEvery,   \* options.renewIntervalMs
          Lag,          \* how much later than due a timer fires in a call that is not late
          None          \* the key is absent

ASSUME LockAssumption ==
  /\ Renewing \subseteq Calls
  /\ None \notin Calls
  /\ TTL \in Nat /\ WaitTimeout \in Nat /\ RenewEvery \in Nat /\ Lag \in Nat
  /\ RenewEvery + Lag < TTL
  /\ TTL > 0

VARIABLES owner,   \* the value stored under the key, or None
          left,    \* what is left of its time to live
          pc,      \* where each call is
          timer,   \* time since it asked, or since its lease or renewal interval began
          late     \* the calls at work that have missed a deadline

lockVars == <<owner, left, pc, timer, late>>

Working(p) == pc[p] = "work"

Free == owner = None \/ left = 0

LockInit ==
  /\ owner = None /\ left = 0
  /\ pc = [p \in Calls |-> "new"]
  /\ timer = [p \in Calls |-> 0]
  /\ late = {}

\* A call is over: its timers are cleared.
Leave(p, end) ==
  /\ pc' = [pc EXCEPT ![p] = end]
  /\ timer' = [timer EXCEPT ![p] = 0]
  /\ late' = late \ {p}

(***************************************************************************)
(* withLock                                                                *)
(***************************************************************************)

\* The call starts: acquire notes the time it began.
Ask(p) ==
  /\ pc[p] = "new"
  /\ pc' = [pc EXCEPT ![p] = "wait"]
  /\ UNCHANGED <<owner, left, timer, late>>

\* One round of the loop finds the key absent, or its entry expired, and
\* writes its value; the renewal timer starts and the function is called.
Acquire(p) ==
  /\ pc[p] = "wait" /\ Free
  /\ owner' = p /\ left' = TTL
  /\ pc' = [pc EXCEPT ![p] = "work"]
  /\ timer' = [timer EXCEPT ![p] = 0]
  /\ UNCHANGED late

\* One round of the loop finds the key taken and the time used up.
GiveUp(p) ==
  /\ pc[p] = "wait" /\ ~Free /\ timer[p] >= WaitTimeout
  /\ Leave(p, "refused")
  /\ UNCHANGED <<owner, left>>

\* A round that answers the caller; any other waits for the next.
Poll(p) == Acquire(p) \/ GiveUp(p)

\* The renewal timer fires: extend starts the lease anew if the value is still
\* this call's, and otherwise only says so; the function is not told.
Renew(p) ==
  /\ Working(p) /\ p \in Renewing /\ timer[p] >= RenewEvery
  /\ left' = IF owner = p THEN TTL ELSE left
  /\ timer' = [timer EXCEPT ![p] = 0]
  /\ UNCHANGED <<owner, pc, late>>

\* Mutant: the key is deleted without a look at the value.
FinishAnyway(p) ==
  /\ Working(p)
  /\ Leave(p, "done")
  /\ owner' = None /\ left' = 0

\* The function returns or throws: the timer is cleared, and the key is
\* deleted if the value is still this call's.
Finish(p) ==
  /\ Working(p)
  /\ Leave(p, "done")
  /\ owner' = IF owner = p THEN None ELSE owner
  /\ left' = IF owner = p THEN 0 ELSE left

(***************************************************************************)
(* Time and failures                                                       *)
(***************************************************************************)

\* The entry is dropped when its time has run out (setTimeout; Redis' PX).
Expire ==
  /\ owner # None /\ left = 0
  /\ owner' = None
  /\ UNCHANGED <<left, pc, timer, late>>

\* A timely call renews within Lag of the interval; without autoRenew it ends
\* before its lease does.
Deadline(p) == IF p \in Renewing THEN RenewEvery + Lag ELSE TTL - 1

Lowered(n) == IF n > 0 THEN n - 1 ELSE 0
Raised(n, max) == IF n < max THEN n + 1 ELSE n

\* Mutants: the value is stored without a time to live; acquire takes a new
\* start time in every round.
ElapseWithoutTTL ==
  /\ \A p \in Calls : Working(p) /\ p \notin late => timer[p] < Deadline(p)
  /\ timer' = [p \in Calls |-> CASE pc[p] = "wait" -> Raised(timer[p], WaitTimeout)
                                 [] Working(p) -> Raised(timer[p], TTL)
                                 [] OTHER -> timer[p]]
  /\ UNCHANGED <<owner, left, pc, late>>

ElapseWithoutWait ==
  /\ \A p \in Calls : Working(p) /\ p \notin late => timer[p] < Deadline(p)
  /\ left' = Lowered(left)
  /\ timer' = [p \in Calls |-> IF Working(p) THEN Raised(timer[p], TTL) ELSE timer[p]]
  /\ UNCHANGED <<owner, pc, late>>

\* Time passes, but not past the deadline of a call that is not late.  The
\* stopwatches stop where they no longer make a difference.
Elapse ==
  /\ \A p \in Calls : Working(p) /\ p \notin late => timer[p] < Deadline(p)
  /\ left' = Lowered(left)
  /\ timer' = [p \in Calls |-> CASE pc[p] = "wait" -> Raised(timer[p], WaitTimeout)
                                 [] Working(p) -> Raised(timer[p], TTL)
                                 [] OTHER -> timer[p]]
  /\ UNCHANGED <<owner, pc, late>>

\* A call misses its deadline: its event loop is blocked, or the copy it makes
\* takes longer than a lease that nobody renews.
Stall(p) ==
  /\ Working(p) /\ p \notin late
  /\ late' = late \cup {p}
  /\ UNCHANGED <<owner, left, pc, timer>>

\* The process of one call dies.  What it wrote to Redis stays there.
ProcessDies(p) ==
  /\ pc[p] \in {"wait", "work"}
  /\ Leave(p, "dead")
  /\ UNCHANGED <<owner, left>>

\* The only process dies, and the map of the in-memory adapter with it.
CrashAll ==
  /\ \E p \in Calls : pc[p] \in {"wait", "work"}
  /\ pc' = [p \in Calls |-> IF pc[p] \in {"wait", "work"} THEN "dead" ELSE pc[p]]
  /\ owner' = None /\ left' = 0
  /\ timer' = [p \in Calls |-> 0]
  /\ late' = {}

LockNext ==
  \/ \E p \in Calls : \/ Ask(p) \/ Poll(p) \/ Renew(p) \/ Finish(p)
                      \/ Stall(p) \/ ProcessDies(p)
  \/ Expire \/ Elapse \/ CrashAll

LockSpec == LockInit /\ [][LockNext]_lockVars

\* Time passes, timers fire and the loop polls.  The function of a renewing
\* call need not return (a NAS operation may hang); one without autoRenew does.
FairLockSpec ==
  /\ LockSpec
  /\ WF_lockVars(Elapse) /\ WF_lockVars(Expire)
  /\ \A p \in Calls : WF_lockVars(Poll(p)) /\ WF_lockVars(Renew(p))
  /\ \A p \in Calls \ Renewing : WF_lockVars(Finish(p))

(***************************************************************************)
(* Properties                                                              *)
(***************************************************************************)

LockTypeOK ==
  /\ owner \in Calls \cup {None} /\ left \in 0 .. TTL
  /\ pc \in [Calls -> {"new", "wait", "work", "done", "refused", "dead"}]
  /\ timer \in [Calls -> 0 .. (TTL + WaitTimeout)]
  /\ late \subseteq Calls

\* Two functions run at once only when one of their calls was late: neither the
\* death of a holder, nor the late end or the late renewal of a call that lost
\* its lease, ever lets two timely calls in.
MutualExclusion ==
  \A p, q \in Calls : Working(p) /\ Working(q) /\ p # q => p \in late \/ q \in late

\* A call whose function runs on time is the one whose value is stored: a late
\* call never deletes or takes over the lease of another.
TimelyCallHoldsLock ==
  \A p \in Calls : Working(p) /\ p \notin late => owner = p /\ left > 0

\* Every caller gets an answer, even behind a function that never returns and
\* renews its lease for ever.
EveryCallAnswered == \A p \in Calls : pc[p] = "wait" ~> pc[p] # "wait"

\* The lock of a dead process comes back by itself.
LockComesBack == \A p \in Calls : pc[p] = "dead" ~> owner # p
=============================================================================
