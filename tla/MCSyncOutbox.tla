---------------------------- MODULE MCSyncOutbox ----------------------------
(* Instances of SyncOutbox for TLC.  A job identity is a number; its event  *)
(* is fixed by JobEvent.                                                    *)
EXTENDS SyncOutbox

CONSTANTS e1, f1

(* One operation whose job may be duplicated by the recovery cron. *)
OneEvent == {e1}
OneFile == {f1}
OneEventFile == [e \in {e1} |-> f1]
TwoJobs == 1..2
TwoJobsOfOne == [j \in 1..2 |-> e1]
=============================================================================
