-------------------------- MODULE MCLocalFileQueue --------------------------
(* Instances of LocalFileQueue for TLC. *)
EXTENDS LocalFileQueue, TLC

CONSTANTS p1, p2

TwoJobs == 1..2
OneJob == 1..1
NoJob == {}
SecondJob == {2}
TwoPolls == {p1, p2}
PollSymmetry == Permutations({p1, p2})
=============================================================================
