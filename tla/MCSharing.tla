----------------------------- MODULE MCSharing -----------------------------
(* Two requests that share one pair of a file and a person. *)
EXTENDS Sharing
CONSTANTS p1, p2, r1, r2
TwoPairs == {p1, p2}
TwoRequests == {r1, r2}
Overlapping == (r1 :> <<p1, p2>>) @@ (r2 :> <<p1>>)
=============================================================================
