----------------------- MODULE MCFileActionRequests -----------------------
(* Two requests about one file that begins in folder a. *)
EXTENDS FileActionRequests
CONSTANTS r1, r2, a, b
TwoRequests == {r1, r2}
TwoFolders == {a, b}
=============================================================================
