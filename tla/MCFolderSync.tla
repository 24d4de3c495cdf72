---------------------------- MODULE MCFolderSync ----------------------------
(* Small trees for FolderSync. *)
EXTENDS FolderSync
CONSTANTS fa, fb, fc, fd
\* /a, /b and /a/c; fd is yet to be created.
Nested == [f \in {fa, fb, fc, fd} |->
  CASE f = fa -> [parent |-> Root, name |-> <<"a">>]
    [] f = fb -> [parent |-> Root, name |-> <<"b">>]
    [] f = fc -> [parent |-> fa, name |-> <<"c">>]
    [] f = fd -> NoKey]
\* /a and /ab.
Letters == [f \in {fa, fb} |->
  [parent |-> Root, name |-> IF f = fa THEN <<"a">> ELSE <<"a", "b">>]]
Fresh == {<<"x">>}
\* The second begins with the name of fa.
Longer == {<<"x">>, <<"a", "b">>}
=============================================================================
