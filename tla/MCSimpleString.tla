--------------------------- MODULE MCSimpleString ---------------------------
(* Strings of an x and a blank, a small buffer of two bytes.                 *)
EXTENDS SimpleString, TLC

CONSTANTS x, blank

Letters == {x, blank}
Texts == {<<x>>, <<blank, x, blank>>}
Lengths == {0, 3}
Interchangeable == Permutations(Objects)
Indexes == {-1, 1, 2}
=============================================================================
