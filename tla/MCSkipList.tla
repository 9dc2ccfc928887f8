----------------------------- MODULE MCSkipList -----------------------------
(* Four keys around the tail's, and nodes of up to three levels.            *)
EXTENDS SkipList

CONSTANTS v1, v2

FourKeys == {1, 2, 4, 5}
TwoVals == {v1, v2}
OneVal == {v1}
=============================================================================
