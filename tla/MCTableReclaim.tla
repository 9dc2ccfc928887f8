--------------------------- MODULE MCTableReclaim ---------------------------
(* Instances of TableReclaim. *)
EXTENDS TableReclaim

CONSTANTS t1, t2, a1, a2, a3

TwoThreads == {t1, t2}
ThreeAddrs == {a1, a2, a3}
TwoLocks == {0, 1}
OneLock == {0}
BothOrders == BOOLEAN
InOrder == {FALSE}

\* Everything two threads can do to each other in one call each.
AllRequests(t) == Ops
=============================================================================
