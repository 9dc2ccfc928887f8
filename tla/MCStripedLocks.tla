--------------------------- MODULE MCStripedLocks ---------------------------
(* A small instance of StripedLocks: four locks, and buckets of which some  *)
(* share a lock (4 aliases 0).                                              *)
EXTENDS StripedLocks

CONSTANTS t1, t2

TwoThreads == {t1, t2}

AliasedBuckets == {0, 1, 2, 4}
=============================================================================
