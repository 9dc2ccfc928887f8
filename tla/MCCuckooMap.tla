---------------------------- MODULE MCCuckooMap ----------------------------
(***************************************************************************)
(* Instances of CuckooMap.  Keys are hash values; with hashpower 2 their   *)
(* buckets (first/second) are                                              *)
(*    0: 0/1   1: 1/0   2: 2/3   3: 3/2   4: 0/2   5: 1/3   6: 2/0         *)
(*    7: 3/1   8: 0/3   9: 1/2  10: 2/1                                    *)
(* and with hashpower 1  0: 0/1  1: 1/0  2: 0/0  3: 1/1  4: 0/1  5: 1/0.   *)
(***************************************************************************)
EXTENDS CuckooMap

CONSTANTS t1, t2, t3, v1, v2

H == INSTANCE HashIndex

\* The hash functions as tables, so that TLC evaluates each index once.
FirstOf == [hp \in Powers |-> [k \in Keys |-> H!index_hash(hp, k)]]
AltOf == [hp \in Powers |-> [k \in Keys |-> [b \in Buckets(hp) |-> H!alt_index(hp, k, b)]]]

MCIndexHash(hp, k) == FirstOf[hp][k]
MCAltIndex(hp, k, b) == AltOf[hp][k][b]
MCPartialKey(k) == H!partial_key(4, k)
MCFn(v) == IF v = v1 THEN v2 ELSE v1

TwoThreads == {t1, t2}
ThreeThreads == {t1, t2, t3}
TwoVals == {v1, v2}

At(k, b, s) == [key |-> k, val |-> v1, b |-> b, s |-> s]
C(op, k, v) == [op |-> op, key |-> k, val |-> v, n |-> 0]
Rehash(n) == [op |-> "rehash", key |-> 0, val |-> v1, n |-> n]

\* Hashpower 2, first layout: buckets 0, 1 and 3 are full and bucket 2 has
\* one free slot, so an insert of 0 or 1 moves key 4 or 9 there.  Second: a
\* path of two moves is needed to make room for key 0 or 1.
MoveKeys == {0, 1, 2, 3, 4, 5, 6, 7, 8, 9, 10}
MoveLayouts ==
    {{At(4, 0, 0), At(8, 0, 1), At(5, 1, 0), At(9, 1, 1), At(6, 2, 1), At(7, 3, 0),
      At(3, 3, 1)},
     {At(4, 0, 0), At(6, 0, 1), At(9, 1, 0), At(10, 1, 1), At(2, 2, 0), At(3, 2, 1),
      At(7, 3, 1)}}
MoveRequests(t) ==
    IF t = t1 THEN {C("insert", 0, v1), C("upsert", 0, v1), C("erase", 4, v1)}
    ELSE {C("insert", 0, v2), C("insert", 1, v2), C("erase", 2, v1),
          C("find", 4, v1), C("update", 9, v2), C("update_fn", 4, v1)}

\* Hashpower 1: the table is full, so every insert has to expand it.
FullKeys == {0, 1, 2, 3, 4, 5}
FullLayouts == {{At(0, 0, 0), At(2, 0, 1), At(4, 1, 0), At(3, 1, 1)}}
FullRequests(t) ==
    CASE t = t1 -> {C("insert", 1, v1), C("upsert", 1, v1)}
      [] t = t2 -> {C("insert", 5, v2), C("insert", 1, v2), C("erase", 4, v1), C("clear", 0, v1)}
      [] t = t3 -> {C("find", 4, v1), Rehash(2)}
=============================================================================
