-------------------------- MODULE MCCuckooIterator --------------------------
(* Tables of one to three buckets of two slots: empty, full, and with gaps  *)
(* at the beginning, in the middle and at the end.                          *)
EXTENDS CuckooIterator

CONSTANTS m1, m2, i1, i2, x, y

TwoMaps == {m1, m2}
TwoIterators == {i1, i2}
TwoItems == {x, y}

B(a, b) == [s \in {0, 1} |-> IF s = 0 THEN a ELSE b]
T1(a) == [n \in {0} |-> a]
T2(a, b) == [n \in {0, 1} |-> IF n = 0 THEN a ELSE b]
T3(a, b, c) == [n \in {0, 1, 2} |-> IF n = 0 THEN a ELSE IF n = 1 THEN b ELSE c]

Layouts == {T1(B(Empty, Empty)), T1(B(x, y)), T2(B(Empty, Empty), B(Empty, x)),
            T2(B(y, Empty), B(x, Empty)), T3(B(Empty, x), B(Empty, Empty), B(y, x))}
=============================================================================
