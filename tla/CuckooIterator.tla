--------------------------- MODULE CuckooIterator ---------------------------
(***************************************************************************)
(* The iterators of cuckoohash_map.hh.  An iterator holds all the locks of *)
(* its map from its construction until it is released, destroyed or moved  *)
(* from.  A move copies the whole object by memcpy, the reference to the   *)
(* map included, and clears has_table_lock of the source.                  *)
(*                                                                         *)
(* All locks of a map are taken here in one step (StripedLocks), and while *)
(* they are free the operations of CuckooMap may change the table in any   *)
(* way.  Calls that throw change nothing and are left out.                 *)
(***************************************************************************)
EXTENDS Integers, FiniteSets, Sequences

CONSTANTS
    Maps,           \* the maps
    Iterators,      \* the places for iterator objects
    Items,          \* what a slot may hold
    Empty,          \* the slot is not occupied
    Tables,         \* tables: functions from buckets to functions from slots
    SlotPerBucket,  \* SLOT_PER_BUCKET
    None            \* no object; not inside snapshot_table

BucketCount(t) == Cardinality(DOMAIN t)

Slots == 0 .. (SlotPerBucket - 1)

IsTable(t) ==
    /\ IsFiniteSet(DOMAIN t) /\ DOMAIN t # {}
    /\ t \in [0 .. (BucketCount(t) - 1) -> [Slots -> Items \cup {Empty}]]

\* The fields of an iterator.
Objects ==
    [map : Maps, has_table_lock : BOOLEAN,
     pos : Nat \X Nat, begin_pos : Nat \X Nat, end_pos : Nat \X Nat]

ASSUME TablesAssumption ==
    /\ SlotPerBucket \in Nat \ {0}
    /\ \A t \in Tables : IsTable(t)
    /\ Empty \notin Items

ASSUME NoneAssumption == None \notin Objects /\ None \notin Seq(Items)

VARIABLES
    table,     \* table[m]: the buckets of map m
    locked,    \* locked[m]: all the locks of m are taken
    its,       \* its[i]: [map, has_table_lock, pos, begin_pos, end_pos], or None
    items,     \* items[i]: what snapshot_table, whose iterator i is, has collected
    leaked     \* the maps whose locks an assignment has left behind

vars == <<table, locked, its, items, leaked>>
-----------------------------------------------------------------------------
Occupied(t, p) == t[p[1]][p[2]] # Empty

\* set_end: one past the last position.
EndOf(t) == <<BucketCount(t), 0>>

Positions(t) == (DOMAIN t) \X Slots

\* mutant: the last slot of each bucket is passed over
ForwardShort(t, p) ==
    IF p[2] < SlotPerBucket - 2 THEN <<p[1], p[2] + 1>>
    ELSE IF p[1] < BucketCount(t) - 1 THEN <<p[1] + 1, 0>>
    ELSE EndOf(t)

\* forward_slot
ForwardSlot(t, p) ==
    IF p[2] < SlotPerBucket - 1 THEN <<p[1], p[2] + 1>>
    ELSE IF p[1] < BucketCount(t) - 1 THEN <<p[1] + 1, 0>>
    ELSE EndOf(t)

\* mutant: the loop over slots that are not occupied is missing
ForwardOne(t, p) == ForwardSlot(t, p)

\* forward_filled_slot
ForwardFilled(t, p) ==
    LET from[q \in Positions(t)] ==
            LET next == ForwardSlot(t, q)
            IN IF next = EndOf(t) \/ Occupied(t, next) THEN next ELSE from[next]
    IN from[p]

\* set_begin: the first filled slot, or the end if there is none.
BeginOf(t) ==
    IF \A p \in Positions(t) : ~Occupied(t, p) THEN EndOf(t)
    ELSE IF Occupied(t, <<0, 0>>) THEN <<0, 0>>
    ELSE ForwardFilled(t, <<0, 0>>)

\* mutant: the previous bucket is entered at its first slot
BackwardToFirst(t, p) ==
    IF p[2] > 0 THEN <<p[1], p[2] - 1>>
    ELSE IF p[1] > 0 THEN <<p[1] - 1, 0>>
    ELSE BeginOf(t)

\* backward_slot; at the first slot it goes to the beginning and fails.
BackwardSlot(t, p) ==
    IF p[2] > 0 THEN <<p[1], p[2] - 1>>
    ELSE IF p[1] > 0 THEN <<p[1] - 1, SlotPerBucket - 1>>
    ELSE BeginOf(t)

\* backward_filled_slot
BackwardFilled(t, p) ==
    LET from[q \in Positions(t) \cup {EndOf(t)}] ==
            LET next == BackwardSlot(t, q)
            IN IF q = <<0, 0>> \/ Occupied(t, next) THEN next ELSE from[next]
    IN from[p]
-----------------------------------------------------------------------------
Init ==
    /\ table \in [Maps -> Tables]
    /\ locked = [m \in Maps |-> FALSE]
    /\ its = [i \in Iterators |-> None]
    /\ items = [i \in Iterators |-> None]
    /\ leaked = {}

\* Any operation of another thread, or several of them.
Change(m) ==
    /\ ~locked[m]
    /\ \E t \in Tables : table' = [table EXCEPT ![m] = t]
    /\ UNCHANGED <<locked, its, items, leaked>>

\* A new iterator of m at its end or its beginning.
NewIterator(m, is_end) ==
    [map |-> m, has_table_lock |-> TRUE,
     pos |-> IF is_end THEN EndOf(table[m]) ELSE BeginOf(table[m]),
     begin_pos |-> BeginOf(table[m]), end_pos |-> EndOf(table[m])]

\* cbegin, cend, begin, end
Construct(i, m) ==
    /\ its[i] = None
    /\ ~locked[m]
    /\ \E is_end \in BOOLEAN : its' = [its EXCEPT ![i] = NewIterator(m, is_end)]
    /\ locked' = [locked EXCEPT ![m] = TRUE]
    /\ UNCHANGED <<table, items, leaked>>

\* The user has iterator i in hand: it is not the one inside snapshot_table.
Users(i) == its[i] # None /\ items[i] = None

\* mutant: the source of a move believes to have the locks still
StillLocked(it) == it

MovedFrom(it) == [it EXCEPT !.has_table_lock = FALSE]

\* The constructors from an rvalue reference.
MoveConstruct(i, j) ==
    /\ its[i] = None /\ Users(j)
    /\ its' = [its EXCEPT ![i] = its[j], ![j] = MovedFrom(its[j])]
    /\ UNCHANGED <<table, locked, items, leaked>>

\* operator=: what i was is forgotten, locks that it held included.
MoveAssign(i, j) ==
    /\ i # j /\ Users(i) /\ Users(j)
    /\ its' = [its EXCEPT ![i] = its[j], ![j] = MovedFrom(its[j])]
    /\ leaked' = leaked \cup (IF its[i].has_table_lock THEN {its[i].map} ELSE {})
    /\ UNCHANGED <<table, locked, items>>

\* The AllUnlocker of release.
Released(i) == [locked EXCEPT ![its[i].map] = @ /\ ~its[i].has_table_lock]

Release(i) ==
    /\ Users(i)
    /\ locked' = Released(i)
    /\ its' = [its EXCEPT ![i].has_table_lock = FALSE]
    /\ UNCHANGED <<table, items, leaked>>

Destroy(i) ==
    /\ Users(i)
    /\ locked' = Released(i)
    /\ its' = [its EXCEPT ![i] = None]
    /\ UNCHANGED <<table, items, leaked>>

IsEnd(it) == it.pos = it.end_pos
IsBegin(it) == it.pos = it.begin_pos

\* operator++, prefix and postfix; it throws without the locks or at the end.
Increment(i) ==
    /\ Users(i) /\ its[i].has_table_lock
    /\ ~IsEnd(its[i])
    /\ its' = [its EXCEPT ![i].pos = ForwardFilled(table[its[i].map], @)]
    /\ UNCHANGED <<table, locked, items, leaked>>

Decrement(i) ==
    /\ Users(i) /\ its[i].has_table_lock
    /\ ~IsBegin(its[i])
    /\ its' = [its EXCEPT ![i].pos = BackwardFilled(table[its[i].map], @)]
    /\ UNCHANGED <<table, locked, items, leaked>>

SetValue(i) ==
    /\ Users(i) /\ its[i].has_table_lock
    /\ ~IsEnd(its[i])
    /\ \E v \in Items :
          table' = [table EXCEPT ![its[i].map][its[i].pos[1]][its[i].pos[2]] = v]
    /\ UNCHANGED <<locked, its, items, leaked>>

\* operator*
Dereference(it) == table[it.map][it.pos[1]][it.pos[2]]

\* snapshot_table: its iterator, a round of its loop, its return.
SnapshotBegin(i, m) ==
    /\ its[i] = None
    /\ ~locked[m]
    /\ its' = [its EXCEPT ![i] = NewIterator(m, FALSE)]
    /\ locked' = [locked EXCEPT ![m] = TRUE]
    /\ items' = [items EXCEPT ![i] = <<>>]
    /\ UNCHANGED <<table, leaked>>

SnapshotNext(i) ==
    /\ items[i] # None
    /\ ~IsEnd(its[i])
    /\ items' = [items EXCEPT ![i] = Append(@, Dereference(its[i]))]
    /\ its' = [its EXCEPT ![i].pos = ForwardFilled(table[its[i].map], @)]
    /\ UNCHANGED <<table, locked, leaked>>

SnapshotEnd(i) ==
    /\ items[i] # None
    /\ IsEnd(its[i])
    /\ locked' = Released(i)
    /\ its' = [its EXCEPT ![i] = None]
    /\ items' = [items EXCEPT ![i] = None]
    /\ UNCHANGED <<table, leaked>>

Next ==
    \/ \E m \in Maps : Change(m)
    \/ \E i \in Iterators, m \in Maps : Construct(i, m) \/ SnapshotBegin(i, m)
    \/ \E i, j \in Iterators : MoveConstruct(i, j) \/ MoveAssign(i, j)
    \/ \E i \in Iterators :
          \/ Increment(i) \/ Decrement(i) \/ SetValue(i)
          \/ Release(i) \/ Destroy(i)
          \/ SnapshotNext(i) \/ SnapshotEnd(i)

Spec == Init /\ [][Next]_vars
-----------------------------------------------------------------------------
Holders(m) == {i \in Iterators : its[i] # None /\ its[i].map = m /\ its[i].has_table_lock}

(***************************************************************************)
(* However iterators are moved about, the locks of a map are taken exactly *)
(* while one iterator holds them, and the only other case is an assignment *)
(* to an iterator that held them: those are never given back.              *)
(***************************************************************************)
HeldOnce ==
    \A m \in Maps :
        /\ Cardinality(Holders(m)) = (IF locked[m] /\ m \notin leaked THEN 1 ELSE 0)
        /\ m \in leaked => locked[m]

(***************************************************************************)
(* "the iterator is either an end iterator (which points past the end of   *)
(* the table), or points to a filled slot": of the table as it is now, for *)
(* as long as the iterator has the locks.                                  *)
(***************************************************************************)
FilledOrEnd ==
    \A m \in Maps : \A i \in Holders(m) :
        /\ its[i].end_pos = EndOf(table[m])
        /\ IsEnd(its[i]) \/ Occupied(table[m], its[i].pos)

Before(p, q) == p[1] < q[1] \/ (p[1] = q[1] /\ p[2] < q[2])

\* The filled slots of a table from the first one on, up to position p.
Passed(t, p) == {q \in Positions(t) : Occupied(t, q) /\ Before(q, p)}

(***************************************************************************)
(* A movement of an iterator, in either direction, never passes over a     *)
(* filled slot and never stands still.                                     *)
(***************************************************************************)
MovesToNeighbour ==
    [][\A i \in Iterators :
          (Increment(i) \/ Decrement(i)) =>
              Cardinality({p \in Positions(table[its[i].map]) :
                              /\ Occupied(table[its[i].map], p)
                              /\ \/ ~Before(p, its[i].pos) /\ Before(p, its'[i].pos)
                                 \/ ~Before(p, its'[i].pos) /\ Before(p, its[i].pos)}) = 1]_vars

(***************************************************************************)
(* While snapshot_table runs it has collected exactly the contents of the  *)
(* filled slots it has passed, in order, as the table has them now: what   *)
(* it returns is the whole contents of the map at one instant.             *)
(***************************************************************************)
SnapshotExact ==
    \A i \in Iterators : items[i] # None =>
        LET t == table[its[i].map]
            passed == Passed(t, its[i].pos)
        IN /\ Len(items[i]) = Cardinality(passed)
           /\ \A q \in passed :
                 items[i][Cardinality(Passed(t, q)) + 1] = t[q[1]][q[2]]
=============================================================================
