--------------------------- MODULE CuckooMapProofs ---------------------------
(***************************************************************************)
(* Proofs about CuckooMap, for any threads, keys, values, calls, hash      *)
(* functions that satisfy HashAssumption, sizes and bounds:                *)
(*   - the operators: what writing, adding, removing, updating and moving  *)
(*     an entry does to a table, what a search of two buckets finds, what  *)
(*     a rebuilt table holds;                                              *)
(*   - IInv, the inductive invariant, action by action: what a step does   *)
(*     to its own thread (After), to the tables (TablesStep) and to the    *)
(*     other threads (OthersStep);                                         *)
(*   - the safety invariants and GrowsOnly, from IInv;                     *)
(*   - the queue of the search, level by level (InRound);                  *)
(*   - linearizability: every step is a step of AtomicMap or silent.       *)
(***************************************************************************)
EXTENDS CuckooMap, FiniteSetTheorems, FunctionTheorems, WellFoundedInduction, TLAPS

\* What is true of every table, current or replaced: entries are in their
\* own buckets, no key is there twice, and the counters agree.
InOwn(hp, tab) ==
    \A b \in Buckets(hp), s \in Slots : tab.bucket[b][s] # Empty =>
        /\ b \in {First(hp, tab.bucket[b][s].key), Second(hp, tab.bucket[b][s].key)}
        /\ tab.bucket[b][s].partial = PartialKey(tab.bucket[b][s].key)

Once(hp, tab) ==
    \A b1, b2 \in Buckets(hp), s1, s2 \in Slots :
        /\ tab.bucket[b1][s1] # Empty /\ tab.bucket[b2][s2] # Empty
        /\ tab.bucket[b1][s1].key = tab.bucket[b2][s2].key
        => b1 = b2 /\ s1 = s2

EntriesOf(hp, tab) == {tab.bucket[b][s] : b \in Buckets(hp), s \in Slots} \ {Empty}

Counted(hp, tab) ==
    /\ IsFiniteSet(EntriesOf(hp, tab))
    /\ tab.inserts - tab.deletes = Cardinality(EntriesOf(hp, tab))

Sound(hp, tab) == tab \in Table(hp) /\ InOwn(hp, tab) /\ Once(hp, tab) /\ Counted(hp, tab)
-----------------------------------------------------------------------------
LEMMA PowerTypes ==
    /\ Powers \subseteq Nat /\ InitPower \in Powers
    /\ \A hp \in Powers : hp \in Int /\ hp >= InitPower /\ hp <= MaxPower
    /\ \A hp \in Int : hp >= InitPower /\ hp <= MaxPower => hp \in Powers
BY SizeAssumption DEF Powers

LEMMA HashTypes ==
    ASSUME NEW hp \in Powers, NEW k \in Keys
    PROVE  /\ First(hp, k) \in Buckets(hp) /\ Second(hp, k) \in Buckets(hp)
           /\ \A b \in {First(hp, k), Second(hp, k)} :
                  AltIndex(hp, k, b) \in {First(hp, k), Second(hp, k)}
BY HashAssumption DEF First, Second

LEMMA EntryFields ==
    ASSUME NEW k, NEW v
    PROVE  /\ Entry(k, v).key = k /\ Entry(k, v).val = v
           /\ Entry(k, v).partial = PartialKey(k)
           /\ k \in Keys /\ v \in Vals => Entry(k, v) \in Slot \ {Empty}
BY ValueAssumption DEF Entry, Slot

LEMMA SlotFields ==
    ASSUME NEW e \in Slot, e # Empty
    PROVE  /\ e.key \in Keys /\ e.val \in Vals /\ e = Entry(e.key, e.val)
           /\ e.partial = PartialKey(e.key)
<1>1. PICK k \in Keys, v \in Vals : e = Entry(k, v)
  BY DEF Slot
<1>2. QED
  BY <1>1, EntryFields

LEMMA TableFields ==
    ASSUME NEW hp, NEW tab \in Table(hp)
    PROVE  /\ \A b \in Buckets(hp), s \in Slots : tab.bucket[b][s] \in Slot
           /\ tab.inserts \in Nat /\ tab.deletes \in Nat
           /\ tab.bucket \in [Buckets(hp) -> [Slots -> Slot]]
BY DEF Table

\* Writing one slot.
LEMMA SetEffect ==
    ASSUME NEW hp, NEW tab \in Table(hp), NEW b \in Buckets(hp), NEW s \in Slots, NEW e \in Slot
    PROVE  /\ Set(tab, b, s, e) \in Table(hp)
           /\ \A c \in Buckets(hp), r \in Slots :
                  Set(tab, b, s, e).bucket[c][r] =
                      IF c = b /\ r = s THEN e ELSE tab.bucket[c][r]
           /\ Set(tab, b, s, e).inserts = tab.inserts
           /\ Set(tab, b, s, e).deletes = tab.deletes
<1> DEFINE new == Set(tab, b, s, e)
<1>1. /\ tab.bucket \in [Buckets(hp) -> [Slots -> Slot]]
      /\ tab.inserts \in Nat /\ tab.deletes \in Nat
      /\ tab = [bucket |-> tab.bucket, inserts |-> tab.inserts, deletes |-> tab.deletes]
  BY DEF Table
<1>2. new = [tab EXCEPT !.bucket = [tab.bucket EXCEPT ![b] = [tab.bucket[b] EXCEPT ![s] = e]]]
  BY DEF Set
<1>3. /\ new.bucket = [tab.bucket EXCEPT ![b] = [tab.bucket[b] EXCEPT ![s] = e]]
      /\ new.inserts = tab.inserts /\ new.deletes = tab.deletes
      /\ new = [bucket |-> new.bucket, inserts |-> new.inserts, deletes |-> new.deletes]
  BY <1>1, <1>2
<1> HIDE DEF new
<1>4. new.bucket \in [Buckets(hp) -> [Slots -> Slot]]
  BY <1>1, <1>3
<1>5. new \in Table(hp)
  BY <1>1, <1>3, <1>4 DEF Table
<1>6. ASSUME NEW c \in Buckets(hp), NEW r \in Slots
      PROVE  new.bucket[c][r] = IF c = b /\ r = s THEN e ELSE tab.bucket[c][r]
  BY <1>1, <1>3
<1>7. QED
  BY <1>3, <1>5, <1>6 DEF new

\* Two entries of one sound table with the same key are the same.
LEMMA SameKey ==
    ASSUME NEW hp, NEW tab, Sound(hp, tab),
           NEW d \in EntriesOf(hp, tab), NEW e \in EntriesOf(hp, tab), d.key = e.key
    PROVE  d = e
BY DEF Sound, Once, EntriesOf

LEMMA AddSound ==
    ASSUME NEW hp \in Powers, NEW tab, Sound(hp, tab),
           NEW b \in Buckets(hp), NEW s \in Slots, NEW k \in Keys, NEW v \in Vals,
           b \in {First(hp, k), Second(hp, k)}, tab.bucket[b][s] = Empty,
           \A e \in EntriesOf(hp, tab) : e.key # k
    PROVE  /\ Sound(hp, Add(tab, b, s, k, v))
           /\ EntriesOf(hp, Add(tab, b, s, k, v)) = EntriesOf(hp, tab) \cup {Entry(k, v)}
           /\ \A c \in Buckets(hp), r \in Slots :
                  c # b => Add(tab, b, s, k, v).bucket[c][r] = tab.bucket[c][r]
<1> DEFINE set == Set(tab, b, s, Entry(k, v))
           new == Add(tab, b, s, k, v)
           e == Entry(k, v)
<1>1. /\ tab \in Table(hp) /\ e \in Slot /\ e # Empty /\ e.key = k
      /\ e.partial = PartialKey(k)
  BY EntryFields DEF Sound
<1>2. /\ set \in Table(hp)
      /\ \A c \in Buckets(hp), r \in Slots :
             set.bucket[c][r] = IF c = b /\ r = s THEN e ELSE tab.bucket[c][r]
      /\ set.inserts = tab.inserts /\ set.deletes = tab.deletes
  BY <1>1, SetEffect
<1>3. new = [set EXCEPT !.inserts = @ + 1]
  BY DEF Add
<1> HIDE DEF set, new, e
<1>4. /\ new \in Table(hp) /\ new.inserts = tab.inserts + 1 /\ new.deletes = tab.deletes
      /\ new.bucket = set.bucket /\ tab.inserts \in Nat /\ tab.deletes \in Nat
  BY <1>1, <1>2, <1>3 DEF Table
<1>5. \A c \in Buckets(hp), r \in Slots :
          new.bucket[c][r] = IF c = b /\ r = s THEN e ELSE tab.bucket[c][r]
  BY <1>2, <1>4
<1>6. \A c \in Buckets(hp), r \in Slots :
          tab.bucket[c][r] # Empty => tab.bucket[c][r].key # k
  BY DEF EntriesOf
<1>7. InOwn(hp, new)
  BY <1>1, <1>5 DEF InOwn, Sound
<1>8. Once(hp, new)
  BY <1>1, <1>5, <1>6 DEF Once, Sound
<1>9. EntriesOf(hp, new) = EntriesOf(hp, tab) \cup {e}
  <2>1. ASSUME NEW x \in EntriesOf(hp, new) PROVE x \in EntriesOf(hp, tab) \cup {e}
    BY <1>5 DEF EntriesOf
  <2>2. ASSUME NEW x \in EntriesOf(hp, tab) PROVE x \in EntriesOf(hp, new)
    <3>1. PICK c \in Buckets(hp), r \in Slots : x = tab.bucket[c][r] /\ x # Empty
      BY DEF EntriesOf
    <3>2. new.bucket[c][r] = x
      BY <1>5, <3>1
    <3>3. QED
      BY <3>1, <3>2 DEF EntriesOf
  <2>3. e \in EntriesOf(hp, new)
    <3>1. new.bucket[b][s] = e
      BY <1>5
    <3>2. QED
      BY <1>1, <3>1 DEF EntriesOf
  <2>4. QED
    BY <2>1, <2>2, <2>3
<1>10. Counted(hp, new)
  <2>1. e \notin EntriesOf(hp, tab)
    BY <1>1
  <2>2. /\ IsFiniteSet(EntriesOf(hp, tab)) /\ Cardinality(EntriesOf(hp, tab)) \in Nat
        /\ tab.inserts - tab.deletes = Cardinality(EntriesOf(hp, tab))
    BY FS_CardinalityType DEF Sound, Counted
  <2>3. /\ IsFiniteSet(EntriesOf(hp, new))
        /\ Cardinality(EntriesOf(hp, new)) = Cardinality(EntriesOf(hp, tab)) + 1
    BY <1>9, <2>1, <2>2, FS_AddElement
  <2>4. QED
    BY <1>4, <2>2, <2>3 DEF Counted
<1>11. QED
  BY <1>4, <1>5, <1>7, <1>8, <1>9, <1>10 DEF Sound, e, new

LEMMA RemoveSound ==
    ASSUME NEW hp \in Powers, NEW tab, Sound(hp, tab),
           NEW b \in Buckets(hp), NEW s \in Slots, tab.bucket[b][s] # Empty
    PROVE  /\ Sound(hp, Remove(tab, b, s))
           /\ EntriesOf(hp, Remove(tab, b, s)) = EntriesOf(hp, tab) \ {tab.bucket[b][s]}
           /\ \A c \in Buckets(hp), r \in Slots :
                  c # b => Remove(tab, b, s).bucket[c][r] = tab.bucket[c][r]
<1> DEFINE set == Set(tab, b, s, Empty)
           new == Remove(tab, b, s)
           e == tab.bucket[b][s]
<1>1. tab \in Table(hp) /\ Empty \in Slot
  BY DEF Sound, Slot
<1>2. /\ set \in Table(hp)
      /\ \A c \in Buckets(hp), r \in Slots :
             set.bucket[c][r] = IF c = b /\ r = s THEN Empty ELSE tab.bucket[c][r]
      /\ set.inserts = tab.inserts /\ set.deletes = tab.deletes
  BY <1>1, SetEffect
<1>3. new = [set EXCEPT !.deletes = @ + 1]
  BY DEF Remove
<1> HIDE DEF set, new
<1>4. /\ new \in Table(hp) /\ new.inserts = tab.inserts /\ new.deletes = tab.deletes + 1
      /\ new.bucket = set.bucket /\ tab.inserts \in Nat /\ tab.deletes \in Nat
  BY <1>1, <1>2, <1>3 DEF Table
<1>5. \A c \in Buckets(hp), r \in Slots :
          new.bucket[c][r] = IF c = b /\ r = s THEN Empty ELSE tab.bucket[c][r]
  BY <1>2, <1>4
<1>6. InOwn(hp, new) /\ Once(hp, new)
  <2>1. \A c \in Buckets(hp), r \in Slots :
            new.bucket[c][r] # Empty => new.bucket[c][r] = tab.bucket[c][r]
    BY <1>5
  <2>2. InOwn(hp, new)
    BY <2>1 DEF InOwn, Sound
  <2>3. Once(hp, new)
    BY <2>1 DEF Once, Sound
  <2>4. QED
    BY <2>2, <2>3
<1>7. EntriesOf(hp, new) = EntriesOf(hp, tab) \ {e}
  <2>1. ASSUME NEW x \in EntriesOf(hp, new) PROVE x \in EntriesOf(hp, tab) \ {e}
    <3>1. PICK c \in Buckets(hp), r \in Slots : x = new.bucket[c][r] /\ x # Empty
      BY DEF EntriesOf
    <3>2. x = tab.bucket[c][r] /\ ~(c = b /\ r = s)
      BY <1>5, <3>1
    <3>3. x # e
      BY <3>1, <3>2 DEF Sound, Once
    <3>4. QED
      BY <3>1, <3>2, <3>3 DEF EntriesOf
  <2>2. ASSUME NEW x \in EntriesOf(hp, tab), x # e PROVE x \in EntriesOf(hp, new)
    <3>1. PICK c \in Buckets(hp), r \in Slots : x = tab.bucket[c][r] /\ x # Empty
      BY DEF EntriesOf
    <3>2. new.bucket[c][r] = x
      BY <1>5, <2>2, <3>1
    <3>3. QED
      BY <3>1, <3>2 DEF EntriesOf
  <2>3. QED
    BY <2>1, <2>2
<1>8. Counted(hp, new)
  <2>1. e \in EntriesOf(hp, tab)
    BY DEF EntriesOf
  <2>2. /\ IsFiniteSet(EntriesOf(hp, tab)) /\ Cardinality(EntriesOf(hp, tab)) \in Nat
        /\ tab.inserts - tab.deletes = Cardinality(EntriesOf(hp, tab))
    BY FS_CardinalityType DEF Sound, Counted
  <2>3. /\ IsFiniteSet(EntriesOf(hp, new))
        /\ Cardinality(EntriesOf(hp, new)) = Cardinality(EntriesOf(hp, tab)) - 1
    <3> DEFINE S == EntriesOf(hp, tab)
    <3> HIDE DEF e, S
    <3>1. e \in S /\ IsFiniteSet(S) /\ EntriesOf(hp, new) = S \ {e}
      BY <1>7, <2>1, <2>2 DEF S
    <3>2. IsFiniteSet(S \ {e}) /\ Cardinality(S \ {e}) = Cardinality(S) - 1
      BY <3>1, FS_RemoveElement
    <3>3. QED
      BY <3>1, <3>2 DEF S
  <2>4. QED
    BY <1>4, <2>2, <2>3 DEF Counted
<1>9. QED
  BY <1>4, <1>5, <1>6, <1>7, <1>8 DEF Sound, new

\* Writing another value.
LEMMA UpdateSound ==
    ASSUME NEW hp \in Powers, NEW tab, Sound(hp, tab), NEW v \in Vals,
           NEW b \in Buckets(hp), NEW s \in Slots, tab.bucket[b][s] # Empty
    PROVE  LET e   == tab.bucket[b][s]
               new == [tab EXCEPT !.bucket[b][s].val = v]
           IN /\ Sound(hp, new)
              /\ EntriesOf(hp, new) = (EntriesOf(hp, tab) \ {e}) \cup {Entry(e.key, v)}
              /\ \A c \in Buckets(hp), r \in Slots :
                     c # b => new.bucket[c][r] = tab.bucket[c][r]
<1> DEFINE e == tab.bucket[b][s]
           f == Entry(e.key, v)
           new == [tab EXCEPT !.bucket[b][s].val = v]
<1>1. /\ tab \in Table(hp) /\ e \in Slot /\ e # Empty /\ e.key \in Keys
      /\ e = Entry(e.key, e.val) /\ e.partial = PartialKey(e.key)
  BY TableFields, SlotFields DEF Sound
<1>2. /\ f \in Slot /\ f # Empty /\ f.key = e.key /\ f.partial = e.partial
  BY <1>1, EntryFields
<1>3. [e EXCEPT !.val = v] = f
  BY <1>1 DEF Entry
<1>4. new = Set(tab, b, s, f)
  <2>1. new = [tab EXCEPT !.bucket =
                     [tab.bucket EXCEPT ![b] = [tab.bucket[b] EXCEPT ![s] = [e EXCEPT !.val = v]]]]
    BY Zenon
  <2>2. QED
    BY <1>3, <2>1 DEF Set
<1> HIDE DEF new, f
<1>5. /\ new \in Table(hp)
      /\ \A c \in Buckets(hp), r \in Slots :
             new.bucket[c][r] = IF c = b /\ r = s THEN f ELSE tab.bucket[c][r]
      /\ new.inserts = tab.inserts /\ new.deletes = tab.deletes
  BY <1>1, <1>2, <1>4, SetEffect
<1>6. \A c \in Buckets(hp), r \in Slots :
          /\ (new.bucket[c][r] # Empty) <=> (tab.bucket[c][r] # Empty)
          /\ tab.bucket[c][r] # Empty =>
                /\ new.bucket[c][r].key = tab.bucket[c][r].key
                /\ new.bucket[c][r].partial = tab.bucket[c][r].partial
  BY <1>1, <1>2, <1>5
<1>7. InOwn(hp, new)
  BY <1>6 DEF InOwn, Sound
<1>8. Once(hp, new)
  BY <1>6 DEF Once, Sound
<1>9. EntriesOf(hp, new) = (EntriesOf(hp, tab) \ {e}) \cup {f}
  <2>1. ASSUME NEW x \in EntriesOf(hp, new) PROVE x \in (EntriesOf(hp, tab) \ {e}) \cup {f}
    <3>1. PICK c \in Buckets(hp), r \in Slots : x = new.bucket[c][r] /\ x # Empty
      BY DEF EntriesOf
    <3>2. CASE c = b /\ r = s
      BY <1>5, <3>1, <3>2
    <3>3. CASE ~(c = b /\ r = s)
      <4>1. x = tab.bucket[c][r]
        BY <1>5, <3>1, <3>3
      <4>2. x # e
        BY <1>1, <3>1, <3>3, <4>1 DEF Sound, Once
      <4>3. QED
        BY <3>1, <4>1, <4>2 DEF EntriesOf
    <3>4. QED
      BY <3>2, <3>3
  <2>2. ASSUME NEW x \in EntriesOf(hp, tab), x # e PROVE x \in EntriesOf(hp, new)
    <3>1. PICK c \in Buckets(hp), r \in Slots : x = tab.bucket[c][r] /\ x # Empty
      BY DEF EntriesOf
    <3>2. new.bucket[c][r] = x
      BY <1>5, <2>2, <3>1
    <3>3. QED
      BY <3>1, <3>2 DEF EntriesOf
  <2>3. f \in EntriesOf(hp, new)
    <3>1. new.bucket[b][s] = f
      BY <1>5
    <3>2. QED
      BY <1>2, <3>1 DEF EntriesOf
  <2>4. QED
    BY <2>1, <2>2, <2>3
<1>10. Counted(hp, new)
  <2> DEFINE S == EntriesOf(hp, tab)
  <2>1. IsFiniteSet(S) /\ tab.inserts - tab.deletes = Cardinality(S) /\ e \in S
    BY <1>1 DEF Sound, Counted, EntriesOf
  <2>2. f \notin S \ {e}
    BY <1>2, <2>1, SameKey
  <2>3. EntriesOf(hp, new) = (S \ {e}) \cup {f}
    BY <1>9
  <2> HIDE DEF S, e
  <2>4. /\ IsFiniteSet(S \ {e}) /\ Cardinality(S \ {e}) = Cardinality(S) - 1
        /\ Cardinality(S) \in Nat
    BY <2>1, FS_RemoveElement, FS_CardinalityType
  <2>5. /\ IsFiniteSet((S \ {e}) \cup {f})
        /\ Cardinality((S \ {e}) \cup {f}) = Cardinality(S \ {e}) + 1
    BY <2>2, <2>4, FS_AddElement
  <2>6. QED
    BY <1>5, <2>1, <2>3, <2>4, <2>5 DEF Counted
<1>11. QED
  BY <1>5, <1>7, <1>8, <1>9, <1>10 DEF Sound, new, f

\* Writing two slots.
LEMMA MoveEffect ==
    ASSUME NEW hp, NEW tab \in Table(hp), NEW e \in Slot,
           NEW b \in Buckets(hp), NEW s \in Slots, NEW c \in Buckets(hp), NEW r \in Slots
    PROVE  LET new == Set(Set(tab, c, r, e), b, s, Empty)
           IN /\ new \in Table(hp)
              /\ \A d \in Buckets(hp), q \in Slots :
                     new.bucket[d][q] = IF d = b /\ q = s THEN Empty
                                        ELSE IF d = c /\ q = r THEN e ELSE tab.bucket[d][q]
              /\ new.inserts = tab.inserts /\ new.deletes = tab.deletes
<1> DEFINE mid == Set(tab, c, r, e)
           new == Set(mid, b, s, Empty)
<1>1. /\ mid \in Table(hp)
      /\ \A d \in Buckets(hp), q \in Slots :
             mid.bucket[d][q] = IF d = c /\ q = r THEN e ELSE tab.bucket[d][q]
      /\ mid.inserts = tab.inserts /\ mid.deletes = tab.deletes
  BY SetEffect
<1>2. Empty \in Slot
  BY DEF Slot
<1> HIDE DEF mid
<1>3. /\ new \in Table(hp)
      /\ \A d \in Buckets(hp), q \in Slots :
             new.bucket[d][q] = IF d = b /\ q = s THEN Empty ELSE mid.bucket[d][q]
      /\ new.inserts = tab.inserts /\ new.deletes = tab.deletes
  BY <1>1, <1>2, SetEffect
<1> HIDE DEF new
<1>4. QED
  BY <1>1, <1>3 DEF mid, new

\* Moving an entry to an empty slot of its other bucket.
LEMMA MoveSound ==
    ASSUME NEW hp \in Powers, NEW tab, Sound(hp, tab),
           NEW b \in Buckets(hp), NEW s \in Slots, tab.bucket[b][s] # Empty,
           NEW c \in Buckets(hp), NEW r \in Slots, tab.bucket[c][r] = Empty,
           c \in {First(hp, tab.bucket[b][s].key), Second(hp, tab.bucket[b][s].key)}
    PROVE  LET new == Set(Set(tab, c, r, tab.bucket[b][s]), b, s, Empty)
           IN /\ Sound(hp, new)
              /\ EntriesOf(hp, new) = EntriesOf(hp, tab)
              /\ new.bucket[b][s] = Empty
              /\ \A d \in Buckets(hp), q \in Slots :
                     d # b /\ d # c => new.bucket[d][q] = tab.bucket[d][q]
<1> DEFINE moved == tab.bucket[b][s]
           new == Set(Set(tab, c, r, moved), b, s, Empty)
<1>1. /\ tab \in Table(hp) /\ moved \in Slot
  BY TableFields DEF Sound
<1>2. moved = tab.bucket[b][s]
  OBVIOUS
<1>3. /\ new \in Table(hp) /\ new.inserts = tab.inserts /\ new.deletes = tab.deletes
      /\ \A d \in Buckets(hp), q \in Slots :
             new.bucket[d][q] = IF d = b /\ q = s THEN Empty
                                ELSE IF d = c /\ q = r THEN moved ELSE tab.bucket[d][q]
  <2>1. /\ Set(Set(tab, c, r, moved), b, s, Empty) \in Table(hp)
        /\ Set(Set(tab, c, r, moved), b, s, Empty).inserts = tab.inserts
        /\ Set(Set(tab, c, r, moved), b, s, Empty).deletes = tab.deletes
    BY <1>1, MoveEffect
  <2>2. ASSUME NEW d \in Buckets(hp), NEW q \in Slots
        PROVE  Set(Set(tab, c, r, moved), b, s, Empty).bucket[d][q] =
                   IF d = b /\ q = s THEN Empty
                   ELSE IF d = c /\ q = r THEN moved ELSE tab.bucket[d][q]
    <3> HIDE DEF moved
    <3>1. QED
      BY ONLY <1>1, MoveEffect, b \in Buckets(hp), s \in Slots, c \in Buckets(hp),
              r \in Slots, d \in Buckets(hp), q \in Slots
  <2>3. QED
    BY <2>1, <2>2
<1> HIDE DEF new, moved
<1>4. \A d \in Buckets(hp), q \in Slots :
          new.bucket[d][q] = IF d = b /\ q = s THEN Empty
                             ELSE IF d = c /\ q = r THEN moved ELSE tab.bucket[d][q]
  BY <1>3
<1>5. ~(b = c /\ s = r)
  OBVIOUS
<1>6. InOwn(hp, new)
  BY <1>1, <1>2, <1>4 DEF InOwn, Sound
<1>7. Once(hp, new)
  <2> SUFFICES ASSUME NEW b1 \in Buckets(hp), NEW b2 \in Buckets(hp),
                      NEW s1 \in Slots, NEW s2 \in Slots,
                      new.bucket[b1][s1] # Empty, new.bucket[b2][s2] # Empty,
                      new.bucket[b1][s1].key = new.bucket[b2][s2].key
               PROVE  b1 = b2 /\ s1 = s2
    BY DEF Once
  <2>1. \A d1, d2 \in Buckets(hp), q1, q2 \in Slots :
            /\ tab.bucket[d1][q1] # Empty /\ tab.bucket[d2][q2] # Empty
            /\ tab.bucket[d1][q1].key = tab.bucket[d2][q2].key
            => d1 = d2 /\ q1 = q2
    BY DEF Sound, Once
  <2>2. CASE b1 = c /\ s1 = r
    <3>1. CASE b2 = c /\ s2 = r
      BY <2>2, <3>1
    <3>2. CASE ~(b2 = c /\ s2 = r)
      <4>1. new.bucket[b1][s1] = moved /\ new.bucket[b2][s2] = tab.bucket[b2][s2]
            /\ ~(b2 = b /\ s2 = s)
        BY <1>4, <1>5, <2>2, <3>2
      <4>2. QED
        BY <1>1, <1>2, <2>1, <4>1
    <3>3. QED
      BY <3>1, <3>2
  <2>3. CASE ~(b1 = c /\ s1 = r)
    <3>1. new.bucket[b1][s1] = tab.bucket[b1][s1] /\ ~(b1 = b /\ s1 = s)
      BY <1>4, <2>3
    <3>2. CASE b2 = c /\ s2 = r
      <4>1. new.bucket[b2][s2] = moved
        BY <1>4, <1>5, <3>2
      <4>2. b1 = b /\ s1 = s
        BY <1>1, <1>2, <2>1, <3>1, <4>1
      <4>3. QED
        BY <3>1, <4>2
    <3>3. CASE ~(b2 = c /\ s2 = r)
      <4>1. new.bucket[b2][s2] = tab.bucket[b2][s2]
        BY <1>4, <3>3
      <4>2. QED
        BY <2>1, <3>1, <4>1
    <3>4. QED
      BY <3>2, <3>3
  <2>4. QED
    BY <2>2, <2>3
<1>8. EntriesOf(hp, new) = EntriesOf(hp, tab)
  <2>1. ASSUME NEW x \in EntriesOf(hp, new) PROVE x \in EntriesOf(hp, tab)
    <3>1. PICK d \in Buckets(hp), q \in Slots : x = new.bucket[d][q] /\ x # Empty
      BY DEF EntriesOf
    <3>2. x = moved \/ x = tab.bucket[d][q]
      BY <1>4, <3>1
    <3>3. QED
      BY <1>1, <1>2, <3>1, <3>2 DEF EntriesOf
  <2>2. ASSUME NEW x \in EntriesOf(hp, tab) PROVE x \in EntriesOf(hp, new)
    <3>1. PICK d \in Buckets(hp), q \in Slots : x = tab.bucket[d][q] /\ x # Empty
      BY DEF EntriesOf
    <3>2. CASE d = b /\ q = s
      <4>1. new.bucket[c][r] = x
        BY <1>1, <1>2, <1>4, <1>5, <3>1, <3>2
      <4>2. QED
        BY <3>1, <4>1 DEF EntriesOf
    <3>3. CASE ~(d = b /\ q = s)
      <4>1. new.bucket[d][q] = x
        BY <1>4, <3>1, <3>3
      <4>2. QED
        BY <3>1, <4>1 DEF EntriesOf
    <3>4. QED
      BY <3>2, <3>3
  <2>3. QED
    BY <2>1, <2>2
<1>9. Counted(hp, new)
  BY <1>3, <1>8 DEF Sound, Counted
<1>10. QED
  BY <1>3, <1>4, <1>6, <1>7, <1>8, <1>9 DEF Sound, new, moved

\* The table clear leaves behind.
LEMMA EmptySound ==
    ASSUME NEW hp \in Powers
    PROVE  LET new == [bucket |-> [b \in Buckets(hp) |-> [s \in Slots |-> Empty]],
                       inserts |-> 0, deletes |-> 0]
           IN Sound(hp, new) /\ EntriesOf(hp, new) = {}
<1> DEFINE new == [bucket |-> [b \in Buckets(hp) |-> [s \in Slots |-> Empty]],
                   inserts |-> 0, deletes |-> 0]
<1>1. new \in Table(hp)
  BY DEF Table, Slot
<1>2. /\ \A b \in Buckets(hp), s \in Slots : new.bucket[b][s] = Empty
      /\ new.inserts = 0 /\ new.deletes = 0
  OBVIOUS
<1> HIDE DEF new
<1>3. EntriesOf(hp, new) = {}
  BY <1>2 DEF EntriesOf
<1>4. InOwn(hp, new) /\ Once(hp, new)
  BY <1>2 DEF InOwn, Once
<1>5. Counted(hp, new)
  BY <1>2, <1>3, FS_EmptySet DEF Counted
<1>6. QED
  BY <1>1, <1>2, <1>3, <1>4, <1>5 DEF Sound, new
-----------------------------------------------------------------------------
\* Lowest finds an element.
LEMMA LowestIn ==
    ASSUME NEW S, S \subseteq Slots, S # {}
    PROVE  Lowest(S) \in S
<1>1. S \subseteq Nat
  BY SizeAssumption DEF Slots
<1>2. PICK i \in S : \A j \in S : <<j, i>> \notin OpToRel(<, Nat)
  BY <1>1, WFMin, NatLessThanWellFounded, Zenon
<1>3. \A j \in S : ~(j < i)
  BY <1>1, <1>2, Zenon DEF OpToRel
<1>4. \A j \in S : i <= j
  BY <1>1, <1>3
<1>5. QED
  BY <1>4 DEF Lowest

\* Places finds a key that is in the table, and only that.
LEMMA PlacesExact ==
    ASSUME NEW hp \in Powers, Sound(hp, tables[hp]), NEW k \in Keys
    PROVE  /\ \A p \in Places(hp, k) :
                  /\ p[1] \in {First(hp, k), Second(hp, k)}
                  /\ p[1] \in Buckets(hp) /\ p[2] \in Slots
                  /\ tables[hp].bucket[p[1]][p[2]] # Empty
                  /\ tables[hp].bucket[p[1]][p[2]].key = k
           /\ Places(hp, k) = {} =>
                  \A e \in EntriesOf(hp, tables[hp]) : e.key # k
<1> DEFINE M(b) == Matches(hp, b, k)
           b0 == IF M(First(hp, k)) # {} THEN First(hp, k) ELSE Second(hp, k)
<1>1. First(hp, k) \in Buckets(hp) /\ Second(hp, k) \in Buckets(hp)
  BY HashTypes
<1>2. ASSUME NEW b \in Buckets(hp), NEW s \in M(b)
      PROVE  /\ s \in Slots /\ tables[hp].bucket[b][s] # Empty
             /\ tables[hp].bucket[b][s].key = k
  BY DEF Matches, Occupied
<1>3. Places(hp, k) = IF M(b0) = {} THEN {} ELSE {<<b0, Lowest(M(b0))>>}
  BY DEF Places
<1>4. M(b0) \subseteq Slots /\ b0 \in Buckets(hp) /\ b0 \in {First(hp, k), Second(hp, k)}
  BY <1>1 DEF Matches
<1>5. M(b0) # {} => Lowest(M(b0)) \in M(b0)
  BY <1>4, LowestIn
<1>6. M(b0) = {} => M(First(hp, k)) = {} /\ M(Second(hp, k)) = {}
  OBVIOUS
<1>7. ASSUME NEW p \in Places(hp, k)
      PROVE  /\ p[1] \in {First(hp, k), Second(hp, k)}
             /\ p[1] \in Buckets(hp) /\ p[2] \in Slots
             /\ tables[hp].bucket[p[1]][p[2]] # Empty
             /\ tables[hp].bucket[p[1]][p[2]].key = k
  <2> HIDE DEF M, b0
  <2>1. M(b0) # {} /\ p = <<b0, Lowest(M(b0))>>
    BY <1>3
  <2>2. p[1] = b0 /\ p[2] \in M(b0)
    BY <1>5, <2>1
  <2>3. QED
    BY <1>2, <1>4, <2>2
<1>8. ASSUME Places(hp, k) = {}, NEW e \in EntriesOf(hp, tables[hp]), e.key = k PROVE FALSE
  <2>1. PICK b \in Buckets(hp), s \in Slots : e = tables[hp].bucket[b][s] /\ e # Empty
    BY DEF EntriesOf
  <2>2. b \in {First(hp, k), Second(hp, k)} /\ e.partial = PartialKey(k)
    BY <1>8, <2>1 DEF Sound, InOwn
  <2>3. s \in M(b)
    BY <1>8, <2>1, <2>2 DEF Matches, Occupied
  <2>4. M(First(hp, k)) = {} /\ M(Second(hp, k)) = {}
    BY <1>3, <1>6, <1>8
  <2>5. QED
    BY <2>2, <2>3, <2>4
<1>9. QED
  BY <1>7, <1>8

\* Numbered numbers each element once.
LEMMA Numbering ==
    ASSUME NEW S, IsFiniteSet(S)
    PROVE  /\ Cardinality(S) \in Nat
           /\ Numbered(S) \in [0 .. (Cardinality(S) - 1) -> S]
           /\ \A x \in S : \E i \in 0 .. (Cardinality(S) - 1) : Numbered(S)[i] = x
           /\ \A i, j \in 0 .. (Cardinality(S) - 1) :
                  Numbered(S)[i] = Numbered(S)[j] => i = j
<1> DEFINE c == Cardinality(S)
           D == 0 .. (c - 1)
<1>1. c \in Nat /\ ExistsBijection(1 .. c, S)
  BY FS_CardinalityType
<1>2. PICK g \in [1 .. c -> S] : \A x \in S : \E i \in 1 .. c : g[i] = x
  BY <1>1 DEF ExistsBijection, Bijection, Surjection
<1> HIDE DEF c
<1>3. \E f \in [D -> S] : \A x \in S : \E i \in DOMAIN f : f[i] = x
  <2> DEFINE f == [i \in D |-> g[i + 1]]
  <2>1. f \in [D -> S]
    <3>1. \A i \in D : i + 1 \in 1 .. c
      BY <1>1
    <3>2. QED
      BY <1>2, <3>1
  <2>2. ASSUME NEW x \in S PROVE \E i \in D : f[i] = x
    <3>1. PICK i \in 1 .. c : g[i] = x
      BY <1>2
    <3>2. i - 1 \in D /\ (i - 1) + 1 = i
      BY <1>1
    <3>3. f[i - 1] = x
      BY <3>1, <3>2
    <3>4. QED
      BY <3>2, <3>3
  <2>3. DOMAIN f = D
    OBVIOUS
  <2> HIDE DEF f
  <2>4. QED
    BY <2>1, <2>2, <2>3
<1>4. /\ Numbered(S) \in [D -> S]
      /\ \A x \in S : \E i \in DOMAIN Numbered(S) : Numbered(S)[i] = x
  BY <1>3 DEF Numbered, c
<1>5. DOMAIN Numbered(S) = D
  BY <1>4
<1>6. Numbered(S) \in Surjection(D, S)
  BY <1>4, <1>5 DEF Surjection
<1>7. IsFiniteSet(D) /\ Cardinality(D) = c
  BY <1>1, FS_Interval
<1>8. Numbered(S) \in Injection(D, S)
  BY <1>6, <1>7, FS_SurjSameCardinalityImpliesInj DEF c
<1>9. \A i, j \in D : Numbered(S)[i] = Numbered(S)[j] => i = j
  BY <1>5, <1>8 DEF Injection, IsInjective
<1>10. QED
  BY <1>1, <1>4, <1>5, <1>9 DEF c

\* The initial table.
LEMMA FilledSound ==
    ASSUME NEW entries \in Layouts
    PROVE  Sound(InitPower, Filled(InitPower, entries))
<1> DEFINE hp == InitPower
           new == Filled(hp, entries)
           here(b, s) == {e \in entries : e.b = b /\ e.s = s}
           E(e) == Entry(e.key, e.val)
<1>1. /\ IsFiniteSet(entries) /\ hp \in Powers
      /\ \A e \in entries :
            /\ e.key \in Keys /\ e.val \in Vals /\ e.s \in Slots
            /\ e.b \in {First(hp, e.key), Second(hp, e.key)}
            /\ \A d \in entries : d.key = e.key \/ (d.b = e.b /\ d.s = e.s) => d = e
  BY LayoutAssumption, PowerTypes
<1>2. \A e \in entries : /\ e.b \in Buckets(hp) /\ E(e) \in Slot /\ E(e) # Empty
                         /\ E(e).key = e.key /\ E(e).partial = PartialKey(e.key)
  BY <1>1, HashTypes, EntryFields
<1>3. /\ new.inserts = Cardinality(entries) /\ new.deletes = 0
      /\ new.bucket = [b \in Buckets(hp) |-> [s \in Slots |->
             IF here(b, s) = {} THEN Empty ELSE E(CHOOSE e \in here(b, s) : TRUE)]]
      /\ new = [bucket |-> new.bucket, inserts |-> new.inserts, deletes |-> new.deletes]
  BY DEF Filled
<1> HIDE DEF new, hp
<1>4. ASSUME NEW b \in Buckets(hp), NEW s \in Slots
      PROVE  /\ new.bucket[b][s] \in Slot
             /\ new.bucket[b][s] # Empty =>
                    \E e \in entries : e.b = b /\ e.s = s /\ new.bucket[b][s] = E(e)
             /\ \A e \in entries : e.b = b /\ e.s = s => new.bucket[b][s] = E(e)
  <2>1. new.bucket[b][s] =
            IF here(b, s) = {} THEN Empty ELSE E(CHOOSE e \in here(b, s) : TRUE)
    BY <1>3
  <2>2. CASE here(b, s) = {}
    <3>1. new.bucket[b][s] = Empty
      BY <2>1, <2>2
    <3>2. QED
      BY <2>2, <3>1 DEF Slot
  <2>3. CASE here(b, s) # {}
    <3>1. PICK e \in here(b, s) : e = CHOOSE x \in here(b, s) : TRUE
      BY <2>3
    <3>2. new.bucket[b][s] = E(e) /\ e \in entries /\ e.b = b /\ e.s = s
      BY <2>1, <2>3, <3>1
    <3>3. QED
      BY <1>1, <1>2, <3>2
  <2>4. QED
    BY <2>2, <2>3
<1>5. new \in Table(hp)
  <2>1. new.inserts \in Nat /\ new.deletes \in Nat
    BY <1>1, <1>3, FS_CardinalityType
  <2>2. new.bucket \in [Buckets(hp) -> [Slots -> Slot]]
    BY <1>3, <1>4
  <2>3. QED
    BY <1>3, <2>1, <2>2 DEF Table
<1>6. InOwn(hp, new)
  <2> SUFFICES ASSUME NEW b \in Buckets(hp), NEW s \in Slots, new.bucket[b][s] # Empty
               PROVE  /\ b \in {First(hp, new.bucket[b][s].key), Second(hp, new.bucket[b][s].key)}
                      /\ new.bucket[b][s].partial = PartialKey(new.bucket[b][s].key)
    BY DEF InOwn
  <2>1. PICK e \in entries : e.b = b /\ e.s = s /\ new.bucket[b][s] = E(e)
    BY <1>4
  <2>2. E(e).key = e.key /\ E(e).partial = PartialKey(e.key)
    BY <1>2
  <2> HIDE DEF E
  <2>3. QED
    BY <1>1, <2>1, <2>2
<1>7. Once(hp, new)
  <2> SUFFICES ASSUME NEW b1 \in Buckets(hp), NEW b2 \in Buckets(hp),
                      NEW s1 \in Slots, NEW s2 \in Slots,
                      new.bucket[b1][s1] # Empty, new.bucket[b2][s2] # Empty,
                      new.bucket[b1][s1].key = new.bucket[b2][s2].key
               PROVE  b1 = b2 /\ s1 = s2
    BY DEF Once
  <2>1. PICK d \in entries : d.b = b1 /\ d.s = s1 /\ new.bucket[b1][s1] = E(d)
    BY <1>4
  <2>2. PICK e \in entries : e.b = b2 /\ e.s = s2 /\ new.bucket[b2][s2] = E(e)
    BY <1>4
  <2>3. d.key = e.key
    BY <1>2, <2>1, <2>2
  <2>4. QED
    BY <1>1, <2>1, <2>2, <2>3
<1>8. EntriesOf(hp, new) = {E(e) : e \in entries}
  <2>1. ASSUME NEW x \in EntriesOf(hp, new) PROVE x \in {E(e) : e \in entries}
    BY <1>4 DEF EntriesOf
  <2>2. ASSUME NEW e \in entries PROVE E(e) \in EntriesOf(hp, new)
    <3>1. /\ e.b \in Buckets(hp) /\ e.s \in Slots
          /\ new.bucket[e.b][e.s] = E(e) /\ E(e) # Empty
      BY <1>1, <1>2, <1>4
    <3> HIDE DEF E
    <3>2. QED
      BY <3>1 DEF EntriesOf
  <2>3. QED
    BY <2>1, <2>2
<1>9. Counted(hp, new)
  <2> DEFINE f == [e \in entries |-> E(e)]
             T == {E(e) : e \in entries}
  <2>1. f \in Injection(entries, T)
    BY <1>1, <1>2 DEF Injection, IsInjective
  <2>2. f \in Surjection(entries, T)
    BY DEF Surjection
  <2>3. ExistsBijection(entries, T)
    BY <2>1, <2>2 DEF ExistsBijection, Bijection
  <2>4. IsFiniteSet(T) /\ Cardinality(T) = Cardinality(entries)
    BY <1>1, <2>3, FS_Bijection
  <2>5. Cardinality(entries) \in Nat
    BY <1>1, FS_CardinalityType
  <2>6. QED
    BY <1>3, <1>8, <2>4, <2>5 DEF Counted
<1>10. QED
  BY <1>5, <1>6, <1>7, <1>9 DEF Sound, new, hp

\* The tables an expansion may build hold what they are given.
LEMMA NewSound ==
    ASSUME NEW n \in Powers, NEW entries, IsFiniteSet(entries),
           \A e \in entries : e \in Slot /\ e # Empty,
           \A d, e \in entries : d.key = e.key => d = e,
           NEW new \in NewTables(n, entries)
    PROVE  Sound(n, new) /\ EntriesOf(n, new) = entries
<1>1. PICK second :
          /\ \A b \in Buckets(n) : Cardinality(Landed(n, entries, second, b)) <= SlotsPerBucket
          /\ new = [bucket |-> [b \in Buckets(n) |-> NewBucket(Landed(n, entries, second, b))],
                    inserts |-> Cardinality(entries), deletes |-> 0]
  BY DEF NewTables
<1> DEFINE here(b) == Landed(n, entries, second, b)
           num(b) == Numbered(here(b))
           c(b) == Cardinality(here(b))
<1>2. ASSUME NEW b \in Buckets(n)
      PROVE  /\ IsFiniteSet(here(b)) /\ c(b) \in Nat /\ c(b) <= SlotsPerBucket
             /\ num(b) \in [0 .. (c(b) - 1) -> here(b)]
             /\ \A x \in here(b) : \E i \in 0 .. (c(b) - 1) : num(b)[i] = x
             /\ \A i, j \in 0 .. (c(b) - 1) : num(b)[i] = num(b)[j] => i = j
  <2>1. here(b) \in SUBSET entries
    BY DEF Landed
  <2>2. IsFiniteSet(here(b))
    BY <2>1, FS_Subset
  <2>3. QED
    BY <1>1, <2>2, Numbering
<1>3. \A e \in entries : /\ e.key \in Keys /\ e.val \in Vals /\ Entry(e.key, e.val) = e
                         /\ e.partial = PartialKey(e.key)
  BY SlotFields
<1>4. ASSUME NEW b \in Buckets(n), NEW e \in here(b)
      PROVE  e \in entries /\ b \in {First(n, e.key), Second(n, e.key)}
  BY DEF Landed
<1> HIDE DEF here, num, c
<1>5. ASSUME NEW b \in Buckets(n), NEW s \in Slots
      PROVE  new.bucket[b][s] = IF s < c(b) THEN num(b)[s] ELSE Empty
  <2>1. new.bucket[b][s] = IF s < c(b) THEN Entry(num(b)[s].key, num(b)[s].val) ELSE Empty
    BY <1>1 DEF NewBucket, here, num, c
  <2>2. s \in Int /\ s >= 0
    BY SizeAssumption DEF Slots
  <2>3. s < c(b) => num(b)[s] \in here(b)
    BY <1>2, <2>2
  <2>4. QED
    BY <1>3, <1>4, <2>1, <2>3
<1>6. ASSUME NEW b \in Buckets(n), NEW s \in Slots, new.bucket[b][s] # Empty
      PROVE  /\ s \in 0 .. (c(b) - 1) /\ new.bucket[b][s] = num(b)[s]
             /\ new.bucket[b][s] \in entries
             /\ b = IF new.bucket[b][s].key \in second THEN Second(n, new.bucket[b][s].key)
                    ELSE First(n, new.bucket[b][s].key)
  <2>1. s \in Int /\ s >= 0 /\ s < c(b) /\ new.bucket[b][s] = num(b)[s]
    BY <1>5, <1>6, SizeAssumption DEF Slots
  <2>2. s \in 0 .. (c(b) - 1)
    BY <1>2, <2>1
  <2>3. new.bucket[b][s] \in here(b)
    BY <1>2, <2>1, <2>2
  <2>4. QED
    BY <2>1, <2>2, <2>3 DEF here, Landed
<1>7. new \in Table(n)
  <2>1. Cardinality(entries) \in Nat
    BY FS_CardinalityType
  <2>2. \A b \in Buckets(n), s \in Slots : new.bucket[b][s] \in Slot
    BY <1>6 DEF Slot
  <2>3. new.bucket = [b \in Buckets(n) |-> [s \in Slots |-> new.bucket[b][s]]]
    BY <1>1 DEF NewBucket
  <2>4. new.bucket \in [Buckets(n) -> [Slots -> Slot]]
    BY <2>2, <2>3
  <2>5. new = [bucket |-> new.bucket, inserts |-> Cardinality(entries), deletes |-> 0]
    BY <1>1
  <2>6. QED
    BY <2>1, <2>4, <2>5 DEF Table
<1>8. InOwn(n, new)
  BY <1>3, <1>6 DEF InOwn
<1>9. Once(n, new)
  <2> SUFFICES ASSUME NEW b1 \in Buckets(n), NEW b2 \in Buckets(n),
                      NEW s1 \in Slots, NEW s2 \in Slots,
                      new.bucket[b1][s1] # Empty, new.bucket[b2][s2] # Empty,
                      new.bucket[b1][s1].key = new.bucket[b2][s2].key
               PROVE  b1 = b2 /\ s1 = s2
    BY DEF Once
  <2>1. b1 = b2
    BY <1>6
  <2>2. new.bucket[b1][s1] = new.bucket[b2][s2]
    BY <1>6
  <2>3. QED
    BY <1>2, <1>6, <2>1, <2>2
<1>10. EntriesOf(n, new) = entries
  <2>1. ASSUME NEW x \in EntriesOf(n, new) PROVE x \in entries
    BY <1>6 DEF EntriesOf
  <2>2. ASSUME NEW x \in entries PROVE x \in EntriesOf(n, new)
    <3>1. PICK b \in Buckets(n) : x \in here(b)
      BY <1>3, HashTypes DEF here, Landed
    <3>2. PICK i \in 0 .. (c(b) - 1) : num(b)[i] = x
      BY <1>2, <3>1
    <3>3. i \in Slots /\ i < c(b)
      BY <1>2, <3>2, SizeAssumption DEF Slots
    <3>4. new.bucket[b][i] = x
      BY <1>5, <3>2, <3>3
    <3>5. QED
      BY <3>3, <3>4 DEF EntriesOf
  <2>3. QED
    BY <2>1, <2>2
<1>11. Counted(n, new)
  <2>1. new.inserts = Cardinality(entries) /\ new.deletes = 0 /\ Cardinality(entries) \in Nat
    BY <1>1, FS_CardinalityType
  <2>2. QED
    BY <1>10, <2>1 DEF Counted
<1>12. QED
  BY <1>7, <1>8, <1>9, <1>10, <1>11 DEF Sound
-----------------------------------------------------------------------------
\* The threads of an expansion share out every bucket, however few there are.
LEMMA Shares ==
    ASSUME NEW c \in Nat, NEW n \in Nat \ {0}, NEW b \in Int
    PROVE  b \in 0 .. (c - 1) <=>
               \E i \in 0 .. (n - 1) :
                   b \in (i * (c \div n)) ..
                         (IF i = n - 1 THEN c - 1 ELSE (i + 1) * (c \div n) - 1)
<1> DEFINE each == c \div n
<1>1. each \in Nat /\ n * each <= c
  OBVIOUS
<1> HIDE DEF each
<1>2. ASSUME b \in 0 .. (c - 1)
      PROVE  \E i \in 0 .. (n - 1) :
                 b \in (i * each) .. (IF i = n - 1 THEN c - 1 ELSE (i + 1) * each - 1)
  <2>1. CASE b >= (n - 1) * each
    <3>1. n - 1 \in 0 .. (n - 1) /\ b \in ((n - 1) * each) .. (c - 1)
      BY <1>1, <1>2, <2>1
    <3>2. QED
      BY <3>1
  <2>2. CASE b < (n - 1) * each
    <3>1. each > 0
      <4>1. each = 0 => (n - 1) * each = 0
        OBVIOUS
      <4>2. QED
        BY <1>1, <1>2, <2>2, <4>1
    <3> DEFINE i == b \div each
    <3>2. i \in Nat /\ i * each <= b /\ b < (i + 1) * each
      BY <1>1, <1>2, <3>1
    <3> HIDE DEF i
    <3>3. i < n - 1
      <4>1. SUFFICES ASSUME i >= n - 1 PROVE FALSE
        BY <3>2
      <4>2. i * each >= (n - 1) * each
        BY <1>1, <3>2, <4>1
      <4>3. QED
        BY <1>1, <1>2, <2>2, <3>2, <4>2
    <3>4. i \in 0 .. (n - 1) /\ i # n - 1
      BY <3>2, <3>3
    <3>5. (i + 1) * each \in Int /\ i * each \in Int
      BY <1>1, <3>2
    <3>6. b \in (i * each) .. ((i + 1) * each - 1)
      BY <3>2, <3>5
    <3>7. QED
      BY <3>4, <3>6
  <2>3. QED
    BY <1>1, <1>2, <2>1, <2>2
<1>3. ASSUME NEW i \in 0 .. (n - 1),
             b \in (i * each) .. (IF i = n - 1 THEN c - 1 ELSE (i + 1) * each - 1)
      PROVE  b \in 0 .. (c - 1)
  <2>1. i * each \in Nat /\ (i + 1) * each \in Nat
    BY <1>1
  <2>2. i # n - 1 => (i + 1) * each <= n * each
    BY <1>1
  <2>3. QED
    BY <1>1, <1>3, <2>1, <2>2
<1>4. QED
  BY <1>2, <1>3 DEF each

\* So they collect every entry.
LEMMA CollectedAll ==
    ASSUME NEW hp \in Powers
    PROVE  Collected(hp) = EntriesOf(hp, tables[hp])
<1> DEFINE c == Cardinality(Buckets(hp))
           shared == UNION {ThreadRange(hp, i) : i \in 0 .. (NumCores - 1)}
<1>1. 2 ^ hp \in Int
  BY PowerTypes, SMT
<1>2. Buckets(hp) = 0 .. (2 ^ hp - 1) /\ 2 ^ hp - 1 \in Int
  BY <1>1 DEF Buckets
<1>3. c = (IF 0 > 2 ^ hp - 1 THEN 0 ELSE 2 ^ hp - 1 - 0 + 1)
  BY <1>2, FS_Interval
<1>4. c \in Nat /\ Buckets(hp) = 0 .. (c - 1)
  BY <1>1, <1>2, <1>3
<1> HIDE DEF c
<1>5. \A i : ThreadRange(hp, i) =
          (i * (c \div NumCores)) ..
              (IF i = NumCores - 1 THEN c - 1 ELSE (i + 1) * (c \div NumCores) - 1)
  BY DEF ThreadRange, c
<1>6. \A b : b \in shared =>
          \E i \in 0 .. (NumCores - 1) : b \in ThreadRange(hp, i)
  OBVIOUS
<1>7. \A b \in shared : b \in Int
  <2>1. SUFFICES ASSUME NEW b \in shared PROVE b \in Int
    OBVIOUS
  <2>2. PICK i \in 0 .. (NumCores - 1) : b \in ThreadRange(hp, i)
    BY <1>6
  <2>3. /\ i * (c \div NumCores) \in Int /\ (i + 1) * (c \div NumCores) - 1 \in Int
        /\ c - 1 \in Int
    BY <1>4, SizeAssumption
  <2>4. QED
    BY <1>5, <2>2, <2>3
<1>8. \A b \in Int : b \in Buckets(hp) <=> \E i \in 0 .. (NumCores - 1) : b \in ThreadRange(hp, i)
  <2>1. SUFFICES ASSUME NEW b \in Int
                 PROVE  b \in Buckets(hp)
                            <=> \E i \in 0 .. (NumCores - 1) : b \in ThreadRange(hp, i)
    OBVIOUS
  <2>2. NumCores \in Nat \ {0}
    BY SizeAssumption
  <2>3. b \in 0 .. (c - 1) <=>
            \E i \in 0 .. (NumCores - 1) :
                b \in (i * (c \div NumCores)) ..
                      (IF i = NumCores - 1 THEN c - 1 ELSE (i + 1) * (c \div NumCores) - 1)
    BY <1>4, <2>2, Shares
  <2>4. QED
    BY <1>4, <1>5, <2>3, Zenon
<1>9. \A b \in Buckets(hp) : b \in Int
  BY <1>4
<1>10. shared = Buckets(hp)
  BY <1>6, <1>7, <1>8, <1>9
<1>11. QED
  BY <1>10 DEF Collected, EntriesOf
-----------------------------------------------------------------------------
Callings == [op : Ops, key : Keys, val : Vals, n : Nat]

\* The types TypeOK leaves out.
Typed ==
    /\ call \in [Threads -> Callings \cup {NoCall}]
    /\ want \in [Threads -> Nat] /\ inserting \in [Threads -> BOOLEAN]
    /\ DOMAIN bfs = Threads /\ DOMAIN path = Threads /\ DOMAIN ret = Threads

\* Which operations get where.
Calling(t) ==
    /\ pc[t] # "idle" => call[t] \in Callings
    /\ pc[t] \in {"lock_two", "locked"} => call[t].op \notin {"clear", "rehash"}
    /\ pc[t] \in {"search", "search_alt", "path", "move", "moved", "drained"}
          => call[t].op \in {"insert", "upsert"}
    /\ pc[t] \in {"expand", "lock_all", "all_locked", "published"}
          => call[t].op \in {"insert", "upsert", "clear", "rehash"}
    /\ pc[t] = "published" => call[t].op # "clear"

\* The codes of slot_search and the nodes of its queue.
Codes == {c \in Seq(Nat) : Len(c) >= 1 /\ \A i \in 2 .. Len(c) : c[i] \in Slots}
Nodes(hp) == [b : Buckets(hp), code : Codes]

Searching(t) ==
    /\ pc[t] = "search" =>
          bfs[t] \in [q : Seq(Nodes(ti[t])), x : Nodes(ti[t]), slot : Slots]
    /\ pc[t] = "search_alt" =>
          bfs[t] \in [q : Seq(Nodes(ti[t])), slot : Slots,
                      x : [b : Buckets(ti[t]), code : Codes, alt : Buckets(ti[t])]]

\* The records of cuckoopath_search: each bucket is the other one of the key
\* read in the record before, and the first is one of the thread's own.
Records(hp) == [b : Buckets(hp), s : Slots, key : Keys \cup {Absent}]

Chained(recs, hp, k) ==
    /\ Len(recs) > 0 => recs[1].b \in {First(hp, k), Second(hp, k)}
    /\ \A i \in 1 .. (Len(recs) - 1) :
          recs[i].key \in Keys /\ recs[i + 1].b = AltIndex(hp, recs[i].key, recs[i].b)

Pathing(t) ==
    /\ pc[t] \in {"path", "move", "moved"} =>
          /\ path[t] \in [code : Codes, recs : Seq(Records(ti[t])), depth : Nat]
          /\ Chained(path[t].recs, ti[t], call[t].key)
    /\ pc[t] = "path" =>
          /\ Len(path[t].code) >= Len(path[t].recs) + 2
          /\ Len(path[t].recs) > 0 => path[t].recs[Len(path[t].recs)].key \in Keys
    /\ pc[t] \in {"move", "moved"} => path[t].depth < Len(path[t].recs)

\* Which locks a thread holds.
Holding(t) ==
    owned[t] = CASE pc[t] \in {"locked", "moved"} -> TwoLocks(ti[t], call[t].key)
                 [] pc[t] \in {"all_locked", "published"} -> AllLocks
                 [] OTHER -> {}

Local(t) == Calling(t) /\ Searching(t) /\ Pathing(t) /\ Holding(t)

\* No other thread holds them.
Exclusive ==
    \A t, u \in Threads : t # u /\ ti[t] = ti[u] => owned[t] \cap owned[u] = {}

\* Whose table is the current one.
Recent(t) ==
    /\ ti[t] <= table_info
    /\ pc[t] \in {"locked", "all_locked"} => ti[t] = table_info

AllSound == \A hp \in Powers : tables[hp] # Empty => Sound(hp, tables[hp])

\* The slot that a cuckoo path freed is empty until its thread fills it.
Emptied(t) ==
    pc[t] = "moved" =>
        tables[ti[t]].bucket[path[t].recs[1].b][path[t].recs[1].s] = Empty

\* The inductive invariant.
IInv ==
    /\ TypeOK /\ Typed
    /\ \A t \in Threads : Local(t) /\ Recent(t) /\ Emptied(t)
    /\ Exclusive /\ AllSound
-----------------------------------------------------------------------------
\* What a step of t leaves alone of another thread.
Unmoved(u) ==
    /\ pc'[u] = pc[u] /\ call'[u] = call[u] /\ calls'[u] = calls[u] /\ ti'[u] = ti[u]
    /\ want'[u] = want[u] /\ inserting'[u] = inserting[u] /\ bfs'[u] = bfs[u]
    /\ path'[u] = path[u] /\ owned'[u] = owned[u] /\ ret'[u] = ret[u]

Domains ==
    /\ DOMAIN pc = Threads /\ DOMAIN call = Threads /\ DOMAIN calls = Threads
    /\ DOMAIN ti = Threads /\ DOMAIN want = Threads /\ DOMAIN inserting = Threads
    /\ DOMAIN bfs = Threads /\ DOMAIN path = Threads /\ DOMAIN owned = Threads
    /\ DOMAIN ret = Threads

LEMMA InDomains == IInv => Domains
BY DEF IInv, TypeOK, Typed, Domains

LEMMA OthersStay ==
    ASSUME Domains, NEW t \in Threads, Call(t) \/ Step(t)
    PROVE  \A u \in Threads \ {t} : Unmoved(u)
<1>1. ASSUME Call(t) PROVE \A u \in Threads \ {t} : Unmoved(u)
  BY <1>1 DEF Call, Goto, Domains, Unmoved
<1>2. ASSUME Snapshot(t) PROVE \A u \in Threads \ {t} : Unmoved(u)
  BY <1>2 DEF Snapshot, Return, Goto, Domains, Unmoved
<1>3. ASSUME LockTwo(t) PROVE \A u \in Threads \ {t} : Unmoved(u)
  BY <1>3 DEF LockTwo, Own, Goto, Domains, Unmoved
<1>4. ASSUME Find(t) PROVE \A u \in Threads \ {t} : Unmoved(u)
  BY <1>4 DEF Find, Finish, Return, Own, Goto, Domains, Unmoved
<1>5. ASSUME NotFound(t) PROVE \A u \in Threads \ {t} : Unmoved(u)
  BY <1>5 DEF NotFound, Finish, Return, Own, Goto, Domains, Unmoved
<1>6. ASSUME Erase(t) PROVE \A u \in Threads \ {t} : Unmoved(u)
  BY <1>6 DEF Erase, Finish, Return, Own, Goto, Domains, Unmoved
<1>7. ASSUME Update(t) PROVE \A u \in Threads \ {t} : Unmoved(u)
  BY <1>7 DEF Update, Finish, Return, Own, Goto, Domains, Unmoved
<1>8. ASSUME InsertDuplicate(t) PROVE \A u \in Threads \ {t} : Unmoved(u)
  BY <1>8 DEF InsertDuplicate, Duplicate, Finish, Retry, Return, Own, Goto, Domains, Unmoved
<1>9. ASSUME InsertFree(t) PROVE \A u \in Threads \ {t} : Unmoved(u)
  BY <1>9 DEF InsertFree, Finish, Return, Own, Goto, Domains, Unmoved
<1>10. ASSUME InsertFull(t) PROVE \A u \in Threads \ {t} : Unmoved(u)
  BY <1>10 DEF InsertFull, StartSearch, Continue, Own, Goto, Domains, Unmoved
<1>11. ASSUME SearchSlot(t) PROVE \A u \in Threads \ {t} : Unmoved(u)
  BY <1>11 DEF SearchSlot, FoundPath, Goto, Domains, Unmoved
<1>12. ASSUME SearchAlt(t) PROVE \A u \in Threads \ {t} : Unmoved(u)
  BY <1>12 DEF SearchAlt, FoundPath, Continue, Goto, Domains, Unmoved
<1>13. ASSUME ReadPath(t) PROVE \A u \in Threads \ {t} : Unmoved(u)
  BY <1>13 DEF ReadPath, Goto, Domains, Unmoved
<1>14. ASSUME MoveNothing(t) PROVE \A u \in Threads \ {t} : Unmoved(u)
  BY <1>14 DEF MoveNothing, Again, StartSearch, Continue, Own, Goto, Domains, Unmoved
<1>15. ASSUME Move(t) PROVE \A u \in Threads \ {t} : Unmoved(u)
  BY <1>15 DEF Move, Again, StartSearch, Continue, Own, Goto, Domains, Unmoved
<1>16. ASSUME FinishInsert(t) PROVE \A u \in Threads \ {t} : Unmoved(u)
  BY <1>16 DEF FinishInsert, Duplicate, Finish, Retry, Return, Own, Goto, Domains, Unmoved
<1>17. ASSUME ExpandSnapshot(t) PROVE \A u \in Threads \ {t} : Unmoved(u)
  BY <1>17 DEF ExpandSnapshot, Goto, Domains, Unmoved
<1>18. ASSUME LockAll(t) PROVE \A u \in Threads \ {t} : Unmoved(u)
  BY <1>18 DEF LockAll, Own, Goto, Domains, Unmoved
<1>19. ASSUME Clear(t) PROVE \A u \in Threads \ {t} : Unmoved(u)
  BY <1>19 DEF Clear, Finish, Return, Own, Goto, Domains, Unmoved
<1>20. ASSUME ExpandLate(t) PROVE \A u \in Threads \ {t} : Unmoved(u)
  BY <1>20 DEF ExpandLate, Finish, Retry, Return, Own, Goto, Domains, Unmoved
<1>21. ASSUME Publish(t) PROVE \A u \in Threads \ {t} : Unmoved(u)
  BY <1>21 DEF Publish, Goto, Domains, Unmoved
<1>22. ASSUME Release(t) PROVE \A u \in Threads \ {t} : Unmoved(u)
  BY <1>22 DEF Release, Finish, Retry, Return, Own, Goto, Domains, Unmoved
<1>23. QED
  BY <1>1, <1>2, <1>3, <1>4, <1>5, <1>6, <1>7, <1>8, <1>9, <1>10, <1>11, <1>12, <1>13, <1>14, <1>15, <1>16, <1>17, <1>18, <1>19, <1>20, <1>21, <1>22 DEF Step
-----------------------------------------------------------------------------
LEMMA LockTypes ==
    /\ \A hp \in Powers : \A b \in Buckets(hp) : b \in Int /\ LockInd(b) \in AllLocks
    /\ \A hp \in Powers : \A k \in Keys :
          /\ TwoLocks(hp, k) \in SUBSET AllLocks /\ TwoLocks(hp, k) # {}
          /\ \A b \in {First(hp, k), Second(hp, k)} : LockInd(b) \in TwoLocks(hp, k)
    /\ AllLocks # {}
<1>1. ASSUME NEW hp \in Powers, NEW b \in Buckets(hp)
      PROVE  b \in Int /\ LockInd(b) \in AllLocks
  <2>1. b \in Int
    <3>1. 2 ^ hp - 1 \in Int
      BY PowerTypes, SMT
    <3>2. QED
      BY <3>1 DEF Buckets
  <2>2. QED
    BY <2>1, SizeAssumption DEF LockInd, AllLocks
<1>2. AllLocks # {}
  BY SizeAssumption DEF AllLocks
<1>3. QED
  BY <1>1, <1>2, HashTypes DEF TwoLocks

\* The types of the threads' own variables after a step.
ThreadTypes ==
    /\ owned \in [Threads -> SUBSET AllLocks] /\ pc \in [Threads -> Labels]
    /\ calls \in [Threads -> 0 .. MaxCalls] /\ ti \in [Threads -> Powers]
    /\ Typed

LEMMA TypeStep ==
    ASSUME IInv, NEW t \in Threads, Call(t) \/ Step(t)
    PROVE  ThreadTypes'
<1> USE DEF ThreadTypes
<1>1. /\ ThreadTypes /\ table_info \in Powers /\ MaxCalls \in Nat
      /\ NoCall \in Callings \cup {NoCall}
  BY RequestAssumption DEF IInv, TypeOK
<1>2. /\ \A c \in Requests(t) : c \in Callings \cup {NoCall} /\ c.n \in Nat
      /\ ti[t] \in Nat /\ ti[t] + 1 \in Nat
  <2>1. \A c \in Requests(t) : c \in Callings
    BY RequestAssumption DEF Callings
  <2>2. \A c \in Callings : c.n \in Nat
    BY DEF Callings
  <2>3. ti[t] \in Nat
    BY <1>1, PowerTypes
  <2>4. QED
    BY <2>1, <2>2, <2>3
<1>3. /\ {} \in SUBSET AllLocks /\ AllLocks \in SUBSET AllLocks
      /\ pc[t] \notin {"idle"} => TwoLocks(ti[t], call[t].key) \in SUBSET AllLocks
  <2>1. pc[t] # "idle" => call[t].key \in Keys
    BY DEF IInv, Local, Calling, Callings
  <2>2. QED
    BY <1>1, <2>1, LockTypes
\* The ends of calls, the retries and the searches.
<1>4. ASSUME NEW r, Return(t, r), owned' \in [Threads -> SUBSET AllLocks],
             ti' \in [Threads -> Powers], UNCHANGED calls
      PROVE  ThreadTypes'
  BY <1>1, <1>4 DEF Return, Goto, Typed, Labels
<1>5. ASSUME NEW r, Finish(t, r) PROVE ThreadTypes'
  <2>1. owned' \in [Threads -> SUBSET AllLocks]
    BY <1>1, <1>5 DEF Finish, Own
  <2>2. QED
    BY <1>1, <1>4, <1>5, <2>1 DEF Finish
<1>6. ASSUME NEW b \in BOOLEAN, Retry(t, b) PROVE ThreadTypes'
  BY <1>1, <1>6 DEF Retry, Own, Goto, Typed, Labels
<1>7. ASSUME Duplicate(t) PROVE ThreadTypes'
  BY <1>5, <1>6, <1>7 DEF Duplicate
<1>8. ASSUME NEW q, NEW x, NEW slot, Continue(t, q, x, slot),
             UNCHANGED <<call, calls, ti, inserting, ret>>,
             owned' \in [Threads -> SUBSET AllLocks], DOMAIN path' = Threads
      PROVE  ThreadTypes'
  <2>1. pc' \in [Threads -> Labels]
    BY <1>1, <1>8 DEF Continue, Goto, Labels
  <2>2. want' \in [Threads -> Nat] /\ DOMAIN bfs' = Threads
    BY <1>1, <1>2, <1>8 DEF Continue, NextPower, Typed
  <2>3. QED
    BY <1>1, <1>8, <2>1, <2>2 DEF Typed
<1>9. ASSUME Call(t) PROVE ThreadTypes'
  BY <1>1, <1>2, <1>3, <1>9 DEF Call, Goto, Typed, Labels
<1>10. ASSUME Snapshot(t) PROVE ThreadTypes'
  <2>1. ti' \in [Threads -> Powers]
    BY <1>1, <1>10 DEF Snapshot
  <2>2. CASE call[t].op = "rehash" /\ want[t] <= table_info
    BY <1>1, <1>4, <1>10, <2>1, <2>2 DEF Snapshot
  <2>3. CASE ~(call[t].op = "rehash" /\ want[t] <= table_info)
    BY <1>1, <1>10, <2>1, <2>3 DEF Snapshot, Goto, Typed, Labels
  <2>4. QED
    BY <2>2, <2>3
<1>11. ASSUME LockTwo(t) PROVE ThreadTypes'
  BY <1>1, <1>2, <1>3, <1>11 DEF LockTwo, Own, Goto, Typed, Labels
<1>12. ASSUME Find(t) PROVE ThreadTypes'
  BY <1>5, <1>12 DEF Find
<1>13. ASSUME NotFound(t) PROVE ThreadTypes'
  BY <1>5, <1>13 DEF NotFound
<1>14. ASSUME Erase(t) PROVE ThreadTypes'
  BY <1>5, <1>14 DEF Erase
<1>15. ASSUME Update(t) PROVE ThreadTypes'
  BY <1>5, <1>15 DEF Update
<1>16. ASSUME InsertDuplicate(t) PROVE ThreadTypes'
  BY <1>7, <1>16 DEF InsertDuplicate
<1>17. ASSUME InsertFree(t) PROVE ThreadTypes'
  BY <1>5, <1>17 DEF InsertFree
<1>18. ASSUME InsertFull(t) PROVE ThreadTypes'
  <2>1. pc' \in [Threads -> Labels]
    BY <1>1, <1>18 DEF InsertFull, StartSearch, Continue, Goto, Labels
  <2>2. want' \in [Threads -> Nat] /\ DOMAIN bfs' = Threads
    BY <1>1, <1>2, <1>18 DEF InsertFull, StartSearch, Continue, NextPower, Typed
  <2>3. QED
    BY <1>1, <1>3, <1>18, <2>1, <2>2 DEF InsertFull, Own, Typed
<1>19. ASSUME SearchSlot(t) PROVE ThreadTypes'
  BY <1>1, <1>2, <1>3, <1>19 DEF SearchSlot, FoundPath, Goto, Typed, Labels
<1>20. ASSUME SearchAlt(t) PROVE ThreadTypes'
  <2>1. CASE EmptySlots(ti[t], bfs[t].x.alt) # {}
    BY <1>1, <1>20, <2>1 DEF SearchAlt, Node, FoundPath, Goto, Typed, Labels
  <2>2. CASE EmptySlots(ti[t], bfs[t].x.alt) = {}
    <3>1. PICK q, x, slot : Continue(t, q, x, slot)
      BY <1>20, <2>2 DEF SearchAlt, Node
    <3>2. UNCHANGED <<call, calls, ti, inserting, ret, owned, path>>
      BY <1>20, <2>2 DEF SearchAlt, Node
    <3>3. QED
      BY <1>1, <1>8, <3>1, <3>2 DEF Typed
  <2>3. QED
    BY <2>1, <2>2
<1>21. ASSUME ReadPath(t) PROVE ThreadTypes'
  BY <1>1, <1>2, <1>3, <1>21 DEF ReadPath, Goto, Typed, Labels
<1>22. ASSUME MoveNothing(t) PROVE ThreadTypes'
  <2>1. CASE StillEmpty(ti[t], path[t].recs[1])
    BY <1>1, <1>3, <1>22, <2>1 DEF MoveNothing, Own, Goto, Typed, Labels
  <2>2. CASE ~StillEmpty(ti[t], path[t].recs[1])
    <3>1. /\ StartSearch(t) /\ path' = [path EXCEPT ![t] = NoPath]
          /\ UNCHANGED <<call, calls, ti, inserting, ret, owned>>
      BY <1>22, <2>2 DEF MoveNothing, Again
    <3>2. QED
      BY <1>1, <1>8, <3>1 DEF StartSearch, Typed
  <2>3. QED
    BY <2>1, <2>2
<1>23. ASSUME Move(t) PROVE ThreadTypes'
  <2> DEFINE d == path[t].depth
  <2>1. CASE ValidMove(ti[t], path[t].recs[d], path[t].recs[d + 1])
    <3>1. owned' \in [Threads -> SUBSET AllLocks] /\ pc' \in [Threads -> Labels]
      <4>1. \/ UNCHANGED <<owned, pc>>
            \/ Own(t, TwoLocks(ti[t], call[t].key)) /\ Goto(t, "moved")
        BY <1>23, <2>1 DEF Move
      <4>2. pc[t] # "idle"
        BY <1>23 DEF Move
      <4>3. QED
        BY <1>1, <1>3, <4>1, <4>2 DEF Own, Goto, Labels
    <3>2. UNCHANGED <<want, bfs, call, calls, ti, inserting, ret>> /\ DOMAIN path' = DOMAIN path
      BY <1>23, <2>1 DEF Move
    <3>3. QED
      BY <1>1, <3>1, <3>2 DEF Typed
  <2>2. CASE ~ValidMove(ti[t], path[t].recs[d], path[t].recs[d + 1])
    <3>1. /\ StartSearch(t) /\ path' = [path EXCEPT ![t] = NoPath]
          /\ UNCHANGED <<call, calls, ti, inserting, ret, owned>>
      BY <1>23, <2>2 DEF Move, Again
    <3>2. QED
      BY <1>1, <1>8, <3>1 DEF StartSearch, Typed
  <2>3. QED
    BY <2>1, <2>2
<1>24. ASSUME FinishInsert(t) PROVE ThreadTypes'
  BY <1>5, <1>6, <1>7, <1>24 DEF FinishInsert
<1>25. ASSUME ExpandSnapshot(t) PROVE ThreadTypes'
  BY <1>1, <1>2, <1>3, <1>25 DEF ExpandSnapshot, Goto, Typed, Labels
<1>26. ASSUME LockAll(t) PROVE ThreadTypes'
  BY <1>1, <1>2, <1>3, <1>26 DEF LockAll, Own, Goto, Typed, Labels
<1>27. ASSUME Clear(t) PROVE ThreadTypes'
  BY <1>5, <1>27 DEF Clear
<1>28. ASSUME ExpandLate(t) PROVE ThreadTypes'
  BY <1>5, <1>6, <1>28 DEF ExpandLate
<1>29. ASSUME Publish(t) PROVE ThreadTypes'
  BY <1>1, <1>2, <1>3, <1>29 DEF Publish, Goto, Typed, Labels
<1>30. ASSUME Release(t) PROVE ThreadTypes'
  BY <1>5, <1>6, <1>30 DEF Release
<1>31. QED
  BY <1>9, <1>10, <1>11, <1>12, <1>13, <1>14, <1>15, <1>16, <1>17, <1>18, <1>19, <1>20, <1>21, <1>22, <1>23, <1>24, <1>25, <1>26, <1>27, <1>28, <1>29, <1>30 DEF Step
-----------------------------------------------------------------------------
LEMMA Here ==
    ASSUME IInv, NEW t \in Threads
    PROVE  /\ ti[t] \in Powers /\ ti[t] \in Nat /\ table_info \in Powers /\ table_info \in Int
           /\ Sound(ti[t], tables[ti[t]]) /\ tables[ti[t]] \in Table(ti[t])
           /\ Local(t) /\ Recent(t) /\ Emptied(t) /\ Domains
           /\ pc[t] # "idle" => call[t] \in Callings /\ call[t].key \in Keys
                                 /\ call[t].val \in Vals /\ call[t].n \in Nat
<1>1. /\ ti[t] \in Powers /\ table_info \in Powers /\ tables[ti[t]] # Empty
      /\ Local(t) /\ Recent(t) /\ Emptied(t) /\ AllSound
  BY DEF IInv, TypeOK
<1>2. ti[t] \in Nat /\ table_info \in Int
  BY <1>1, PowerTypes
<1>3. Sound(ti[t], tables[ti[t]]) /\ tables[ti[t]] \in Table(ti[t])
  BY <1>1 DEF AllSound, Sound
<1>4. pc[t] # "idle" => call[t] \in Callings /\ call[t].key \in Keys
                         /\ call[t].val \in Vals /\ call[t].n \in Nat
  BY <1>1 DEF Local, Calling, Callings
<1>5. QED
  BY <1>1, <1>2, <1>3, <1>4, InDomains

LEMMA CodeAppend ==
    ASSUME NEW c \in Codes, NEW s \in Slots
    PROVE  Append(c, s) \in Codes /\ Len(Append(c, s)) >= 2
<1>1. s \in Nat /\ c \in Seq(Nat) /\ Len(c) \in Nat /\ Len(c) >= 1
  BY SizeAssumption DEF Codes, Slots
<1>2. Append(c, s) \in Seq(Nat) /\ Len(Append(c, s)) = Len(c) + 1
  BY <1>1
<1>3. \A i \in 2 .. (Len(c) + 1) : Append(c, s)[i] \in Slots
  <2>1. SUFFICES ASSUME NEW i \in 2 .. (Len(c) + 1) PROVE Append(c, s)[i] \in Slots
    OBVIOUS
  <2>2. Append(c, s)[i] = IF i = Len(c) + 1 THEN s ELSE c[i]
    BY <1>1
  <2>3. i # Len(c) + 1 => i \in 2 .. Len(c)
    BY <1>1
  <2>4. QED
    BY <2>2, <2>3 DEF Codes
<1> DEFINE new == Append(c, s)
<1>4. /\ new \in Seq(Nat) /\ Len(new) >= 1 /\ Len(new) >= 2
      /\ \A i \in 2 .. Len(new) : new[i] \in Slots
  BY <1>1, <1>2, <1>3
<1> HIDE DEF new
<1>5. new \in Codes
  BY <1>4 DEF Codes
<1>6. QED
  BY <1>4, <1>5 DEF new

\* What the search comes to, wherever it is taken up.
LEMMA ContinueStep ==
    ASSUME IInv, NEW t \in Threads,
           NEW q \in Seq(Nodes(ti[t])), NEW x, x = Empty \/ x \in Nodes(ti[t]), NEW slot \in Nat,
           Continue(t, q, x, slot),
           ti'[t] = ti[t], call'[t] = call[t], owned'[t] = {},
           pc[t] # "idle", call[t].op \in {"insert", "upsert"}
    PROVE  Local(t)' /\ pc'[t] \notin {"locked", "all_locked", "moved", "idle"}
<1>1. pc'[t] \in {"search", "expand", "drained"}
  BY Here DEF Continue, Goto, Domains
<1>2. pc'[t] = "search" => bfs'[t] \in [q : Seq(Nodes(ti[t])), x : Nodes(ti[t]), slot : Slots]
  <2>1. CASE slot < SlotsPerBucket /\ NotFull(q) /\ x # Empty
    <3>1. slot \in Slots
      BY <2>1, SizeAssumption DEF Slots
    <3>2. bfs'[t] = [q |-> q, x |-> x, slot |-> slot]
      BY <2>1, Here DEF Continue, Domains
    <3>3. QED
      BY <2>1, <3>1, <3>2
  <2>2. CASE ~NotFull(q)
    BY <2>2, Here DEF Continue, Goto, Domains
  <2>3. CASE q = <<>>
    BY <2>2, <2>3, <2>1, Here DEF Continue, Goto, Domains
  <2>4. CASE ~(slot < SlotsPerBucket /\ NotFull(q) /\ x # Empty) /\ NotFull(q) /\ q # <<>>
    <3>1. bfs'[t] = [q |-> Tail(q), x |-> Head(q), slot |-> 0]
      BY <2>4, Here DEF Continue, Domains
    <3>2. Tail(q) \in Seq(Nodes(ti[t])) /\ Head(q) \in Nodes(ti[t])
      BY <2>4
    <3>3. 0 \in Slots
      BY SizeAssumption DEF Slots
    <3>4. QED
      BY <3>1, <3>2, <3>3
  <2>5. QED
    BY <2>1, <2>2, <2>3, <2>4
<1>3. Calling(t)'
  BY <1>1, Here DEF Calling
<1>4. Searching(t)'
  BY <1>1, <1>2 DEF Searching
<1>5. Pathing(t)' /\ Holding(t)'
  BY <1>1 DEF Pathing, Holding
<1>6. QED
  BY <1>1, <1>3, <1>4, <1>5 DEF Local

LEMMA StartStep ==
    ASSUME IInv, NEW t \in Threads, StartSearch(t),
           ti'[t] = ti[t], call'[t] = call[t], owned'[t] = {},
           pc[t] # "idle", call[t].op \in {"insert", "upsert"}
    PROVE  Local(t)' /\ pc'[t] \notin {"locked", "all_locked", "moved", "idle"}
<1> DEFINE k == call[t].key
           n1 == Node(First(ti[t], k), <<0>>)
           n2 == Node(Second(ti[t], k), <<1>>)
<1>1. First(ti[t], k) \in Buckets(ti[t]) /\ Second(ti[t], k) \in Buckets(ti[t])
  BY Here, HashTypes
<1>2. <<0>> \in Codes /\ <<1>> \in Codes
  BY DEF Codes
<1>3. n1 \in Nodes(ti[t]) /\ n2 \in Nodes(ti[t])
  BY <1>1, <1>2 DEF Node, Nodes
<1> HIDE DEF n1, n2
<1>4. <<n1, n2>> \in Seq(Nodes(ti[t]))
  BY <1>3
<1>5. Continue(t, <<n1, n2>>, Empty, 0)
  BY DEF StartSearch, n1, n2
<1>6. QED
  BY <1>4, <1>5, ContinueStep

LEMMA FoundStep ==
    ASSUME IInv, NEW t \in Threads, NEW code \in Codes, Len(code) >= 2, FoundPath(t, code),
           ti'[t] = ti[t], call'[t] = call[t], owned'[t] = {},
           pc[t] # "idle", call[t].op \in {"insert", "upsert"}
    PROVE  Local(t)' /\ pc'[t] = "path"
<1>1. pc'[t] = "path" /\ path'[t] = [code |-> code, recs |-> <<>>, depth |-> 0]
  BY Here DEF FoundPath, Goto, Domains
<1>2. path'[t] \in [code : Codes, recs : Seq(Records(ti[t])), depth : Nat]
  BY <1>1
<1>3. path'[t].code = code /\ path'[t].recs = <<>> /\ Len(<<>>) = 0
  BY <1>1
<1>4. Chained(path'[t].recs, ti[t], call[t].key)
  BY <1>3 DEF Chained
<1>5. Len(path'[t].code) >= Len(path'[t].recs) + 2
  <2>1. Len(code) \in Nat
    BY DEF Codes
  <2>2. QED
    BY <1>3, <2>1
<1>6. Pathing(t)'
  BY <1>1, <1>2, <1>3, <1>4, <1>5 DEF Pathing
<1>7. Calling(t)' /\ Searching(t)' /\ Holding(t)'
  BY <1>1, Here DEF Calling, Searching, Holding
<1>8. QED
  BY <1>1, <1>6, <1>7 DEF Local
-----------------------------------------------------------------------------
\* What a step leaves its own thread with.
LEMMA IdleStep ==
    ASSUME NEW t \in Threads, pc'[t] = "idle", owned'[t] = {}
    PROVE  Local(t)'
BY DEF Local, Calling, Searching, Pathing, Holding

LEMMA SnapshotStep ==
    ASSUME NEW t \in Threads, pc'[t] = "snapshot", owned'[t] = {}, call'[t] \in Callings
    PROVE  Local(t)'
BY DEF Local, Calling, Searching, Pathing, Holding

LEMMA FinishStep ==
    ASSUME Domains, NEW t \in Threads, NEW r, Finish(t, r)
    PROVE  Local(t)' /\ pc'[t] = "idle"
<1>1. pc'[t] = "idle" /\ owned'[t] = {}
  BY DEF Finish, Return, Own, Goto, Domains
<1>2. QED
  BY <1>1, IdleStep

LEMMA RetryStep ==
    ASSUME IInv, NEW t \in Threads, pc[t] # "idle", NEW b, Retry(t, b)
    PROVE  Local(t)' /\ pc'[t] = "snapshot"
<1>1. pc'[t] = "snapshot" /\ owned'[t] = {} /\ call'[t] = call[t]
  BY Here DEF Retry, Own, Goto, Domains
<1>2. call'[t] \in Callings
  BY <1>1, Here
<1>3. QED
  BY <1>1, <1>2, SnapshotStep

LEMMA DuplicateStep ==
    ASSUME IInv, NEW t \in Threads, pc[t] # "idle", Duplicate(t)
    PROVE  Local(t)' /\ pc'[t] \in {"idle", "snapshot"}
BY Here, FinishStep, RetryStep DEF Duplicate

LEMMA ReadPathStep ==
    ASSUME IInv, NEW t \in Threads, ReadPath(t)
    PROVE  Local(t)' /\ pc'[t] \in {"path", "move"}
<1> DEFINE hp == ti[t]
           recs == path[t].recs
           i == Len(recs)
           code == path[t].code
           k == call[t].key
           b == IF i > 0 THEN AltIndex(hp, recs[i].key, recs[i].b)
                ELSE IF code[1] = 0 THEN First(hp, k) ELSE Second(hp, k)
           s == code[i + 2]
           ends == ~Occupied(hp, b, s)
           rec == [b |-> b, s |-> s, key |-> IF ends THEN Absent ELSE tables[hp].bucket[b][s].key]
<1>1. /\ pc[t] = "path" /\ hp \in Powers /\ k \in Keys
      /\ path[t] \in [code : Codes, recs : Seq(Records(hp)), depth : Nat]
      /\ Chained(recs, hp, k)
      /\ Len(code) >= i + 2 /\ (i > 0 => recs[i].key \in Keys)
      /\ owned[t] = {} /\ call[t] \in Callings /\ call[t].op \in {"insert", "upsert"}
  BY Here DEF ReadPath, Local, Pathing, Calling, Holding
<1>2. /\ pc'[t] = IF ends \/ i + 2 = Len(code) THEN "move" ELSE "path"
      /\ path'[t] = [path[t] EXCEPT !.recs = Append(recs, rec), !.depth = i]
      /\ ti'[t] = hp /\ call'[t] = call[t] /\ owned'[t] = owned[t]
  BY Here DEF ReadPath, Goto, Domains
<1>3. /\ recs \in Seq(Records(hp)) /\ i \in Nat /\ Len(code) \in Nat /\ code \in Codes
  BY <1>1 DEF Codes
<1>4. b \in Buckets(hp) /\ (i = 0 => b \in {First(hp, k), Second(hp, k)})
  <2>1. CASE i = 0
    BY <1>1, <2>1, HashTypes
  <2>2. CASE i > 0
    <3>1. recs[i] \in Records(hp)
      BY <1>3, <2>2
    <3>2. recs[i].b \in Buckets(hp) /\ recs[i].key \in Keys
      BY <1>1, <2>2, <3>1 DEF Records
    <3>3. AltIndex(hp, recs[i].key, recs[i].b) \in Buckets(hp)
      BY <1>1, <3>2, HashAssumption
    <3>4. QED
      BY <2>2, <3>3
  <2>3. QED
    BY <1>3, <2>1, <2>2
<1>5. s \in Slots
  <2>1. i + 2 \in 2 .. Len(code)
    BY <1>1, <1>3
  <2>2. QED
    BY <1>3, <2>1 DEF Codes
<1>6. rec \in Records(hp) /\ (~ends => rec.key \in Keys)
  <2>1. tables[hp].bucket[b][s] \in Slot
    BY <1>4, <1>5, Here, TableFields
  <2>2. ~ends => tables[hp].bucket[b][s].key \in Keys
    BY <2>1, SlotFields DEF Occupied
  <2>3. QED
    BY <1>4, <1>5, <2>2 DEF Records
<1> DEFINE new == Append(recs, rec)
<1>7. i > 0 => b = AltIndex(hp, recs[i].key, recs[i].b)
  OBVIOUS
<1>8. rec.b = b
  OBVIOUS
<1> HIDE DEF b, s, ends, rec
<1>9. /\ new \in Seq(Records(hp)) /\ Len(new) = i + 1 /\ new[i + 1] = rec
      /\ \A j \in 1 .. i : new[j] = recs[j]
  BY <1>3, <1>6
<1> HIDE DEF new
<1>10. Chained(new, hp, k)
  <2>1. new[1].b \in {First(hp, k), Second(hp, k)}
    <3>1. CASE i = 0
      BY <1>4, <1>8, <1>9, <3>1
    <3>2. CASE i > 0
      BY <1>1, <1>3, <1>9, <3>2 DEF Chained
    <3>3. QED
      BY <1>3, <3>1, <3>2
  <2>2. ASSUME NEW j \in 1 .. i
        PROVE  new[j].key \in Keys /\ new[j + 1].b = AltIndex(hp, new[j].key, new[j].b)
    <3>1. CASE j = i
      <4>1. new[j] = recs[i] /\ new[j + 1] = rec /\ i > 0
        BY <1>3, <1>9, <3>1
      <4>2. QED
        BY <1>1, <1>7, <1>8, <4>1
    <3>2. CASE j # i
      <4>1. j \in 1 .. (i - 1) /\ j \in 1 .. i /\ j + 1 \in 1 .. i
        BY <1>3, <3>2
      <4>2. new[j] = recs[j] /\ new[j + 1] = recs[j + 1]
        BY <1>9, <4>1
      <4>3. recs[j].key \in Keys /\ recs[j + 1].b = AltIndex(hp, recs[j].key, recs[j].b)
        BY <1>1, <4>1 DEF Chained
      <4>4. QED
        BY <4>2, <4>3
    <3>3. QED
      BY <3>1, <3>2
  <2>3. Len(new) - 1 = i
    BY <1>3, <1>9
  <2>4. QED
    BY <2>1, <2>2, <2>3 DEF Chained
<1>11. /\ path'[t].recs = new /\ path'[t].code = code /\ path'[t].depth = i
       /\ path'[t] \in [code : Codes, recs : Seq(Records(hp)), depth : Nat]
  BY <1>1, <1>2, <1>3, <1>9 DEF new
<1>12. pc'[t] \in {"path", "move"}
  BY <1>2
<1>13. ASSUME pc'[t] = "path"
       PROVE  Len(path'[t].code) >= Len(path'[t].recs) + 2
              /\ path'[t].recs[Len(path'[t].recs)].key \in Keys
  <2>1. ~ends /\ i + 2 # Len(code)
    BY <1>2, <1>13
  <2>2. QED
    BY <1>1, <1>3, <1>6, <1>9, <1>11, <2>1
<1>14. Pathing(t)'
  <2>1. path'[t].depth < Len(path'[t].recs)
    BY <1>3, <1>9, <1>11
  <2>2. Chained(path'[t].recs, ti'[t], call'[t].key)
    BY <1>2, <1>10, <1>11
  <2>3. path'[t] \in [code : Codes, recs : Seq(Records(ti'[t])), depth : Nat]
    BY <1>2, <1>11
  <2>4. QED
    BY <1>12, <1>13, <2>1, <2>2, <2>3 DEF Pathing
<1>15. Calling(t)' /\ Searching(t)' /\ Holding(t)'
  BY <1>1, <1>2, <1>12 DEF Calling, Searching, Holding
<1>16. QED
  BY <1>12, <1>14, <1>15 DEF Local
-----------------------------------------------------------------------------
LEMMA SearchSlotStep ==
    ASSUME IInv, NEW t \in Threads, SearchSlot(t)
    PROVE  Local(t)' /\ pc'[t] \in {"path", "search_alt"}
<1> DEFINE hp == ti[t]
           x == bfs[t].x
           s == bfs[t].slot
<1>1. /\ pc[t] = "search" /\ hp \in Powers /\ Domains
      /\ bfs[t] \in [q : Seq(Nodes(hp)), x : Nodes(hp), slot : Slots]
      /\ owned[t] = {} /\ call[t] \in Callings /\ call[t].op \in {"insert", "upsert"}
  BY Here DEF SearchSlot, Local, Searching, Calling, Holding
<1>2. x \in Nodes(hp) /\ x.b \in Buckets(hp) /\ x.code \in Codes /\ s \in Slots
  BY <1>1 DEF Nodes
<1>3. ti'[t] = hp /\ call'[t] = call[t] /\ owned'[t] = {}
  BY <1>1 DEF SearchSlot
<1>4. CASE ~Occupied(hp, x.b, s)
  <2>1. FoundPath(t, Append(x.code, s))
    BY <1>4 DEF SearchSlot
  <2>2. Append(x.code, s) \in Codes /\ Len(Append(x.code, s)) >= 2
    BY <1>2, CodeAppend
  <2>3. QED
    BY <1>1, <1>3, <2>1, <2>2, FoundStep
<1>5. CASE Occupied(hp, x.b, s)
  <2> DEFINE alt == AltIndex(hp, tables[hp].bucket[x.b][s].key, x.b)
             y == [b |-> x.b, code |-> x.code, alt |-> alt]
  <2>1. alt \in Buckets(hp)
    <3>1. tables[hp].bucket[x.b][s] \in Slot
      BY <1>2, Here, TableFields
    <3>2. tables[hp].bucket[x.b][s].key \in Keys
      BY <1>5, <3>1, SlotFields DEF Occupied
    <3>3. QED
      BY <1>1, <1>2, <3>2, HashAssumption
  <2>2. /\ pc'[t] = "search_alt" /\ bfs' = [bfs EXCEPT ![t].x = y]
    BY <1>1, <1>5 DEF SearchSlot, Goto, Domains
  <2>3. y \in [b : Buckets(hp), code : Codes, alt : Buckets(hp)]
    BY <1>2, <2>1
  <2> HIDE DEF y
  <2>4. bfs'[t] = [bfs[t] EXCEPT !.x = y]
    BY <1>1, <2>2 DEF Domains
  <2>5. bfs'[t] \in [q : Seq(Nodes(hp)), slot : Slots,
                     x : [b : Buckets(hp), code : Codes, alt : Buckets(hp)]]
    BY <1>1, <2>3, <2>4
  <2>6. Searching(t)'
    BY <1>3, <2>2, <2>5 DEF Searching
  <2>7. Calling(t)' /\ Pathing(t)' /\ Holding(t)'
    BY <1>1, <1>3, <2>2 DEF Calling, Pathing, Holding
  <2>8. QED
    BY <2>2, <2>6, <2>7 DEF Local
<1>6. QED
  BY <1>4, <1>5

LEMMA SearchAltStep ==
    ASSUME IInv, NEW t \in Threads, SearchAlt(t)
    PROVE  Local(t)' /\ pc'[t] \notin {"locked", "all_locked", "moved", "idle"}
<1> DEFINE hp == ti[t]
           x == bfs[t].x
           s == bfs[t].slot
           y == Node(x.alt, Append(x.code, s))
           empty == EmptySlots(hp, y.b)
<1>1. /\ pc[t] = "search_alt" /\ hp \in Powers /\ Domains
      /\ bfs[t] \in [q : Seq(Nodes(hp)), slot : Slots,
                     x : [b : Buckets(hp), code : Codes, alt : Buckets(hp)]]
      /\ owned[t] = {} /\ call[t] \in Callings /\ call[t].op \in {"insert", "upsert"}
  BY Here DEF SearchAlt, Local, Searching, Calling, Holding
<1>2. /\ x.b \in Buckets(hp) /\ x.alt \in Buckets(hp) /\ x.code \in Codes /\ s \in Slots
      /\ bfs[t].q \in Seq(Nodes(hp))
  BY <1>1
<1>3. ti'[t] = hp /\ call'[t] = call[t] /\ owned'[t] = {}
  BY <1>1 DEF SearchAlt
<1>4. Append(x.code, s) \in Codes
  BY <1>2, CodeAppend
<1>5. y \in Nodes(hp) /\ y.code = Append(x.code, s) /\ y.b = x.alt
  BY <1>2, <1>4 DEF Node, Nodes
<1> HIDE DEF y
<1>6. CASE empty # {}
  <2>1. FoundPath(t, Append(y.code, Lowest(empty)))
    BY <1>6 DEF SearchAlt, y
  <2>2. Lowest(empty) \in Slots
    <3>1. empty \subseteq Slots
      BY DEF EmptySlots
    <3>2. QED
      BY <1>6, <3>1, LowestIn
  <2>3. Append(y.code, Lowest(empty)) \in Codes /\ Len(Append(y.code, Lowest(empty))) >= 2
    BY <1>4, <1>5, <2>2, CodeAppend
  <2>4. QED
    BY <1>1, <1>3, <2>1, <2>3, FoundStep
<1>7. CASE empty = {}
  <2>1. Continue(t, Enqueue(bfs[t].q, y), Node(x.b, x.code), s + 1)
    BY <1>7 DEF SearchAlt, y
  <2>2. Enqueue(bfs[t].q, y) \in Seq(Nodes(hp))
    <3>1. Append(bfs[t].q, y) \in Seq(Nodes(hp))
      BY <1>2, <1>5
    <3>2. QED
      BY <1>2, <3>1 DEF Enqueue
  <2>3. Node(x.b, x.code) \in Nodes(hp)
    BY <1>2 DEF Node, Nodes
  <2>4. s + 1 \in Nat
    BY <1>2, SizeAssumption DEF Slots
  <2>5. QED
    BY <1>1, <1>3, <2>1, <2>2, <2>3, <2>4, ContinueStep
<1>8. QED
  BY <1>6, <1>7

LEMMA InsertFullStep ==
    ASSUME IInv, NEW t \in Threads, InsertFull(t)
    PROVE  Local(t)' /\ pc'[t] \notin {"locked", "all_locked", "moved", "idle"}
<1>1. /\ pc[t] # "idle" /\ call[t].op \in {"insert", "upsert"}
      /\ ti'[t] = ti[t] /\ call'[t] = call[t]
  BY DEF InsertFull, Locked
<1>2. owned'[t] = {}
  BY Here DEF InsertFull, Own, Domains
<1>3. StartSearch(t)
  BY DEF InsertFull
<1>4. QED
  BY <1>1, <1>2, <1>3, StartStep

LEMMA PathHere ==
    ASSUME IInv, NEW t \in Threads, pc[t] \in {"move", "moved"}
    PROVE  LET recs == path[t].recs
               d    == path[t].depth
           IN /\ path[t] \in [code : Codes, recs : Seq(Records(ti[t])), depth : Nat]
              /\ d \in Nat /\ Len(recs) \in Nat /\ d < Len(recs)
              /\ \A i \in 1 .. Len(recs) : recs[i] \in Records(ti[t])
              /\ recs[1] \in Records(ti[t]) /\ recs[1].b \in Buckets(ti[t])
              /\ recs[1].s \in Slots
              /\ recs[1].b \in {First(ti[t], call[t].key), Second(ti[t], call[t].key)}
              /\ Chained(recs, ti[t], call[t].key)
              /\ call[t] \in Callings /\ call[t].op \in {"insert", "upsert"}
<1> DEFINE recs == path[t].recs
           d == path[t].depth
<1>1. /\ path[t] \in [code : Codes, recs : Seq(Records(ti[t])), depth : Nat]
      /\ Chained(recs, ti[t], call[t].key) /\ d < Len(recs)
      /\ call[t] \in Callings /\ call[t].op \in {"insert", "upsert"}
  BY Here DEF Local, Pathing, Calling
<1>2. d \in Nat /\ recs \in Seq(Records(ti[t]))
  BY <1>1
<1>3. Len(recs) \in Nat /\ \A i \in 1 .. Len(recs) : recs[i] \in Records(ti[t])
  BY <1>2
<1>4. recs[1] \in Records(ti[t]) /\ Len(recs) > 0
  BY <1>1, <1>2, <1>3
<1>5. QED
  BY <1>1, <1>2, <1>3, <1>4 DEF Chained, Records

LEMMA MoveNothingStep ==
    ASSUME IInv, NEW t \in Threads, MoveNothing(t)
    PROVE  /\ Local(t)'
           /\ pc'[t] \notin {"locked", "all_locked", "idle"}
           /\ pc'[t] = "moved" => path'[t] = path[t] /\ StillEmpty(ti[t], path[t].recs[1])
<1>1. /\ pc[t] = "move" /\ ti'[t] = ti[t] /\ call'[t] = call[t] /\ owned[t] = {} /\ Domains
  BY Here DEF MoveNothing, Local, Holding
<1>2. CASE StillEmpty(ti[t], path[t].recs[1])
  <2>1. /\ pc'[t] = "moved" /\ path'[t] = path[t]
        /\ owned'[t] = TwoLocks(ti[t], call[t].key)
    BY <1>1, <1>2 DEF MoveNothing, Own, Goto, Domains
  <2>2. Pathing(t)'
    BY <1>1, <2>1, PathHere DEF Pathing
  <2>3. Calling(t)' /\ Searching(t)' /\ Holding(t)'
    BY <1>1, <2>1, PathHere DEF Calling, Searching, Holding
  <2>4. QED
    BY <1>2, <2>1, <2>2, <2>3 DEF Local
<1>3. CASE ~StillEmpty(ti[t], path[t].recs[1])
  <2>1. StartSearch(t) /\ owned'[t] = {}
    BY <1>1, <1>3 DEF MoveNothing, Again
  <2>2. QED
    BY <1>1, <2>1, PathHere, StartStep
<1>4. QED
  BY <1>2, <1>3
-----------------------------------------------------------------------------
\* A step of t replaces its table by tab, under locks nobody else holds, and
\* leaves alone the buckets of all other locks.
Rewrites(t, locks, tab) ==
    /\ tables' = [tables EXCEPT ![ti[t]] = tab] /\ table_info' = table_info
    /\ Sound(ti[t], tab)
    /\ Free(t, locks)
    /\ \A b \in Buckets(ti[t]), s \in Slots :
           LockInd(b) \notin locks => tab.bucket[b][s] = tables[ti[t]].bucket[b][s]

LEMMA OwnFree ==
    ASSUME IInv, NEW t \in Threads
    PROVE  Free(t, owned[t])
BY DEF IInv, Exclusive, Free

LEMMA MoveStep ==
    ASSUME IInv, NEW t \in Threads, Move(t)
    PROVE  /\ Local(t)'
           /\ pc'[t] \notin {"locked", "all_locked", "idle"}
           /\ \/ pc'[t] # "moved" /\ tables' = tables
              \/ \E locks, tab :
                    /\ Rewrites(t, locks, tab)
                    /\ EntriesOf(ti[t], tab) = EntriesOf(ti[t], tables[ti[t]])
                    /\ owned'[t] \subseteq locks
                    /\ pc'[t] = "moved" =>
                          LET rec == path'[t].recs[1] IN tab.bucket[rec.b][rec.s] = Empty
<1> DEFINE d     == path[t].depth
           recs  == path[t].recs
           from  == recs[d]
           to    == recs[d + 1]
           hp    == ti[t]
           two   == TwoLocks(hp, call[t].key)
           locks == {LockInd(from.b), LockInd(to.b)} \cup (IF d = 1 THEN two ELSE {})
           e     == tables[hp].bucket[from.b][from.s]
           tab   == Set(Set(tables[hp], to.b, to.s, e), from.b, from.s, Empty)
<1>1. /\ pc[t] = "move" /\ ti'[t] = hp /\ call'[t] = call[t] /\ owned[t] = {} /\ Domains
      /\ d > 0 /\ Free(t, locks) /\ table_info' = table_info
  BY Here DEF Move, Local, Holding
<1>2. CASE ~ValidMove(hp, from, to)
  <2>1. StartSearch(t) /\ owned'[t] = {} /\ tables' = tables
    BY <1>1, <1>2 DEF Move, Again
  <2>2. QED
    BY <1>1, <2>1, PathHere, StartStep
<1>3. CASE ValidMove(hp, from, to)
  <2>1. /\ path[t] \in [code : Codes, recs : Seq(Records(hp)), depth : Nat]
        /\ d \in Nat /\ Len(recs) \in Nat /\ d < Len(recs)
        /\ \A i \in 1 .. Len(recs) : recs[i] \in Records(hp)
        /\ Chained(recs, hp, call[t].key)
        /\ recs[1].b \in {First(hp, call[t].key), Second(hp, call[t].key)}
        /\ call[t] \in Callings /\ call[t].op \in {"insert", "upsert"}
    BY <1>1, PathHere
  <2>2. d \in 1 .. Len(recs) /\ d + 1 \in 1 .. Len(recs) /\ d \in 1 .. (Len(recs) - 1)
    BY <1>1, <2>1
  <2>3. /\ from \in Records(hp) /\ to \in Records(hp)
        /\ from.key \in Keys /\ to.b = AltIndex(hp, from.key, from.b)
    BY <2>1, <2>2 DEF Chained
  <2>4. from.b \in Buckets(hp) /\ from.s \in Slots /\ to.b \in Buckets(hp) /\ to.s \in Slots
    BY <2>3 DEF Records
  <2>5. /\ tables' = [tables EXCEPT ![hp] = tab]
        /\ path' = [path EXCEPT ![t].depth = d - 1]
        /\ IF d = 1 THEN Own(t, two) /\ Goto(t, "moved") ELSE UNCHANGED <<owned, pc>>
    BY <1>3 DEF Move, Write
  <2>6. e # Empty /\ e.key = from.key /\ tables[hp].bucket[to.b][to.s] = Empty
    BY <1>3 DEF ValidMove, Occupied
  <2>7. hp \in Powers /\ Sound(hp, tables[hp]) /\ call[t].key \in Keys
    BY <1>1, Here
  <2>8. to.b \in {First(hp, e.key), Second(hp, e.key)}
    <3>1. from.b \in {First(hp, e.key), Second(hp, e.key)}
      BY <2>4, <2>6, <2>7 DEF Sound, InOwn
    <3>2. QED
      BY <2>3, <2>6, <2>7, <3>1, HashTypes
  <2>9. /\ Sound(hp, tab) /\ EntriesOf(hp, tab) = EntriesOf(hp, tables[hp])
        /\ tab.bucket[from.b][from.s] = Empty
        /\ \A b \in Buckets(hp), s \in Slots :
               b # from.b /\ b # to.b => tab.bucket[b][s] = tables[hp].bucket[b][s]
    <3> DEFINE old == tables[hp]
               b == from.b
               s == from.s
               c == to.b
               r == to.s
    <3>1. /\ hp \in Powers /\ Sound(hp, old)
          /\ b \in Buckets(hp) /\ s \in Slots /\ old.bucket[b][s] # Empty
          /\ c \in Buckets(hp) /\ r \in Slots /\ old.bucket[c][r] = Empty
          /\ c \in {First(hp, old.bucket[b][s].key), Second(hp, old.bucket[b][s].key)}
          /\ tab = Set(Set(old, c, r, old.bucket[b][s]), b, s, Empty)
      BY <2>4, <2>6, <2>7, <2>8
    <3> HIDE DEF tab, old, b, s, c, r, hp
    <3>2. /\ Sound(hp, tab) /\ EntriesOf(hp, tab) = EntriesOf(hp, old)
          /\ tab.bucket[b][s] = Empty
          /\ \A d1 \in Buckets(hp), q1 \in Slots :
                 d1 # b /\ d1 # c => tab.bucket[d1][q1] = old.bucket[d1][q1]
      BY ONLY <3>1, MoveSound
    <3>3. QED
      BY <3>2 DEF old, b, s, c
  <2> HIDE DEF tab
  <2>10. Rewrites(t, locks, tab)
    <3>1. ASSUME NEW b \in Buckets(hp), NEW s \in Slots, LockInd(b) \notin locks
          PROVE  tab.bucket[b][s] = tables[hp].bucket[b][s]
      <4>1. b # from.b /\ b # to.b
        BY <3>1
      <4>2. QED
        BY <2>9, <4>1
    <3>2. QED
      BY <1>1, <2>5, <2>9, <3>1 DEF Rewrites
  <2>11. path'[t] = [path[t] EXCEPT !.depth = d - 1]
    BY <1>1, <2>5 DEF Domains
  <2>12. /\ path'[t] \in [code : Codes, recs : Seq(Records(hp)), depth : Nat]
         /\ path'[t].recs = recs /\ path'[t].depth = d - 1
    BY <1>1, <2>1, <2>11
  <2>13. /\ pc'[t] = (IF d = 1 THEN "moved" ELSE "move")
         /\ owned'[t] = (IF d = 1 THEN two ELSE {})
    BY <1>1, <2>5 DEF Own, Goto, Domains
  <2>14. Pathing(t)'
    <3>1. d - 1 < Len(recs)
      BY <2>1
    <3>2. QED
      BY <1>1, <2>1, <2>12, <2>13, <3>1 DEF Pathing
  <2>15. Calling(t)' /\ Searching(t)' /\ Holding(t)'
    BY <1>1, <2>1, <2>13 DEF Calling, Searching, Holding
  <2>16. owned'[t] \subseteq locks
    BY <2>13
  <2>17. pc'[t] = "moved" => tab.bucket[path'[t].recs[1].b][path'[t].recs[1].s] = Empty
    BY <2>9, <2>12, <2>13
  <2> HIDE DEF locks
  <2>18. QED
    BY <2>9, <2>10, <2>13, <2>14, <2>15, <2>16, <2>17 DEF Local
<1>4. QED
  BY <1>2, <1>3
-----------------------------------------------------------------------------
\* What a thread with its buckets locked looks at, and what it may write there.
LEMMA PlacesHere ==
    ASSUME IInv, NEW t \in Threads, pc[t] \in {"locked", "moved"}
    PROVE  /\ call[t].key \in Keys /\ owned[t] = TwoLocks(ti[t], call[t].key)
           /\ \A p \in KeyPlaces(t) :
                  /\ p[1] \in {First(ti[t], call[t].key), Second(ti[t], call[t].key)}
                  /\ p[1] \in Buckets(ti[t]) /\ p[2] \in Slots
                  /\ tables[ti[t]].bucket[p[1]][p[2]] # Empty
                  /\ tables[ti[t]].bucket[p[1]][p[2]].key = call[t].key
           /\ KeyPlaces(t) = {} => \A e \in EntriesOf(ti[t], tables[ti[t]]) : e.key # call[t].key
<1>1. /\ call[t].key \in Keys /\ ti[t] \in Powers /\ Sound(ti[t], tables[ti[t]])
      /\ owned[t] = TwoLocks(ti[t], call[t].key)
  BY Here DEF Local, Holding
<1>2. QED
  BY <1>1, PlacesExact DEF KeyPlaces

LEMMA OwnRewrite ==
    ASSUME IInv, NEW t \in Threads, NEW tab, Sound(ti[t], tab), Write(t, tab), UNCHANGED table_info,
           NEW c \in Buckets(ti[t]), LockInd(c) \in owned[t],
           \A b \in Buckets(ti[t]), s \in Slots :
               b # c => tab.bucket[b][s] = tables[ti[t]].bucket[b][s]
    PROVE  Rewrites(t, owned[t], tab)
<1>1. \A b \in Buckets(ti[t]), s \in Slots :
          LockInd(b) \notin owned[t] => tab.bucket[b][s] = tables[ti[t]].bucket[b][s]
  OBVIOUS
<1>2. QED
  BY <1>1, OwnFree DEF Rewrites, Write

LEMMA EraseStep ==
    ASSUME IInv, NEW t \in Threads, Erase(t)
    PROVE  \E tab, e :
               /\ Rewrites(t, owned[t], tab)
               /\ e \in EntriesOf(ti[t], tables[ti[t]]) /\ e.key = call[t].key
               /\ EntriesOf(ti[t], tab) = EntriesOf(ti[t], tables[ti[t]]) \ {e}
<1> DEFINE hp == ti[t]
           k == call[t].key
           old == tables[hp]
<1>1. pc[t] = "locked" /\ hp \in Powers /\ Sound(hp, old) /\ table_info' = table_info
  BY Here DEF Erase, Locked, Finish
<1>2. PICK p \in KeyPlaces(t) : Write(t, Remove(old, p[1], p[2]))
  BY DEF Erase
<1> DEFINE b == p[1]
           s == p[2]
           tab == Remove(old, b, s)
           e == old.bucket[b][s]
<1>3. /\ b \in Buckets(hp) /\ s \in Slots /\ e # Empty /\ e.key = k
      /\ LockInd(b) \in owned[t]
  BY <1>1, PlacesHere, LockTypes
<1> HIDE DEF b, s
<1>4. /\ Sound(hp, tab) /\ EntriesOf(hp, tab) = EntriesOf(hp, old) \ {e}
      /\ \A c \in Buckets(hp), r \in Slots : c # b => tab.bucket[c][r] = old.bucket[c][r]
  BY <1>1, <1>3, RemoveSound
<1>5. Write(t, tab)
  BY <1>2 DEF b, s
<1> HIDE DEF tab
<1>6. Rewrites(t, owned[t], tab)
  BY <1>1, <1>3, <1>4, <1>5, OwnRewrite
<1>7. e \in EntriesOf(hp, old)
  BY <1>3 DEF EntriesOf
<1>8. QED
  BY <1>3, <1>4, <1>6, <1>7

LEMMA UpdateStep ==
    ASSUME IInv, NEW t \in Threads, Update(t)
    PROVE  \E tab, e :
               /\ Rewrites(t, owned[t], tab)
               /\ e \in EntriesOf(ti[t], tables[ti[t]]) /\ e.key = call[t].key
               /\ EntriesOf(ti[t], tab) =
                      (EntriesOf(ti[t], tables[ti[t]]) \ {e}) \cup
                      {Entry(e.key, IF call[t].op = "update" THEN call[t].val ELSE Fn(e.val))}
<1> DEFINE hp == ti[t]
           k == call[t].key
           old == tables[hp]
<1>1. pc[t] = "locked" /\ hp \in Powers /\ Sound(hp, old) /\ table_info' = table_info
      /\ old \in Table(hp)
  BY Here DEF Update, Locked, Finish
<1>2. PICK p \in KeyPlaces(t) :
          Write(t, [old EXCEPT !.bucket[p[1]][p[2]].val =
                        IF call[t].op = "update" THEN call[t].val ELSE Fn(@)])
  BY DEF Update
<1> DEFINE b == p[1]
           s == p[2]
           e == old.bucket[b][s]
           v == IF call[t].op = "update" THEN call[t].val ELSE Fn(e.val)
           tab == [old EXCEPT !.bucket[b][s].val = v]
<1>3. /\ b \in Buckets(hp) /\ s \in Slots /\ e # Empty /\ e.key = k
      /\ LockInd(b) \in owned[t]
  BY <1>1, PlacesHere, LockTypes
<1>4. Write(t, tab)
  BY <1>2
<1> HIDE DEF b, s
<1>5. v \in Vals
  <2>1. e \in Slot
    BY <1>1, <1>3, TableFields
  <2>2. e.val \in Vals /\ call[t].val \in Vals
    BY <1>1, <1>3, <2>1, SlotFields, Here
  <2>3. QED
    BY <2>2, ValueAssumption
<1> HIDE DEF v
<1>6. /\ Sound(hp, tab) /\ EntriesOf(hp, tab) = (EntriesOf(hp, old) \ {e}) \cup {Entry(e.key, v)}
      /\ \A c \in Buckets(hp), r \in Slots : c # b => tab.bucket[c][r] = old.bucket[c][r]
  BY <1>1, <1>3, <1>5, UpdateSound
<1> HIDE DEF tab
<1>7. Rewrites(t, owned[t], tab)
  BY <1>1, <1>3, <1>4, <1>6, OwnRewrite
<1>8. e \in EntriesOf(hp, old)
  BY <1>3 DEF EntriesOf
<1>9. QED
  BY <1>3, <1>6, <1>7, <1>8 DEF v

\* A new key, put where there is room.
Inserts(t) ==
    \E tab :
        /\ Rewrites(t, owned[t], tab)
        /\ \A e \in EntriesOf(ti[t], tables[ti[t]]) : e.key # call[t].key
        /\ EntriesOf(ti[t], tab) =
               EntriesOf(ti[t], tables[ti[t]]) \cup {Entry(call[t].key, call[t].val)}

LEMMA InsertHere ==
    ASSUME IInv, NEW t \in Threads, pc[t] \in {"locked", "moved"}, KeyPlaces(t) = {},
           NEW b, NEW s \in Slots, b \in {First(ti[t], call[t].key), Second(ti[t], call[t].key)},
           tables[ti[t]].bucket[b][s] = Empty, UNCHANGED table_info,
           Write(t, Add(tables[ti[t]], b, s, call[t].key, call[t].val))
    PROVE  Inserts(t)
<1> DEFINE hp == ti[t]
           k == call[t].key
           v == call[t].val
           old == tables[hp]
           tab == Add(old, b, s, k, v)
<1>1. /\ hp \in Powers /\ Sound(hp, old) /\ k \in Keys /\ v \in Vals
      /\ \A e \in EntriesOf(hp, old) : e.key # k
  BY Here, PlacesHere
<1>2. b \in Buckets(hp) /\ LockInd(b) \in owned[t]
  BY <1>1, HashTypes, PlacesHere, LockTypes
<1>3. /\ Sound(hp, tab) /\ EntriesOf(hp, tab) = EntriesOf(hp, old) \cup {Entry(k, v)}
      /\ \A c \in Buckets(hp), r \in Slots : c # b => tab.bucket[c][r] = old.bucket[c][r]
  BY <1>1, <1>2, AddSound
<1> HIDE DEF tab
<1>4. Write(t, tab)
  BY DEF tab
<1>5. Rewrites(t, owned[t], tab)
  BY <1>2, <1>3, <1>4, OwnRewrite
<1>6. QED
  BY <1>1, <1>3, <1>5 DEF Inserts

LEMMA InsertFreeStep ==
    ASSUME IInv, NEW t \in Threads, InsertFree(t)
    PROVE  Inserts(t)
<1> DEFINE k == call[t].key
           hp == ti[t]
           b == IF EmptySlots(hp, First(hp, k)) # {} THEN First(hp, k) ELSE Second(hp, k)
           s == Lowest(EmptySlots(hp, b))
<1>1. /\ pc[t] = "locked" /\ KeyPlaces(t) = {} /\ EmptySlots(hp, b) # {}
      /\ Write(t, Add(tables[hp], b, s, k, call[t].val)) /\ table_info' = table_info
  BY DEF InsertFree, Locked, Finish
<1>2. b \in {First(hp, k), Second(hp, k)}
  OBVIOUS
<1> HIDE DEF b
<1>3. s \in EmptySlots(hp, b)
  <2>1. EmptySlots(hp, b) \subseteq Slots
    BY DEF EmptySlots
  <2>2. QED
    BY <1>1, <2>1, LowestIn
<1>4. s \in Slots /\ tables[hp].bucket[b][s] = Empty
  BY <1>3 DEF EmptySlots, Occupied
<1> HIDE DEF s
<1>5. QED
  BY <1>1, <1>2, <1>4, InsertHere

LEMMA FinishInsertStep ==
    ASSUME IInv, NEW t \in Threads, FinishInsert(t)
    PROVE  \/ Retry(t, TRUE) /\ tables' = tables
           \/ ti[t] = table_info /\ KeyPlaces(t) # {} /\ Duplicate(t) /\ tables' = tables
           \/ ti[t] = table_info /\ Inserts(t) /\ Finish(t, "ok")
<1> DEFINE rec == path[t].recs[1]
<1>1. CASE ti[t] # table_info
  BY <1>1 DEF FinishInsert
<1>2. CASE ti[t] = table_info /\ AlreadyInserted(t)
  BY <1>2 DEF FinishInsert, AlreadyInserted
<1>3. CASE ti[t] = table_info /\ ~AlreadyInserted(t)
  <2>1. /\ Write(t, Add(tables[ti[t]], rec.b, rec.s, call[t].key, call[t].val))
        /\ Finish(t, "ok") /\ pc[t] = "moved" /\ KeyPlaces(t) = {} /\ table_info' = table_info
    BY <1>3 DEF FinishInsert, AlreadyInserted, Finish
  <2>2. /\ rec.b \in {First(ti[t], call[t].key), Second(ti[t], call[t].key)}
        /\ rec.s \in Slots /\ tables[ti[t]].bucket[rec.b][rec.s] = Empty
    BY <2>1, PathHere, Here DEF Emptied
  <2>3. Inserts(t)
    BY <2>1, <2>2, InsertHere
  <2>4. QED
    BY <1>3, <2>1, <2>3
<1>4. QED
  BY <1>1, <1>2, <1>3

LEMMA ClearStep ==
    ASSUME IInv, NEW t \in Threads, Clear(t)
    PROVE  \E tab : Rewrites(t, owned[t], tab) /\ EntriesOf(ti[t], tab) = {}
<1> DEFINE hp == ti[t]
           tab == [bucket |-> [b \in Buckets(hp) |-> [s \in Slots |-> Empty]],
                   inserts |-> 0, deletes |-> 0]
<1>1. /\ hp \in Powers /\ owned[t] = AllLocks /\ table_info' = table_info
  BY Here DEF Clear, Finish, Local, Holding
<1>2. Sound(hp, tab) /\ EntriesOf(hp, tab) = {}
  BY <1>1, EmptySound
<1>3. Write(t, tab)
  BY DEF Clear
<1> HIDE DEF tab
<1>4. \A b \in Buckets(hp) : LockInd(b) \in owned[t]
  BY <1>1, LockTypes
<1>5. Rewrites(t, owned[t], tab)
  BY <1>1, <1>2, <1>3, <1>4, OwnFree DEF Rewrites, Write
<1>6. QED
  BY <1>2, <1>5

LEMMA PublishStep ==
    ASSUME IInv, NEW t \in Threads, Publish(t)
    PROVE  /\ ti[t] = table_info /\ owned[t] = AllLocks
           /\ \E n \in Powers : \E tab :
                 /\ n > table_info /\ table_info' = n
                 /\ tables' = [tables EXCEPT ![n] = tab]
                 /\ Sound(n, tab) /\ EntriesOf(n, tab) = EntriesOf(ti[t], tables[ti[t]])
<1> DEFINE hp == ti[t]
           old == tables[hp]
<1>1. /\ pc[t] = "all_locked" /\ hp \in Powers /\ hp \in Nat /\ hp = table_info
      /\ Sound(hp, old) /\ want[t] \in Nat /\ ~(want[t] <= hp) /\ owned[t] = AllLocks
  BY Here DEF Publish, LargeEnough, Recent, IInv, Typed, Local, Holding
<1>2. PICK n \in want[t] .. MaxPower :
          /\ \E tab \in NewTables(n, Collected(hp)) : tables' = [tables EXCEPT ![n] = tab]
          /\ table_info' = n
  BY DEF Publish
<1>3. PICK tab \in NewTables(n, Collected(hp)) : tables' = [tables EXCEPT ![n] = tab]
  BY <1>2
<1>4. n \in Powers /\ n > hp
  BY <1>1, <1>2, PowerTypes, SizeAssumption
<1>5. Collected(hp) = EntriesOf(hp, old)
  BY <1>1, CollectedAll
<1>6. /\ IsFiniteSet(EntriesOf(hp, old))
      /\ \A e \in EntriesOf(hp, old) : e \in Slot /\ e # Empty
      /\ \A d, e \in EntriesOf(hp, old) : d.key = e.key => d = e
  <2>1. \A b \in Buckets(hp), s \in Slots : old.bucket[b][s] \in Slot
    BY <1>1, TableFields DEF Sound
  <2>2. \A d, e \in EntriesOf(hp, old) : d.key = e.key => d = e
    BY <1>1, SameKey
  <2>3. QED
    BY <1>1, <2>1, <2>2 DEF Sound, Counted, EntriesOf
<1>7. Sound(n, tab) /\ EntriesOf(n, tab) = EntriesOf(hp, old)
  BY <1>3, <1>4, <1>5, <1>6, NewSound
<1>8. QED
  BY <1>3, <1>1, <1>2, <1>4, <1>7
-----------------------------------------------------------------------------
\* The new table of an expansion.
Publishes(t) ==
    /\ ti[t] = table_info /\ owned[t] = AllLocks
    /\ \E n \in Powers : \E tab :
          /\ n > table_info /\ table_info' = n
          /\ tables' = [tables EXCEPT ![n] = tab]
          /\ Sound(n, tab) /\ EntriesOf(n, tab) = EntriesOf(ti[t], tables[ti[t]])

\* What a step of t does to the tables, to the locks and to itself.
TablesAfter(t) ==
    \/ tables' = tables /\ table_info' = table_info
    \/ \E locks, tab : Rewrites(t, locks, tab)
    \/ Publishes(t)

LocksAfter(t) == owned'[t] = {} \/ (ti'[t] = ti[t] /\ Free(t, owned'[t]))

After(t) == Local(t)' /\ Recent(t)' /\ Emptied(t)' /\ TablesAfter(t) /\ LocksAfter(t)

\* A thread that ends elsewhere than where its table is the current one.
LEMMA AwayStep ==
    ASSUME IInv, NEW t \in Threads, Local(t)', TablesAfter(t),
           pc'[t] \notin {"locked", "all_locked", "moved", "published"},
           ti'[t] = ti[t] \/ (ti'[t] = table_info /\ table_info' = table_info)
    PROVE  After(t)
<1>1. owned'[t] = {}
  BY DEF Local, Holding
<1>2. table_info \in Int /\ table_info' \in Int /\ table_info <= table_info'
  <2>1. table_info \in Int /\ \A n \in Powers : n \in Int
    BY Here, PowerTypes
  <2>2. table_info' = table_info \/ \E n \in Powers : n > table_info /\ table_info' = n
    BY DEF TablesAfter, Rewrites, Publishes
  <2>3. QED
    BY <2>1, <2>2
<1>3. ti'[t] <= table_info'
  <2>1. ti[t] <= table_info /\ ti[t] \in Int
    BY Here DEF Recent
  <2>2. QED
    BY <1>2, <2>1
<1>4. Recent(t)' /\ Emptied(t)'
  BY <1>3 DEF Recent, Emptied
<1>5. QED
  BY <1>1, <1>4 DEF After, LocksAfter

LEMMA CallStep ==
    ASSUME IInv, NEW t \in Threads, Call(t)
    PROVE  After(t)
<1>1. /\ pc'[t] = "snapshot" /\ ti'[t] = ti[t] /\ owned'[t] = {}
      /\ call'[t] \in Callings /\ tables' = tables /\ table_info' = table_info
  <2>1. PICK c \in Requests(t) : call' = [call EXCEPT ![t] = c]
    BY DEF Call
  <2>2. c \in Callings
    BY RequestAssumption DEF Callings
  <2>3. QED
    BY <2>1, <2>2, Here DEF Call, Goto, Domains, Local, Holding
<1>2. QED
  BY <1>1, SnapshotStep, AwayStep DEF TablesAfter

LEMMA TakenStep ==
    ASSUME IInv, NEW t \in Threads, Snapshot(t) \/ ExpandSnapshot(t)
    PROVE  After(t)
<1>1. /\ ti'[t] = table_info /\ tables' = tables /\ table_info' = table_info
      /\ owned'[t] = {} /\ call[t] \in Callings
      /\ pc[t] = "expand" => call[t].op \in {"insert", "upsert", "clear", "rehash"}
  <2>1. /\ pc[t] \in {"snapshot", "expand"} /\ ti' = [ti EXCEPT ![t] = table_info]
        /\ tables' = tables /\ table_info' = table_info /\ owned' = owned
    BY DEF Snapshot, ExpandSnapshot, map
  <2>2. owned[t] = {} /\ call[t] \in Callings
    BY <2>1, Here DEF Local, Holding
  <2>3. pc[t] = "expand" => call[t].op \in {"insert", "upsert", "clear", "rehash"}
    BY Here DEF Local, Calling
  <2>4. QED
    BY <2>1, <2>2, <2>3, Here DEF Domains
<1>2. CASE pc'[t] = "idle"
  BY <1>1, <1>2, IdleStep, AwayStep DEF TablesAfter
<1>3. CASE pc'[t] = "lock_two" /\ call'[t] = call[t] /\ call[t].op \notin {"clear", "rehash"}
  BY <1>1, <1>3, AwayStep DEF TablesAfter, Local, Calling, Searching, Pathing, Holding
<1>4. CASE /\ pc'[t] = "lock_all" /\ call'[t] = call[t]
           /\ call[t].op \in {"insert", "upsert", "clear", "rehash"}
  BY <1>1, <1>4, AwayStep DEF TablesAfter, Local, Calling, Searching, Pathing, Holding
<1>5. CASE Snapshot(t)
  <2>1. CASE call[t].op = "rehash" /\ want[t] <= table_info
    <3>1. pc'[t] = "idle"
      BY <1>5, <2>1, Here DEF Snapshot, Return, Goto, Domains
    <3>2. QED
      BY <1>2, <3>1
  <2>2. CASE ~(call[t].op = "rehash" /\ want[t] <= table_info)
    <3>1. call' = call /\ pc'[t] = (IF call[t].op \in {"clear", "rehash"} THEN "lock_all" ELSE "lock_two")
      BY <1>5, <2>2, Here DEF Snapshot, Goto, Domains
    <3>2. QED
      BY <1>3, <1>4, <3>1
  <2>3. QED
    BY <2>1, <2>2
<1>6. CASE ExpandSnapshot(t)
  <2>1. pc'[t] = "lock_all" /\ call' = call /\ pc[t] = "expand"
    BY <1>6, Here DEF ExpandSnapshot, Goto, Domains
  <2>2. QED
    BY <1>1, <1>4, <2>1
<1>7. QED
  BY <1>5, <1>6

LEMMA LockTwoStep ==
    ASSUME IInv, NEW t \in Threads, LockTwo(t)
    PROVE  After(t)
<1> DEFINE locks == TwoLocks(ti[t], call[t].key)
<1>1. /\ ti'[t] = ti[t] /\ tables' = tables /\ table_info' = table_info
      /\ call'[t] = call[t] /\ call[t] \in Callings /\ owned[t] = {}
      /\ call[t].op \notin {"clear", "rehash"} /\ Free(t, locks)
  BY Here DEF LockTwo, Local, Holding, Calling
<1>2. CASE Current(t)
  <2>1. pc'[t] = "locked" /\ owned'[t] = locks
    BY <1>2, Here DEF LockTwo, Own, Goto, Domains
  <2>2. Local(t)'
    BY <1>1, <2>1 DEF Local, Calling, Searching, Pathing, Holding
  <2>3. Recent(t)'
    BY <1>1, <1>2, <2>1, Here DEF Recent, Current
  <2>4. Emptied(t)' /\ TablesAfter(t) /\ LocksAfter(t)
    BY <1>1, <2>1 DEF Emptied, TablesAfter, LocksAfter
  <2>5. QED
    BY <2>2, <2>3, <2>4 DEF After
<1>3. CASE ~Current(t)
  <2>1. pc'[t] = "snapshot" /\ owned'[t] = {}
    BY <1>1, <1>3, Here DEF LockTwo, Goto, Domains
  <2>2. QED
    BY <1>1, <2>1, SnapshotStep, AwayStep DEF TablesAfter
<1>4. QED
  BY <1>2, <1>3

LEMMA LockAllStep ==
    ASSUME IInv, NEW t \in Threads, LockAll(t)
    PROVE  After(t)
<1>1. /\ ti'[t] = ti[t] /\ tables' = tables /\ table_info' = table_info
      /\ call'[t] = call[t] /\ call[t] \in Callings /\ owned[t] = {}
      /\ call[t].op \in {"insert", "upsert", "clear", "rehash"} /\ Free(t, AllLocks)
  BY Here DEF LockAll, Local, Holding, Calling
<1>2. CASE Current(t)
  <2>1. pc'[t] = "all_locked" /\ owned'[t] = AllLocks
    BY <1>2, Here DEF LockAll, Own, Goto, Domains
  <2>2. Local(t)'
    BY <1>1, <2>1 DEF Local, Calling, Searching, Pathing, Holding
  <2>3. Recent(t)'
    BY <1>1, <1>2, <2>1, Here DEF Recent, Current
  <2>4. Emptied(t)' /\ TablesAfter(t) /\ LocksAfter(t)
    BY <1>1, <2>1 DEF Emptied, TablesAfter, LocksAfter
  <2>5. QED
    BY <2>2, <2>3, <2>4 DEF After
<1>3. CASE ~Current(t)
  <2>1. pc'[t] = "expand" /\ owned'[t] = {}
    BY <1>1, <1>3, Here DEF LockAll, Goto, Domains
  <2>2. Local(t)'
    BY <1>1, <2>1 DEF Local, Calling, Searching, Pathing, Holding
  <2>3. QED
    BY <1>1, <2>1, <2>2, AwayStep DEF TablesAfter
<1>4. QED
  BY <1>2, <1>3

\* The steps that end a call or start it over.
LEMMA EndStep ==
    ASSUME IInv, NEW t \in Threads, pc[t] # "idle", TablesAfter(t),
           (\E r : Finish(t, r)) \/ (\E b : Retry(t, b)) \/ Duplicate(t)
    PROVE  After(t)
<1>1. Local(t)' /\ pc'[t] \in {"idle", "snapshot"}
  BY Here, FinishStep, RetryStep, DuplicateStep
<1>2. ti'[t] = ti[t]
  BY DEF Finish, Retry, Duplicate
<1>3. QED
  BY <1>1, <1>2, AwayStep

LEMMA MovingStep ==
    ASSUME IInv, NEW t \in Threads, MoveNothing(t) \/ Move(t)
    PROVE  After(t)
<1>1. ti'[t] = ti[t] /\ table_info' = table_info /\ Domains
  BY Here DEF MoveNothing, Move
<1>2. Local(t)' /\ pc'[t] \notin {"locked", "all_locked", "idle"}
  BY MoveNothingStep, MoveStep
<1>3. Recent(t)'
  BY <1>1, <1>2, Here DEF Recent
<1>4. CASE MoveNothing(t)
  <2>1. tables' = tables
    BY <1>4 DEF MoveNothing
  <2>2. Emptied(t)'
    BY <1>1, <1>4, <2>1, MoveNothingStep DEF Emptied, StillEmpty, Occupied
  <2>3. LocksAfter(t)
    <3>1. \/ owned' = [owned EXCEPT ![t] = TwoLocks(ti[t], call[t].key)]
          \/ owned' = owned
      BY <1>4 DEF MoveNothing, Own
    <3>2. owned[t] = {} /\ Free(t, TwoLocks(ti[t], call[t].key))
      BY <1>4, Here DEF MoveNothing, Local, Holding
    <3>3. QED
      BY <1>1, <3>1, <3>2 DEF LocksAfter, Domains
  <2>4. QED
    BY <1>1, <1>2, <1>3, <2>1, <2>2, <2>3 DEF After, TablesAfter
<1>5. CASE Move(t)
  <2>1. CASE pc'[t] # "moved" /\ tables' = tables
    <3>1. pc'[t] # "published"
      BY <1>5, Here DEF Move, Again, StartSearch, Continue, Goto, Domains
    <3>2. QED
      BY <1>1, <1>2, <2>1, <3>1, AwayStep DEF TablesAfter
  <2>2. CASE \E locks, tab :
                /\ Rewrites(t, locks, tab)
                /\ owned'[t] \subseteq locks
                /\ pc'[t] = "moved" =>
                      LET rec == path'[t].recs[1] IN tab.bucket[rec.b][rec.s] = Empty
    <3>1. PICK locks, tab :
                /\ Rewrites(t, locks, tab)
                /\ owned'[t] \subseteq locks
                /\ pc'[t] = "moved" =>
                      tab.bucket[path'[t].recs[1].b][path'[t].recs[1].s] = Empty
      BY <2>2
    <3>2. LocksAfter(t)
      BY <1>1, <3>1 DEF LocksAfter, Rewrites, Free
    <3>3. tables'[ti[t]] = tab
      BY <3>1, Here DEF Rewrites, IInv, TypeOK
    <3>4. Emptied(t)'
      BY <1>1, <3>1, <3>3 DEF Emptied
    <3>5. QED
      BY <1>2, <1>3, <3>1, <3>2, <3>4 DEF After, TablesAfter
  <2>3. QED
    BY <1>5, <2>1, <2>2, MoveStep
<1>6. QED
  BY <1>4, <1>5

LEMMA PublishedStep ==
    ASSUME IInv, NEW t \in Threads, Publish(t)
    PROVE  After(t)
<1>1. Publishes(t)
  BY PublishStep DEF Publishes
<1>2. /\ pc'[t] = "published" /\ pc[t] = "all_locked" /\ call'[t] = call[t]
      /\ owned'[t] = owned[t] /\ ti'[t] = ti[t] /\ call[t].op # "clear" /\ owned[t] = AllLocks
  BY <1>1, Here DEF Publish, Publishes, Goto, Domains
<1>3. Local(t)'
  BY <1>2, Here DEF Local, Calling, Searching, Pathing, Holding
<1>4. Recent(t)'
  <2>1. PICK n \in Powers : n > table_info /\ table_info' = n
    BY <1>1 DEF Publishes
  <2>2. n \in Int /\ table_info \in Int /\ ti[t] = table_info
    BY <1>1, Here, PowerTypes DEF Publishes
  <2>3. QED
    BY <1>2, <2>1, <2>2 DEF Recent
<1>5. Emptied(t)' /\ LocksAfter(t)
  BY <1>2, OwnFree DEF Emptied, LocksAfter
<1>6. QED
  BY <1>1, <1>3, <1>4, <1>5 DEF After, TablesAfter

LEMMA EachStep ==
    ASSUME IInv, NEW t \in Threads, Call(t) \/ Step(t)
    PROVE  After(t)
<1>1. CASE Call(t)
  BY <1>1, CallStep
<1>2. CASE Snapshot(t) \/ ExpandSnapshot(t)
  BY <1>2, TakenStep
<1>3. CASE LockTwo(t) \/ LockAll(t)
  BY <1>3, LockTwoStep, LockAllStep
<1>4. CASE Find(t) \/ NotFound(t) \/ InsertDuplicate(t)
  <2>1. /\ tables' = tables /\ table_info' = table_info /\ pc[t] # "idle"
        /\ (\E r : Finish(t, r)) \/ Duplicate(t)
    BY <1>4 DEF Find, NotFound, InsertDuplicate, Locked, Duplicate, Finish, Retry
  <2>2. QED
    BY <2>1, EndStep DEF TablesAfter
<1>5. CASE Erase(t) \/ Update(t) \/ InsertFree(t) \/ Clear(t)
  <2>1. pc[t] # "idle" /\ Finish(t, "ok")
    BY <1>5 DEF Erase, Update, InsertFree, Clear, Locked
  <2>2. \E locks, tab : Rewrites(t, locks, tab)
    BY <1>5, EraseStep, UpdateStep, InsertFreeStep, ClearStep DEF Inserts
  <2>3. QED
    BY <2>1, <2>2, EndStep DEF TablesAfter
<1>6. CASE InsertFull(t) \/ SearchSlot(t) \/ SearchAlt(t) \/ ReadPath(t)
  <2>1. Local(t)' /\ pc'[t] \notin {"locked", "all_locked", "moved"}
    BY <1>6, InsertFullStep, SearchSlotStep, SearchAltStep, ReadPathStep
  <2>2. tables' = tables /\ table_info' = table_info /\ ti'[t] = ti[t]
    BY <1>6 DEF InsertFull, SearchSlot, SearchAlt, ReadPath
  <2>3. pc'[t] # "published"
    BY <1>6, Here DEF InsertFull, SearchSlot, SearchAlt, ReadPath, StartSearch, Continue,
                      FoundPath, Goto, Domains
  <2>4. QED
    BY <2>1, <2>2, <2>3, AwayStep DEF TablesAfter
<1>7. CASE MoveNothing(t) \/ Move(t)
  BY <1>7, MovingStep
<1>8. CASE FinishInsert(t)
  <2>1. pc[t] # "idle" /\ table_info' = table_info
    BY <1>8 DEF FinishInsert, Retry, Duplicate, Finish
  <2>2. /\ (\E r : Finish(t, r)) \/ (\E b : Retry(t, b)) \/ Duplicate(t)
        /\ tables' = tables \/ \E locks, tab : Rewrites(t, locks, tab)
    BY <1>8, FinishInsertStep DEF Inserts
  <2>3. QED
    BY <2>1, <2>2, EndStep DEF TablesAfter
<1>9. CASE ExpandLate(t) \/ Release(t)
  <2>1. /\ pc[t] # "idle" /\ tables' = tables /\ table_info' = table_info
        /\ (\E r : Finish(t, r)) \/ (\E b : Retry(t, b))
    BY <1>9 DEF ExpandLate, Release, Finish, Retry
  <2>2. QED
    BY <2>1, EndStep DEF TablesAfter
<1>10. CASE Publish(t)
  BY <1>10, PublishedStep
<1>11. QED
  BY <1>1, <1>2, <1>3, <1>4, <1>5, <1>6, <1>7, <1>8, <1>9, <1>10 DEF Step
-----------------------------------------------------------------------------
\* The tables after a step.
LEMMA TablesStep ==
    ASSUME IInv, NEW t \in Threads, TablesAfter(t)
    PROVE  /\ table_info' \in Powers /\ DOMAIN tables' = Powers
           /\ table_info <= table_info'
           /\ \A hp \in Powers :
                 /\ tables'[hp] \in Table(hp) \cup {Empty}
                 /\ tables'[hp] # Empty => Sound(hp, tables'[hp])
                 /\ tables[hp] # Empty => tables'[hp] # Empty
           /\ tables'[table_info'] # Empty
<1>1. /\ table_info \in Powers /\ DOMAIN tables = Powers /\ tables[table_info] # Empty
      /\ ti[t] \in Powers /\ tables[ti[t]] # Empty
      /\ \A hp \in Powers : /\ tables[hp] \in Table(hp) \cup {Empty}
                            /\ tables[hp] # Empty => Sound(hp, tables[hp])
  BY DEF IInv, TypeOK, AllSound
<1>2. \A n \in Powers : n \in Int
  BY PowerTypes
<1>3. ASSUME NEW n \in Powers, NEW tab, Sound(n, tab), tables' = [tables EXCEPT ![n] = tab]
      PROVE  /\ DOMAIN tables' = Powers /\ tables'[n] # Empty
             /\ \A hp \in Powers :
                   /\ tables'[hp] \in Table(hp) \cup {Empty}
                   /\ tables'[hp] # Empty => Sound(hp, tables'[hp])
                   /\ tables[hp] # Empty => tables'[hp] # Empty
  <2>1. tab \in Table(n) /\ tab # Empty
    BY <1>3, ValueAssumption DEF Sound
  <2>2. /\ DOMAIN tables' = Powers /\ tables'[n] = tab
        /\ \A hp \in Powers : hp # n => tables'[hp] = tables[hp]
    BY <1>1, <1>3
  <2>3. QED
    BY <1>1, <1>3, <2>1, <2>2
<1>4. CASE tables' = tables /\ table_info' = table_info
  BY <1>1, <1>2, <1>4
<1>5. CASE \E locks, tab : Rewrites(t, locks, tab)
  <2>1. PICK locks, tab : Rewrites(t, locks, tab)
    BY <1>5
  <2>2. /\ Sound(ti[t], tab) /\ tables' = [tables EXCEPT ![ti[t]] = tab]
        /\ table_info' = table_info
    BY <2>1 DEF Rewrites
  <2>3. /\ DOMAIN tables' = Powers /\ tables'[ti[t]] # Empty
        /\ \A hp \in Powers :
              /\ tables'[hp] \in Table(hp) \cup {Empty}
              /\ tables'[hp] # Empty => Sound(hp, tables'[hp])
              /\ tables[hp] # Empty => tables'[hp] # Empty
    BY <1>1, <1>3, <2>2
  <2>4. table_info <= table_info'
    BY <1>1, <1>2, <2>2
  <2>5. QED
    BY <1>1, <2>2, <2>3, <2>4, Zenon
<1>6. CASE Publishes(t)
  <2>1. PICK n \in Powers : \E tab :
            /\ n > table_info /\ table_info' = n
            /\ tables' = [tables EXCEPT ![n] = tab] /\ Sound(n, tab)
    BY <1>6 DEF Publishes
  <2>2. PICK tab : /\ n > table_info /\ table_info' = n
                   /\ tables' = [tables EXCEPT ![n] = tab] /\ Sound(n, tab)
    BY <2>1
  <2>3. /\ DOMAIN tables' = Powers /\ tables'[n] # Empty
        /\ \A hp \in Powers :
              /\ tables'[hp] \in Table(hp) \cup {Empty}
              /\ tables'[hp] # Empty => Sound(hp, tables'[hp])
              /\ tables[hp] # Empty => tables'[hp] # Empty
    BY <1>3, <2>2
  <2>4. table_info <= table_info'
    BY <1>1, <1>2, <2>2
  <2>5. QED
    BY <2>2, <2>3, <2>4, Zenon
<1>7. QED
  BY <1>4, <1>5, <1>6 DEF TablesAfter

\* The other threads after a step.
LEMMA OthersStep ==
    ASSUME IInv, NEW t \in Threads, TablesAfter(t), NEW u \in Threads, u # t, Unmoved(u)
    PROVE  Local(u)' /\ Recent(u)' /\ Emptied(u)'
<1>1. Local(u) /\ Recent(u) /\ Emptied(u) /\ ti[u] \in Powers /\ ti[u] \in Nat
      /\ table_info \in Int /\ tables[ti[u]] # Empty
  BY Here DEF IInv, TypeOK
<1>2. Local(u)'
  <2>1. Calling(u)' /\ Searching(u)' /\ Pathing(u)' /\ Holding(u)'
    BY <1>1 DEF Unmoved, Local, Calling, Searching, Pathing, Holding
  <2>2. QED
    BY <2>1 DEF Local
<1>3. table_info <= table_info' /\ table_info' \in Int
  BY TablesStep, PowerTypes
<1>4. ti'[u] <= table_info'
  BY <1>1, <1>3 DEF Recent, Unmoved
<1>5. Publishes(t) => pc[u] \notin {"locked", "all_locked"}
  <2>1. SUFFICES ASSUME Publishes(t), pc[u] \in {"locked", "all_locked"} PROVE FALSE
    OBVIOUS
  <2>2. ti[t] = table_info /\ owned[t] = AllLocks /\ ti[u] = table_info
    BY <1>1, <2>1 DEF Publishes, Recent
  <2>3. owned[u] # {} /\ owned[u] \subseteq AllLocks
    <3>1. call[u].key \in Keys
      BY <2>1, Here
    <3>2. owned[u] \in {TwoLocks(ti[u], call[u].key), AllLocks}
      BY <1>1, <2>1 DEF Local, Holding
    <3>3. QED
      BY <1>1, <3>1, <3>2, LockTypes
  <2>4. owned[t] \cap owned[u] = {}
    BY <2>2 DEF IInv, Exclusive
  <2>5. QED
    BY <2>2, <2>3, <2>4
<1>6. Recent(u)'
  <2>1. table_info' # table_info => Publishes(t)
    BY DEF TablesAfter, Rewrites
  <2>2. QED
    BY <1>1, <1>4, <1>5, <2>1 DEF Recent, Unmoved
<1>7. Emptied(u)'
  <2>1. SUFFICES ASSUME pc[u] = "moved"
                 PROVE  LET rec == path[u].recs[1]
                        IN tables'[ti[u]].bucket[rec.b][rec.s] = Empty
    BY DEF Emptied, Unmoved
  <2> DEFINE rec == path[u].recs[1]
             hp == ti[u]
  <2>2. /\ tables[hp].bucket[rec.b][rec.s] = Empty
        /\ rec.b \in Buckets(hp) /\ rec.s \in Slots /\ call[u].key \in Keys
        /\ rec.b \in {First(hp, call[u].key), Second(hp, call[u].key)}
        /\ owned[u] = TwoLocks(hp, call[u].key)
    BY <1>1, <2>1, PathHere, Here DEF Emptied, Local, Holding
  <2>3. LockInd(rec.b) \in owned[u]
    BY <1>1, <2>2, LockTypes
  <2> SUFFICES tables'[hp].bucket[rec.b][rec.s] = Empty
    OBVIOUS
  <2> HIDE DEF rec
  <2>4. CASE tables' = tables
    BY <2>2, <2>4
  <2>5. CASE \E locks, tab : Rewrites(t, locks, tab)
    <3>1. PICK locks, tab : Rewrites(t, locks, tab)
      BY <2>5
    <3>2. CASE ti[t] = hp
      <4>1. LockInd(rec.b) \notin locks
        BY <2>3, <3>1, <3>2 DEF Rewrites, Free
      <4>2. tab.bucket[rec.b][rec.s] = tables[hp].bucket[rec.b][rec.s]
        BY <2>2, <3>1, <3>2, <4>1 DEF Rewrites
      <4>3. tables'[hp] = tab
        BY <1>1, <3>1, <3>2 DEF Rewrites, IInv, TypeOK
      <4>4. QED
        BY <2>2, <4>2, <4>3
    <3>3. CASE ti[t] # hp
      <4>1. tables'[hp] = tables[hp]
        BY <1>1, <3>1, <3>3 DEF Rewrites, IInv, TypeOK
      <4>2. QED
        BY <2>2, <4>1
    <3>4. QED
      BY <3>2, <3>3
  <2>6. CASE Publishes(t)
    <3>1. PICK n \in Powers : \E tab : n > table_info /\ tables' = [tables EXCEPT ![n] = tab]
      BY <2>6 DEF Publishes
    <3>2. n # hp
      BY <1>1, <3>1, PowerTypes DEF Recent
    <3>3. tables'[hp] = tables[hp]
      BY <1>1, <3>1, <3>2 DEF IInv, TypeOK
    <3>4. QED
      BY <2>2, <3>3
  <2>7. QED
    BY <2>4, <2>5, <2>6 DEF TablesAfter
<1>8. QED
  BY <1>2, <1>6, <1>7

LEMMA InitInv == Init => IInv
<1> SUFFICES ASSUME Init PROVE IInv
  OBVIOUS
<1>1. PICK entries \in Layouts :
          tables = [hp \in Powers |-> IF hp = InitPower THEN Filled(hp, entries) ELSE Empty]
  BY DEF Init
<1>2. InitPower \in Powers /\ InitPower \in Int
  BY PowerTypes
<1>3. Sound(InitPower, Filled(InitPower, entries))
  BY FilledSound
<1>4. Filled(InitPower, entries) \in Table(InitPower) /\ Filled(InitPower, entries) # Empty
  BY <1>2, <1>3, ValueAssumption DEF Sound
<1>5. TypeOK
  BY <1>1, <1>2, <1>4, RequestAssumption DEF Init, TypeOK, Labels
<1>6. Typed
  BY DEF Init, Typed
<1>7. ASSUME NEW t \in Threads PROVE Local(t) /\ Recent(t) /\ Emptied(t)
  <2>1. pc[t] = "idle" /\ owned[t] = {} /\ ti[t] = InitPower /\ table_info = InitPower
    BY DEF Init
  <2>2. QED
    BY <1>2, <2>1 DEF Local, Calling, Searching, Pathing, Holding, Recent, Emptied
<1>8. Exclusive
  BY DEF Init, Exclusive
<1>9. AllSound
  BY <1>1, <1>3 DEF AllSound
<1>10. QED
  BY <1>5, <1>6, <1>7, <1>8, <1>9 DEF IInv

LEMMA StepInv == IInv /\ [Next]_vars => IInv'
<1> SUFFICES ASSUME IInv, [Next]_vars PROVE IInv'
  OBVIOUS
<1>1. CASE UNCHANGED vars
  BY <1>1 DEF vars, IInv, TypeOK, Typed, Local, Calling, Searching, Pathing, Holding, Recent,
              Emptied, Exclusive, AllSound, Sound, InOwn, Once, Counted
<1>2. ASSUME NEW t \in Threads, Call(t) \/ Step(t) PROVE IInv'
  <2>1. After(t) /\ TablesAfter(t) /\ ThreadTypes'
    BY <1>2, EachStep, TypeStep DEF After
  <2>2. \A u \in Threads \ {t} : Unmoved(u)
    BY <1>2, OthersStay, InDomains
  <2>3. \A u \in Threads : Local(u)' /\ Recent(u)' /\ Emptied(u)'
    BY <2>1, <2>2, OthersStep DEF After
  <2>4. TypeOK' /\ Typed'
    <3>1. \A u \in Threads : ti'[u] \in Powers /\ tables'[ti'[u]] # Empty
      <4>1. \A u \in Threads : ti[u] \in Powers /\ tables[ti[u]] # Empty
        BY DEF IInv, TypeOK
      <4>2. \A u \in Threads \ {t} : ti'[u] = ti[u]
        BY <2>2 DEF Unmoved
      <4>3. table_info \in Powers /\ tables[table_info] # Empty
        BY DEF IInv, TypeOK
      <4>4. ti'[t] = ti[t] \/ ti'[t] = table_info
        BY <1>2, InDomains DEF Call, Step, Snapshot, LockTwo, Find, NotFound, Erase, Update,
           InsertDuplicate, InsertFree, InsertFull, SearchSlot, SearchAlt, ReadPath,
           MoveNothing, Move, FinishInsert, ExpandSnapshot, LockAll, Clear, ExpandLate,
           Publish, Release, Finish, Retry, Duplicate, Domains
      <4>5. QED
        BY <2>1, <4>1, <4>2, <4>3, <4>4, TablesStep
    <3>2. QED
      BY <2>1, <3>1, TablesStep DEF TypeOK, ThreadTypes
  <2>5. Exclusive'
    <3>1. SUFFICES ASSUME NEW u \in Threads, NEW v \in Threads, u # v, ti'[u] = ti'[v]
                   PROVE  owned'[u] \cap owned'[v] = {}
      BY DEF Exclusive
    <3>2. CASE u # t /\ v # t
      BY <2>2, <3>1, <3>2 DEF Unmoved, IInv, Exclusive
    <3>3. ASSUME NEW w \in Threads \ {t}, ti'[w] = ti'[t] PROVE owned'[t] \cap owned'[w] = {}
      BY <2>1, <2>2, <3>3 DEF After, LocksAfter, Free, Unmoved
    <3>4. QED
      BY <3>1, <3>2, <3>3
  <2>6. AllSound'
    <3>1. \A hp \in Powers : tables'[hp] # Empty => Sound(hp, tables'[hp])
      BY <2>1, TablesStep
    <3>2. QED
      BY <3>1 DEF AllSound, Sound, InOwn, Once, Counted
  <2>7. QED
    BY <2>3, <2>4, <2>5, <2>6 DEF IInv
<1>3. QED
  BY <1>1, <1>2 DEF Next, Finished
-----------------------------------------------------------------------------
THEOREM Invariance == Spec => []IInv
<1>1. QED
  BY InitInv, StepInv, PTL DEF Spec

\* Every table is well typed, and the table each thread works on exists.
THEOREM Typing == Spec => []TypeOK
<1>1. IInv => TypeOK
  BY DEF IInv
<1>2. QED
  BY <1>1, Invariance, PTL

\* Whatever is displaced or expanded, a key is in one of its own two buckets.
THEOREM OwnBucketsHolds == Spec => []OwnBuckets
<1>1. IInv => OwnBuckets
  <2>1. SUFFICES ASSUME IInv, NEW hp \in Powers, tables[hp] # Empty,
                        NEW b \in Buckets(hp), NEW s \in Slots, tables[hp].bucket[b][s] # Empty
                 PROVE  LET e == tables[hp].bucket[b][s]
                        IN /\ b \in {First(hp, e.key), Second(hp, e.key)}
                           /\ e.partial = PartialKey(e.key)
    BY DEF OwnBuckets, Occupied
  <2>2. InOwn(hp, tables[hp])
    BY <2>1 DEF IInv, AllSound, Sound
  <2>3. QED
    BY <2>1, <2>2 DEF InOwn
<1>2. QED
  BY <1>1, Invariance, PTL

\* No key is ever in two slots of a table.
THEOREM NoDuplicatesHolds == Spec => []NoDuplicates
<1>1. IInv => NoDuplicates
  BY DEF IInv, AllSound, Sound, Once, NoDuplicates, Occupied
<1>2. QED
  BY <1>1, Invariance, PTL

\* Inserts minus deletes is the number of entries.
THEOREM SizeExactHolds == Spec => []SizeExact
<1>1. IInv => SizeExact
  <2>1. SUFFICES ASSUME IInv PROVE SizeExact
    OBVIOUS
  <2>2. Counted(table_info, tables[table_info])
    BY <2>1 DEF IInv, TypeOK, AllSound, Sound
  <2>3. QED
    BY <2>2 DEF Counted, EntriesOf, SizeExact, Entries
<1>2. QED
  BY <1>1, Invariance, PTL

\* When a path was cleared, its thread holds both of the key's buckets, and
\* the slot freed is in one of them and still empty.
THEOREM ReadyHolds == Spec => []ReadyToInsert
<1>1. IInv => ReadyToInsert
  <2>1. SUFFICES ASSUME IInv, NEW t \in Threads, pc[t] = "moved"
                 PROVE  LET rec == path[t].recs[1] IN
                        /\ owned[t] = TwoLocks(ti[t], call[t].key)
                        /\ rec.b \in {First(ti[t], call[t].key), Second(ti[t], call[t].key)}
                        /\ ~Occupied(ti[t], rec.b, rec.s)
    BY DEF ReadyToInsert
  <2>2. QED
    BY <2>1, PathHere, Here DEF Local, Holding, Emptied, Occupied
<1>2. QED
  BY <1>1, Invariance, PTL

\* An insert that expands asks for at most one hashpower more than it sees.
AskingOne(t) ==
    pc[t] \in {"expand", "lock_all", "all_locked"} /\ call[t].op \in {"insert", "upsert"}
        => want[t] <= ti[t] + 1

LEMMA AskingStep ==
    ASSUME IInv, NEW t \in Threads, AskingOne(t), Call(t) \/ Step(t)
    PROVE  AskingOne(t)'
<1>1. ASSUME pc'[t] \notin {"expand", "lock_all", "all_locked"} PROVE AskingOne(t)'
  BY <1>1 DEF AskingOne
<1>2. ASSUME StartSearch(t), ti'[t] = ti[t] PROVE AskingOne(t)'
  <2>1. \/ pc'[t] \in {"search", "drained"}
        \/ want'[t] = ti[t] + 1
    BY <1>2, Here DEF StartSearch, Continue, NextPower, Goto, Domains, IInv, Typed
  <2>2. QED
    BY <1>1, <1>2, <2>1, Here DEF AskingOne
<1>3. CASE InsertFull(t) \/ MoveNothing(t) \/ Move(t)
  <2>1. \/ StartSearch(t) /\ ti'[t] = ti[t]
        \/ pc'[t] \notin {"expand", "lock_all", "all_locked"}
    BY <1>3, Here DEF InsertFull, MoveNothing, Move, Again, Goto, Domains
  <2>2. QED
    BY <1>1, <1>2, <2>1
<1>4. CASE SearchAlt(t)
  <2>1. \/ pc'[t] \in {"path", "search", "drained"}
        \/ want'[t] = ti[t] + 1 /\ ti'[t] = ti[t]
    BY <1>4, Here DEF SearchAlt, FoundPath, Continue, NextPower, Goto, Domains, IInv, Typed
  <2>2. QED
    BY <1>1, <2>1, Here DEF AskingOne
<1>5. CASE ExpandSnapshot(t) \/ LockAll(t)
  <2>1. /\ pc[t] \in {"expand", "lock_all"} /\ call'[t] = call[t] /\ want'[t] = want[t]
        /\ ti'[t] \in {ti[t], table_info}
    BY <1>5, Here DEF ExpandSnapshot, LockAll, Goto, Domains
  <2>2. want[t] \in Int /\ ti[t] <= table_info
    BY Here DEF IInv, Typed, Recent
  <2>3. QED
    BY <2>1, <2>2, Here DEF AskingOne
<1>6. CASE Snapshot(t)
  <2>1. /\ call'[t] = call[t] \/ pc'[t] = "idle"
        /\ pc'[t] \in {"idle", "lock_two"} \/ call[t].op \in {"clear", "rehash"}
    BY <1>6, Here DEF Snapshot, Return, Goto, Domains
  <2>2. QED
    BY <1>1, <2>1 DEF AskingOne
<1>7. CASE Call(t) \/ LockTwo(t) \/ SearchSlot(t) \/ ReadPath(t) \/ Publish(t)
  <2>1. pc'[t] \notin {"expand", "lock_all", "all_locked"}
    BY <1>7, Here DEF Call, LockTwo, SearchSlot, FoundPath, ReadPath, Publish, Goto, Domains
  <2>2. QED
    BY <1>1, <2>1
<1>8. CASE Find(t) \/ NotFound(t) \/ Erase(t) \/ Update(t) \/ InsertDuplicate(t)
           \/ InsertFree(t) \/ FinishInsert(t) \/ Clear(t) \/ ExpandLate(t) \/ Release(t)
  <2>1. (\E r : Finish(t, r)) \/ (\E b : Retry(t, b))
    BY <1>8 DEF Find, NotFound, Erase, Update, InsertDuplicate, InsertFree, FinishInsert,
                Clear, ExpandLate, Release, Duplicate
  <2>2. pc'[t] \in {"idle", "snapshot"}
    BY <2>1, Here DEF Finish, Retry, Return, Goto, Domains
  <2>3. QED
    BY <1>1, <2>2
<1>9. QED
  BY <1>3, <1>4, <1>5, <1>6, <1>7, <1>8 DEF Step

\* The current table only grows, replaced by a thread that holds all its
\* locks, and by an insert only if it found this very table full.
THEOREM GrowsOnlyHolds == Spec => GrowsOnly
<1> DEFINE Asking == \A t \in Threads : AskingOne(t)
<1>1. Init => Asking
  BY DEF Init, AskingOne
<1>2. IInv /\ Asking /\ [Next]_vars => Asking'
  <2>1. SUFFICES ASSUME IInv, Asking, [Next]_vars, NEW u \in Threads PROVE AskingOne(u)'
    OBVIOUS
  <2>2. CASE UNCHANGED vars
    BY <2>1, <2>2 DEF vars, AskingOne
  <2>3. ASSUME NEW t \in Threads, Call(t) \/ Step(t) PROVE AskingOne(u)'
    <3>1. CASE u = t
      BY <2>1, <2>3, <3>1, AskingStep
    <3>2. CASE u # t
      <4>1. pc'[u] = pc[u] /\ call'[u] = call[u] /\ want'[u] = want[u] /\ ti'[u] = ti[u]
        BY <2>1, <2>3, <3>2, InDomains, OthersStay DEF Unmoved
      <4>2. QED
        BY <2>1, <4>1 DEF AskingOne
    <3>3. QED
      BY <3>1, <3>2
  <2>4. QED
    BY <2>1, <2>2, <2>3 DEF Next, Finished
<1>3. ASSUME IInv, Asking, [Next]_vars
      PROVE  [/\ table_info' >= table_info
              /\ table_info' # table_info =>
                    \E t \in Threads :
                        /\ owned[t] = AllLocks /\ ti[t] = table_info
                        /\ call[t].op # "rehash" => want[t] = table_info + 1]_vars
  <2>1. CASE UNCHANGED vars
    BY <2>1
  <2>2. ASSUME NEW t \in Threads, Call(t) \/ Step(t)
        PROVE  /\ table_info' >= table_info
               /\ table_info' # table_info =>
                     \E u \in Threads :
                         /\ owned[u] = AllLocks /\ ti[u] = table_info
                         /\ call[u].op # "rehash" => want[u] = table_info + 1
    <3>1. TablesAfter(t)
      BY <1>3, <2>2, EachStep DEF After
    <3>2. table_info <= table_info' /\ table_info \in Int /\ table_info' \in Int
      BY <1>3, <3>1, TablesStep, PowerTypes DEF IInv, TypeOK
    <3>3. ASSUME table_info' # table_info
          PROVE  /\ owned[t] = AllLocks /\ ti[t] = table_info
                 /\ call[t].op # "rehash" => want[t] = table_info + 1
      <4>1. Publishes(t)
        BY <3>1, <3>3 DEF TablesAfter, Rewrites
      <4>2. Publish(t)
        BY <2>2, <3>3 DEF Call, Step, Snapshot, LockTwo, Find, NotFound, Erase, Update,
           InsertDuplicate, InsertFree, InsertFull, SearchSlot, SearchAlt, ReadPath,
           MoveNothing, Move, FinishInsert, ExpandSnapshot, LockAll, Clear, ExpandLate,
           Release, Finish, Retry, Duplicate, map
      <4>3. /\ pc[t] = "all_locked" /\ call[t].op # "clear" /\ ~(want[t] <= ti[t])
            /\ want[t] \in Int
        BY <1>3, <4>2 DEF Publish, LargeEnough, IInv, Typed
      <4>4. call[t].op \in {"insert", "upsert", "rehash"}
        BY <1>3, <4>3, Here DEF Local, Calling
      <4>5. ASSUME call[t].op # "rehash" PROVE want[t] = table_info + 1
        <5>1. want[t] <= ti[t] + 1 /\ ti[t] = table_info /\ ti[t] \in Int
          BY <1>3, <4>1, <4>3, <4>4, <4>5, Here DEF Publishes, AskingOne
        <5>2. QED
          BY <4>3, <5>1
      <4>6. QED
        BY <4>1, <4>5 DEF Publishes
    <3>4. QED
      BY <3>2, <3>3
  <2>3. QED
    BY <1>3, <2>1, <2>2 DEF Next, Finished
<1>4. QED
  BY <1>1, <1>2, <1>3, Invariance, PTL DEF Spec, GrowsOnly
-----------------------------------------------------------------------------
(***************************************************************************)
(* The breadth-first search.  Its queue holds what is left of one level    *)
(* and the children of what was taken from it.  w[d] is how many nodes     *)
(* level d has: 2 * SlotsPerBucket^d.                                      *)
(***************************************************************************)
Levels(w) ==
    /\ w \in [0 .. (MaxBfsDepth - 1) -> Nat]
    /\ w[0] = 2
    /\ \A d \in 0 .. (MaxBfsDepth - 2) : w[d + 1] = SlotsPerBucket * w[d]

\* x is being looked at, `slot` of its children are in the queue; p nodes of
\* its level came before it, r are still to come.  Its children are not yet
\* of the last level that may be enqueued, or just are.
InRound(w, q, x, slot) ==
    LET d == Depth(x) IN
    /\ d < MaxBfsDepth - 1
    /\ \E p, r \in 0 .. w[d] :
          /\ p + r + 1 = w[d]
          /\ Len(q) = r + SlotsPerBucket * p + slot
          /\ \A i \in 1 .. Len(q) : Depth(q[i]) = IF i <= r THEN d ELSE d + 1

Rounding(w, t) ==
    /\ pc[t] # "drained"
    /\ pc[t] \in {"search", "search_alt"} => InRound(w, bfs[t].q, bfs[t].x, bfs[t].slot)

LEMMA NodeDepth ==
    /\ \A hp \in Powers : \A x \in Nodes(hp) : Depth(x) \in Nat /\ x # Empty
    /\ \A b, c : c \in Codes => Depth(Node(b, c)) = Len(c) - 1
<1>1. ASSUME NEW hp \in Powers, NEW x \in Nodes(hp) PROVE Depth(x) \in Nat /\ x # Empty
  <2>1. x.code \in Seq(Nat) /\ Len(x.code) >= 1 /\ x \in [b : Buckets(hp), code : Seq(Nat)]
    BY DEF Nodes, Codes
  <2>2. Len(x.code) \in Nat
    BY <2>1
  <2>3. QED
    BY <2>1, <2>2, ValueAssumption DEF Depth
<1>2. QED
  BY <1>1 DEF Depth, Node

\* The loop heads of slot_search, with `slot` children of x in the queue: on
\* to the next slot, or the level, or the next level; before the last level
\* is begun the queue is full.
LEMMA ContinueRound ==
    ASSUME IInv, NEW w, Levels(w), MaxCuckooCount <= w[MaxBfsDepth - 1], NEW t \in Threads,
           NEW q \in Seq(Nodes(ti[t])), NEW x \in Nodes(ti[t]), NEW slot \in 0 .. SlotsPerBucket,
           InRound(w, q, x, slot), Continue(t, q, x, slot)
    PROVE  Rounding(w, t)'
<1> DEFINE d == Depth(x)
           S == SlotsPerBucket
<1>1. /\ ti[t] \in Powers /\ DOMAIN pc = Threads /\ DOMAIN bfs = Threads
      /\ d \in Nat /\ x # Empty /\ S \in Nat /\ S > 0
      /\ MaxBfsDepth \in Nat /\ MaxCuckooCount \in Nat /\ Len(q) \in Nat
  BY Here, NodeDepth, SizeAssumption DEF Domains
<1>2. d \in 0 .. (MaxBfsDepth - 2) /\ d + 1 \in 0 .. (MaxBfsDepth - 1)
  BY <1>1 DEF InRound
<1>3. w[d] \in Nat /\ w[d + 1] = S * w[d]
  BY <1>2, <1>1 DEF Levels
<1>4. PICK p \in 0 .. w[d], r \in 0 .. w[d] :
          /\ p + r + 1 = w[d]
          /\ Len(q) = r + S * p + slot
          /\ \A i \in 1 .. Len(q) : Depth(q[i]) = IF i <= r THEN d ELSE d + 1
  BY DEF InRound
<1>5. CASE slot < S /\ NotFull(q)
  <2>1. pc'[t] = "search" /\ bfs'[t] = [q |-> q, x |-> x, slot |-> slot]
    BY <1>1, <1>5 DEF Continue, Goto
  <2>2. QED
    BY <2>1 DEF Rounding, InRound
<1>6. CASE ~NotFull(q)
  BY <1>1, <1>6 DEF Continue, Goto, Rounding
<1>7. CASE slot = S /\ NotFull(q)
  <2>1. p \in Nat /\ r \in Nat /\ S * p \in Nat /\ S * (p + 1) = S * p + S
    BY <1>1, <1>3
  <2>2. Len(q) = r + S * (p + 1) /\ Len(q) > 0
    BY <1>1, <1>4, <1>7, <2>1
  <2>3. pc'[t] = "search" /\ bfs'[t] = [q |-> Tail(q), x |-> Head(q), slot |-> 0]
    <3>1. q # <<>>
      BY <2>2
    <3>2. ~(slot < SlotsPerBucket)
      BY <1>7, <1>1
    <3>3. QED
      BY <1>1, <1>7, <3>1, <3>2 DEF Continue, Goto
  <2>4. /\ Len(Tail(q)) = Len(q) - 1 /\ Head(q) = q[1]
        /\ \A i \in 1 .. Len(Tail(q)) : Tail(q)[i] = q[i + 1]
    BY <2>2
  <2>5. /\ Depth(Head(q)) = IF 1 <= r THEN d ELSE d + 1
        /\ \A i \in 1 .. Len(Tail(q)) : Depth(Tail(q)[i]) = IF i + 1 <= r THEN d ELSE d + 1
    BY <1>1, <1>4, <2>2, <2>4
  <2> HIDE DEF d, S
  <2>6. CASE r > 0
    <3>1. /\ p + 1 \in 0 .. w[d] /\ r - 1 \in 0 .. w[d] /\ (p + 1) + (r - 1) + 1 = w[d]
          /\ Len(Tail(q)) = (r - 1) + S * (p + 1) + 0
      <4>1. p + 1 \in 0 .. w[d] /\ r - 1 \in 0 .. w[d] /\ (p + 1) + (r - 1) + 1 = w[d]
        BY <1>3, <1>4, <2>1, <2>6
      <4>2. S * (p + 1) \in Nat
        BY <1>1, <2>1
      <4>3. Len(Tail(q)) = (r - 1) + S * (p + 1) + 0
        BY <2>1, <2>2, <2>4, <4>2
      <4>4. QED
        BY <4>1, <4>3
    <3>2. \A i \in 1 .. Len(Tail(q)) : Depth(Tail(q)[i]) = IF i <= r - 1 THEN d ELSE d + 1
      BY <2>1, <2>5
    <3>3. Depth(Head(q)) = d /\ d < MaxBfsDepth - 1
      BY <1>1, <1>2, <2>1, <2>5, <2>6
    <3>4. InRound(w, Tail(q), Head(q), 0)
      BY <3>1, <3>2, <3>3 DEF InRound, S
    <3>5. QED
      BY <2>3, <3>4 DEF Rounding, InRound
  <2>7. CASE r = 0
    <3>1. Len(q) = w[d + 1]
      BY <1>1, <1>3, <1>4, <2>1, <2>2, <2>7
    <3>2. d + 1 < MaxBfsDepth - 1
      <4>1. d + 1 # MaxBfsDepth - 1
        BY <1>1, <1>7, <3>1 DEF NotFull
      <4>2. QED
        BY <1>1, <1>2, <4>1
    <3>3. Depth(Head(q)) = d + 1
      BY <2>5, <2>7
    <3>4. /\ 0 \in 0 .. w[d + 1] /\ w[d + 1] - 1 \in 0 .. w[d + 1]
          /\ 0 + (w[d + 1] - 1) + 1 = w[d + 1]
          /\ Len(Tail(q)) = (w[d + 1] - 1) + S * 0 + 0
      BY <1>1, <2>2, <2>4, <3>1
    <3>5. \A i \in 1 .. Len(Tail(q)) :
              Depth(Tail(q)[i]) = IF i <= w[d + 1] - 1 THEN d + 1 ELSE (d + 1) + 1
      BY <1>1, <2>4, <2>5, <2>7, <3>1
    <3>6. InRound(w, Tail(q), Head(q), 0)
      BY <3>2, <3>3, <3>4, <3>5 DEF InRound, S
    <3>7. QED
      BY <2>3, <3>6 DEF Rounding, InRound
  <2>8. QED
    BY <2>1, <2>6, <2>7
<1>8. QED
  BY <1>1, <1>5, <1>6, <1>7

\* A search begins with the two roots, and the first of them is dequeued.
LEMMA StartRound ==
    ASSUME IInv, NEW w, Levels(w), MaxCuckooCount <= w[MaxBfsDepth - 1], NEW t \in Threads,
           pc[t] # "idle", StartSearch(t)
    PROVE  Rounding(w, t)'
<1> DEFINE n1 == Node(First(ti[t], call[t].key), <<0>>)
           n2 == Node(Second(ti[t], call[t].key), <<1>>)
<1>1. DOMAIN pc = Threads /\ DOMAIN bfs = Threads /\ MaxBfsDepth \in Nat /\ MaxCuckooCount \in Nat
  BY Here, SizeAssumption DEF Domains
<1>2. Depth(n1) = 0 /\ Depth(n2) = 0
  BY DEF Depth, Node
<1> HIDE DEF n1, n2
<1>3. Continue(t, <<n1, n2>>, Empty, 0)
  BY DEF StartSearch, n1, n2
<1>4. CASE ~NotFull(<<n1, n2>>)
  BY <1>1, <1>3, <1>4 DEF Continue, Goto, Rounding
<1>5. CASE NotFull(<<n1, n2>>)
  <2>1. pc'[t] = "search" /\ bfs'[t] = [q |-> <<n2>>, x |-> n1, slot |-> 0]
    BY <1>1, <1>3, <1>5 DEF Continue, Goto
  <2>2. MaxCuckooCount > 2
    BY <1>1, <1>5 DEF NotFull
  <2>3. MaxBfsDepth > 1
    BY <1>1, <2>2, SizeAssumption DEF Levels
  <2>4. 0 + 1 + 1 = w[0] /\ 0 \in 0 .. w[0] /\ 1 \in 0 .. w[0]
    BY DEF Levels
  <2>5. Len(<<n2>>) = 1 + SlotsPerBucket * 0 + 0
    BY SizeAssumption
  <2>6. \A i \in 1 .. Len(<<n2>>) : Depth(<<n2>>[i]) = IF i <= 1 THEN 0 ELSE 0 + 1
    BY <1>2
  <2>7. InRound(w, <<n2>>, n1, 0)
    BY <1>1, <1>2, <2>3, <2>4, <2>5, <2>6 DEF InRound
  <2>8. QED
    BY <2>1, <2>7 DEF Rounding, InRound
<1>6. QED
  BY <1>4, <1>5

\* The two looks of a round.
LEMMA SearchRound ==
    ASSUME IInv, NEW w, Levels(w), MaxCuckooCount <= w[MaxBfsDepth - 1], NEW t \in Threads,
           Rounding(w, t), SearchSlot(t) \/ SearchAlt(t)
    PROVE  Rounding(w, t)'
<1> DEFINE hp == ti[t]
           x == bfs[t].x
           s == bfs[t].slot
           q == bfs[t].q
<1>1. hp \in Powers /\ Domains
  BY Here
<1>2. CASE SearchSlot(t)
  <2>1. pc[t] = "search" /\ InRound(w, q, x, s)
    BY <1>2 DEF SearchSlot, Rounding
  <2>2. bfs[t] \in [q : Seq(Nodes(hp)), x : Nodes(hp), slot : Slots]
    BY <2>1, Here DEF Local, Searching
  <2>3. CASE pc'[t] = "path"
    BY <2>3 DEF Rounding
  <2>4. CASE pc'[t] # "path"
    <3>1. PICK a : bfs' = [bfs EXCEPT ![t].x = [b |-> x.b, code |-> x.code, alt |-> a]]
      BY <1>1, <1>2, <2>4 DEF SearchSlot, FoundPath, Goto, Domains
    <3>2. pc'[t] = "search_alt"
      BY <1>1, <1>2, <2>4 DEF SearchSlot, FoundPath, Goto, Domains
    <3>3. bfs'[t].q = q /\ bfs'[t].slot = s /\ bfs'[t].x.code = x.code
      BY <1>1, <2>2, <3>1 DEF Domains
    <3>4. InRound(w, bfs'[t].q, bfs'[t].x, bfs'[t].slot)
      BY <2>1, <3>3 DEF InRound, Depth
    <3>5. QED
      BY <3>2, <3>4 DEF Rounding, InRound, Depth
  <2>5. QED
    BY <2>3, <2>4
<1>3. CASE SearchAlt(t)
  <2> DEFINE y == Node(x.alt, Append(x.code, s))
             z == Node(x.b, x.code)
  <2>1. pc[t] = "search_alt" /\ InRound(w, q, x, s)
    BY <1>3 DEF SearchAlt, Rounding
  <2>2. /\ q \in Seq(Nodes(hp)) /\ s \in Slots
        /\ x \in [b : Buckets(hp), code : Codes, alt : Buckets(hp)]
    BY <2>1, Here DEF Local, Searching
  <2>3. CASE pc'[t] = "path"
    BY <2>3 DEF Rounding
  <2>4. CASE pc'[t] # "path"
    <3>1. Continue(t, Enqueue(q, y), z, s + 1)
      BY <1>1, <1>3, <2>4 DEF SearchAlt, FoundPath, Goto, Domains
    <3>2. Append(x.code, s) \in Codes /\ x.code \in Codes
      BY <2>2, CodeAppend
    <3>3. y \in Nodes(hp) /\ z \in Nodes(hp)
      BY <2>2, <3>2 DEF Nodes, Node
    <3>4. Len(x.code) \in Nat /\ Len(Append(x.code, s)) = Len(x.code) + 1
      BY <2>2 DEF Codes, Slots
    <3>5. Depth(z) = Depth(x) /\ Depth(y) = Depth(x) + 1 /\ Depth(z) \in Nat
      BY <1>1, <3>2, <3>3, <3>4, NodeDepth DEF Depth, Node
    <3> HIDE DEF y, z, x, s, q
    <3>6. Depth(y) # MaxBfsDepth
      BY <2>1, <3>5, SizeAssumption DEF InRound
    <3>7. Enqueue(q, y) = Append(q, y)
      BY <3>6 DEF Enqueue
    <3>8. InRound(w, Append(q, y), z, s + 1)
      <4>1. PICK p \in 0 .. w[Depth(x)], r \in 0 .. w[Depth(x)] :
                /\ p + r + 1 = w[Depth(x)]
                /\ Len(q) = r + SlotsPerBucket * p + s
                /\ \A i \in 1 .. Len(q) :
                       Depth(q[i]) = IF i <= r THEN Depth(x) ELSE Depth(x) + 1
        BY <2>1 DEF InRound
      <4>2. /\ Depth(x) \in 0 .. (MaxBfsDepth - 1) /\ w[Depth(x)] \in Nat
            /\ SlotsPerBucket \in Nat /\ s \in Nat
        BY <2>1, <2>2, <3>5, SizeAssumption DEF InRound, Levels, Slots
      <4>3. SlotsPerBucket * p \in Nat
        BY <4>2
      <4>4. Len(Append(q, y)) = r + SlotsPerBucket * p + (s + 1)
        <5>1. Len(Append(q, y)) = Len(q) + 1
          BY <2>2
        <5>2. r \in Nat
          BY <4>2
        <5>3. QED
          BY <4>1, <4>2, <4>3, <5>1, <5>2
      <4>5. Len(q) \in Nat /\ r <= Len(q)
        BY <2>2, <4>1, <4>2, <4>3
      <4>6. \A i \in 1 .. Len(Append(q, y)) :
                Depth(Append(q, y)[i]) = IF i <= r THEN Depth(x) ELSE Depth(x) + 1
        <5>1. SUFFICES ASSUME NEW i \in 1 .. Len(Append(q, y))
                       PROVE  Depth(Append(q, y)[i]) =
                                  IF i <= r THEN Depth(x) ELSE Depth(x) + 1
          OBVIOUS
        <5>2. /\ Append(q, y)[i] = IF i = Len(q) + 1 THEN y ELSE q[i]
              /\ i = Len(q) + 1 \/ i \in 1 .. Len(q)
          BY <2>2, <4>5
        <5>3. CASE i = Len(q) + 1
          BY <3>5, <4>2, <4>5, <5>2, <5>3
        <5>4. CASE i \in 1 .. Len(q)
          BY <4>1, <4>5, <5>2, <5>4
        <5>5. QED
          BY <5>2, <5>3, <5>4
      <4>7. QED
        BY <2>1, <3>5, <4>1, <4>4, <4>6 DEF InRound
    <3>9. Append(q, y) \in Seq(Nodes(hp)) /\ s + 1 \in 0 .. SlotsPerBucket
      BY <2>2, <3>3, SizeAssumption DEF Slots
    <3>10. QED
      BY <3>1, <3>3, <3>7, <3>8, <3>9, ContinueRound
  <2>5. QED
    BY <2>3, <2>4
<1>4. QED
  BY <1>2, <1>3

\* Every other step leaves its thread outside the search.
LEMMA RoundStep ==
    ASSUME IInv, NEW w, Levels(w), MaxCuckooCount <= w[MaxBfsDepth - 1], NEW t \in Threads,
           Rounding(w, t), Call(t) \/ Step(t)
    PROVE  Rounding(w, t)'
<1>1. CASE SearchSlot(t) \/ SearchAlt(t)
  BY <1>1, SearchRound
<1>2. CASE StartSearch(t) /\ pc[t] # "idle"
  BY <1>2, StartRound
<1>3. ASSUME pc'[t] \notin {"search", "search_alt", "drained"} PROVE Rounding(w, t)'
  BY <1>3 DEF Rounding
<1>4. CASE InsertFull(t) \/ MoveNothing(t) \/ Move(t)
  <2>1. \/ StartSearch(t) /\ pc[t] # "idle"
        \/ pc'[t] \notin {"search", "search_alt", "drained"}
    BY <1>4, Here DEF InsertFull, Locked, MoveNothing, Move, Again, Goto, Domains
  <2>2. QED
    BY <1>2, <1>3, <2>1
<1>5. CASE Call(t) \/ Snapshot(t) \/ LockTwo(t) \/ ReadPath(t) \/ ExpandSnapshot(t)
           \/ LockAll(t) \/ Publish(t)
  <2>1. pc'[t] \notin {"search", "search_alt", "drained"}
    BY <1>5, Here DEF Call, Snapshot, LockTwo, ReadPath, ExpandSnapshot, LockAll, Publish,
                      Return, Goto, Domains
  <2>2. QED
    BY <1>3, <2>1
<1>6. CASE Find(t) \/ NotFound(t) \/ Erase(t) \/ Update(t) \/ InsertDuplicate(t)
           \/ InsertFree(t) \/ FinishInsert(t) \/ Clear(t) \/ ExpandLate(t) \/ Release(t)
  <2>1. (\E r : Finish(t, r)) \/ (\E b : Retry(t, b))
    BY <1>6 DEF Find, NotFound, Erase, Update, InsertDuplicate, InsertFree, FinishInsert,
                Clear, ExpandLate, Release, Duplicate
  <2>2. pc'[t] \in {"idle", "snapshot"}
    BY <2>1, Here DEF Finish, Retry, Return, Goto, Domains
  <2>3. QED
    BY <1>3, <2>2
<1>7. QED
  BY <1>1, <1>4, <1>5, <1>6 DEF Step

(***************************************************************************)
(* The queue of the search never runs dry, if it is no larger than the     *)
(* last level it is filled with: the 500 of MAX_CUCKOO_COUNT fit into the  *)
(* 2 * 8 * 8 * 8 nodes below MAX_BFS_DEPTH 4.  The bound the source asks   *)
(* for, SLOT_PER_BUCKET^(MAX_BFS_DEPTH+1), would not be enough.            *)
(***************************************************************************)
THEOREM NeverDrainedHolds ==
    ASSUME NEW w, Levels(w), MaxCuckooCount <= w[MaxBfsDepth - 1]
    PROVE  Spec => []NeverDrained
<1> DEFINE Rounds == \A t \in Threads : Rounding(w, t)
<1>1. Init => Rounds
  BY DEF Init, Rounding
<1>2. IInv /\ Rounds /\ [Next]_vars => Rounds'
  <2>1. SUFFICES ASSUME IInv, Rounds, [Next]_vars, NEW u \in Threads PROVE Rounding(w, u)'
    OBVIOUS
  <2>2. CASE UNCHANGED vars
    BY <2>1, <2>2 DEF vars, Rounding, InRound
  <2>3. ASSUME NEW t \in Threads, Call(t) \/ Step(t) PROVE Rounding(w, u)'
    <3>1. CASE u = t
      BY <2>1, <2>3, <3>1, RoundStep
    <3>2. CASE u # t
      <4>1. pc'[u] = pc[u] /\ bfs'[u] = bfs[u]
        BY <2>1, <2>3, <3>2, InDomains, OthersStay DEF Unmoved
      <4>2. QED
        BY <2>1, <4>1 DEF Rounding, InRound
    <3>3. QED
      BY <3>1, <3>2
  <2>4. QED
    BY <2>1, <2>2, <2>3 DEF Next, Finished
<1>3. Rounds => NeverDrained
  BY DEF Rounding, NeverDrained
<1>4. QED
  BY <1>1, <1>2, <1>3, Invariance, PTL DEF Spec
-----------------------------------------------------------------------------
(***************************************************************************)
(* The refinement.  The map's contents as a function of the entries of its *)
(* current table, and how each operation changes it.                       *)
(***************************************************************************)
ValueIn(found) == IF found = {} THEN Absent ELSE (CHOOSE e \in found : TRUE).val

View(es) == [k \in Keys |-> ValueIn({e \in es : e.key = k})]

CurrentEntries == EntriesOf(table_info, tables[table_info])

\* Entries, and no two of one key.
Mapping(es) ==
    /\ \A e \in es : e \in Slot /\ e # Empty
    /\ \A d, e \in es : d.key = e.key => d = e

LEMMA ContentsView ==
    Contents = View(CurrentEntries) /\ Contents' = View(CurrentEntries')
BY DEF Contents, View, ValueIn, CurrentEntries, Entries, EntriesOf

LEMMA SoundMapping ==
    ASSUME NEW hp \in Powers, NEW tab, Sound(hp, tab)
    PROVE  Mapping(EntriesOf(hp, tab))
<1>1. \A b \in Buckets(hp), s \in Slots : tab.bucket[b][s] \in Slot
  BY TableFields DEF Sound
<1>2. \A d, e \in EntriesOf(hp, tab) : d.key = e.key => d = e
  BY SameKey
<1>3. QED
  BY <1>1, <1>2 DEF EntriesOf, Mapping

LEMMA ViewOf ==
    ASSUME NEW es, Mapping(es), NEW k \in Keys
    PROVE  /\ (\A e \in es : e.key # k) => View(es)[k] = Absent
           /\ \A e \in es : e.key = k => /\ View(es)[k] = e.val
                                         /\ View(es)[k] \in Vals /\ View(es)[k] # Absent
           /\ View(es)[k] \in Vals \cup {Absent}
<1> DEFINE found == {e \in es : e.key = k}
<1>1. View(es)[k] = IF found = {} THEN Absent ELSE (CHOOSE e \in found : TRUE).val
  BY DEF View, ValueIn
<1>2. ASSUME NEW e \in es, e.key = k
      PROVE  View(es)[k] = e.val /\ View(es)[k] \in Vals /\ View(es)[k] # Absent
  <2>1. found = {e}
    BY <1>2 DEF Mapping
  <2>2. e.val \in Vals
    BY SlotFields DEF Mapping
  <2>3. (CHOOSE d \in {e} : TRUE) = e
    OBVIOUS
  <2> HIDE DEF found
  <2>4. View(es)[k] = e.val
    BY <1>1, <2>1, <2>3
  <2>5. QED
    BY <2>2, <2>4, ValueAssumption
<1>3. ASSUME \A e \in es : e.key # k PROVE View(es)[k] = Absent
  BY <1>1, <1>3
<1>4. QED
  BY <1>2, <1>3

\* A change of one key's entry changes the map for that key only.
LEMMA ViewChange ==
    ASSUME NEW es, NEW new, NEW k \in Keys,
           \A e : e.key # k => (e \in es <=> e \in new)
    PROVE  View(new) = [View(es) EXCEPT ![k] = View(new)[k]]
<1>1. ASSUME NEW j \in Keys, j # k PROVE View(new)[j] = View(es)[j]
  <2>1. {e \in es : e.key = j} = {e \in new : e.key = j}
    BY <1>1
  <2>2. QED
    BY <2>1 DEF View
<1>2. View(new) \in [Keys -> {View(new)[j] : j \in Keys}] /\ DOMAIN View(new) = Keys
      /\ DOMAIN View(es) = Keys
  BY DEF View
<1>3. [View(es) EXCEPT ![k] = View(new)[k]] = [j \in Keys |-> View(new)[j]]
  BY <1>1, <1>2
<1>4. View(new) = [j \in Keys |-> View(new)[j]]
  BY DEF View
<1>5. QED
  BY <1>3, <1>4

LEMMA ViewAdd ==
    ASSUME NEW es, Mapping(es), NEW k \in Keys, NEW v \in Vals, \A e \in es : e.key # k
    PROVE  /\ View(es)[k] = Absent
           /\ View(es \cup {Entry(k, v)}) = [View(es) EXCEPT ![k] = v]
<1> DEFINE e == Entry(k, v)
           new == es \cup {e}
<1>1. e.key = k /\ e.val = v /\ e \in Slot /\ e # Empty
  BY EntryFields
<1> HIDE DEF e
<1>2. Mapping(new)
  BY <1>1 DEF Mapping
<1>3. View(new)[k] = v
  BY <1>1, <1>2, ViewOf
<1>4. \A d : d.key # k => (d \in es <=> d \in new)
  BY <1>1
<1> HIDE DEF new
<1>5. View(new) = [View(es) EXCEPT ![k] = v]
  BY <1>3, <1>4, ViewChange
<1>6. View(es)[k] = Absent
  BY ViewOf
<1>7. QED
  BY <1>5, <1>6 DEF new, e

LEMMA ViewRemove ==
    ASSUME NEW es, Mapping(es), NEW e \in es
    PROVE  /\ e.key \in Keys /\ View(es)[e.key] # Absent
           /\ View(es \ {e}) = [View(es) EXCEPT ![e.key] = Absent]
<1> DEFINE k == e.key
           new == es \ {e}
<1>1. k \in Keys
  BY SlotFields DEF Mapping
<1>2. Mapping(new) /\ \A d \in new : d.key # k
  BY DEF Mapping
<1>3. View(new)[k] = Absent
  BY <1>1, <1>2, ViewOf
<1>4. \A d : d.key # k => (d \in es <=> d \in new)
  OBVIOUS
<1> HIDE DEF new
<1>5. View(new) = [View(es) EXCEPT ![k] = Absent]
  <2>1. View(new) = [View(es) EXCEPT ![k] = View(new)[k]]
    BY <1>1, <1>4, ViewChange
  <2>2. QED
    BY <1>3, <2>1
<1>6. View(es)[k] # Absent
  BY <1>1, ViewOf
<1>7. QED
  BY <1>1, <1>5, <1>6 DEF new

LEMMA ViewUpdate ==
    ASSUME NEW es, Mapping(es), NEW e \in es, NEW v \in Vals
    PROVE  /\ e.key \in Keys /\ View(es)[e.key] = e.val /\ View(es)[e.key] # Absent
           /\ View((es \ {e}) \cup {Entry(e.key, v)}) = [View(es) EXCEPT ![e.key] = v]
<1> DEFINE k == e.key
           f == Entry(k, v)
           new == (es \ {e}) \cup {f}
<1>1. k \in Keys
  BY SlotFields DEF Mapping
<1>2. f.key = k /\ f.val = v /\ f \in Slot /\ f # Empty
  BY <1>1, EntryFields
<1> HIDE DEF f
<1>3. Mapping(new)
  BY <1>2 DEF Mapping
<1>4. View(new)[k] = v
  BY <1>1, <1>2, <1>3, ViewOf
<1>5. \A d : d.key # k => (d \in es <=> d \in new)
  BY <1>2
<1> HIDE DEF new
<1>6. View(new) = [View(es) EXCEPT ![k] = v]
  BY <1>1, <1>4, <1>5, ViewChange
<1>7. View(es)[k] = e.val /\ View(es)[k] # Absent
  BY <1>1, ViewOf
<1>8. QED
  BY <1>1, <1>6, <1>7 DEF new, f
-----------------------------------------------------------------------------
\* The pending call of a thread, and what its return and its other steps do.
LEMMA InCallHere ==
    ASSUME IInv, NEW t \in Threads, pc[t] # "idle"
    PROVE  /\ InCall[t] = [op |-> call[t].op, key |-> call[t].key, val |-> call[t].val]
           /\ InCall[t] # Absent /\ call[t].op \in Ops
           /\ call[t].key \in Keys /\ call[t].val \in Vals
<1>1. call[t].op \in Ops /\ call[t].key \in Keys /\ call[t].val \in Vals
  BY Here DEF Callings
<1>2. InCall[t] = [op |-> call[t].op, key |-> call[t].key, val |-> call[t].val]
  BY DEF InCall
<1>3. QED
  BY <1>1, <1>2, ValueAssumption

LEMMA InCallEnds ==
    ASSUME NEW t \in Threads, \A u \in Threads \ {t} : Unmoved(u), pc'[t] = "idle"
    PROVE  InCall' = [InCall EXCEPT ![t] = Absent]
BY DEF InCall, Unmoved

LEMMA InCallStays ==
    ASSUME NEW t \in Threads, \A u \in Threads \ {t} : Unmoved(u),
           pc[t] # "idle", pc'[t] # "idle", call'[t] = call[t]
    PROVE  InCall' = InCall
BY DEF InCall, Unmoved

LEMMA CurrentSound ==
    ASSUME IInv
    PROVE  /\ table_info \in Powers /\ Sound(table_info, tables[table_info])
           /\ DOMAIN tables = Powers /\ Mapping(CurrentEntries)
<1>1. table_info \in Powers /\ Sound(table_info, tables[table_info]) /\ DOMAIN tables = Powers
  BY DEF IInv, TypeOK, AllSound
<1>2. QED
  BY <1>1, SoundMapping DEF CurrentEntries

LEMMA EntriesAfter ==
    ASSUME IInv, NEW t \in Threads, NEW locks, NEW tab, Rewrites(t, locks, tab)
    PROVE  /\ ti[t] = table_info => CurrentEntries' = EntriesOf(ti[t], tab)
           /\ ti[t] # table_info => CurrentEntries' = CurrentEntries
           /\ ti[t] = table_info => EntriesOf(ti[t], tables[ti[t]]) = CurrentEntries
<1>1. /\ tables' = [tables EXCEPT ![ti[t]] = tab] /\ table_info' = table_info
  BY DEF Rewrites
<1>2. CASE ti[t] = table_info
  <2>1. tables'[table_info'] = tab
    BY <1>1, <1>2, CurrentSound
  <2>2. QED
    BY <1>1, <1>2, <2>1 DEF CurrentEntries, EntriesOf
<1>3. CASE ti[t] # table_info
  <2>1. tables'[table_info'] = tables[table_info]
    BY <1>1, <1>3, CurrentSound
  <2>2. QED
    BY <1>1, <1>3, <2>1 DEF CurrentEntries, EntriesOf
<1>4. QED
  BY <1>2, <1>3

\* A step that nobody outside sees.
Silent == Contents' = Contents /\ InCall' = InCall /\ ret' = ret

\* The return r of t's call, with the contents changed to d.
Returns(t, r, d) ==
    /\ pc[t] # "idle"
    /\ InCall' = [InCall EXCEPT ![t] = Absent] /\ ret' = [ret EXCEPT ![t] = r]
    /\ Contents' = d

LEMMA Finishes ==
    ASSUME IInv, NEW t \in Threads, Call(t) \/ Step(t), pc[t] # "idle", NEW r, Finish(t, r)
    PROVE  Returns(t, r, Contents')
<1>1. pc'[t] = "idle" /\ ret' = [ret EXCEPT ![t] = r]
  BY FinishStep, InDomains DEF Finish, Return
<1>2. QED
  BY <1>1, OthersStay, InDomains, InCallEnds DEF Returns

LEMMA Unchanged ==
    ASSUME tables' = tables, table_info' = table_info
    PROVE  Contents' = Contents
BY DEF Contents, Entries

LEMMA Retries ==
    ASSUME IInv, NEW t \in Threads, Call(t) \/ Step(t), pc[t] # "idle", NEW b, Retry(t, b),
           tables' = tables
    PROVE  Silent
<1>1. pc'[t] = "snapshot" /\ call'[t] = call[t] /\ ret' = ret /\ table_info' = table_info
  BY RetryStep DEF Retry
<1>2. QED
  BY <1>1, OthersStay, InDomains, InCallStays, Unchanged DEF Silent

LEMMA SearchesSilent ==
    ASSUME IInv, NEW t \in Threads, Step(t),
           LockTwo(t) \/ InsertFull(t) \/ SearchSlot(t) \/ SearchAlt(t) \/ ReadPath(t)
           \/ MoveNothing(t) \/ ExpandSnapshot(t) \/ LockAll(t)
    PROVE  Silent
<1>1. /\ tables' = tables /\ table_info' = table_info /\ call' = call /\ ret' = ret
      /\ pc[t] # "idle"
  BY DEF LockTwo, InsertFull, SearchSlot, SearchAlt, ReadPath, MoveNothing, ExpandSnapshot,
         LockAll, Locked
<1>2. pc'[t] # "idle"
  <2>1. CASE LockTwo(t) \/ ExpandSnapshot(t) \/ LockAll(t)
    BY <2>1, Here DEF LockTwo, ExpandSnapshot, LockAll, Goto, Domains
  <2>2. CASE InsertFull(t) \/ SearchSlot(t) \/ SearchAlt(t) \/ ReadPath(t) \/ MoveNothing(t)
    BY <2>2, InsertFullStep, SearchSlotStep, SearchAltStep, ReadPathStep, MoveNothingStep
  <2>3. QED
    BY <2>1, <2>2
<1>3. QED
  BY <1>1, <1>2, OthersStay, InDomains, InCallStays, Unchanged DEF Silent

LEMMA MoveSilent ==
    ASSUME IInv, NEW t \in Threads, Step(t), Move(t)
    PROVE  Silent
<1>1. pc[t] # "idle" /\ pc'[t] # "idle" /\ call' = call /\ ret' = ret /\ table_info' = table_info
  BY MoveStep DEF Move
<1>2. InCall' = InCall
  BY <1>1, OthersStay, InDomains, InCallStays
<1>3. CASE tables' = tables
  BY <1>1, <1>2, <1>3, Unchanged DEF Silent
<1>4. CASE \E locks, tab : /\ Rewrites(t, locks, tab)
                           /\ EntriesOf(ti[t], tab) = EntriesOf(ti[t], tables[ti[t]])
  <2>1. CurrentEntries' = CurrentEntries
    BY <1>4, EntriesAfter
  <2>2. QED
    BY <1>1, <1>2, <2>1, ContentsView DEF Silent
<1>5. QED
  BY <1>3, <1>4, MoveStep

LEMMA PublishSilent ==
    ASSUME IInv, NEW t \in Threads, Step(t), Publish(t)
    PROVE  Silent
<1>1. /\ pc[t] # "idle" /\ pc'[t] # "idle" /\ call' = call /\ ret' = ret
  BY Here DEF Publish, Goto, Domains
<1>2. InCall' = InCall
  BY <1>1, OthersStay, InDomains, InCallStays
<1>3. ti[t] = table_info
  BY PublishStep
<1>4. PICK n \in Powers :
          \E tab : /\ table_info' = n /\ tables' = [tables EXCEPT ![n] = tab]
                   /\ EntriesOf(n, tab) = EntriesOf(ti[t], tables[ti[t]])
  BY PublishStep
<1>5. PICK tab : /\ table_info' = n /\ tables' = [tables EXCEPT ![n] = tab]
                 /\ EntriesOf(n, tab) = EntriesOf(ti[t], tables[ti[t]])
  BY <1>4
<1>6. tables'[table_info'] = tab
  BY <1>5, CurrentSound
<1>7. CurrentEntries' = EntriesOf(n, tab)
  BY <1>5, <1>6 DEF CurrentEntries, EntriesOf
<1>8. CurrentEntries' = CurrentEntries
  BY <1>3, <1>5, <1>7 DEF CurrentEntries
<1>9. QED
  BY <1>1, <1>2, <1>8, ContentsView DEF Silent

\* What the locked buckets tell of the whole map.
LEMMA PlacesTell ==
    ASSUME IInv, NEW t \in Threads, pc[t] \in {"locked", "moved"}, ti[t] = table_info
    PROVE  LET k == call[t].key
           IN /\ k \in Keys
              /\ KeyPlaces(t) = {} => Contents[k] = Absent
              /\ KeyPlaces(t) # {} => Contents[k] # Absent
              /\ \A p \in KeyPlaces(t) : Contents[k] = tables[ti[t]].bucket[p[1]][p[2]].val
<1> DEFINE k == call[t].key
           es == CurrentEntries
<1>1. k \in Keys /\ Mapping(es) /\ es = EntriesOf(ti[t], tables[ti[t]])
  BY PlacesHere, CurrentSound DEF CurrentEntries
<1>2. KeyPlaces(t) = {} => \A e \in es : e.key # k
  BY <1>1, PlacesHere
<1>3. ASSUME NEW p \in KeyPlaces(t)
      PROVE  /\ tables[ti[t]].bucket[p[1]][p[2]] \in es
             /\ tables[ti[t]].bucket[p[1]][p[2]].key = k
  <2>1. /\ p[1] \in Buckets(ti[t]) /\ p[2] \in Slots
        /\ tables[ti[t]].bucket[p[1]][p[2]] # Empty
        /\ tables[ti[t]].bucket[p[1]][p[2]].key = k
    BY PlacesHere
  <2>2. QED
    BY <1>1, <2>1 DEF EntriesOf
<1>4. Contents = View(es)
  BY ContentsView
<1> HIDE DEF es
<1>5. QED
  BY <1>1, <1>2, <1>3, <1>4, ViewOf

LEMMA InsertsTell ==
    ASSUME IInv, NEW t \in Threads, pc[t] # "idle", ti[t] = table_info, Inserts(t)
    PROVE  LET k == call[t].key
           IN Contents[k] = Absent /\ Contents' = [Contents EXCEPT ![k] = call[t].val]
<1> DEFINE k == call[t].key
           v == call[t].val
<1>1. PICK tab : /\ Rewrites(t, owned[t], tab)
                 /\ \A e \in EntriesOf(ti[t], tables[ti[t]]) : e.key # k
                 /\ EntriesOf(ti[t], tab) = EntriesOf(ti[t], tables[ti[t]]) \cup {Entry(k, v)}
  BY DEF Inserts
<1>2. /\ CurrentEntries' = CurrentEntries \cup {Entry(k, v)}
      /\ \A e \in CurrentEntries : e.key # k
  BY <1>1, EntriesAfter
<1>3. k \in Keys /\ v \in Vals /\ Mapping(CurrentEntries)
  BY Here, CurrentSound
<1> HIDE DEF k, v
<1>4. /\ View(CurrentEntries)[k] = Absent
      /\ View(CurrentEntries \cup {Entry(k, v)}) = [View(CurrentEntries) EXCEPT ![k] = v]
  BY <1>2, <1>3, ViewAdd
<1>5. QED
  BY <1>2, <1>4, ContentsView DEF k, v

LEMMA EraseTells ==
    ASSUME IInv, NEW t \in Threads, Erase(t)
    PROVE  LET k == call[t].key
           IN Contents[k] # Absent /\ Contents' = [Contents EXCEPT ![k] = Absent]
<1>1. ti[t] = table_info
  BY Here DEF Erase, Locked, Recent
<1>2. PICK tab, e :
          /\ Rewrites(t, owned[t], tab)
          /\ e \in EntriesOf(ti[t], tables[ti[t]]) /\ e.key = call[t].key
          /\ EntriesOf(ti[t], tab) = EntriesOf(ti[t], tables[ti[t]]) \ {e}
  BY EraseStep
<1>3. CurrentEntries' = CurrentEntries \ {e} /\ e \in CurrentEntries
  BY <1>1, <1>2, EntriesAfter
<1>4. /\ View(CurrentEntries)[e.key] # Absent
      /\ View(CurrentEntries \ {e}) = [View(CurrentEntries) EXCEPT ![e.key] = Absent]
  BY <1>3, CurrentSound, ViewRemove
<1>5. QED
  BY <1>2, <1>3, <1>4, ContentsView

LEMMA UpdateTells ==
    ASSUME IInv, NEW t \in Threads, Update(t)
    PROVE  LET k == call[t].key
           IN /\ Contents[k] # Absent
              /\ Contents' = [Contents EXCEPT ![k] =
                     IF call[t].op = "update" THEN call[t].val ELSE Fn(Contents[k])]
<1>1. ti[t] = table_info /\ pc[t] # "idle"
  BY Here DEF Update, Locked, Recent
<1>2. PICK tab, e :
          /\ Rewrites(t, owned[t], tab)
          /\ e \in EntriesOf(ti[t], tables[ti[t]]) /\ e.key = call[t].key
          /\ EntriesOf(ti[t], tab) =
                 (EntriesOf(ti[t], tables[ti[t]]) \ {e}) \cup
                 {Entry(e.key, IF call[t].op = "update" THEN call[t].val ELSE Fn(e.val))}
  BY UpdateStep
<1> DEFINE v == IF call[t].op = "update" THEN call[t].val ELSE Fn(e.val)
<1>3. /\ CurrentEntries' = (CurrentEntries \ {e}) \cup {Entry(e.key, v)}
      /\ e \in CurrentEntries
  BY <1>1, <1>2, EntriesAfter
<1>4. v \in Vals /\ Mapping(CurrentEntries)
  <2>1. e.val \in Vals
    BY <1>3, CurrentSound, SlotFields DEF Mapping
  <2>2. QED
    BY <1>1, <2>1, Here, CurrentSound, ValueAssumption
<1>5. v = IF call[t].op = "update" THEN call[t].val ELSE Fn(e.val)
  OBVIOUS
<1> HIDE DEF v
<1>6. /\ View(CurrentEntries)[e.key] # Absent /\ View(CurrentEntries)[e.key] = e.val
      /\ View((CurrentEntries \ {e}) \cup {Entry(e.key, v)})
             = [View(CurrentEntries) EXCEPT ![e.key] = v]
  BY <1>3, <1>4, ViewUpdate
<1>7. /\ Contents[call[t].key] # Absent /\ Contents[call[t].key] = e.val
      /\ Contents' = [Contents EXCEPT ![call[t].key] = v]
  BY <1>2, <1>3, <1>6, ContentsView
<1>8. QED
  BY <1>5, <1>7

LEMMA ClearTells ==
    ASSUME IInv, NEW t \in Threads, Clear(t)
    PROVE  Contents' = [k \in Keys |-> Absent]
<1>1. ti[t] = table_info
  BY Here DEF Clear, Recent
<1>2. CurrentEntries' = {}
  BY <1>1, ClearStep, EntriesAfter
<1>3. View({}) = [k \in Keys |-> Absent]
  BY DEF View, ValueIn
<1>4. QED
  BY <1>2, <1>3, ContentsView
-----------------------------------------------------------------------------
\* A call, and each of the steps that return from one, is a step of AtomicMap.
LEMMA CallRefines ==
    ASSUME IInv, NEW t \in Threads, Call(t)
    PROVE  Abstract!Next
<1>1. PICK c \in Requests(t) : call' = [call EXCEPT ![t] = c]
  BY DEF Call
<1>2. c.op \in Ops /\ c.key \in Keys /\ c.val \in Vals
  BY RequestAssumption
<1>3. /\ pc[t] = "idle" /\ pc'[t] = "snapshot" /\ call'[t] = c
      /\ ret' = [ret EXCEPT ![t] = "none"] /\ tables' = tables /\ table_info' = table_info
  BY <1>1, InDomains DEF Call, Goto, Domains
<1>4. InCall[t] = Absent
  BY <1>3 DEF InCall
<1>5. InCall' = [InCall EXCEPT ![t] = [op |-> c.op, key |-> c.key, val |-> c.val]]
  BY <1>3, OthersStay, InDomains DEF InCall, Unmoved
<1>6. Abstract!Invoke(t)
  BY <1>2, <1>3, <1>4, <1>5, Unchanged DEF Abstract!Invoke, Ops
<1>7. QED
  BY <1>6 DEF Abstract!Next

\* The cases of Apply, by what the thread's call is.
LEMMA Applies ==
    ASSUME IInv, NEW t \in Threads, NEW r, NEW d, Returns(t, r, d),
           LET op == call[t].op
               k  == call[t].key
               v  == call[t].val
           IN \/ op = "find" /\ r = Contents[k] /\ d = Contents
              \/ /\ op \in {"erase", "update", "update_fn"} /\ Contents[k] = Absent
                 /\ r = "fail" /\ d = Contents
              \/ op = "insert" /\ Contents[k] # Absent /\ r = "fail" /\ d = Contents
              \/ /\ op \in {"insert", "upsert"} /\ Contents[k] = Absent
                 /\ r = "ok" /\ d = [Contents EXCEPT ![k] = v]
              \/ /\ op = "erase" /\ Contents[k] # Absent
                 /\ r = "ok" /\ d = [Contents EXCEPT ![k] = Absent]
              \/ /\ op \in {"update", "update_fn", "upsert"} /\ Contents[k] # Absent
                 /\ r = "ok"
                 /\ d = [Contents EXCEPT ![k] = IF op = "update" THEN v ELSE Fn(Contents[k])]
              \/ op = "clear" /\ r = "ok" /\ d = [j \in Keys |-> Absent]
              \/ op = "rehash" /\ r \in {"ok", "fail"} /\ d = Contents
    PROVE  Abstract!Next
<1> DEFINE op == call[t].op
           k  == call[t].key
           v  == call[t].val
<1>1. /\ InCall[t] = [op |-> op, key |-> k, val |-> v] /\ InCall[t] # Absent
      /\ Abstract!Respond(t, r, d)
  BY InCallHere DEF Returns, Abstract!Respond
<1>2. InCall[t].op = op /\ InCall[t].key = k /\ InCall[t].val = v
  BY <1>1
<1> SUFFICES Abstract!Apply(t)
  BY DEF Abstract!Next
<1>3. CASE op = "find" /\ r = Contents[k] /\ d = Contents
  BY <1>1, <1>2, <1>3 DEF Abstract!Apply, Abstract!Find
<1>4. CASE /\ op \in {"erase", "update", "update_fn"} /\ Contents[k] = Absent
           /\ r = "fail" /\ d = Contents
  BY <1>1, <1>2, <1>4
     DEF Abstract!Apply, Abstract!Erase, Abstract!Update, Abstract!UpdateFn
<1>5. CASE op = "insert" /\ Contents[k] # Absent /\ r = "fail" /\ d = Contents
  BY <1>1, <1>2, <1>5 DEF Abstract!Apply, Abstract!Insert
<1>6. CASE /\ op \in {"insert", "upsert"} /\ Contents[k] = Absent
           /\ r = "ok" /\ d = [Contents EXCEPT ![k] = v]
  BY <1>1, <1>2, <1>6 DEF Abstract!Apply, Abstract!Insert, Abstract!Upsert, Abstract!Put
<1>7. CASE /\ op = "erase" /\ Contents[k] # Absent
           /\ r = "ok" /\ d = [Contents EXCEPT ![k] = Absent]
  BY <1>1, <1>2, <1>7 DEF Abstract!Apply, Abstract!Erase, Abstract!Put
<1>8. CASE /\ op \in {"update", "update_fn", "upsert"} /\ Contents[k] # Absent
           /\ r = "ok"
           /\ d = [Contents EXCEPT ![k] = IF op = "update" THEN v ELSE Fn(Contents[k])]
  BY <1>1, <1>2, <1>8
     DEF Abstract!Apply, Abstract!Update, Abstract!UpdateFn, Abstract!Upsert, Abstract!Put
<1>9. CASE op = "clear" /\ r = "ok" /\ d = [j \in Keys |-> Absent]
  BY <1>1, <1>2, <1>9 DEF Abstract!Apply, Abstract!Clear
<1>10. CASE op = "rehash" /\ r \in {"ok", "fail"} /\ d = Contents
  BY <1>1, <1>2, <1>10 DEF Abstract!Apply, Abstract!Rehash
<1>11. QED
  BY <1>3, <1>4, <1>5, <1>6, <1>7, <1>8, <1>9, <1>10

\* An insert that finds its key there returns, an upsert goes on silently.
LEMMA DuplicateRefines ==
    ASSUME IInv, NEW t \in Threads, Step(t), pc[t] # "idle", Duplicate(t), tables' = tables,
           Contents[call[t].key] # Absent
    PROVE  Silent \/ Abstract!Next
<1>1. CASE call[t].op = "insert" /\ Finish(t, "fail")
  <2>1. Contents' = Contents
    BY <1>1, Unchanged DEF Finish
  <2>2. Returns(t, "fail", Contents)
    BY <1>1, <2>1, Finishes
  <2>3. QED
    BY <1>1, <2>2, Applies
<1>2. CASE call[t].op = "upsert" /\ Retry(t, FALSE)
  BY <1>2, Retries
<1>3. QED
  BY <1>1, <1>2 DEF Duplicate

LEMMA StepRefines ==
    ASSUME IInv, NEW t \in Threads, Step(t)
    PROVE  Silent \/ Abstract!Next
<1> DEFINE k == call[t].key
<1>1. CASE LockTwo(t) \/ InsertFull(t) \/ SearchSlot(t) \/ SearchAlt(t) \/ ReadPath(t)
           \/ MoveNothing(t) \/ ExpandSnapshot(t) \/ LockAll(t)
  BY <1>1, SearchesSilent
<1>2. CASE Move(t) \/ Publish(t)
  BY <1>2, MoveSilent, PublishSilent
<1>3. CASE Snapshot(t)
  <2>1. /\ pc[t] # "idle" /\ tables' = tables /\ table_info' = table_info
        /\ Contents' = Contents
    BY <1>3, Unchanged DEF Snapshot, map
  <2>2. CASE call[t].op = "rehash" /\ want[t] <= table_info
    <3>1. pc'[t] = "idle" /\ ret' = [ret EXCEPT ![t] = "fail"]
      BY <1>3, <2>2, InDomains DEF Snapshot, Return, Goto, Domains
    <3>2. Returns(t, "fail", Contents)
      BY <2>1, <3>1, OthersStay, InDomains, InCallEnds DEF Returns
    <3>3. QED
      BY <2>2, <3>2, Applies
  <2>3. CASE ~(call[t].op = "rehash" /\ want[t] <= table_info)
    <3>1. pc'[t] # "idle" /\ ret' = ret /\ call' = call
      BY <1>3, <2>3, InDomains DEF Snapshot, Goto, Domains
    <3>2. QED
      BY <2>1, <3>1, OthersStay, InDomains, InCallStays DEF Silent
  <2>4. QED
    BY <2>2, <2>3
<1>4. CASE Find(t)
  <2>1. pc[t] = "locked" /\ ti[t] = table_info /\ call[t].op = "find"
    BY <1>4, Here DEF Find, Locked, Recent
  <2>2. Contents' = Contents
    BY <1>4, Unchanged DEF Find, Finish
  <2>3. Finish(t, Contents[k])
    BY <1>4, <2>1, PlacesTell DEF Find
  <2>4. Returns(t, Contents[k], Contents)
    BY <2>1, <2>2, <2>3, Finishes
  <2>5. QED
    BY <2>1, <2>4, Applies
<1>5. CASE NotFound(t)
  <2>1. /\ pc[t] = "locked" /\ ti[t] = table_info /\ Finish(t, "fail") /\ KeyPlaces(t) = {}
        /\ call[t].op \in {"erase", "update", "update_fn"} /\ tables' = tables
    BY <1>5, Here DEF NotFound, Locked, Recent
  <2>2. Contents[k] = Absent
    BY <2>1, PlacesTell
  <2>3. Contents' = Contents
    BY <2>1, Unchanged DEF Finish
  <2>4. Returns(t, "fail", Contents)
    BY <2>1, <2>3, Finishes
  <2>5. QED
    BY <2>1, <2>2, <2>4, Applies
<1>6. CASE Erase(t)
  <2>1. /\ pc[t] # "idle" /\ Finish(t, "ok") /\ call[t].op = "erase"
    BY <1>6 DEF Erase, Locked
  <2>2. Contents[k] # Absent /\ Contents' = [Contents EXCEPT ![k] = Absent]
    BY <1>6, EraseTells
  <2>3. Returns(t, "ok", Contents')
    BY <2>1, Finishes
  <2>4. QED
    BY <2>1, <2>2, <2>3, Applies
<1>7. CASE Update(t)
  <2>1. /\ pc[t] # "idle" /\ Finish(t, "ok")
        /\ call[t].op \in {"update", "update_fn", "upsert"}
    BY <1>7 DEF Update, Locked
  <2>2. /\ Contents[k] # Absent
        /\ Contents' = [Contents EXCEPT ![k] =
               IF call[t].op = "update" THEN call[t].val ELSE Fn(Contents[k])]
    BY <1>7, UpdateTells
  <2>3. Returns(t, "ok", Contents')
    BY <2>1, Finishes
  <2>4. QED
    BY <2>1, <2>2, <2>3, Applies
<1>8. CASE InsertDuplicate(t)
  <2>1. /\ pc[t] = "locked" /\ ti[t] = table_info /\ KeyPlaces(t) # {} /\ Duplicate(t)
        /\ tables' = tables
    BY <1>8, Here DEF InsertDuplicate, Locked, Recent
  <2>2. Contents[k] # Absent
    BY <2>1, PlacesTell
  <2>3. QED
    BY <2>1, <2>2, DuplicateRefines
<1>9. CASE InsertFree(t)
  <2>1. /\ pc[t] = "locked" /\ ti[t] = table_info /\ Finish(t, "ok")
        /\ call[t].op \in {"insert", "upsert"}
    BY <1>9, Here DEF InsertFree, Locked, Recent
  <2>2. Contents[k] = Absent /\ Contents' = [Contents EXCEPT ![k] = call[t].val]
    BY <1>9, <2>1, InsertFreeStep, InsertsTell
  <2>3. Returns(t, "ok", Contents')
    BY <2>1, Finishes
  <2>4. QED
    BY <2>1, <2>2, <2>3, Applies
<1>10. CASE FinishInsert(t)
  <2>1. pc[t] = "moved" /\ call[t].op \in {"insert", "upsert"}
    BY <1>10, Here DEF FinishInsert, Local, Calling
  <2>2. CASE Retry(t, TRUE) /\ tables' = tables
    BY <2>1, <2>2, Retries
  <2>3. CASE ti[t] = table_info /\ KeyPlaces(t) # {} /\ Duplicate(t) /\ tables' = tables
    BY <2>1, <2>3, PlacesTell, DuplicateRefines
  <2>4. CASE ti[t] = table_info /\ Inserts(t) /\ Finish(t, "ok")
    <3>1. Contents[k] = Absent /\ Contents' = [Contents EXCEPT ![k] = call[t].val]
      BY <2>1, <2>4, InsertsTell
    <3>2. Returns(t, "ok", Contents')
      BY <2>1, <2>4, Finishes
    <3>3. QED
      BY <2>1, <3>1, <3>2, Applies
  <2>5. QED
    BY <1>10, <2>2, <2>3, <2>4, FinishInsertStep
<1>11. CASE Clear(t)
  <2>1. pc[t] # "idle" /\ Finish(t, "ok") /\ call[t].op = "clear"
    BY <1>11 DEF Clear
  <2>2. Contents' = [j \in Keys |-> Absent]
    BY <1>11, ClearTells
  <2>3. Returns(t, "ok", Contents')
    BY <2>1, Finishes
  <2>4. QED
    BY <2>1, <2>2, <2>3, Applies
<1>12. CASE ExpandLate(t) \/ Release(t)
  <2>1. pc[t] # "idle" /\ tables' = tables
    BY <1>12 DEF ExpandLate, Release
  <2>2. CASE call[t].op = "rehash"
    <3>1. PICK r \in {"ok", "fail"} : Finish(t, r)
      BY <1>12, <2>2 DEF ExpandLate, Release
    <3>2. Contents' = Contents
      BY <2>1, <3>1, Unchanged DEF Finish
    <3>3. Returns(t, r, Contents)
      BY <2>1, <3>1, <3>2, Finishes
    <3>4. QED
      BY <2>2, <3>3, Applies
  <2>3. CASE call[t].op # "rehash"
    <3>1. Retry(t, TRUE)
      BY <1>12, <2>3 DEF ExpandLate, Release
    <3>2. QED
      BY <2>1, <3>1, Retries
  <2>4. QED
    BY <2>2, <2>3
<1>13. QED
  BY <1>1, <1>2, <1>3, <1>4, <1>5, <1>6, <1>7, <1>8, <1>9, <1>10, <1>11, <1>12 DEF Step

(***************************************************************************)
(* Linearizability: every operation, expansions and displacements going on *)
(* or not, takes effect on the whole map in the step in which it returns.  *)
(***************************************************************************)
THEOREM Refines == Spec => Linearizable
<1>1. ASSUME Init PROVE Abstract!Init
  <2>1. Mapping(CurrentEntries)
    BY <1>1, InitInv, CurrentSound
  <2>2. \A k \in Keys : View(CurrentEntries)[k] \in Vals \cup {Absent}
    BY <2>1, ViewOf
  <2>3. Contents \in [Keys -> Vals \cup {Absent}]
    <3>1. Contents = View(CurrentEntries)
      BY ContentsView
    <3>2. DOMAIN View(CurrentEntries) = Keys
          /\ View(CurrentEntries) = [k \in Keys |-> View(CurrentEntries)[k]]
      BY DEF View
    <3>3. QED
      BY <2>2, <3>1, <3>2
  <2>4. InCall = [t \in Threads |-> Absent] /\ ret = [t \in Threads |-> "none"]
    BY <1>1 DEF Init, InCall
  <2>5. QED
    BY <2>3, <2>4 DEF Abstract!Init
<1>2. ASSUME IInv, [Next]_vars PROVE [Abstract!Next]_(Abstract!vars)
  <2>1. CASE UNCHANGED vars
    <3>1. Silent
      BY <2>1 DEF vars, Silent, Contents, Entries, InCall
    <3>2. QED
      BY <3>1 DEF Silent, Abstract!vars
  <2>2. ASSUME NEW t \in Threads, Call(t) \/ Step(t) PROVE [Abstract!Next]_(Abstract!vars)
    <3>1. Silent \/ Abstract!Next
      BY <1>2, <2>2, CallRefines, StepRefines
    <3>2. QED
      BY <3>1 DEF Silent, Abstract!vars
  <2>3. QED
    BY <1>2, <2>1, <2>2 DEF Next, Finished
<1>3. QED
  BY <1>1, <1>2, Invariance, PTL DEF Spec, Linearizable, Abstract!Spec
=============================================================================
