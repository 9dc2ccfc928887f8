------------------------- MODULE StripedLocksProofs -------------------------
(***************************************************************************)
(* Proofs about StripedLocks for any number of threads, locks and buckets. *)
(***************************************************************************)
EXTENDS StripedLocks, SequenceTheorems, WellFoundedInduction, TLAPS

\* The elements of a sequence, and the two orders the helpers produce.
Elems(s) == {s[n] : n \in 1..Len(s)}
Ascending(s) == \A m, n \in 1..Len(s) : m < n => s[m] < s[n]
Distinct(s) == \A m, n \in 1..Len(s) : m # n => s[m] # s[n]

\* The locks that cover what a thread asked for.
Need(a) == IF a = <<>> THEN LockIds ELSE {LockInd(a[n]) : n \in 1..Len(a)}

\* What a flag means: it is set exactly when some thread holds the lock.
FlagInv == \A i \in LockIds : flag[i] <=> \E t \in Threads : i \in held[t]

\* How far a thread is through its helper.
ThreadOK(t) ==
    /\ Len(args[t]) <= 3
    /\ pc[t] = "idle" => held[t] = {}
    /\ pc[t] = "locking" =>
          /\ todo[t] # <<>>
          /\ Ascending(todo[t])
          /\ \A i \in held[t] : \A j \in Elems(todo[t]) : i < j
          /\ held[t] \cup Elems(todo[t]) = Need(args[t])
    /\ pc[t] = "critical" => held[t] = Need(args[t])
    /\ pc[t] = "unlocking" =>
          /\ todo[t] # <<>>
          /\ Distinct(todo[t])
          /\ held[t] = Elems(todo[t])

ThreadInv == \A t \in Threads : ThreadOK(t)

\* The inductive invariant.
IInv == TypeOK /\ FlagInv /\ MutualExclusion /\ ThreadInv
-----------------------------------------------------------------------------
\* A bucket's lock exists.
LEMMA LockIndType ==
    ASSUME NEW b \in Buckets PROVE LockInd(b) \in LockIds
BY LocksAssumption DEF LockInd, LockIds

\* Short tuples, element by element.
LEMMA SingleElems ==
    ASSUME NEW x \in LockIds
    PROVE  <<x>> \in Seq(LockIds) /\ <<x>> # <<>> /\ Elems(<<x>>) = {x}
<1>1. 1..1 = {1} /\ Len(<<x>>) = 1
  OBVIOUS
<1>2. QED
  BY <1>1 DEF Elems

LEMMA PairElems ==
    ASSUME NEW x \in LockIds, NEW y \in LockIds
    PROVE  <<x, y>> \in Seq(LockIds) /\ <<x, y>> # <<>> /\ Elems(<<x, y>>) = {x, y}
<1>1. 1..2 = {1, 2} /\ Len(<<x, y>>) = 2
  OBVIOUS
<1>2. QED
  BY <1>1 DEF Elems

LEMMA TripleElems ==
    ASSUME NEW x \in LockIds, NEW y \in LockIds, NEW z \in LockIds
    PROVE  /\ <<x, y, z>> \in Seq(LockIds)
           /\ <<x, y, z>> # <<>>
           /\ Elems(<<x, y, z>>) = {x, y, z}
<1>1. 1..3 = {1, 2, 3} /\ Len(<<x, y, z>>) = 3
  OBVIOUS
<1>2. QED
  BY <1>1 DEF Elems

(***************************************************************************)
(* lock_two and lock_three take every lock they are asked for, once, in    *)
(* ascending order, whatever the indexes and their equalities.             *)
(***************************************************************************)
LEMMA LockTwoAscending ==
    ASSUME NEW i1 \in LockIds, NEW i2 \in LockIds
    PROVE  /\ LockTwoOrder(i1, i2) \in Seq(LockIds)
           /\ LockTwoOrder(i1, i2) # <<>>
           /\ Ascending(LockTwoOrder(i1, i2))
           /\ Elems(LockTwoOrder(i1, i2)) = {i1, i2}
<1>0. i1 \in Int /\ i2 \in Int
  BY LocksAssumption DEF LockIds
<1>1. CASE i1 < i2
  <2>1. LockTwoOrder(i1, i2) = <<i1, i2>>
    BY <1>1 DEF LockTwoOrder
  <2>2. Ascending(<<i1, i2>>)
    BY <1>0, <1>1 DEF Ascending
  <2>3. QED
    BY <2>1, <2>2, PairElems
<1>2. CASE i2 < i1
  <2>1. LockTwoOrder(i1, i2) = <<i2, i1>>
    BY <1>0, <1>2 DEF LockTwoOrder
  <2>2. Ascending(<<i2, i1>>)
    BY <1>0, <1>2 DEF Ascending
  <2>3. Elems(<<i2, i1>>) = {i1, i2}
    BY PairElems
  <2>4. QED
    BY <2>1, <2>2, <2>3, PairElems
<1>3. CASE i1 = i2
  <2>1. LockTwoOrder(i1, i2) = <<i1>>
    BY <1>0, <1>3 DEF LockTwoOrder
  <2>2. Ascending(<<i1>>)
    BY DEF Ascending
  <2>3. QED
    BY <1>3, <2>1, <2>2, SingleElems
<1>4. QED
  BY <1>0, <1>1, <1>2, <1>3

LEMMA TripleAscending ==
    ASSUME NEW x \in LockIds, NEW y \in LockIds, NEW z \in LockIds, x < y, y < z
    PROVE  Ascending(<<x, y, z>>)
<1>1. x \in Int /\ y \in Int /\ z \in Int
  BY LocksAssumption DEF LockIds
<1>2. QED
  BY <1>1 DEF Ascending

THEOREM LockThreeAscending ==
    ASSUME NEW i1 \in LockIds, NEW i2 \in LockIds, NEW i3 \in LockIds
    PROVE  /\ LockThreeOrder(i1, i2, i3) \in Seq(LockIds)
           /\ LockThreeOrder(i1, i2, i3) # <<>>
           /\ Ascending(LockThreeOrder(i1, i2, i3))
           /\ Elems(LockThreeOrder(i1, i2, i3)) = {i1, i2, i3}
<1>0. i1 \in Int /\ i2 \in Int /\ i3 \in Int
  BY LocksAssumption DEF LockIds
<1>1. CASE i1 = i2 \/ i2 = i3
  <2>1. LockThreeOrder(i1, i2, i3) = LockTwoOrder(i1, i3)
    BY <1>1 DEF LockThreeOrder
  <2>2. {i1, i3} = {i1, i2, i3}
    BY <1>1
  <2>3. QED
    BY <2>1, <2>2, LockTwoAscending
<1>2. CASE i1 = i3 /\ i1 # i2
  <2>1. LockThreeOrder(i1, i2, i3) = LockTwoOrder(i1, i2)
    BY <1>2 DEF LockThreeOrder
  <2>2. {i1, i2} = {i1, i2, i3}
    BY <1>2
  <2>3. QED
    BY <2>1, <2>2, LockTwoAscending
<1>3. CASE i1 # i2 /\ i2 # i3 /\ i1 # i3
  <2>1. PICK x \in {i1, i2, i3}, y \in {i1, i2, i3}, z \in {i1, i2, i3} :
           /\ LockThreeOrder(i1, i2, i3) = <<x, y, z>>
           /\ x < y /\ y < z
           /\ {x, y, z} = {i1, i2, i3}
    <3>1. CASE i1 < i2 /\ i2 < i3
      BY <1>0, <1>3, <3>1 DEF LockThreeOrder
    <3>2. CASE i1 < i2 /\ i3 < i2 /\ i1 < i3
      BY <1>0, <1>3, <3>2 DEF LockThreeOrder
    <3>3. CASE i1 < i2 /\ i3 < i2 /\ i3 < i1
      BY <1>0, <1>3, <3>3 DEF LockThreeOrder
    <3>4. CASE i2 < i1 /\ i2 < i3 /\ i1 < i3
      BY <1>0, <1>3, <3>4 DEF LockThreeOrder
    <3>5. CASE i2 < i1 /\ i2 < i3 /\ i3 < i1
      BY <1>0, <1>3, <3>5 DEF LockThreeOrder
    <3>6. CASE i2 < i1 /\ i3 < i2
      BY <1>0, <1>3, <3>6 DEF LockThreeOrder
    <3>7. QED
      BY <1>0, <1>3, <3>1, <3>2, <3>3, <3>4, <3>5, <3>6
  <2>2. Ascending(<<x, y, z>>)
    BY <2>1, TripleAscending
  <2>3. QED
    BY <2>1, <2>2, TripleElems
<1>4. QED
  BY <1>1, <1>2, <1>3

\* The lock-all loop takes every lock in ascending order.
LEMMA AllAscending ==
    /\ AllOrder \in Seq(LockIds)
    /\ AllOrder # <<>>
    /\ Ascending(AllOrder)
    /\ Distinct(AllOrder)
    /\ Elems(AllOrder) = LockIds
<1>1. AllOrder \in [1..NumLocks -> LockIds]
  BY LocksAssumption DEF AllOrder, LockIds
<1>2. AllOrder \in Seq(LockIds) /\ Len(AllOrder) = NumLocks
  BY <1>1, LocksAssumption
<1>3. \A n \in 1..NumLocks : AllOrder[n] = n - 1
  BY DEF AllOrder
<1>4. Elems(AllOrder) = LockIds
  <2>1. \A i \in LockIds : i + 1 \in 1..NumLocks /\ AllOrder[i + 1] = i
    BY <1>3, LocksAssumption DEF LockIds
  <2>2. QED
    BY <1>1, <1>2, <2>1 DEF Elems
<1>5. AllOrder # <<>>
  BY <1>2, LocksAssumption
<1>6. Ascending(AllOrder) /\ Distinct(AllOrder)
  BY <1>2, <1>3, LocksAssumption DEF Ascending, Distinct
<1>7. QED
  BY <1>2, <1>4, <1>5, <1>6

(***************************************************************************)
(* unlock_two and unlock_three clear each lock they are given once, even   *)
(* when buckets share locks.                                               *)
(***************************************************************************)
LEMMA UnlockTwoOnce ==
    ASSUME NEW i1 \in LockIds, NEW i2 \in LockIds
    PROVE  /\ UnlockTwoOrder(i1, i2) \in Seq(LockIds)
           /\ UnlockTwoOrder(i1, i2) # <<>>
           /\ Distinct(UnlockTwoOrder(i1, i2))
           /\ Elems(UnlockTwoOrder(i1, i2)) = {i1, i2}
<1>1. CASE i1 = i2
  <2>1. UnlockTwoOrder(i1, i2) = <<i1>>
    BY <1>1 DEF UnlockTwoOrder
  <2>2. Distinct(<<i1>>)
    BY DEF Distinct
  <2>3. QED
    BY <1>1, <2>1, <2>2, SingleElems
<1>2. CASE i1 # i2
  <2>1. UnlockTwoOrder(i1, i2) = <<i1, i2>>
    BY <1>2 DEF UnlockTwoOrder
  <2>2. Distinct(<<i1, i2>>)
    BY <1>2 DEF Distinct
  <2>3. QED
    BY <2>1, <2>2, PairElems
<1>3. QED
  BY <1>1, <1>2

THEOREM UnlockThreeOnce ==
    ASSUME NEW i1 \in LockIds, NEW i2 \in LockIds, NEW i3 \in LockIds
    PROVE  /\ UnlockThreeOrder(i1, i2, i3) \in Seq(LockIds)
           /\ UnlockThreeOrder(i1, i2, i3) # <<>>
           /\ Distinct(UnlockThreeOrder(i1, i2, i3))
           /\ Elems(UnlockThreeOrder(i1, i2, i3)) = {i1, i2, i3}
<1>1. CASE i3 = i1 \/ i3 = i2
  <2>1. UnlockThreeOrder(i1, i2, i3) = UnlockTwoOrder(i1, i2)
    BY <1>1 DEF UnlockThreeOrder
  <2>2. {i1, i2} = {i1, i2, i3}
    BY <1>1
  <2>3. QED
    BY <2>1, <2>2, UnlockTwoOnce
<1>2. CASE i3 # i1 /\ i3 # i2 /\ i1 = i2
  <2>1. UnlockThreeOrder(i1, i2, i3) = <<i1, i3>>
    BY <1>2 DEF UnlockThreeOrder
  <2>2. Distinct(<<i1, i3>>)
    BY <1>2 DEF Distinct
  <2>3. {i1, i3} = {i1, i2, i3}
    BY <1>2
  <2>4. QED
    BY <2>1, <2>2, <2>3, PairElems
<1>3. CASE i3 # i1 /\ i3 # i2 /\ i1 # i2
  <2>1. UnlockThreeOrder(i1, i2, i3) = <<i1, i2, i3>>
    BY <1>3 DEF UnlockThreeOrder
  <2>2. Distinct(<<i1, i2, i3>>)
    BY <1>3 DEF Distinct
  <2>3. QED
    BY <2>1, <2>2, TripleElems
<1>4. QED
  BY <1>1, <1>2, <1>3

\* The unlock helper that matches a request clears exactly the locks of it.
LEMMA UnlockOrderCovers ==
    ASSUME NEW a \in Seq(Buckets), Len(a) <= 3
    PROVE  /\ UnlockOrder(a) \in Seq(LockIds)
           /\ UnlockOrder(a) # <<>>
           /\ Distinct(UnlockOrder(a))
           /\ Elems(UnlockOrder(a)) = Need(a)
<1>0. \A n \in 1..Len(a) : a[n] \in Buckets /\ LockInd(a[n]) \in LockIds
  BY ElementOfSeq, LockIndType
<1>1. CASE Len(a) = 0
  <2>1. a = <<>> /\ UnlockOrder(a) = AllOrder
    BY <1>1 DEF UnlockOrder
  <2>2. QED
    BY <2>1, AllAscending DEF Need
<1>2. CASE Len(a) = 1
  <2>1. UnlockOrder(a) = <<LockInd(a[1])>> /\ a # <<>>
    BY <1>2 DEF UnlockOrder
  <2>2. Need(a) = {LockInd(a[1])}
    BY <1>2, <2>1 DEF Need
  <2>3. Distinct(<<LockInd(a[1])>>)
    BY DEF Distinct
  <2>4. LockInd(a[1]) \in LockIds
    BY <1>0, <1>2
  <2>5. QED
    BY <2>1, <2>2, <2>3, <2>4, SingleElems
<1>3. CASE Len(a) = 2
  <2>1. UnlockOrder(a) = UnlockTwoOrder(LockInd(a[1]), LockInd(a[2])) /\ a # <<>>
    BY <1>3 DEF UnlockOrder
  <2>2. 1..2 = {1, 2}
    OBVIOUS
  <2>3. Need(a) = {LockInd(a[1]), LockInd(a[2])}
    BY <1>3, <2>1, <2>2 DEF Need
  <2>4. LockInd(a[1]) \in LockIds /\ LockInd(a[2]) \in LockIds
    BY <1>0, <1>3
  <2>5. QED
    BY <2>1, <2>3, <2>4, UnlockTwoOnce
<1>4. CASE Len(a) = 3
  <2>1. /\ UnlockOrder(a) = UnlockThreeOrder(LockInd(a[1]), LockInd(a[2]), LockInd(a[3]))
        /\ a # <<>>
    BY <1>4 DEF UnlockOrder
  <2>2. 1..3 = {1, 2, 3}
    OBVIOUS
  <2>3. Need(a) = {LockInd(a[1]), LockInd(a[2]), LockInd(a[3])}
    BY <1>4, <2>1, <2>2 DEF Need
  <2>4. PICK i1 \in LockIds, i2 \in LockIds, i3 \in LockIds :
           i1 = LockInd(a[1]) /\ i2 = LockInd(a[2]) /\ i3 = LockInd(a[3])
    BY <1>0, <1>4
  <2>5. UnlockOrder(a) = UnlockThreeOrder(i1, i2, i3) /\ Need(a) = {i1, i2, i3}
    BY <2>1, <2>3, <2>4
  <2>6. /\ UnlockThreeOrder(i1, i2, i3) \in Seq(LockIds)
        /\ UnlockThreeOrder(i1, i2, i3) # <<>>
        /\ Distinct(UnlockThreeOrder(i1, i2, i3))
        /\ Elems(UnlockThreeOrder(i1, i2, i3)) = {i1, i2, i3}
    BY UnlockThreeOnce
  <2>7. QED
    BY <2>5, <2>6
<1>5. Len(a) = 0 \/ Len(a) = 1 \/ Len(a) = 2 \/ Len(a) = 3
  <2>1. \A n \in Nat : n <= 3 => n = 0 \/ n = 1 \/ n = 2 \/ n = 3
    OBVIOUS
  <2>2. Len(a) \in Nat
    OBVIOUS
  <2>3. QED
    BY <2>1, <2>2
<1>6. QED
  BY <1>1, <1>2, <1>3, <1>4, <1>5

\* What is left of a helper's list after its first lock.
LEMMA TailOfDistinct ==
    ASSUME NEW s \in Seq(LockIds), s # <<>>, Distinct(s)
    PROVE  /\ Tail(s) \in Seq(LockIds)
           /\ Head(s) \in LockIds
           /\ Distinct(Tail(s))
           /\ Elems(Tail(s)) = Elems(s) \ {Head(s)}
           /\ Head(s) \in Elems(s)
<1>1. /\ Head(s) \in LockIds
      /\ Tail(s) \in Seq(LockIds)
      /\ Len(Tail(s)) = Len(s) - 1
      /\ Len(s) \in Nat \ {0}
      /\ \A i \in 1..Len(Tail(s)) : Tail(s)[i] = s[i + 1]
  BY HeadTailProperties, EmptySeq
<1>2. Head(s) = s[1]
  OBVIOUS
<1>3. Distinct(Tail(s))
  BY <1>1 DEF Distinct
<1>4. ASSUME NEW i \in Elems(Tail(s)) PROVE i \in Elems(s) \ {Head(s)}
  BY <1>1, <1>2 DEF Elems, Distinct
<1>5. ASSUME NEW i \in Elems(s), i # Head(s) PROVE i \in Elems(Tail(s))
  <2>1. PICK n \in 1..Len(s) : i = s[n]
    BY DEF Elems
  <2>2. n - 1 \in 1..Len(Tail(s)) /\ Tail(s)[n - 1] = i
    BY <1>1, <1>2, <1>5, <2>1
  <2>3. QED
    BY <2>2 DEF Elems
<1>6. Head(s) \in Elems(s)
  BY <1>1, <1>2 DEF Elems
<1>7. QED
  BY <1>1, <1>3, <1>4, <1>5, <1>6

LEMMA TailOfAscending ==
    ASSUME NEW s \in Seq(LockIds), s # <<>>, Ascending(s)
    PROVE  /\ Distinct(s)
           /\ Ascending(Tail(s))
           /\ \A j \in Elems(Tail(s)) : Head(s) < j
<1>1. /\ Tail(s) \in Seq(LockIds)
      /\ Len(Tail(s)) = Len(s) - 1
      /\ Len(s) \in Nat \ {0}
      /\ \A i \in 1..Len(Tail(s)) : Tail(s)[i] = s[i + 1]
  BY HeadTailProperties, EmptySeq
<1>2. \A n \in 1..Len(s) : s[n] \in Int
  BY ElementOfSeq, LocksAssumption DEF LockIds
<1>3. Distinct(s)
  BY <1>1, <1>2 DEF Distinct, Ascending
<1>4. Ascending(Tail(s))
  BY <1>1 DEF Ascending
<1>5. \A j \in Elems(Tail(s)) : Head(s) < j
  BY <1>1 DEF Elems, Ascending
<1>6. QED
  BY <1>3, <1>4, <1>5
-----------------------------------------------------------------------------
\* No thread starts with a lock.
LEMMA InitInv == Init => IInv
<1> SUFFICES ASSUME Init PROVE IInv
  OBVIOUS
<1>1. TypeOK
  BY DEF Init, TypeOK, States
<1>2. FlagInv /\ MutualExclusion
  BY DEF Init, FlagInv, MutualExclusion
<1>3. ThreadInv
  <2> SUFFICES ASSUME NEW t \in Threads PROVE ThreadOK(t)
    BY DEF ThreadInv
  <2>1. args[t] = <<>> /\ pc[t] = "idle" /\ held[t] = {}
    BY DEF Init
  <2>2. Len(args[t]) <= 3
    BY <2>1
  <2>3. QED
    BY <2>1, <2>2 DEF ThreadOK
<1>4. QED
  BY <1>1, <1>2, <1>3 DEF IInv

\* Entering a helper with a complete ascending list keeps the invariant.
LEMMA RequestInv ==
    ASSUME IInv, NEW t \in Threads, NEW a \in Seq(Buckets), Len(a) <= 3,
           NEW order \in Seq(LockIds), order # <<>>, Ascending(order),
           Elems(order) = Need(a), Request(t, a, order)
    PROVE  IInv'
<1>1. TypeOK'
  BY DEF IInv, TypeOK, States, Request
<1>2. FlagInv' /\ MutualExclusion'
  BY DEF IInv, FlagInv, MutualExclusion, Request
<1>3. ThreadInv'
  <2> SUFFICES ASSUME NEW u \in Threads PROVE ThreadOK(u)'
    BY DEF ThreadInv
  <2>1. CASE u = t
    <3>1. held[t] = {} /\ held'[t] = {}
      BY DEF IInv, ThreadInv, ThreadOK, Request
    <3>2. pc'[t] = "locking" /\ todo'[t] = order /\ args'[t] = a
      BY DEF IInv, TypeOK, Request
    <3>3. QED
      BY <2>1, <3>1, <3>2 DEF ThreadOK
  <2>2. CASE u # t
    <3>1. /\ pc'[u] = pc[u] /\ todo'[u] = todo[u] /\ args'[u] = args[u]
          /\ held'[u] = held[u]
      BY <2>2 DEF IInv, TypeOK, Request
    <3>2. QED
      BY <3>1 DEF IInv, ThreadInv, ThreadOK
  <2>3. QED
    BY <2>1, <2>2
<1>4. QED
  BY <1>1, <1>2, <1>3 DEF IInv

\* The lock helpers all enter with such a list.
LEMMA HelperInv ==
    ASSUME IInv, NEW t \in Threads, Lock(t) \/ LockTwo(t) \/ LockThree(t) \/ LockAll(t)
    PROVE  IInv'
<1>1. CASE Lock(t)
  <2>1. PICK b \in Buckets : Request(t, <<b>>, <<LockInd(b)>>)
    BY <1>1 DEF Lock
  <2>2. /\ <<LockInd(b)>> \in Seq(LockIds)
        /\ <<LockInd(b)>> # <<>>
        /\ Elems(<<LockInd(b)>>) = {LockInd(b)}
    BY LockIndType, SingleElems
  <2>3. Ascending(<<LockInd(b)>>)
    BY DEF Ascending
  <2>4. /\ <<b>> \in Seq(Buckets)
        /\ Len(<<b>>) <= 3
        /\ Need(<<b>>) = {LockInd(b)}
    <3>1. 1..1 = {1} /\ Len(<<b>>) = 1
      OBVIOUS
    <3>2. QED
      BY <3>1 DEF Need
  <2>5. QED
    BY <2>1, <2>2, <2>3, <2>4, RequestInv
<1>2. CASE LockTwo(t)
  <2>1. PICK b1 \in Buckets, b2 \in Buckets :
           Request(t, <<b1, b2>>, LockTwoOrder(LockInd(b1), LockInd(b2)))
    BY <1>2 DEF LockTwo
  <2>2. LockInd(b1) \in LockIds /\ LockInd(b2) \in LockIds
    BY LockIndType
  <2> DEFINE order == LockTwoOrder(LockInd(b1), LockInd(b2))
  <2>3. /\ order \in Seq(LockIds)
        /\ order # <<>>
        /\ Ascending(order)
        /\ Elems(order) = {LockInd(b1), LockInd(b2)}
    BY <2>2, LockTwoAscending
  <2>4. /\ <<b1, b2>> \in Seq(Buckets)
        /\ Len(<<b1, b2>>) <= 3
        /\ Need(<<b1, b2>>) = {LockInd(b1), LockInd(b2)}
    <3>1. 1..2 = {1, 2} /\ Len(<<b1, b2>>) = 2
      OBVIOUS
    <3>2. QED
      BY <3>1 DEF Need
  <2> HIDE DEF order
  <2>5. QED
    BY <2>1, <2>3, <2>4, RequestInv DEF order
<1>3. CASE LockThree(t)
  <2>1. PICK b1 \in Buckets, b2 \in Buckets, b3 \in Buckets :
           Request(t, <<b1, b2, b3>>,
                   LockThreeOrder(LockInd(b1), LockInd(b2), LockInd(b3)))
    BY <1>3 DEF LockThree
  <2>2. LockInd(b1) \in LockIds /\ LockInd(b2) \in LockIds /\ LockInd(b3) \in LockIds
    BY LockIndType
  <2> DEFINE order == LockThreeOrder(LockInd(b1), LockInd(b2), LockInd(b3))
  <2>3. /\ order \in Seq(LockIds)
        /\ order # <<>>
        /\ Ascending(order)
        /\ Elems(order) = {LockInd(b1), LockInd(b2), LockInd(b3)}
    BY <2>2, LockThreeAscending
  <2>4. /\ <<b1, b2, b3>> \in Seq(Buckets)
        /\ Len(<<b1, b2, b3>>) <= 3
        /\ Need(<<b1, b2, b3>>) = {LockInd(b1), LockInd(b2), LockInd(b3)}
    <3>1. 1..3 = {1, 2, 3} /\ Len(<<b1, b2, b3>>) = 3
      OBVIOUS
    <3>2. QED
      BY <3>1 DEF Need
  <2> HIDE DEF order
  <2>5. QED
    BY <2>1, <2>3, <2>4, RequestInv DEF order
<1>4. CASE LockAll(t)
  <2>1. <<>> \in Seq(Buckets) /\ Len(<<>>) <= 3 /\ Need(<<>>) = LockIds
    BY DEF Need
  <2>2. Request(t, <<>>, AllOrder)
    BY <1>4 DEF LockAll
  <2>3. QED
    BY <2>1, <2>2, AllAscending, RequestInv
<1>5. QED
  BY <1>1, <1>2, <1>3, <1>4

\* A test_and_set that succeeds.
LEMMA AcquireInv ==
    ASSUME IInv, NEW t \in Threads, Acquire(t)
    PROVE  IInv'
<1> DEFINE i == Head(todo[t])
<1>1. /\ todo[t] \in Seq(LockIds) /\ todo[t] # <<>> /\ Ascending(todo[t])
      /\ \A k \in held[t] : \A j \in Elems(todo[t]) : k < j
      /\ held[t] \cup Elems(todo[t]) = Need(args[t])
      /\ Len(args[t]) <= 3
  BY DEF IInv, TypeOK, ThreadInv, ThreadOK, Acquire
<1>2. /\ i \in LockIds /\ i \in Elems(todo[t])
      /\ Tail(todo[t]) \in Seq(LockIds)
      /\ Elems(Tail(todo[t])) = Elems(todo[t]) \ {i}
      /\ Ascending(Tail(todo[t]))
      /\ \A j \in Elems(Tail(todo[t])) : i < j
  BY <1>1, TailOfDistinct, TailOfAscending
<1> HIDE DEF i
<1>3. /\ ~flag[i]
      /\ flag' = [flag EXCEPT ![i] = TRUE]
      /\ held' = [held EXCEPT ![t] = held[t] \cup {i}]
      /\ todo' = [todo EXCEPT ![t] = Tail(todo[t])]
      /\ pc' = [pc EXCEPT ![t] = IF Tail(todo[t]) = <<>> THEN "critical" ELSE "locking"]
      /\ args' = args
  BY DEF Acquire, i
<1>4. TypeOK'
  BY <1>2, <1>3 DEF IInv, TypeOK, States
<1>5. \A u \in Threads : i \notin held[u]
  BY <1>2, <1>3 DEF IInv, FlagInv
<1>6. FlagInv'
  BY <1>2, <1>3 DEF IInv, TypeOK, FlagInv
<1>7. MutualExclusion'
  BY <1>2, <1>3, <1>5 DEF IInv, TypeOK, MutualExclusion
<1>8. ThreadInv'
  <2> SUFFICES ASSUME NEW u \in Threads PROVE ThreadOK(u)'
    BY DEF ThreadInv
  <2>1. CASE u = t
    <3>1. /\ held'[t] = held[t] \cup {i} /\ todo'[t] = Tail(todo[t])
          /\ args'[t] = args[t]
          /\ pc'[t] = IF Tail(todo[t]) = <<>> THEN "critical" ELSE "locking"
      BY <1>3 DEF IInv, TypeOK
    <3>2. held'[t] \cup Elems(todo'[t]) = Need(args'[t])
      BY <1>1, <1>2, <3>1
    <3>3. CASE Tail(todo[t]) = <<>>
      <4>1. Elems(Tail(todo[t])) = {}
        BY <3>3 DEF Elems
      <4>2. QED
        BY <1>1, <2>1, <3>1, <3>2, <3>3, <4>1 DEF ThreadOK
    <3>4. CASE Tail(todo[t]) # <<>>
      <4>1. \A k \in held'[t] : \A j \in Elems(todo'[t]) : k < j
        BY <1>1, <1>2, <3>1
      <4>2. QED
        BY <1>1, <1>2, <2>1, <3>1, <3>2, <3>4, <4>1 DEF ThreadOK
    <3>5. QED
      BY <3>3, <3>4
  <2>2. CASE u # t
    <3>1. /\ pc'[u] = pc[u] /\ todo'[u] = todo[u] /\ args'[u] = args[u]
          /\ held'[u] = held[u]
      BY <1>3, <2>2 DEF IInv, TypeOK
    <3>2. QED
      BY <3>1 DEF IInv, ThreadInv, ThreadOK
  <2>3. QED
    BY <2>1, <2>2
<1>9. QED
  BY <1>4, <1>6, <1>7, <1>8 DEF IInv

\* A request for three buckets is not a request for all of them.
LEMMA NonEmptyArgs ==
    ASSUME NEW a \in Seq(Buckets), Len(a) = 3 PROVE a # <<>>
OBVIOUS

\* Unlocking the target bucket early leaves the two insert buckets locked.
LEMMA UnlockTargetInv ==
    ASSUME IInv, NEW t \in Threads, UnlockTarget(t)
    PROVE  IInv'
<1> DEFINE fb == args[t][1]
           tb == args[t][2]
           ob == args[t][3]
           free == IF LockInd(tb) # LockInd(fb) /\ LockInd(tb) # LockInd(ob)
                   THEN {LockInd(tb)} ELSE {}
<1>1. /\ args[t] \in Seq(Buckets) /\ Len(args[t]) = 3
      /\ pc[t] = "critical" /\ held[t] = Need(args[t])
  BY DEF IInv, TypeOK, ThreadInv, ThreadOK, UnlockTarget
<1>2. fb \in Buckets /\ tb \in Buckets /\ ob \in Buckets
  BY <1>1
<1>3. held[t] = {LockInd(fb), LockInd(tb), LockInd(ob)}
  <2>1. args[t] # <<>>
    BY <1>1, NonEmptyArgs
  <2>2. 1..Len(args[t]) = {1, 2, 3}
    BY <1>1
  <2>3. Need(args[t]) = {LockInd(args[t][n]) : n \in {1, 2, 3}}
    BY <2>1, <2>2 DEF Need
  <2>4. Need(args[t]) = {LockInd(args[t][1]), LockInd(args[t][2]), LockInd(args[t][3])}
    BY <2>3
  <2>5. QED
    BY <1>1, <2>4
<1>4. Need(<<fb, ob>>) = {LockInd(fb), LockInd(ob)}
  <2>1. 1..2 = {1, 2} /\ Len(<<fb, ob>>) = 2
    OBVIOUS
  <2>2. QED
    BY <2>1 DEF Need
<1>5. /\ <<fb, ob>> \in Seq(Buckets) /\ Len(<<fb, ob>>) <= 3
  BY <1>2
<1>6. held[t] \ free = Need(<<fb, ob>>) /\ free \subseteq held[t]
  BY <1>3, <1>4
<1>7. /\ flag' = [i \in LockIds |-> IF i \in free THEN FALSE ELSE flag[i]]
      /\ held' = [held EXCEPT ![t] = held[t] \ free]
      /\ args' = [args EXCEPT ![t] = <<fb, ob>>]
      /\ UNCHANGED <<pc, todo>>
  BY DEF UnlockTarget
<1> HIDE DEF fb, tb, ob, free
<1>8. TypeOK'
  BY <1>5, <1>7 DEF IInv, TypeOK, States
<1>9. \A u \in Threads : u # t => held[u] \cap free = {}
  BY <1>6 DEF IInv, MutualExclusion
<1>10. FlagInv'
  <2>1. \A u \in Threads : held'[u] = IF u = t THEN held[t] \ free ELSE held[u]
    BY <1>7 DEF IInv, TypeOK
  <2> SUFFICES ASSUME NEW i \in LockIds
               PROVE  flag'[i] <=> \E u \in Threads : i \in held'[u]
    BY DEF FlagInv
  <2>2. CASE i \in free
    <3>1. ~flag'[i]
      BY <1>7, <2>2
    <3>2. ASSUME NEW u \in Threads PROVE i \notin held'[u]
      BY <1>9, <2>1, <2>2
    <3>3. QED
      BY <3>1, <3>2
  <2>3. CASE i \notin free
    <3>1. flag'[i] = flag[i]
      BY <1>7, <2>3
    <3>2. \A u \in Threads : i \in held'[u] <=> i \in held[u]
      BY <2>1, <2>3
    <3>3. QED
      BY <3>1, <3>2 DEF IInv, FlagInv
  <2>4. QED
    BY <2>2, <2>3
<1>11. MutualExclusion'
  BY <1>7 DEF IInv, TypeOK, MutualExclusion
<1>12. ThreadInv'
  <2> SUFFICES ASSUME NEW u \in Threads PROVE ThreadOK(u)'
    BY DEF ThreadInv
  <2>1. CASE u = t
    <3>1. /\ held'[t] = Need(<<fb, ob>>) /\ args'[t] = <<fb, ob>>
          /\ pc'[t] = "critical"
      BY <1>1, <1>6, <1>7 DEF IInv, TypeOK
    <3>2. QED
      BY <1>5, <2>1, <3>1 DEF ThreadOK
  <2>2. CASE u # t
    <3>1. /\ pc'[u] = pc[u] /\ todo'[u] = todo[u] /\ args'[u] = args[u]
          /\ held'[u] = held[u]
      BY <1>7, <2>2 DEF IInv, TypeOK
    <3>2. QED
      BY <3>1 DEF IInv, ThreadInv, ThreadOK
  <2>3. QED
    BY <2>1, <2>2
<1>13. QED
  BY <1>8, <1>10, <1>11, <1>12 DEF IInv

\* Entering the unlock helper.
LEMMA BeginUnlockInv ==
    ASSUME IInv, NEW t \in Threads, BeginUnlock(t)
    PROVE  IInv'
<1>1. /\ args[t] \in Seq(Buckets) /\ Len(args[t]) <= 3 /\ held[t] = Need(args[t])
  BY DEF IInv, TypeOK, ThreadInv, ThreadOK, BeginUnlock
<1>2. /\ UnlockOrder(args[t]) \in Seq(LockIds)
      /\ UnlockOrder(args[t]) # <<>>
      /\ Distinct(UnlockOrder(args[t]))
      /\ Elems(UnlockOrder(args[t])) = Need(args[t])
  BY <1>1, UnlockOrderCovers
<1>3. TypeOK'
  BY <1>2 DEF IInv, TypeOK, States, BeginUnlock
<1>4. FlagInv' /\ MutualExclusion'
  BY DEF IInv, FlagInv, MutualExclusion, BeginUnlock
<1>5. ThreadInv'
  <2> SUFFICES ASSUME NEW u \in Threads PROVE ThreadOK(u)'
    BY DEF ThreadInv
  <2>1. CASE u = t
    <3>1. /\ held'[t] = held[t] /\ args'[t] = args[t] /\ pc'[t] = "unlocking"
          /\ todo'[t] = UnlockOrder(args[t])
      BY DEF IInv, TypeOK, BeginUnlock
    <3>2. QED
      BY <1>1, <1>2, <2>1, <3>1 DEF ThreadOK
  <2>2. CASE u # t
    <3>1. /\ pc'[u] = pc[u] /\ todo'[u] = todo[u] /\ args'[u] = args[u]
          /\ held'[u] = held[u]
      BY <2>2 DEF IInv, TypeOK, BeginUnlock
    <3>2. QED
      BY <3>1 DEF IInv, ThreadInv, ThreadOK
  <2>3. QED
    BY <2>1, <2>2
<1>6. QED
  BY <1>3, <1>4, <1>5 DEF IInv

\* One clear: the flag belongs to the thread that clears it.
LEMMA UnlockInv ==
    ASSUME IInv, NEW t \in Threads, Unlock(t)
    PROVE  IInv'
<1> DEFINE i == Head(todo[t])
<1>1. /\ todo[t] \in Seq(LockIds) /\ todo[t] # <<>> /\ Distinct(todo[t])
      /\ held[t] = Elems(todo[t])
      /\ Len(args[t]) <= 3
  BY DEF IInv, TypeOK, ThreadInv, ThreadOK, Unlock
<1>2. /\ i \in LockIds /\ i \in held[t]
      /\ Tail(todo[t]) \in Seq(LockIds)
      /\ Elems(Tail(todo[t])) = held[t] \ {i}
      /\ Distinct(Tail(todo[t]))
  BY <1>1, TailOfDistinct
<1>3. /\ flag' = [flag EXCEPT ![i] = FALSE]
      /\ held' = [held EXCEPT ![t] = held[t] \ {i}]
      /\ todo' = [todo EXCEPT ![t] = Tail(todo[t])]
      /\ pc' = [pc EXCEPT ![t] = IF Tail(todo[t]) = <<>> THEN "idle" ELSE "unlocking"]
      /\ args' = [args EXCEPT ![t] = IF Tail(todo[t]) = <<>> THEN <<>> ELSE args[t]]
  BY DEF Unlock
<1> HIDE DEF i
<1>4. TypeOK'
  BY <1>2, <1>3 DEF IInv, TypeOK, States
<1>5. \A u \in Threads : u # t => i \notin held[u]
  BY <1>2 DEF IInv, MutualExclusion
<1>6. FlagInv'
  BY <1>2, <1>3, <1>5 DEF IInv, TypeOK, FlagInv
<1>7. MutualExclusion'
  BY <1>3 DEF IInv, TypeOK, MutualExclusion
<1>8. ThreadInv'
  <2> SUFFICES ASSUME NEW u \in Threads PROVE ThreadOK(u)'
    BY DEF ThreadInv
  <2>1. CASE u = t
    <3>1. /\ held'[t] = held[t] \ {i} /\ todo'[t] = Tail(todo[t])
          /\ args'[t] = (IF Tail(todo[t]) = <<>> THEN <<>> ELSE args[t])
          /\ pc'[t] = IF Tail(todo[t]) = <<>> THEN "idle" ELSE "unlocking"
      BY <1>3 DEF IInv, TypeOK
    <3>2. CASE Tail(todo[t]) = <<>>
      <4>1. Elems(Tail(todo[t])) = {}
        BY <3>2 DEF Elems
      <4>2. args'[t] = <<>> /\ Len(args'[t]) <= 3
        BY <3>1, <3>2
      <4>3. QED
        BY <1>2, <2>1, <3>1, <3>2, <4>1, <4>2 DEF ThreadOK
    <3>3. CASE Tail(todo[t]) # <<>>
      BY <1>1, <1>2, <2>1, <3>1, <3>3 DEF ThreadOK
    <3>4. QED
      BY <3>2, <3>3
  <2>2. CASE u # t
    <3>1. /\ pc'[u] = pc[u] /\ todo'[u] = todo[u] /\ args'[u] = args[u]
          /\ held'[u] = held[u]
      BY <1>3, <2>2 DEF IInv, TypeOK
    <3>2. QED
      BY <3>1 DEF IInv, ThreadInv, ThreadOK
  <2>3. QED
    BY <2>1, <2>2
<1>9. QED
  BY <1>4, <1>6, <1>7, <1>8 DEF IInv

\* Every step keeps the invariant.
LEMMA NextInv == IInv /\ [Next]_vars => IInv'
<1> SUFFICES ASSUME IInv, [Next]_vars PROVE IInv'
  OBVIOUS
<1>1. CASE UNCHANGED vars
  <2>1. TypeOK' /\ FlagInv' /\ MutualExclusion'
    BY <1>1 DEF IInv, TypeOK, FlagInv, MutualExclusion, vars
  <2>2. ThreadInv'
    BY <1>1 DEF IInv, ThreadInv, ThreadOK, vars
  <2>3. QED
    BY <2>1, <2>2 DEF IInv
<1>2. ASSUME NEW t \in Threads, Lock(t) \/ LockTwo(t) \/ LockThree(t) \/ LockAll(t)
      PROVE  IInv'
  BY <1>2, HelperInv
<1>3. ASSUME NEW t \in Threads, Step(t) PROVE IInv'
  <2>1. CASE Acquire(t)
    BY <2>1, AcquireInv
  <2>2. CASE UnlockTarget(t)
    BY <2>2, UnlockTargetInv
  <2>3. CASE BeginUnlock(t)
    BY <2>3, BeginUnlockInv
  <2>4. CASE Unlock(t)
    BY <2>4, UnlockInv
  <2>5. QED
    BY <1>3, <2>1, <2>2, <2>3, <2>4 DEF Step
<1>4. QED
  BY <1>1, <1>2, <1>3 DEF Next

\* The inductive invariant holds throughout.
THEOREM Invariance == Spec => []IInv
<1>1. Init => IInv
  BY InitInv
<1>2. IInv /\ [Next]_vars => IInv'
  BY NextInv
<1>3. QED
  BY <1>1, <1>2, PTL DEF Spec

\* The variables keep their types.
THEOREM Typing == Spec => []TypeOK
<1>1. IInv => TypeOK
  BY DEF IInv
<1>2. QED
  BY <1>1, Invariance, PTL

(***************************************************************************)
(* No two threads ever hold the same lock, for any number of threads and   *)
(* locks and however buckets share locks.                                  *)
(***************************************************************************)
THEOREM MutexHolds == Spec => []MutualExclusion
<1>1. IInv => MutualExclusion
  BY DEF IInv
<1>2. QED
  BY <1>1, Invariance, PTL

\* A thread at work holds, and has set, the lock of each of its buckets.
THEOREM WorksLockedHolds == Spec => []WorksLocked
<1>1. ASSUME IInv PROVE WorksLocked
  <2> SUFFICES ASSUME NEW t \in Threads, pc[t] = "critical"
               PROVE  LET need == IF args[t] = <<>> THEN LockIds
                                  ELSE {LockInd(args[t][n]) : n \in DOMAIN args[t]}
                      IN need \subseteq held[t] /\ \A i \in need : flag[i]
    BY DEF WorksLocked
  <2>1. held[t] = Need(args[t]) /\ args[t] \in Seq(Buckets) /\ held[t] \subseteq LockIds
    BY <1>1 DEF IInv, ThreadInv, ThreadOK, TypeOK
  <2>2. DOMAIN args[t] = 1..Len(args[t])
    BY <2>1, LenProperties
  <2>3. \A i \in held[t] : flag[i]
    BY <1>1, <2>1 DEF IInv, FlagInv
  <2>4. QED
    BY <2>1, <2>2, <2>3 DEF Need
<1>2. QED
  BY <1>1, Invariance, PTL

\* No flag stays set when every thread is outside the helpers.
THEOREM NoLeakHolds == Spec => []NoLeak
<1>1. IInv => NoLeak
  BY DEF IInv, FlagInv, ThreadInv, ThreadOK, NoLeak
<1>2. QED
  BY <1>1, Invariance, PTL

\* A thread only waits for locks above those it holds.
THEOREM AscendingHolds == Spec => []AscendingOrder
<1>1. ASSUME IInv PROVE AscendingOrder
  <2> SUFFICES ASSUME NEW t \in Threads, pc[t] = "locking", NEW i \in held[t]
               PROVE  i < Head(todo[t])
    BY DEF AscendingOrder
  <2>1. /\ todo[t] \in Seq(LockIds) /\ todo[t] # <<>> /\ Ascending(todo[t])
        /\ \A k \in held[t] : \A j \in Elems(todo[t]) : k < j
    BY <1>1 DEF IInv, TypeOK, ThreadInv, ThreadOK
  <2>2. Head(todo[t]) \in Elems(todo[t])
    BY <2>1, TailOfAscending, TailOfDistinct
  <2>3. QED
    BY <2>1, <2>2
<1>2. QED
  BY <1>1, Invariance, PTL

\* A nonempty set of lock indexes has a largest element.
LEMMA LargestLock ==
    ASSUME NEW T, T \subseteq LockIds, T # {}
    PROVE  \E m \in T : \A i \in T : i <= m
<1> DEFINE U == {NumLocks - 1 - i : i \in T}
<1>1. /\ \A i \in T : i \in Nat /\ i <= NumLocks - 1
      /\ NumLocks \in Nat
  BY LocksAssumption DEF LockIds
<1>2. U \subseteq Nat /\ U # {}
  BY <1>1
<1> HIDE DEF U
<1>3. PICK x \in U : \A y \in U : <<y, x>> \notin OpToRel(<, Nat)
  BY <1>2, WFMin, NatLessThanWellFounded, Zenon
<1>4. \A y \in U : ~(y < x)
  BY <1>2, <1>3, Zenon DEF OpToRel
<1> USE DEF U
<1>5. PICK m \in T : x = NumLocks - 1 - m
  BY DEF U
<1>6. \A i \in T : i <= m
  <2> SUFFICES ASSUME NEW i \in T PROVE i <= m
    OBVIOUS
  <2>1. NumLocks - 1 - i \in U
    BY DEF U
  <2>2. ~(NumLocks - 1 - i < NumLocks - 1 - m)
    BY <1>4, <1>5, <2>1
  <2>3. QED
    BY <1>1, <2>2
<1>7. QED
  BY <1>6

(***************************************************************************)
(* The helpers never deadlock.  If every thread inside a helper were stuck *)
(* on a set flag, take the largest lock any of them waits for: its holder  *)
(* is stuck too, and waits for a larger one.                               *)
(***************************************************************************)
THEOREM DeadlockFreeHolds == Spec => []DeadlockFree
<1>1. ASSUME IInv PROVE DeadlockFree
  <2> SUFFICES ASSUME NEW s \in Threads, pc[s] # "idle",
                      \A t \in Threads : ~Runnable(t)
               PROVE  FALSE
    BY DEF DeadlockFree
  <2> DEFINE Stuck == {t \in Threads : pc[t] = "locking"}
             Waits == {Head(todo[t]) : t \in Stuck}
  <2>1. \A t \in Threads : pc[t] = "idle" \/ pc[t] = "locking"
    BY <1>1 DEF IInv, TypeOK, States, Runnable
  <2>2. s \in Stuck
    BY <2>1
  <2>3. ASSUME NEW t \in Stuck
        PROVE  /\ Head(todo[t]) \in LockIds
               /\ flag[Head(todo[t])]
               /\ \A k \in held[t] : k < Head(todo[t])
    <3>1. /\ todo[t] \in Seq(LockIds) /\ todo[t] # <<>> /\ Ascending(todo[t])
          /\ \A k \in held[t] : \A j \in Elems(todo[t]) : k < j
      BY <1>1 DEF IInv, TypeOK, ThreadInv, ThreadOK
    <3>2. Head(todo[t]) \in Elems(todo[t]) /\ Head(todo[t]) \in LockIds
      BY <3>1, TailOfAscending, TailOfDistinct
    <3>3. QED
      BY <3>1, <3>2 DEF Runnable
  <2>4. Waits \subseteq LockIds /\ Waits # {}
    BY <2>2, <2>3
  <2>5. PICK m \in Waits : \A i \in Waits : i <= m
    BY <2>4, LargestLock
  <2>6. PICK t \in Stuck : m = Head(todo[t])
    BY DEF Waits
  <2>7. m \in LockIds /\ flag[m]
    BY <2>3, <2>6
  <2>8. PICK u \in Threads : m \in held[u]
    BY <1>1, <2>7 DEF IInv, FlagInv
  <2>9. u \in Stuck
    BY <1>1, <2>1, <2>8 DEF IInv, ThreadInv, ThreadOK
  <2>10. m < Head(todo[u]) /\ Head(todo[u]) \in Waits
    BY <2>3, <2>8, <2>9
  <2>11. Head(todo[u]) <= m /\ Head(todo[u]) \in Int /\ m \in Int
    BY <2>4, <2>5, <2>10, LocksAssumption DEF LockIds
  <2>12. QED
    BY <2>10, <2>11
<1>2. QED
  BY <1>1, Invariance, PTL

(***************************************************************************)
(* The helpers implement the abstract lock sets: the last test_and_set of  *)
(* a request takes the set, entering the unlock helper (or unlocking the   *)
(* target bucket early) gives it back, every other step changes nothing.   *)
(***************************************************************************)
THEOREM Refines == Spec => TakesLockSets
<1> DEFINE own == [t \in Threads |-> IF pc[t] = "critical" THEN held[t] ELSE {}]
<1>1. Init => Sets!Init
  BY DEF Init, Sets!Init
<1>2. IInv /\ [Next]_vars => [Sets!Next]_own
  <2> SUFFICES ASSUME IInv, [Next]_vars PROVE Sets!Next \/ own' = own
    OBVIOUS
  <2>1. CASE UNCHANGED vars
    BY <2>1 DEF vars
  <2>2. ASSUME NEW t \in Threads, Lock(t) \/ LockTwo(t) \/ LockThree(t) \/ LockAll(t)
        PROVE  own' = own
    BY <2>2 DEF Lock, LockTwo, LockThree, LockAll, Request, IInv, TypeOK
  <2>3. ASSUME NEW t \in Threads, Acquire(t)
        PROVE  Sets!Next \/ own' = own
    <3>1. pc[t] = "locking" /\ pc \in [Threads -> States] /\ held' \in [Threads -> SUBSET LockIds]
      BY <2>3, AcquireInv DEF IInv, TypeOK, Acquire
    <3>2. /\ pc' = [pc EXCEPT ![t] = IF Tail(todo[t]) = <<>> THEN "critical" ELSE "locking"]
          /\ held' = [held EXCEPT ![t] = held'[t]]
      BY <2>3 DEF IInv, TypeOK, Acquire
    <3>3. CASE Tail(todo[t]) # <<>>
      BY <3>1, <3>2, <3>3 DEF IInv, TypeOK
    <3>4. CASE Tail(todo[t]) = <<>>
      <4>1. own' = [own EXCEPT ![t] = held'[t]]
        BY <3>1, <3>2, <3>4 DEF IInv, TypeOK
      <4>2. own[t] = {} /\ held'[t] \subseteq LockIds
        BY <3>1
      <4>3. \A u \in Threads : held'[t] \cap own[u] = {}
        <5>1. MutualExclusion'
          BY <2>3, AcquireInv DEF IInv
        <5>2. \A u \in Threads : u # t => held'[u] = held[u]
          BY <3>2 DEF IInv, TypeOK
        <5>3. ASSUME NEW u \in Threads PROVE held'[t] \cap own[u] = {}
          <6>1. CASE u = t
            BY <4>2, <6>1
          <6>2. CASE u # t
            <7>1. held'[t] \cap held[u] = {}
              BY <5>1, <5>2, <6>2 DEF MutualExclusion
            <7>2. own[u] \subseteq held[u]
              OBVIOUS
            <7>3. QED
              BY <7>1, <7>2
          <6>3. QED
            BY <6>1, <6>2
        <5>4. QED
          BY <5>3
      <4>4. PICK S \in SUBSET LockIds : S = held'[t]
        BY <4>2
      <4>5. Sets!Take(t, S)
        BY <4>1, <4>2, <4>3, <4>4 DEF Sets!Take
      <4>6. QED
        BY <4>5 DEF Sets!Next
    <3>5. QED
      BY <3>3, <3>4
  <2>4. ASSUME NEW t \in Threads, UnlockTarget(t) PROVE Sets!Next
    <3>1. PICK free \in SUBSET LockIds :
             /\ pc[t] = "critical" /\ pc' = pc
             /\ held' = [held EXCEPT ![t] = held[t] \ free]
             /\ free \subseteq held[t]
      <4> DEFINE f == IF /\ LockInd(args[t][2]) # LockInd(args[t][1])
                         /\ LockInd(args[t][2]) # LockInd(args[t][3])
                      THEN {LockInd(args[t][2])} ELSE {}
      <4>1. pc[t] = "critical" /\ pc' = pc /\ held' = [held EXCEPT ![t] = held[t] \ f]
        BY <2>4 DEF UnlockTarget
      <4>2. args[t] \in Seq(Buckets) /\ Len(args[t]) = 3 /\ held[t] = Need(args[t])
        BY <2>4, <4>1 DEF IInv, TypeOK, ThreadInv, ThreadOK, UnlockTarget
      <4>3. args[t] # <<>> /\ 2 \in 1..Len(args[t])
        BY <4>2, NonEmptyArgs
      <4>4. LockInd(args[t][2]) \in held[t]
        BY <4>2, <4>3 DEF Need
      <4>5. held[t] \subseteq LockIds
        BY DEF IInv, TypeOK
      <4>6. QED
        BY <4>1, <4>4, <4>5
    <3>2. own' = [own EXCEPT ![t] = own[t] \ free] /\ free \subseteq own[t]
      BY <3>1 DEF IInv, TypeOK
    <3>3. Sets!Give(t, free)
      BY <3>2 DEF Sets!Give
    <3>4. QED
      BY <3>3 DEF Sets!Next
  <2>5. ASSUME NEW t \in Threads, BeginUnlock(t) PROVE Sets!Next
    <3>0. pc[t] = "critical" /\ pc' = [pc EXCEPT ![t] = "unlocking"] /\ held' = held
      BY <2>5 DEF BeginUnlock
    <3>1. own' = [own EXCEPT ![t] = own[t] \ held[t]] /\ held[t] \subseteq own[t]
      BY <3>0 DEF IInv, TypeOK
    <3>2. held[t] \in SUBSET LockIds
      BY DEF IInv, TypeOK
    <3>3. PICK S \in SUBSET LockIds : S = held[t]
      BY <3>2
    <3>4. Sets!Give(t, S)
      BY <3>1, <3>3 DEF Sets!Give
    <3>5. QED
      BY <3>4 DEF Sets!Next
  <2>6. ASSUME NEW t \in Threads, Unlock(t) PROVE own' = own
    BY <2>6 DEF IInv, TypeOK, Unlock
  <2>7. QED
    BY <2>1, <2>2, <2>3, <2>4, <2>5, <2>6 DEF Next, Step
<1>3. QED
  BY <1>1, <1>2, Invariance, PTL DEF Spec, TakesLockSets, Sets!Spec
=============================================================================
