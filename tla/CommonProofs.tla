---------------------------- MODULE CommonProofs ----------------------------
(***************************************************************************)
(* Proofs about the utilities of src/common, which have nothing to do with *)
(* each other: BloomFilter for any keys, size and hash function, RefCount  *)
(* for any finite set of pointers, LoggerInit for any threads.             *)
(***************************************************************************)
EXTENDS BloomFilter, FiniteSetTheorems, WellFoundedInduction, TLAPS

CONSTANTS Ptrs, Threads, None

VARIABLES
    m_cnt, exists, ptr,                                   \* of RefCount
    log_instance, created, built, log_mutex, pc, got      \* of LoggerInit

Ref == INSTANCE RefCount
Logger == INSTANCE LoggerInit
-----------------------------------------------------------------------------
\* The buffer has the bytes it was allocated with.
Typed == mp_bloom_buf \in [Bytes -> SUBSET (0 .. 7)]

IInv == Typed /\ OneBitPerByte
-----------------------------------------------------------------------------
(***************************************************************************)
(* No round of insert or can_have leaves the buffer: m_num_bytes, rounded  *)
(* up, has a byte for every seed below m_num_bits.                         *)
(***************************************************************************)
THEOREM InBuffer ==
    ASSUME Proper, NEW k \in Keys, NEW i \in Rounds
    PROVE  /\ ByteOf(Seed(k, i)) \in Bytes
           /\ BitOf(Seed(k, i)) \in 0 .. 7
<1> DEFINE n == NumBits
           s == Seed(k, i)
<1>1. n \in Nat \ {0} /\ s \in 0 .. (n - 1)
  <2>1. Hash(k, i) \in Nat /\ n \in Nat \ {0}
    BY DEF Proper
  <2>2. QED
    BY <2>1 DEF Seed
<1> HIDE DEF n, s
<1>2. s % 8 \in 0 .. 7 /\ s \div 8 \in Nat
  BY <1>1
<1>3. s \div 8 <= (n \div 8) + (IF n % 8 # 0 THEN 1 ELSE 0) - 1
  BY <1>1
<1>4. QED
  BY <1>1, <1>2, <1>3 DEF n, s, ByteOf, BitOf, Bytes, NumBytes, CHAR_BIT

\* A nonempty set of rounds has a last one.
LEMMA LastRound ==
    ASSUME Proper, NEW R, R \subseteq Rounds, R # {}
    PROVE  \E m \in R : \A i \in R : i <= m
<1> DEFINE U == {NumHashFuncs - i : i \in R}
<1>1. NumHashFuncs \in Nat /\ \A i \in R : i \in Nat /\ i <= NumHashFuncs
  BY DEF Proper, Rounds
<1>2. U \subseteq Nat /\ U # {}
  BY <1>1
<1> HIDE DEF U
<1>3. PICK x \in U : \A y \in U : <<y, x>> \notin OpToRel(<, Nat)
  BY <1>2, WFMin, NatLessThanWellFounded, Zenon
<1>4. \A y \in U : ~(y < x)
  BY <1>2, <1>3, Zenon DEF OpToRel
<1>5. PICK m \in R : x = NumHashFuncs - m
  BY DEF U
<1>6. ASSUME NEW i \in R PROVE i <= m
  <2>1. NumHashFuncs - i \in U
    BY DEF U
  <2>2. ~(NumHashFuncs - i < NumHashFuncs - m)
    BY <1>4, <1>5, <2>1
  <2>3. QED
    BY <1>1, <2>2
<1>7. QED
  BY <1>6

\* What insert leaves in a byte that the key uses.
LEMMA Assigned ==
    ASSUME Proper, NEW k \in Keys, NEW b \in Bytes, RoundsOn(k, b) # {}, Insert(k)
    PROVE  \E i \in Rounds : /\ ByteOf(Seed(k, i)) = b
                             /\ mp_bloom_buf'[b] = {BitOf(Seed(k, i))}
<1>1. RoundsOn(k, b) \subseteq Rounds
  BY DEF RoundsOn
<1>2. \E m \in RoundsOn(k, b) : \A i \in RoundsOn(k, b) : i <= m
  BY <1>1, LastRound
<1>3. LastOn(k, b) \in RoundsOn(k, b)
  BY <1>2 DEF LastOn
<1>4. mp_bloom_buf'[b] = {BitOf(Seed(k, LastOn(k, b)))}
  BY DEF Insert
<1>5. QED
  BY <1>1, <1>3, <1>4 DEF RoundsOn

\* insert keeps the bytes and leaves one bit in those it assigns to.
LEMMA InsertKeeps ==
    ASSUME Proper, IInv, NEW k \in Keys, Insert(k)
    PROVE  IInv'
<1>1. ASSUME NEW b \in Bytes
      PROVE  mp_bloom_buf'[b] \subseteq 0 .. 7 /\ \A m, n \in mp_bloom_buf'[b] : m = n
  <2>1. CASE RoundsOn(k, b) = {}
    BY <2>1 DEF Insert, IInv, Typed, OneBitPerByte
  <2>2. CASE RoundsOn(k, b) # {}
    <3>1. PICK i \in Rounds : mp_bloom_buf'[b] = {BitOf(Seed(k, i))}
      BY <2>2, Assigned
    <3>2. BitOf(Seed(k, i)) \in 0 .. 7
      BY InBuffer
    <3>3. QED
      BY <3>1, <3>2
  <2>3. QED
    BY <2>1, <2>2
<1>2. mp_bloom_buf' = [b \in Bytes |-> mp_bloom_buf'[b]]
  BY DEF Insert
<1>3. QED
  BY <1>1, <1>2 DEF IInv, Typed, OneBitPerByte

(***************************************************************************)
(* A byte never holds two bits, whatever is inserted.                      *)
(***************************************************************************)
THEOREM Forgetful == ASSUME Proper PROVE Spec => []IInv
<1>1. Init => IInv
  BY DEF Init, IInv, Typed, OneBitPerByte
<1>2. IInv /\ [Next]_vars => IInv'
  <2> SUFFICES ASSUME IInv, [Next]_vars PROVE IInv'
    OBVIOUS
  <2>1. ASSUME NEW k \in Keys, Insert(k) PROVE IInv'
    BY <2>1, InsertKeeps
  <2>2. CASE UNCHANGED vars
    BY <2>2 DEF vars, IInv, Typed, OneBitPerByte
  <2>3. QED
    BY <2>1, <2>2 DEF Next
<1>3. QED
  BY <1>1, <1>2, PTL DEF Spec

\* A key with two bits in one byte needs more than the byte holds.
LEMMA TwoBits ==
    ASSUME Proper, IInv, NEW k \in Keys, ~Agree(k, k)
    PROVE  ~can_have(k)
<1>1. PICK i \in Rounds, j \in Rounds : /\ ByteOf(Seed(k, i)) = ByteOf(Seed(k, j))
                                        /\ BitOf(Seed(k, i)) # BitOf(Seed(k, j))
  BY DEF Agree
<1>2. ByteOf(Seed(k, i)) \in Bytes
  BY InBuffer
<1>3. QED
  BY <1>1, <1>2 DEF can_have, IInv, OneBitPerByte

(***************************************************************************)
(* can_have never finds a key two of whose bits are in one byte.           *)
(***************************************************************************)
THEOREM Unfindable == ASSUME Proper PROVE Spec => []NeverFound
<1>1. IInv => NeverFound
  BY TwoBits DEF NeverFound
<1>2. QED
  BY <1>1, Forgetful, PTL

(***************************************************************************)
(* A key with its bits in different bytes is found once it is inserted.    *)
(***************************************************************************)
THEOREM Remembered == ASSUME Proper PROVE Spec => FoundOnceInserted
<1>1. ASSUME NEW k \in Keys, Insert(k), Agree(k, k) PROVE can_have(k)'
  <2> SUFFICES ASSUME NEW i \in Rounds
               PROVE  BitOf(Seed(k, i)) \in mp_bloom_buf'[ByteOf(Seed(k, i))]
    BY DEF can_have
  <2> DEFINE b == ByteOf(Seed(k, i))
  <2>1. b \in Bytes /\ i \in RoundsOn(k, b)
    BY InBuffer DEF RoundsOn
  <2>2. PICK j \in Rounds : ByteOf(Seed(k, j)) = b /\ mp_bloom_buf'[b] = {BitOf(Seed(k, j))}
    BY <1>1, <2>1, Assigned
  <2>3. BitOf(Seed(k, i)) = BitOf(Seed(k, j))
    BY <1>1, <2>2 DEF Agree
  <2>4. QED
    BY <2>2, <2>3
<1>2. [Next]_vars => [\A k \in Keys : Insert(k) /\ Agree(k, k) => can_have(k)']_vars
  BY <1>1
<1>3. QED
  BY <1>2, PTL DEF Spec, FoundOnceInserted

(***************************************************************************)
(* And it is found until a key is inserted that wants another bit of one   *)
(* of its bytes.                                                           *)
(***************************************************************************)
THEOREM Overwritten == ASSUME Proper PROVE Spec => FoundUntilOverwritten
<1>1. ASSUME NEW k \in Keys, NEW l \in Keys, Insert(l), Agree(k, l), can_have(k)
      PROVE  can_have(k)'
  <2> SUFFICES ASSUME NEW i \in Rounds
               PROVE  BitOf(Seed(k, i)) \in mp_bloom_buf'[ByteOf(Seed(k, i))]
    BY DEF can_have
  <2> DEFINE b == ByteOf(Seed(k, i))
  <2>1. b \in Bytes
    BY InBuffer
  <2>2. CASE RoundsOn(l, b) = {}
    BY <1>1, <2>1, <2>2 DEF Insert, can_have
  <2>3. CASE RoundsOn(l, b) # {}
    <3>1. PICK j \in Rounds : ByteOf(Seed(l, j)) = b /\ mp_bloom_buf'[b] = {BitOf(Seed(l, j))}
      BY <1>1, <2>1, <2>3, Assigned
    <3>2. BitOf(Seed(k, i)) = BitOf(Seed(l, j))
      BY <1>1, <3>1 DEF Agree
    <3>3. QED
      BY <3>1, <3>2
  <2>4. QED
    BY <2>2, <2>3
<1>2. [Next]_vars =>
        [\A k, l \in Keys : Insert(l) /\ Agree(k, l) /\ can_have(k) => can_have(k)']_vars
  BY <1>1
<1>3. QED
  BY <1>2, PTL DEF Spec, FoundUntilOverwritten
-----------------------------------------------------------------------------
CountTyped ==
    /\ m_cnt \in Nat /\ exists \in BOOLEAN
    /\ ptr \in [Ptrs -> {"null", "set", "last"}]

\* The counter is the number of pointers set.
Exact == m_cnt = Cardinality(Ref!Set)

\* Whoever found the counter at 0 is alone.
Alone == \A p \in Ptrs : ptr[p] = "last" => Ref!Set = {}

CountInv == CountTyped /\ Exact /\ Alone /\ Ref!NoDangling /\ Ref!DeletedOnce /\ Ref!NotLeaked
-----------------------------------------------------------------------------
\* Sets of pointers can be counted.
LEMMA Countable ==
    ASSUME IsFiniteSet(Ptrs)
    PROVE  /\ IsFiniteSet(Ref!Set) /\ Cardinality(Ref!Set) \in Nat
           /\ Cardinality(Ref!Set) = 0 <=> Ref!Set = {}
<1>1. Ref!Set \subseteq Ptrs
  BY DEF Ref!Set
<1>2. IsFiniteSet(Ref!Set)
  BY <1>1, FS_Subset
<1>3. QED
  BY <1>2, FS_CardinalityType, FS_EmptySet

\* One more pointer set is one more to count.
LEMMA OneMore ==
    ASSUME IsFiniteSet(Ptrs), CountTyped, NEW p \in Ptrs, ptr[p] # "set",
           ptr' = [ptr EXCEPT ![p] = "set"]
    PROVE  Ref!Set' = Ref!Set \cup {p} /\ Cardinality(Ref!Set') = Cardinality(Ref!Set) + 1
<1>1. Ref!Set' = Ref!Set \cup {p} /\ p \notin Ref!Set
  BY DEF Ref!Set, CountTyped
<1>2. QED
  BY <1>1, Countable, FS_AddElement

\* One pointer fewer set is one fewer to count.
LEMMA OneFewer ==
    ASSUME IsFiniteSet(Ptrs), CountTyped, NEW p \in Ptrs, ptr[p] = "set", NEW v, v # "set",
           ptr' = [ptr EXCEPT ![p] = v]
    PROVE  Ref!Set' = Ref!Set \ {p} /\ Cardinality(Ref!Set') = Cardinality(Ref!Set) - 1
<1>1. Ref!Set' = Ref!Set \ {p} /\ p \in Ref!Set
  BY DEF Ref!Set, CountTyped
<1>2. QED
  BY <1>1, Countable, FS_RemoveElement

LEMMA NewKeeps ==
    ASSUME IsFiniteSet(Ptrs), CountInv, NEW p \in Ptrs, Ref!New(p)
    PROVE  CountInv'
<1> USE DEF CountInv
<1>1. \A q \in Ptrs : ptr[q] = "null"
  BY DEF Ref!New, Ref!NoDangling
<1>2. Ref!Set = {} /\ m_cnt = 0
  BY <1>1, Countable DEF Ref!Set, Exact
<1>3. Ref!Set' = Ref!Set \cup {p} /\ Cardinality(Ref!Set') = Cardinality(Ref!Set) + 1
  BY OneMore DEF Ref!New
<1>4. CountTyped' /\ Exact'
  BY <1>2, <1>3 DEF Ref!New, CountTyped, Exact
<1>5. \A q \in Ptrs : ptr'[q] = IF q = p THEN "set" ELSE "null"
  BY <1>1 DEF Ref!New, CountTyped
<1>6. exists'
  BY DEF Ref!New
<1>7. QED
  BY <1>4, <1>5, <1>6 DEF Alone, Ref!NoDangling, Ref!DeletedOnce, Ref!NotLeaked

LEMMA AddRefKeeps ==
    ASSUME IsFiniteSet(Ptrs), CountInv, NEW p \in Ptrs, NEW q \in Ptrs, Ref!AddRef(p, q)
    PROVE  CountInv'
<1> USE DEF CountInv
<1>1. q \in Ref!Set /\ \A r \in Ptrs : ptr[r] # "last"
  BY DEF Ref!AddRef, Ref!Set, Alone
<1>2. Ref!Set' = Ref!Set \cup {p} /\ Cardinality(Ref!Set') = Cardinality(Ref!Set) + 1
  BY OneMore DEF Ref!AddRef
<1>3. CountTyped' /\ Exact'
  BY <1>2 DEF Ref!AddRef, CountTyped, Exact
<1>4. \A r \in Ptrs : ptr'[r] = IF r = p THEN "set" ELSE ptr[r]
  BY DEF Ref!AddRef, CountTyped
<1>5. exists /\ exists'
  BY DEF Ref!AddRef, Ref!NoDangling
<1>6. QED
  BY <1>1, <1>3, <1>4, <1>5 DEF Alone, Ref!NoDangling, Ref!DeletedOnce, Ref!NotLeaked

LEMMA ReleaseKeeps ==
    ASSUME IsFiniteSet(Ptrs), CountInv, NEW p \in Ptrs, Ref!Release(p)
    PROVE  CountInv'
<1> USE DEF CountInv
<1> DEFINE v == IF m_cnt - 1 = 0 THEN "last" ELSE "null"
<1>1. p \in Ref!Set /\ \A r \in Ptrs : ptr[r] # "last"
  BY DEF Ref!Release, Ref!Set, Alone
<1>2. v # "set" /\ ptr' = [ptr EXCEPT ![p] = v] /\ ptr[p] = "set"
  BY DEF Ref!Release
<1>3. Ref!Set' = Ref!Set \ {p} /\ Cardinality(Ref!Set') = Cardinality(Ref!Set) - 1
  <2> HIDE DEF v
  <2>1. QED
    BY <1>2, OneFewer
<1>4. m_cnt \in Nat \ {0}
  BY <1>1, Countable DEF Exact, CountTyped
<1>5. CountTyped' /\ Exact'
  BY <1>3, <1>4 DEF Ref!Release, CountTyped, Exact
<1>6. \A r \in Ptrs : ptr'[r] = IF r = p THEN v ELSE ptr[r]
  BY <1>2 DEF CountTyped
<1>7. m_cnt - 1 = 0 <=> Ref!Set \ {p} = {}
  <2>1. IsFiniteSet(Ref!Set \ {p}) /\ Cardinality(Ref!Set \ {p}) = m_cnt - 1
    BY <1>3, Countable, FS_RemoveElement DEF Exact
  <2>2. QED
    BY <2>1, FS_EmptySet
<1>8. exists /\ exists'
  BY <1>1 DEF Ref!Release, Ref!NoDangling
<1>9. Alone'
  BY <1>1, <1>3, <1>6, <1>7 DEF Alone
<1>10. Ref!DeletedOnce'
  <2> SUFFICES ASSUME NEW r \in Ptrs, NEW s \in Ptrs, ptr'[r] = "last", ptr'[s] # "null"
               PROVE  r = s
    BY DEF Ref!DeletedOnce
  <2>1. r = p /\ Ref!Set' = {}
    BY <1>1, <1>3, <1>6, <1>7
  <2>2. s # p => ptr[s] = "set" /\ s \in Ref!Set'
    BY <1>1, <1>3, <1>6 DEF Ref!Set, CountTyped
  <2>3. QED
    BY <2>1, <2>2
<1>11. Ref!NotLeaked'
  <2>1. CASE Ref!Set \ {p} = {}
    BY <2>1, <1>6, <1>7 DEF Ref!NotLeaked
  <2>2. CASE Ref!Set \ {p} # {}
    BY <2>2, <1>6 DEF Ref!NotLeaked, Ref!Set
  <2>3. QED
    BY <2>1, <2>2
<1>12. QED
  BY <1>5, <1>8, <1>9, <1>10, <1>11 DEF Ref!NoDangling

LEMMA DeleteKeeps ==
    ASSUME IsFiniteSet(Ptrs), CountInv, NEW p \in Ptrs, Ref!Delete(p)
    PROVE  CountInv'
<1> USE DEF CountInv
<1>1. Ref!Set = {} /\ \A r \in Ptrs : r # p => ptr[r] = "null"
  BY DEF Ref!Delete, Alone, Ref!DeletedOnce
<1>2. \A r \in Ptrs : ptr'[r] = "null"
  BY <1>1 DEF Ref!Delete, CountTyped
<1>3. Ref!Set' = {}
  BY <1>2 DEF Ref!Set
<1>4. CountTyped' /\ Exact'
  BY <1>1, <1>3 DEF Ref!Delete, CountTyped, Exact
<1>5. ~exists'
  BY DEF Ref!Delete
<1>6. QED
  BY <1>2, <1>4, <1>5 DEF Alone, Ref!NoDangling, Ref!DeletedOnce, Ref!NotLeaked

(***************************************************************************)
(* The inductive invariant: the counter is exact, and whoever finds it at  *)
(* 0 is the only one with anything to do with the object.                  *)
(***************************************************************************)
THEOREM CountInvariance == ASSUME IsFiniteSet(Ptrs) PROVE Ref!Spec => []CountInv
<1>1. Ref!Init => CountInv
  <2> SUFFICES ASSUME Ref!Init PROVE CountInv
    OBVIOUS
  <2>1. Ref!Set = {}
    BY DEF Ref!Init, Ref!Set
  <2>2. QED
    BY <2>1, FS_EmptySet DEF Ref!Init, CountInv, CountTyped, Exact, Alone, Ref!NoDangling,
     Ref!DeletedOnce, Ref!NotLeaked
<1>2. CountInv /\ [Ref!Next]_(Ref!vars) => CountInv'
  <2> SUFFICES ASSUME CountInv, [Ref!Next]_(Ref!vars) PROVE CountInv'
    OBVIOUS
  <2>1. ASSUME NEW p \in Ptrs, Ref!New(p) PROVE CountInv'
    BY <2>1, NewKeeps
  <2>2. ASSUME NEW p \in Ptrs, NEW q \in Ptrs, Ref!AddRef(p, q) PROVE CountInv'
    BY <2>2, AddRefKeeps
  <2>3. ASSUME NEW p \in Ptrs, Ref!Release(p) PROVE CountInv'
    BY <2>3, ReleaseKeeps
  <2>4. ASSUME NEW p \in Ptrs, Ref!Delete(p) PROVE CountInv'
    BY <2>4, DeleteKeeps
  <2>5. CASE UNCHANGED Ref!vars
    BY <2>5 DEF Ref!vars, CountInv, CountTyped, Exact, Ref!Set, Alone, Ref!NoDangling,
     Ref!DeletedOnce, Ref!NotLeaked
  <2>6. QED
    BY <2>1, <2>2, <2>3, <2>4, <2>5 DEF Ref!Next
<1>3. QED
  BY <1>1, <1>2, PTL DEF Ref!Spec

(***************************************************************************)
(* No pointer dangles, and the object is deleted once and not forgotten.   *)
(***************************************************************************)
THEOREM SafelyDeleted ==
    ASSUME IsFiniteSet(Ptrs)
    PROVE  Ref!Spec => [](Ref!NoDangling /\ Ref!DeletedOnce /\ Ref!NotLeaked)
<1>1. CountInv => Ref!NoDangling /\ Ref!DeletedOnce /\ Ref!NotLeaked
  BY DEF CountInv
<1>2. QED
  BY <1>1, CountInvariance, PTL
-----------------------------------------------------------------------------
Inside == {"look_again", "create", "unlock", "write"}

LoggerTyped ==
    /\ log_instance \in {0, 1} /\ created \in {0, 1} /\ built \subseteq {1}
    /\ log_mutex \in Threads \cup {None}
    /\ pc \in [Threads -> {"idle", "look", "lock", "look_again", "create", "unlock",
                           "return", "have", "log", "write"}]
    /\ got \in [Threads -> {0, 1}]

\* The mutex belongs to whoever is inside.
Owned == \A t \in Threads : pc[t] \in Inside <=> log_mutex = t

\* How far the creation of the Log is.
Progress ==
    /\ (log_instance = 1 \/ built # {}) => created = 1
    /\ created = 1 /\ (log_instance = 0 \/ built = {}) => \E t \in Threads : pc[t] = "create"
    /\ \A t \in Threads : pc[t] = "create" => created = 1
    /\ \A t \in Threads : pc[t] \in {"unlock", "return"} => log_instance = 1
    /\ \A t \in Threads : pc[t] \in {"have", "log", "write"} => log_instance = 1 /\ got[t] = 1

LoggerInv == LoggerTyped /\ Owned /\ Progress

\* The owner of the mutex is one thread, and None is not.
NoneAssumption == None \notin Threads
-----------------------------------------------------------------------------
\* Every step of a thread keeps the invariant.
LEMMA LoggerStep ==
    ASSUME NoneAssumption, LoggerInv, NEW t \in Threads,
           \/ Logger!Call(t) \/ Logger!LookFound(t) \/ Logger!LookNull(t) \/ Logger!Lock(t)
           \/ Logger!LookAgainFound(t) \/ Logger!Allocate(t) \/ Logger!Construct(t)
           \/ Logger!SetInstance(t) \/ Logger!Created(t) \/ Logger!Unlock(t)
           \/ Logger!Return(t) \/ Logger!TooLow(t) \/ Logger!Log(t)
           \/ Logger!LockOutput(t) \/ Logger!Written(t)
    PROVE  LoggerInv'
<1> USE DEF NoneAssumption, LoggerInv, LoggerTyped, Owned, Progress, Inside, Logger!Goto
<1>1. CASE Logger!Call(t)
  BY <1>1 DEF Logger!Call
<1>2. CASE Logger!LookFound(t)
  BY <1>2 DEF Logger!LookFound
<1>3. CASE Logger!LookNull(t)
  BY <1>3 DEF Logger!LookNull
<1>4. CASE Logger!Lock(t)
  BY <1>4 DEF Logger!Lock
<1>5. CASE Logger!LookAgainFound(t)
  BY <1>5 DEF Logger!LookAgainFound
<1>6. CASE Logger!Allocate(t)
  BY <1>6 DEF Logger!Allocate
<1>7. CASE Logger!Construct(t)
  BY <1>7 DEF Logger!Construct
<1>8. CASE Logger!SetInstance(t)
  BY <1>8 DEF Logger!SetInstance
<1>9. CASE Logger!Created(t)
  BY <1>9 DEF Logger!Created
<1>10. CASE Logger!Unlock(t)
  BY <1>10 DEF Logger!Unlock
<1>11. CASE Logger!Return(t)
  BY <1>11 DEF Logger!Return
<1>12. CASE Logger!TooLow(t)
  BY <1>12 DEF Logger!TooLow
<1>13. CASE Logger!Log(t)
  BY <1>13 DEF Logger!Log
<1>14. CASE Logger!LockOutput(t)
  BY <1>14 DEF Logger!LockOutput
<1>15. CASE Logger!Written(t)
  BY <1>15 DEF Logger!Written
<1>16. QED
  BY <1>1, <1>2, <1>3, <1>4, <1>5, <1>6, <1>7, <1>8, <1>9, <1>10, <1>11, <1>12, <1>13,
     <1>14, <1>15

(***************************************************************************)
(* The inductive invariant: the mutex is owned by the thread inside, and   *)
(* the Log is allocated, set and built by one thread that is there.        *)
(***************************************************************************)
THEOREM LoggerInvariance == ASSUME NoneAssumption PROVE Logger!Spec => []LoggerInv
<1>1. Logger!Init => LoggerInv
  BY DEF Logger!Init, NoneAssumption, LoggerInv, LoggerTyped, Owned, Progress, Inside
<1>2. LoggerInv /\ [Logger!Next]_(Logger!vars) => LoggerInv'
  <2> SUFFICES ASSUME LoggerInv, [Logger!Next]_(Logger!vars) PROVE LoggerInv'
    OBVIOUS
  <2>1. CASE Logger!Next
    BY <2>1, LoggerStep DEF Logger!Next
  <2>2. CASE UNCHANGED Logger!vars
    BY <2>2 DEF Logger!vars, LoggerInv, LoggerTyped, Owned, Progress
  <2>3. QED
    BY <2>1, <2>2
<1>3. QED
  BY <1>1, <1>2, PTL DEF Logger!Spec

(***************************************************************************)
(* get() creates one Log for any number of threads, and returns it.        *)
(***************************************************************************)
THEOREM CreatedOnce == ASSUME NoneAssumption PROVE Logger!Spec => []Logger!OneLog
<1>1. LoggerInv => Logger!OneLog
  BY DEF LoggerInv, LoggerTyped, Progress, Logger!OneLog
<1>2. QED
  BY <1>1, LoggerInvariance, PTL

(***************************************************************************)
(* Lines are not mixed, and get() and log_msg do not block each other for  *)
(* ever.                                                                   *)
(***************************************************************************)
THEOREM LinesWhole ==
    ASSUME NoneAssumption
    PROVE  Logger!Spec => [](Logger!WritesAlone /\ Logger!NeverStuck)
<1>1. ASSUME NoneAssumption, LoggerInv PROVE Logger!WritesAlone /\ Logger!NeverStuck
  BY <1>1 DEF NoneAssumption, LoggerInv, LoggerTyped, Owned, Inside, Logger!WritesAlone,
     Logger!NeverStuck
<1>2. QED
  BY <1>1, LoggerInvariance, PTL

(***************************************************************************)
(* Only while `new Log()` runs can another thread see a Log half built.    *)
(***************************************************************************)
THEOREM HalfBuilt == ASSUME NoneAssumption PROVE Logger!Spec => []Logger!BuiltUnlessCreating
<1>1. LoggerInv => Logger!BuiltUnlessCreating
  BY DEF LoggerInv, LoggerTyped, Progress, Logger!BuiltUnlessCreating
<1>2. QED
  BY <1>1, LoggerInvariance, PTL
=============================================================================
