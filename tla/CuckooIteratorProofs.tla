------------------------- MODULE CuckooIteratorProofs -------------------------
(***************************************************************************)
(* Proofs about CuckooIterator for any maps, iterators and tables:         *)
(*   - the steps between slots: forward_filled_slot and                    *)
(*     backward_filled_slot end at the nearest filled slot, if there is    *)
(*     one (NextFilled, PreviousFilled), although their loops have no     *)
(*     bound but the size of the table;                                    *)
(*   - IInv, the inductive invariant, action by action;                    *)
(*   - the three safety invariants and MovesToNeighbour, from IInv.        *)
(***************************************************************************)
EXTENDS CuckooIterator, FiniteSetTheorems, WellFoundedInduction, TLAPS

\* Position r is where the next filled slot after p is, or the end.
IsNextFilled(t, p, r) ==
    /\ \/ r \in Positions(t) /\ Occupied(t, r) /\ Before(p, r)
       \/ r = EndOf(t)
    /\ \A q \in Positions(t) : Occupied(t, q) /\ Before(p, q) => ~Before(q, r)

\* Position r is where the last filled slot before p is, or where a table's
\* iteration begins if there is none.
IsPreviousFilled(t, p, r) ==
    \/ /\ r \in Positions(t) /\ Occupied(t, r) /\ Before(r, p)
       /\ \A q \in Positions(t) : Occupied(t, q) /\ Before(q, p) => ~Before(r, q)
    \/ /\ r = BeginOf(t)
       /\ \A q \in Positions(t) : Occupied(t, q) => ~Before(q, p)
-----------------------------------------------------------------------------
LEMMA Shape ==
    ASSUME NEW t, IsTable(t)
    PROVE  /\ BucketCount(t) \in Nat \ {0} /\ SlotPerBucket \in Nat \ {0}
           /\ DOMAIN t = 0 .. (BucketCount(t) - 1)
           /\ \A p \in Positions(t) : t[p[1]][p[2]] \in Items \cup {Empty}
<1>1. BucketCount(t) \in Nat \ {0}
  BY FS_CardinalityType, FS_EmptySet DEF IsTable, BucketCount
<1>2. DOMAIN t = 0 .. (BucketCount(t) - 1)
  BY DEF IsTable
<1>3. ASSUME NEW p \in Positions(t) PROVE t[p[1]][p[2]] \in Items \cup {Empty}
  <2>1. p[1] \in 0 .. (BucketCount(t) - 1) /\ p[2] \in Slots
    BY <1>2 DEF Positions
  <2>2. t[p[1]] \in [Slots -> Items \cup {Empty}]
    BY <2>1 DEF IsTable
  <2>3. QED
    BY <2>1, <2>2
<1>4. QED
  BY <1>1, <1>2, <1>3, TablesAssumption

\* The places an iterator can be at.
LEMMA Place ==
    ASSUME NEW t, IsTable(t)
    PROVE  /\ \A p \in Positions(t) :
                  /\ p \in Nat \X Nat
                  /\ p[1] \in Int /\ 0 <= p[1] /\ p[1] < BucketCount(t)
                  /\ p[2] \in Int /\ 0 <= p[2] /\ p[2] < SlotPerBucket
                  /\ p # EndOf(t) /\ Before(p, EndOf(t)) /\ ~Before(EndOf(t), p)
           /\ EndOf(t) \in Nat \X Nat
           /\ EndOf(t)[1] = BucketCount(t) /\ EndOf(t)[2] = 0
           /\ <<0, 0>> \in Positions(t)
           /\ \A b, s \in Int : /\ 0 <= b /\ b < BucketCount(t)
                                /\ 0 <= s /\ s < SlotPerBucket
                                => <<b, s>> \in Positions(t)
           /\ IsFiniteSet(Positions(t))
<1>1. /\ BucketCount(t) \in Nat \ {0} /\ SlotPerBucket \in Nat \ {0}
      /\ Positions(t) = (0 .. (BucketCount(t) - 1)) \X (0 .. (SlotPerBucket - 1))
  BY Shape DEF Positions, Slots
<1>2. IsFiniteSet(Positions(t))
  <2>1. IsFiniteSet(0 .. (BucketCount(t) - 1)) /\ IsFiniteSet(0 .. (SlotPerBucket - 1))
    BY <1>1, FS_Interval
  <2>2. QED
    BY <1>1, <2>1, FS_Product
<1> DEFINE N == BucketCount(t)
<1> HIDE DEF N
<1>3. EndOf(t) = <<N, 0>>
  BY DEF EndOf, N
<1>4. N \in Nat \ {0} /\ Positions(t) = (0 .. (N - 1)) \X (0 .. (SlotPerBucket - 1))
  BY <1>1 DEF N
<1>5. \A p \in Positions(t) : p = <<p[1], p[2]>> /\ p[1] \in 0 .. (N - 1) /\ p[2] \in 0 .. (SlotPerBucket - 1)
  BY <1>4
<1>6. \A b \in 0 .. (N - 1), s \in 0 .. (SlotPerBucket - 1) : <<b, s>> \in Positions(t)
  BY <1>4
<1>7. ASSUME NEW p \in Positions(t)
      PROVE  /\ p \in Nat \X Nat
             /\ p[1] \in Int /\ 0 <= p[1] /\ p[1] < N
             /\ p[2] \in Int /\ 0 <= p[2] /\ p[2] < SlotPerBucket
             /\ p # EndOf(t) /\ Before(p, EndOf(t)) /\ ~Before(EndOf(t), p)
  <2>1. /\ p[1] \in Nat /\ p[1] < N /\ p[2] \in Nat /\ p[2] < SlotPerBucket
    BY <1>1, <1>4, <1>5
  <2>2. EndOf(t)[1] = N /\ EndOf(t)[2] = 0
    BY <1>3
  <2>3. QED
    BY <1>4, <1>5, <2>1, <2>2 DEF Before
<1>8. \A b, s \in Int : 0 <= b /\ b < N /\ 0 <= s /\ s < SlotPerBucket
                        => b \in 0 .. (N - 1) /\ s \in 0 .. (SlotPerBucket - 1)
  BY <1>1, <1>4
<1>9. EndOf(t) \in Nat \X Nat /\ EndOf(t)[1] = N /\ EndOf(t)[2] = 0
  BY <1>3, <1>4
<1>10. <<0, 0>> \in Positions(t)
  BY <1>1, <1>4, <1>6, <1>8
<1>11. QED
  BY <1>2, <1>6, <1>7, <1>8, <1>9, <1>10 DEF N

\* Before is a strict order of the positions; any two are comparable.
LEMMA Order ==
    ASSUME NEW p \in Nat \X Nat, NEW q \in Nat \X Nat
    PROVE  /\ ~Before(p, p)
           /\ Before(p, q) => ~Before(q, p)
           /\ p = q \/ Before(p, q) \/ Before(q, p)
           /\ \A r \in Nat \X Nat : Before(p, q) /\ Before(q, r) => Before(p, r)
           /\ \A r \in Nat \X Nat : Before(p, r) => Before(p, q) \/ Before(q, r)
<1>1. /\ p = <<p[1], p[2]>> /\ q = <<q[1], q[2]>>
      /\ p[1] \in Nat /\ p[2] \in Nat /\ q[1] \in Nat /\ q[2] \in Nat
  OBVIOUS
<1>2. \A r \in Nat \X Nat : r[1] \in Nat /\ r[2] \in Nat
  OBVIOUS
<1>3. QED
  BY <1>1, <1>2 DEF Before

\* A set of positions has a first and a last one.
LEMMA FirstOf ==
    ASSUME NEW T, T \subseteq Nat \X Nat, T # {}
    PROVE  \E p \in T : \A q \in T : ~Before(q, p)
<1>1. \A p \in T : p[1] \in Nat /\ p[2] \in Nat
  OBVIOUS
<1> DEFINE B == {p[1] : p \in T}
<1>2. B \subseteq Nat /\ B # {}
  BY <1>1
<1>3. PICK b \in B : \A c \in B : <<c, b>> \notin OpToRel(<, Nat)
  BY <1>2, WFMin, NatLessThanWellFounded, Zenon
<1>4. \A c \in B : ~(c < b)
  BY <1>2, <1>3, Zenon DEF OpToRel
<1> DEFINE S == {p[2] : p \in {q \in T : q[1] = b}}
<1>5. S \subseteq Nat /\ S # {}
  BY <1>1
<1>6. PICK s \in S : \A c \in S : <<c, s>> \notin OpToRel(<, Nat)
  <2> HIDE DEF S
  <2>1. QED
    BY <1>5, WFMin, NatLessThanWellFounded, Zenon
<1>7. \A c \in S : ~(c < s)
  <2> HIDE DEF S
  <2>1. QED
    BY <1>5, <1>6, Zenon DEF OpToRel
<1>8. PICK p \in T : p[1] = b /\ p[2] = s
  OBVIOUS
<1>9. ASSUME NEW q \in T, Before(q, p) PROVE FALSE
  <2>1. q[1] \in B /\ ~(q[1] < b)
    BY <1>4
  <2>2. q[1] = b /\ q[2] < s
    BY <1>8, <1>9, <2>1 DEF Before
  <2>3. q[2] \in S
    BY <2>2
  <2>4. QED
    BY <1>7, <2>2, <2>3
<1>10. QED
  BY <1>8, <1>9

LEMMA LastOf ==
    ASSUME NEW t, IsTable(t), NEW T, T \subseteq Positions(t), T # {}
    PROVE  \E p \in T : \A q \in T : ~Before(p, q)
<1> DEFINE N == BucketCount(t)
           M(p) == <<N - 1 - p[1], SlotPerBucket - 1 - p[2]>>
           U == {M(p) : p \in T}
<1>1. /\ N \in Nat \ {0} /\ SlotPerBucket \in Nat \ {0}
      /\ \A p \in T : /\ p[1] \in Int /\ 0 <= p[1] /\ p[1] < N
                      /\ p[2] \in Int /\ 0 <= p[2] /\ p[2] < SlotPerBucket
  BY Place, Shape
<1> HIDE DEF N
<1>2. U \subseteq Nat \X Nat /\ U # {}
  <2>1. \A p \in T : N - 1 - p[1] \in Nat /\ SlotPerBucket - 1 - p[2] \in Nat
    BY <1>1
  <2>2. \A p \in T : M(p) \in Nat \X Nat
    BY <2>1
  <2> HIDE DEF M
  <2>3. QED
    BY <2>2
<1>3. PICK u \in U : \A v \in U : ~Before(v, u)
  BY <1>2, FirstOf
<1>4. PICK p \in T : u = M(p)
  OBVIOUS
<1>5. ASSUME NEW q \in T, Before(p, q) PROVE FALSE
  <2>1. M(q) \in U
    OBVIOUS
  <2>2. Before(M(q), M(p))
    BY <1>1, <1>5 DEF Before
  <2>3. QED
    BY <1>3, <1>4, <2>1, <2>2
<1>6. QED
  BY <1>5

\* forward_slot goes to the next slot, or from the last one to the end.
LEMMA ForwardNext ==
    ASSUME NEW t, IsTable(t), NEW p \in Positions(t)
    PROVE  /\ ForwardSlot(t, p) \in Positions(t) \cup {EndOf(t)}
           /\ Before(p, ForwardSlot(t, p))
           /\ \A q \in Positions(t) : Before(p, q) => ~Before(q, ForwardSlot(t, p))
<1> DEFINE N == BucketCount(t)
           r == ForwardSlot(t, p)
<1>1. /\ N \in Nat \ {0} /\ SlotPerBucket \in Nat \ {0}
      /\ \A q \in Positions(t) : /\ q[1] \in Int /\ 0 <= q[1] /\ q[1] < N
                                 /\ q[2] \in Int /\ 0 <= q[2] /\ q[2] < SlotPerBucket
      /\ \A b, s \in Int : 0 <= b /\ b < N /\ 0 <= s /\ s < SlotPerBucket
                           => <<b, s>> \in Positions(t)
      /\ EndOf(t)[1] = N /\ EndOf(t)[2] = 0
  BY Place, Shape
<1>2. r = IF p[2] < SlotPerBucket - 1 THEN <<p[1], p[2] + 1>>
          ELSE IF p[1] < N - 1 THEN <<p[1] + 1, 0>> ELSE EndOf(t)
  BY DEF ForwardSlot
<1> HIDE DEF N, r
<1>3. CASE p[2] < SlotPerBucket - 1
  <2>1. r = <<p[1], p[2] + 1>>
    BY <1>2, <1>3
  <2>2. r[1] = p[1] /\ r[2] = p[2] + 1
    BY <2>1
  <2>3. r \in Positions(t)
    BY <1>1, <1>3, <2>1
  <2>4. Before(p, r) /\ \A q \in Positions(t) : Before(p, q) => ~Before(q, r)
    BY <1>1, <2>2 DEF Before
  <2>5. QED
    BY <2>3, <2>4 DEF r
<1>4. CASE ~(p[2] < SlotPerBucket - 1) /\ p[1] < N - 1
  <2>1. r = <<p[1] + 1, 0>>
    BY <1>2, <1>4
  <2>2. r[1] = p[1] + 1 /\ r[2] = 0
    BY <2>1
  <2>3. r \in Positions(t)
    BY <1>1, <1>4, <2>1
  <2>4. Before(p, r) /\ \A q \in Positions(t) : Before(p, q) => ~Before(q, r)
    BY <1>1, <1>4, <2>2 DEF Before
  <2>5. QED
    BY <2>3, <2>4 DEF r
<1>5. CASE ~(p[2] < SlotPerBucket - 1) /\ ~(p[1] < N - 1)
  <2>1. r = EndOf(t)
    BY <1>2, <1>5
  <2>2. Before(p, r) /\ \A q \in Positions(t) : Before(p, q) => ~Before(q, r)
    BY <1>1, <1>5, <2>1 DEF Before
  <2>3. QED
    BY <2>1, <2>2 DEF r
<1>6. QED
  BY <1>3, <1>4, <1>5

\* There is one next filled slot or end.
LEMMA OneNext ==
    ASSUME NEW t, IsTable(t), NEW p \in Positions(t)
    PROVE  /\ \E r : IsNextFilled(t, p, r)
           /\ \A r, s : IsNextFilled(t, p, r) /\ IsNextFilled(t, p, s) => r = s
<1> DEFINE After == {q \in Positions(t) : Occupied(t, q) /\ Before(p, q)}
<1>1. \E r : IsNextFilled(t, p, r)
  <2>1. CASE After = {}
    <3>1. IsNextFilled(t, p, EndOf(t))
      BY <2>1 DEF IsNextFilled
    <3>2. QED
      BY <3>1
  <2>2. CASE After # {}
    <3>1. After \subseteq Nat \X Nat
      BY Place
    <3>2. PICK r \in After : \A q \in After : ~Before(q, r)
      BY <2>2, <3>1, FirstOf
    <3>3. IsNextFilled(t, p, r)
      BY <3>2 DEF IsNextFilled
    <3>4. QED
      BY <3>3
  <2>3. QED
    BY <2>1, <2>2
<1>2. ASSUME NEW r, NEW s, IsNextFilled(t, p, r), IsNextFilled(t, p, s) PROVE r = s
  <2>1. /\ r \in Positions(t) \cup {EndOf(t)} /\ s \in Positions(t) \cup {EndOf(t)}
        /\ r \in Nat \X Nat /\ s \in Nat \X Nat
    BY <1>2, Place DEF IsNextFilled
  <2>2. r \in Positions(t) => ~Before(r, s)
    <3>1. r \in Positions(t) => Occupied(t, r) /\ Before(p, r)
      BY <1>2, Place DEF IsNextFilled
    <3>2. QED
      BY <1>2, <3>1 DEF IsNextFilled
  <2>3. s \in Positions(t) => ~Before(s, r)
    <3>1. s \in Positions(t) => Occupied(t, s) /\ Before(p, s)
      BY <1>2, Place DEF IsNextFilled
    <3>2. QED
      BY <1>2, <3>1 DEF IsNextFilled
  <2>4. \A q \in Positions(t) : Before(q, EndOf(t)) /\ ~Before(EndOf(t), q)
    BY Place
  <2>5. ~Before(r, s) /\ ~Before(s, r)
    <3>1. CASE r \in Positions(t) /\ s \in Positions(t)
      BY <2>2, <2>3, <3>1
    <3>2. CASE r = EndOf(t) /\ s \in Positions(t)
      BY <2>3, <2>4, <3>2
    <3>3. CASE r \in Positions(t) /\ s = EndOf(t)
      BY <2>2, <2>4, <3>3
    <3>4. CASE r = EndOf(t) /\ s = EndOf(t)
      BY <2>1, <3>4, Order
    <3>5. QED
      BY <2>1, <3>1, <3>2, <3>3, <3>4
  <2>6. QED
    BY <2>1, <2>5, Order
<1>3. QED
  BY <1>1, <1>2

\* One round of the loop of forward_filled_slot.
LEMMA NextRound ==
    ASSUME NEW t, IsTable(t), NEW p \in Positions(t)
    PROVE  LET n == ForwardSlot(t, p)
           IN \/ (n = EndOf(t) \/ Occupied(t, n)) /\ IsNextFilled(t, p, n)
              \/ /\ n \in Positions(t) /\ n # EndOf(t) /\ ~Occupied(t, n)
                 /\ \A r : IsNextFilled(t, n, r) <=> IsNextFilled(t, p, r)
<1> DEFINE n == ForwardSlot(t, p)
<1>1. /\ n \in Positions(t) \cup {EndOf(t)} /\ Before(p, n)
      /\ \A q \in Positions(t) : Before(p, q) => ~Before(q, n)
  BY ForwardNext
<1> HIDE DEF n
<1>2. n \in Positions(t) => n # EndOf(t)
  BY Place
<1>3. CASE n = EndOf(t) \/ Occupied(t, n)
  <2>1. IsNextFilled(t, p, n)
    BY <1>1, <1>3 DEF IsNextFilled
  <2>2. QED
    BY <1>3, <2>1 DEF n
<1>4. CASE n # EndOf(t) /\ ~Occupied(t, n)
  <2>1. n \in Positions(t)
    BY <1>1, <1>4
  <2>2. \A q \in Positions(t) : Occupied(t, q) => (Before(n, q) <=> Before(p, q))
    <3>1. SUFFICES ASSUME NEW q \in Positions(t), Occupied(t, q)
                   PROVE Before(n, q) <=> Before(p, q)
      OBVIOUS
    <3>2. p \in Nat \X Nat /\ n \in Nat \X Nat /\ q \in Nat \X Nat
      BY <2>1, Place
    <3>3. Before(n, q) => Before(p, q)
      BY <1>1, <3>2, Order
    <3>4. Before(p, q) => n = q \/ Before(n, q)
      BY <1>1, <3>2, Order
    <3>5. QED
      BY <1>4, <3>1, <3>3, <3>4
  <2>3. \A r : IsNextFilled(t, n, r) <=> IsNextFilled(t, p, r)
    BY <2>2 DEF IsNextFilled
  <2>4. QED
    BY <1>4, <2>1, <2>3 DEF n
<1>5. QED
  BY <1>3, <1>4

(***************************************************************************)
(* forward_filled_slot finds the next filled slot, or the end.  The search *)
(* has a result since the function of the next filled slots satisfies its  *)
(* equation, and any function that does so is right: the last position at  *)
(* which it were not would contradict NextRound.                           *)
(***************************************************************************)
LEMMA NextFilled ==
    ASSUME NEW t, IsTable(t), NEW p \in Positions(t)
    PROVE  IsNextFilled(t, p, ForwardFilled(t, p))
<1> DEFINE P == Positions(t)
           Round(f) == [q \in P |->
               LET next == ForwardSlot(t, q)
               IN IF next = EndOf(t) \/ Occupied(t, next) THEN next ELSE f[next]]
           w == [q \in P |-> CHOOSE r : IsNextFilled(t, q, r)]
           g == CHOOSE f : f = Round(f)
<1>1. \A q \in P : IsNextFilled(t, q, w[q])
  BY OneNext
<1>2. w = Round(w)
  <2>1. ASSUME NEW q \in P PROVE w[q] = Round(w)[q]
    <3> DEFINE n == ForwardSlot(t, q)
    <3>1. CASE (n = EndOf(t) \/ Occupied(t, n)) /\ IsNextFilled(t, q, n)
      <4>1. w[q] = n
        BY <1>1, <3>1, OneNext
      <4>2. QED
        BY <3>1, <4>1
    <3>2. CASE /\ n \in P /\ n # EndOf(t) /\ ~Occupied(t, n)
               /\ \A r : IsNextFilled(t, n, r) <=> IsNextFilled(t, q, r)
      <4>1. IsNextFilled(t, q, w[n])
        BY <1>1, <3>2
      <4>2. w[q] = w[n]
        BY <1>1, <4>1, OneNext
      <4>3. QED
        BY <3>2, <4>2
    <3>3. QED
      BY <3>1, <3>2, NextRound
  <2>2. QED
    BY <2>1
<1>3. g = Round(g)
  BY <1>2
<1>4. ForwardFilled(t, p) = g[p]
  BY DEF ForwardFilled
<1> HIDE DEF g
<1> DEFINE Wrong == {q \in P : ~IsNextFilled(t, q, g[q])}
<1>5. Wrong = {}
  <2>1. SUFFICES ASSUME Wrong # {} PROVE FALSE
    OBVIOUS
  <2>2. PICK q \in Wrong : \A r \in Wrong : ~Before(q, r)
    BY <2>1, LastOf
  <2> DEFINE n == ForwardSlot(t, q)
  <2>3. g[q] = IF n = EndOf(t) \/ Occupied(t, n) THEN n ELSE g[n]
    BY <1>3
  <2>4. Before(q, n)
    BY ForwardNext
  <2>5. ~(n = EndOf(t) \/ Occupied(t, n))
    BY <2>3, NextRound
  <2>6. n \in P /\ g[q] = g[n] /\ \A r : IsNextFilled(t, n, r) <=> IsNextFilled(t, q, r)
    BY <2>3, <2>5, NextRound
  <2>7. n \in Wrong
    BY <2>6
  <2>8. QED
    BY <2>2, <2>4, <2>7
<1>6. QED
  BY <1>4, <1>5

\* set_begin finds the first filled slot.
LEMMA BeginIsFirst ==
    ASSUME NEW t, IsTable(t)
    PROVE  /\ \/ BeginOf(t) \in Positions(t) /\ Occupied(t, BeginOf(t))
              \/ BeginOf(t) = EndOf(t) /\ \A q \in Positions(t) : ~Occupied(t, q)
           /\ \A q \in Positions(t) : Occupied(t, q) => ~Before(q, BeginOf(t))
<1> DEFINE z == <<0, 0>>
           r == ForwardFilled(t, z)
<1>1. z \in Positions(t)
  BY Place
<1>2. \A q \in Positions(t) : q = z \/ Before(z, q)
  <2>1. ASSUME NEW q \in Positions(t) PROVE ~Before(q, z)
    <3>1. q[1] \in Int /\ q[1] >= 0 /\ q[2] \in Int /\ q[2] >= 0
      BY Place
    <3>2. QED
      BY <3>1 DEF Before
  <2>2. QED
    BY <1>1, <2>1, Place, Order
<1>3. IsNextFilled(t, z, r)
  BY <1>1, NextFilled
<1> HIDE DEF r, z
<1>4. CASE \A q \in Positions(t) : ~Occupied(t, q)
  <2>1. BeginOf(t) = EndOf(t)
    BY <1>4 DEF BeginOf
  <2>2. QED
    BY <1>4, <2>1
<1>5. CASE Occupied(t, z)
  <2>1. BeginOf(t) = z
    BY <1>1, <1>5 DEF BeginOf, z
  <2>2. \A q \in Positions(t) : ~Before(q, z)
    BY <1>1, <1>2, Place, Order
  <2>3. QED
    BY <1>1, <1>5, <2>1, <2>2
<1>6. CASE ~Occupied(t, z) /\ ~(\A q \in Positions(t) : ~Occupied(t, q))
  <2>1. BeginOf(t) = r
    BY <1>6 DEF BeginOf, z, r
  <2>2. \A q \in Positions(t) : Occupied(t, q) => Before(z, q)
    BY <1>2, <1>6
  <2>3. \A q \in Positions(t) : Occupied(t, q) => ~Before(q, r)
    BY <1>3, <2>2 DEF IsNextFilled
  <2>4. r # EndOf(t)
    BY <1>6, <2>3, Place
  <2>5. QED
    BY <1>3, <2>1, <2>3, <2>4 DEF IsNextFilled
<1>7. QED
  BY <1>4, <1>5, <1>6

\* backward_slot goes to the slot before.
LEMMA BackwardNext ==
    ASSUME NEW t, IsTable(t), NEW p \in Positions(t) \cup {EndOf(t)}, p # <<0, 0>>
    PROVE  /\ BackwardSlot(t, p) \in Positions(t)
           /\ Before(BackwardSlot(t, p), p)
           /\ \A q \in Positions(t) : Before(q, p) => ~Before(BackwardSlot(t, p), q)
<1> DEFINE N == BucketCount(t)
           r == BackwardSlot(t, p)
<1>1. /\ N \in Nat \ {0} /\ SlotPerBucket \in Nat \ {0}
      /\ \A q \in Positions(t) : /\ q[1] \in Int /\ 0 <= q[1] /\ q[1] < N
                                 /\ q[2] \in Int /\ 0 <= q[2] /\ q[2] < SlotPerBucket
      /\ \A b, s \in Int : 0 <= b /\ b < N /\ 0 <= s /\ s < SlotPerBucket
                           => <<b, s>> \in Positions(t)
      /\ EndOf(t)[1] = N /\ EndOf(t)[2] = 0
  BY Place, Shape
<1>2. r = IF p[2] > 0 THEN <<p[1], p[2] - 1>>
          ELSE IF p[1] > 0 THEN <<p[1] - 1, SlotPerBucket - 1>> ELSE BeginOf(t)
  BY DEF BackwardSlot
<1>3. p \in Nat \X Nat
  BY Place
<1>4. /\ p[1] \in Int /\ 0 <= p[1] /\ p[1] <= N
      /\ p[2] \in Int /\ 0 <= p[2] /\ p[2] < SlotPerBucket
      /\ p[2] > 0 => p[1] < N
      /\ p[2] > 0 \/ p[1] > 0
  <2>1. p = <<p[1], p[2]>>
    BY <1>3
  <2>2. QED
    BY <1>1, <1>3, <2>1
<1> HIDE DEF N, r
<1>5. CASE p[2] > 0
  <2>1. r = <<p[1], p[2] - 1>>
    BY <1>2, <1>5
  <2>2. r[1] = p[1] /\ r[2] = p[2] - 1
    BY <2>1
  <2>3. r \in Positions(t)
    BY <1>1, <1>4, <1>5, <2>1
  <2>4. Before(r, p) /\ \A q \in Positions(t) : Before(q, p) => ~Before(r, q)
    BY <1>1, <1>4, <2>2 DEF Before
  <2>5. QED
    BY <2>3, <2>4 DEF r
<1>6. CASE ~(p[2] > 0)
  <2>1. r = <<p[1] - 1, SlotPerBucket - 1>>
    BY <1>2, <1>4, <1>6
  <2>2. r[1] = p[1] - 1 /\ r[2] = SlotPerBucket - 1
    BY <2>1
  <2>3. r \in Positions(t)
    BY <1>1, <1>4, <1>6, <2>1
  <2>4. Before(r, p) /\ \A q \in Positions(t) : Before(q, p) => ~Before(r, q)
    BY <1>1, <1>4, <1>6, <2>2 DEF Before
  <2>5. QED
    BY <2>3, <2>4 DEF r
<1>7. QED
  BY <1>5, <1>6

LEMMA OnePrevious ==
    ASSUME NEW t, IsTable(t), NEW p \in Positions(t) \cup {EndOf(t)}
    PROVE  /\ \E r : IsPreviousFilled(t, p, r)
           /\ \A r, s : IsPreviousFilled(t, p, r) /\ IsPreviousFilled(t, p, s) => r = s
<1> DEFINE Earlier == {q \in Positions(t) : Occupied(t, q) /\ Before(q, p)}
<1>1. \E r : IsPreviousFilled(t, p, r)
  <2>1. CASE Earlier = {}
    <3>1. IsPreviousFilled(t, p, BeginOf(t))
      BY <2>1 DEF IsPreviousFilled
    <3>2. QED
      BY <3>1
  <2>2. CASE Earlier # {}
    <3>1. Earlier \subseteq Positions(t)
      OBVIOUS
    <3>2. PICK r \in Earlier : \A q \in Earlier : ~Before(r, q)
      BY <2>2, <3>1, LastOf
    <3>3. IsPreviousFilled(t, p, r)
      BY <3>2 DEF IsPreviousFilled
    <3>4. QED
      BY <3>3
  <2>3. QED
    BY <2>1, <2>2
<1>2. ASSUME NEW r, NEW s, IsPreviousFilled(t, p, r), IsPreviousFilled(t, p, s) PROVE r = s
  <2>1. CASE Earlier = {}
    BY <1>2, <2>1 DEF IsPreviousFilled
  <2>2. CASE Earlier # {}
    <3>1. /\ r \in Earlier /\ s \in Earlier
          /\ ~Before(r, s) /\ ~Before(s, r)
      BY <1>2, <2>2 DEF IsPreviousFilled
    <3>2. r \in Nat \X Nat /\ s \in Nat \X Nat
      BY <3>1, Place
    <3>3. QED
      BY <3>1, <3>2, Order
  <2>3. QED
    BY <2>1, <2>2
<1>3. QED
  BY <1>1, <1>2

\* One round of the loop of backward_filled_slot.
LEMMA PreviousRound ==
    ASSUME NEW t, IsTable(t), NEW p \in Positions(t) \cup {EndOf(t)}
    PROVE  LET n == BackwardSlot(t, p)
           IN \/ (p = <<0, 0>> \/ Occupied(t, n)) /\ IsPreviousFilled(t, p, n)
              \/ /\ n \in Positions(t) /\ p # <<0, 0>> /\ ~Occupied(t, n)
                 /\ \A r : IsPreviousFilled(t, n, r) <=> IsPreviousFilled(t, p, r)
<1> DEFINE n == BackwardSlot(t, p)
<1>1. CASE p = <<0, 0>>
  <2>1. n = BeginOf(t)
    BY <1>1 DEF BackwardSlot
  <2>2. ASSUME NEW q \in Positions(t) PROVE ~Before(q, p)
    <3>1. q[1] \in Int /\ q[1] >= 0 /\ q[2] \in Int /\ q[2] >= 0
      BY Place
    <3>2. p[1] = 0 /\ p[2] = 0
      BY <1>1
    <3>3. QED
      BY <3>1, <3>2 DEF Before
  <2>3. IsPreviousFilled(t, p, n)
    BY <2>1, <2>2 DEF IsPreviousFilled
  <2>4. QED
    BY <1>1, <2>3
<1>2. CASE p # <<0, 0>>
  <2>1. /\ n \in Positions(t) /\ Before(n, p)
        /\ \A q \in Positions(t) : Before(q, p) => ~Before(n, q)
    BY <1>2, BackwardNext
  <2> HIDE DEF n
  <2>2. CASE Occupied(t, n)
    <3>1. IsPreviousFilled(t, p, n)
      BY <2>1, <2>2 DEF IsPreviousFilled
    <3>2. QED
      BY <2>2, <3>1 DEF n
  <2>3. CASE ~Occupied(t, n)
    <3>1. \A q \in Positions(t) : Occupied(t, q) => (Before(q, n) <=> Before(q, p))
      <4>1. SUFFICES ASSUME NEW q \in Positions(t), Occupied(t, q)
                     PROVE Before(q, n) <=> Before(q, p)
        OBVIOUS
      <4>2. p \in Nat \X Nat /\ n \in Nat \X Nat /\ q \in Nat \X Nat
        BY <2>1, Place
      <4>3. Before(q, n) => Before(q, p)
        BY <2>1, <4>2, Order
      <4>4. Before(q, p) => n = q \/ Before(q, n)
        BY <2>1, <4>2, Order
      <4>5. QED
        BY <2>3, <4>1, <4>3, <4>4
    <3>2. \A r : IsPreviousFilled(t, n, r) <=> IsPreviousFilled(t, p, r)
      BY <3>1 DEF IsPreviousFilled
    <3>3. QED
      BY <1>2, <2>1, <2>3, <3>2 DEF n
  <2>4. QED
    BY <2>2, <2>3
<1>3. QED
  BY <1>1, <1>2

\* backward_filled_slot finds the last filled slot before, by the argument of
\* NextFilled in the other direction.
LEMMA PreviousFilled ==
    ASSUME NEW t, IsTable(t), NEW p \in Positions(t) \cup {EndOf(t)}
    PROVE  IsPreviousFilled(t, p, BackwardFilled(t, p))
<1> DEFINE P == Positions(t) \cup {EndOf(t)}
           Round(f) == [q \in P |->
               LET next == BackwardSlot(t, q)
               IN IF q = <<0, 0>> \/ Occupied(t, next) THEN next ELSE f[next]]
           w == [q \in P |-> CHOOSE r : IsPreviousFilled(t, q, r)]
           g == CHOOSE f : f = Round(f)
<1>1. \A q \in P : IsPreviousFilled(t, q, w[q])
  BY OnePrevious
<1>2. w = Round(w)
  <2>1. ASSUME NEW q \in P PROVE w[q] = Round(w)[q]
    <3> DEFINE n == BackwardSlot(t, q)
    <3>1. CASE (q = <<0, 0>> \/ Occupied(t, n)) /\ IsPreviousFilled(t, q, n)
      <4>1. w[q] = n
        BY <1>1, <3>1, OnePrevious
      <4>2. QED
        BY <3>1, <4>1
    <3>2. CASE /\ n \in P /\ q # <<0, 0>> /\ ~Occupied(t, n)
               /\ \A r : IsPreviousFilled(t, n, r) <=> IsPreviousFilled(t, q, r)
      <4>1. IsPreviousFilled(t, q, w[n])
        BY <1>1, <3>2
      <4>2. w[q] = w[n]
        BY <1>1, <4>1, OnePrevious
      <4>3. QED
        BY <3>2, <4>2
    <3>3. QED
      BY <3>1, <3>2, PreviousRound
  <2>2. QED
    BY <2>1
<1>3. g = Round(g)
  BY <1>2
<1>4. BackwardFilled(t, p) = g[p]
  BY DEF BackwardFilled
<1> HIDE DEF g
<1> DEFINE Wrong == {q \in P : ~IsPreviousFilled(t, q, g[q])}
<1>5. Wrong = {}
  <2>1. SUFFICES ASSUME Wrong # {} PROVE FALSE
    OBVIOUS
  <2>2. Wrong \subseteq Nat \X Nat
    BY Place
  <2>3. PICK q \in Wrong : \A r \in Wrong : ~Before(r, q)
    BY <2>1, <2>2, FirstOf
  <2> DEFINE n == BackwardSlot(t, q)
  <2>4. g[q] = IF q = <<0, 0>> \/ Occupied(t, n) THEN n ELSE g[n]
    BY <1>3
  <2>5. ~(q = <<0, 0>> \/ Occupied(t, n))
    BY <2>4, PreviousRound
  <2>6. Before(n, q)
    BY <2>5, BackwardNext
  <2>7. n \in P /\ g[q] = g[n] /\ \A r : IsPreviousFilled(t, n, r) <=> IsPreviousFilled(t, q, r)
    BY <2>4, <2>5, PreviousRound
  <2>8. n \in Wrong
    BY <2>7
  <2>9. QED
    BY <2>3, <2>6, <2>8
<1>6. QED
  BY <1>4, <1>5
-----------------------------------------------------------------------------
Holding(i) == its[i] # None /\ its[i].has_table_lock

Typed ==
    /\ DOMAIN table = Maps /\ \A m \in Maps : IsTable(table[m])
    /\ locked \in [Maps -> BOOLEAN]
    /\ its \in [Iterators -> Objects \cup {None}]
    /\ items \in [Iterators -> Seq(Items) \cup {None}]
    /\ leaked \subseteq Maps

\* HeldOnce, without counting.
Owners ==
    /\ \A i \in Iterators : Holding(i) => locked[its[i].map] /\ its[i].map \notin leaked
    /\ \A i, j \in Iterators :
          Holding(i) /\ Holding(j) /\ its[i].map = its[j].map => i = j
    /\ \A m \in Maps : locked[m] =>
          m \in leaked \/ \E i \in Iterators : Holding(i) /\ its[i].map = m
    /\ \A m \in leaked : locked[m]

\* An iterator that has the locks knows the table and rests where it may.
Rests(t, it) ==
    /\ it.begin_pos = BeginOf(t) /\ it.end_pos = EndOf(t)
    /\ it.pos = EndOf(t) \/ (it.pos \in Positions(t) /\ Occupied(t, it.pos))

\* What snapshot_table has collected of t up to position p, as SnapshotExact
\* wants it.
Collected(t, p, c) ==
    /\ Len(c) = Cardinality(Passed(t, p))
    /\ \A q \in Passed(t, p) : c[Cardinality(Passed(t, q)) + 1] = t[q[1]][q[2]]

\* What is known of each iterator; the one inside snapshot_table has the locks.
Well(i) ==
    /\ Holding(i) => Rests(table[its[i].map], its[i])
    /\ items[i] # None =>
          Holding(i) /\ Collected(table[its[i].map], its[i].pos, items[i])

\* The inductive invariant.
IInv == Typed /\ Owners /\ \A i \in Iterators : Well(i)
-----------------------------------------------------------------------------
LEMMA ObjectFields ==
    ASSUME NEW o \in Objects
    PROVE  /\ o.map \in Maps /\ o.has_table_lock \in BOOLEAN /\ o # None
           /\ o.pos \in Nat \X Nat /\ o.begin_pos \in Nat \X Nat /\ o.end_pos \in Nat \X Nat
           /\ MovedFrom(o) \in Objects
           /\ MovedFrom(o).map = o.map /\ MovedFrom(o).has_table_lock = FALSE
           /\ \A p \in Nat \X Nat : /\ [o EXCEPT !.pos = p] \in Objects
                                    /\ [o EXCEPT !.pos = p].pos = p
                                    /\ [o EXCEPT !.pos = p].map = o.map
                                    /\ [o EXCEPT !.pos = p].has_table_lock = o.has_table_lock
                                    /\ [o EXCEPT !.pos = p].begin_pos = o.begin_pos
                                    /\ [o EXCEPT !.pos = p].end_pos = o.end_pos
BY NoneAssumption DEF Objects, MovedFrom

\* A table's places are pairs of numbers.
LEMMA Pairs ==
    ASSUME NEW t, IsTable(t)
    PROVE  /\ BeginOf(t) \in Nat \X Nat /\ EndOf(t) \in Nat \X Nat
           /\ \A p \in Positions(t) : ForwardFilled(t, p) \in Nat \X Nat
           /\ \A p \in Positions(t) \cup {EndOf(t)} : BackwardFilled(t, p) \in Nat \X Nat
<1>1. BeginOf(t) \in Nat \X Nat /\ EndOf(t) \in Nat \X Nat
  BY BeginIsFirst, Place
<1>2. \A p \in Positions(t) : ForwardFilled(t, p) \in Nat \X Nat
  BY NextFilled, Place DEF IsNextFilled
<1>3. \A p \in Positions(t) \cup {EndOf(t)} : BackwardFilled(t, p) \in Nat \X Nat
  BY <1>1, PreviousFilled, Place DEF IsPreviousFilled
<1>4. QED
  BY <1>1, <1>2, <1>3

\* A new iterator.
LEMMA NewOne ==
    ASSUME Typed, NEW m \in Maps, NEW is_end \in BOOLEAN
    PROVE  /\ NewIterator(m, is_end) \in Objects /\ NewIterator(m, is_end) # None
           /\ NewIterator(m, is_end).map = m /\ NewIterator(m, is_end).has_table_lock
           /\ Rests(table[m], NewIterator(m, is_end))
           /\ ~is_end => NewIterator(m, is_end).pos = BeginOf(table[m])
<1>1. IsTable(table[m])
  BY DEF Typed
<1> DEFINE o == NewIterator(m, is_end)
<1>2. /\ o.map = m /\ o.has_table_lock = TRUE
      /\ o.pos = IF is_end THEN EndOf(table[m]) ELSE BeginOf(table[m])
      /\ o.begin_pos = BeginOf(table[m]) /\ o.end_pos = EndOf(table[m])
  BY DEF NewIterator
<1>3. o \in Objects
  BY <1>1, Pairs DEF NewIterator, Objects
<1> HIDE DEF o
<1>4. Rests(table[m], o)
  <2>1. \/ BeginOf(table[m]) \in Positions(table[m]) /\ Occupied(table[m], BeginOf(table[m]))
        \/ BeginOf(table[m]) = EndOf(table[m])
    BY <1>1, BeginIsFirst
  <2>2. QED
    BY <1>2, <2>1 DEF Rests
<1>5. QED
  BY <1>2, <1>3, <1>4, ObjectFields DEF o

\* Writing an item into a filled slot leaves all places as they are.
LEMMA SameSlots ==
    ASSUME NEW t, IsTable(t), NEW p \in Positions(t), Occupied(t, p), NEW v \in Items,
           NEW u, u = [t EXCEPT ![p[1]][p[2]] = v]
    PROVE  /\ IsTable(u)
           /\ EndOf(u) = EndOf(t) /\ BeginOf(u) = BeginOf(t)
           /\ Positions(u) = Positions(t)
           /\ \A q \in Positions(t) : Occupied(u, q) <=> Occupied(t, q)
<1>1. DOMAIN u = DOMAIN t
  OBVIOUS
<1>2. p[1] \in DOMAIN t /\ p[2] \in Slots
  BY DEF Positions
<1>3. /\ IsFiniteSet(DOMAIN t) /\ DOMAIN t # {} /\ DOMAIN t = 0 .. (BucketCount(t) - 1)
      /\ t \in [0 .. (BucketCount(t) - 1) -> [Slots -> Items \cup {Empty}]]
  BY DEF IsTable
<1>4. u = [b \in DOMAIN t |-> IF b = p[1] THEN [t[b] EXCEPT ![p[2]] = v] ELSE t[b]]
  BY <1>2, <1>3
<1>5. \A b \in DOMAIN t : u[b] \in [Slots -> Items \cup {Empty}]
  BY <1>2, <1>3, <1>4
<1>6. BucketCount(u) = BucketCount(t)
  BY <1>1 DEF BucketCount
<1>7. IsTable(u)
  BY <1>1, <1>3, <1>4, <1>5, <1>6 DEF IsTable
<1>8. Positions(u) = Positions(t) /\ EndOf(u) = EndOf(t)
  BY <1>1, <1>6 DEF Positions, EndOf
<1>9. ASSUME NEW q \in Positions(t) PROVE Occupied(u, q) <=> Occupied(t, q)
  <2>1. q[1] \in DOMAIN t /\ q[2] \in Slots
    BY DEF Positions
  <2>2. CASE q[1] = p[1] /\ q[2] = p[2]
    <3>1. u[q[1]][q[2]] = v
      BY <1>2, <1>3, <1>4, <2>1, <2>2
    <3>2. v # Empty
      BY TablesAssumption
    <3>3. t[q[1]][q[2]] # Empty
      BY <2>2 DEF Occupied
    <3>4. QED
      BY <3>1, <3>2, <3>3 DEF Occupied
  <2>3. CASE ~(q[1] = p[1] /\ q[2] = p[2])
    <3>1. u[q[1]][q[2]] = t[q[1]][q[2]]
      BY <1>2, <1>3, <1>4, <2>1, <2>3
    <3>2. QED
      BY <3>1 DEF Occupied
  <2>4. QED
    BY <2>2, <2>3
<1>10. BeginOf(u) = BeginOf(t)
  <2>1. <<0, 0>> \in Positions(t)
    BY Place
  <2>2. \A r : IsNextFilled(u, <<0, 0>>, r) <=> IsNextFilled(t, <<0, 0>>, r)
    BY <1>8, <1>9 DEF IsNextFilled
  <2>3. ForwardFilled(u, <<0, 0>>) = ForwardFilled(t, <<0, 0>>)
    <3>1. IsNextFilled(u, <<0, 0>>, ForwardFilled(u, <<0, 0>>))
      BY <1>7, <1>8, <2>1, NextFilled
    <3>2. IsNextFilled(t, <<0, 0>>, ForwardFilled(t, <<0, 0>>))
      BY <2>1, NextFilled
    <3>3. QED
      BY <2>1, <2>2, <3>1, <3>2, OneNext
  <2>4. QED
    BY <1>8, <1>9, <2>1, <2>3 DEF BeginOf
<1>11. QED
  BY <1>7, <1>8, <1>9, <1>10

\* One round of snapshot_table's loop passes one slot.
LEMMA PassesOne ==
    ASSUME NEW t, IsTable(t), NEW p \in Positions(t), Occupied(t, p)
    PROVE  /\ Passed(t, ForwardFilled(t, p)) = Passed(t, p) \cup {p}
           /\ p \notin Passed(t, p)
           /\ \A q \in Nat \X Nat : IsFiniteSet(Passed(t, q))
<1> DEFINE r == ForwardFilled(t, p)
<1>1. IsNextFilled(t, p, r)
  BY NextFilled
<1> HIDE DEF r
<1>2. p \in Nat \X Nat /\ r \in Nat \X Nat /\ Before(p, r)
  BY <1>1, Place DEF IsNextFilled
<1>3. ASSUME NEW q \in Positions(t), Occupied(t, q)
      PROVE  Before(q, r) <=> Before(q, p) \/ q = p
  <2>1. q \in Nat \X Nat
    BY Place
  <2>2. Before(p, q) => ~Before(q, r)
    BY <1>1, <1>3 DEF IsNextFilled
  <2>3. Before(q, p) => Before(q, r)
    BY <1>2, <2>1, Order
  <2>4. QED
    BY <1>2, <2>1, <2>2, <2>3, Order
<1>4. Passed(t, r) = Passed(t, p) \cup {p}
  BY <1>3 DEF Passed
<1>5. p \notin Passed(t, p)
  BY <1>2, Order DEF Passed
<1>6. ASSUME NEW q \in Nat \X Nat PROVE IsFiniteSet(Passed(t, q))
  <2>1. Passed(t, q) \in SUBSET Positions(t)
    BY DEF Passed
  <2>2. QED
    BY <2>1, Place, FS_Subset
<1>7. QED
  BY <1>4, <1>5, <1>6 DEF r
-----------------------------------------------------------------------------
LEMMA InitInv == Init => IInv
<1> SUFFICES ASSUME Init PROVE IInv
  OBVIOUS
<1>1. Typed
  BY TablesAssumption DEF Init, Typed
<1>2. \A i \in Iterators : its[i] = None /\ items[i] = None
  BY DEF Init
<1>3. Owners
  BY <1>2 DEF Init, Owners, Holding
<1>4. \A i \in Iterators : Well(i)
  BY <1>2 DEF Well, Holding
<1>5. QED
  BY <1>1, <1>3, <1>4 DEF IInv

\* A step that neither takes, gives nor moves locks.
LEMMA OwnersSame ==
    ASSUME Owners, locked' = locked, leaked' = leaked,
           \A i \in Iterators : /\ Holding(i)' <=> Holding(i)
                                /\ Holding(i) => its'[i].map = its[i].map
    PROVE  Owners'
BY Zenon DEF Owners

LEMMA HolderFields ==
    ASSUME Typed, NEW i \in Iterators, its[i] # None
    PROVE  its[i] \in Objects /\ its[i].map \in Maps /\ its[i].has_table_lock \in BOOLEAN
<1>1. its[i] \in Objects
  BY DEF Typed
<1>2. QED
  BY <1>1, ObjectFields

\* An iterator is made.
LEMMA OwnersTake ==
    ASSUME IInv, NEW i \in Iterators, NEW m \in Maps, NEW o \in Objects,
           its[i] = None, ~locked[m], o.map = m, o.has_table_lock,
           its' = [its EXCEPT ![i] = o], locked' = [locked EXCEPT ![m] = TRUE],
           leaked' = leaked
    PROVE  Owners'
<1>1. Owners /\ Typed
  BY DEF IInv
<1>2. ~Holding(i)
  BY DEF Holding
<1>3. m \notin leaked /\ \A j \in Iterators : Holding(j) => its[j].map # m
  BY <1>1 DEF Owners
<1>4. its'[i] = o /\ Holding(i)'
  BY <1>1, ObjectFields DEF Typed, Holding
<1>5. \A j \in Iterators : j # i => its'[j] = its[j] /\ (Holding(j)' <=> Holding(j))
  BY <1>1 DEF Typed, Holding
<1>6. \A n \in Maps : locked'[n] = IF n = m THEN TRUE ELSE locked[n]
  BY <1>1 DEF Typed
<1>7. \A j \in Iterators : Holding(j) => its[j].map \in Maps
  BY <1>1, HolderFields DEF Holding
<1>8. /\ \A j \in Iterators : Holding(j)' => locked'[its'[j].map] /\ its'[j].map \notin leaked'
      /\ \A j, k \in Iterators :
            Holding(j)' /\ Holding(k)' /\ its'[j].map = its'[k].map => j = k
  <2>1. \A j \in Iterators : Holding(j)' =>
            \/ j = i /\ its'[j].map = m
            \/ j # i /\ Holding(j) /\ its'[j] = its[j] /\ its[j].map # m
    BY <1>3, <1>4, <1>5
  <2>2. \A j \in Iterators : Holding(j)' => locked'[its'[j].map] /\ its'[j].map \notin leaked'
    <3>1. SUFFICES ASSUME NEW j \in Iterators, Holding(j)'
                   PROVE locked'[its'[j].map] /\ its'[j].map \notin leaked'
      OBVIOUS
    <3>2. CASE j = i /\ its'[j].map = m
      <4>1. locked'[m]
        BY <1>6
      <4>2. m \notin leaked'
        BY <1>3
      <4>3. QED
        BY <3>2, <4>1, <4>2
    <3>3. CASE j # i /\ Holding(j) /\ its'[j] = its[j] /\ its[j].map # m
      <4>1. locked[its[j].map] /\ its[j].map \notin leaked /\ its[j].map \in Maps
        BY <1>1, <1>7, <3>3 DEF Owners
      <4>2. QED
        BY <1>6, <3>3, <4>1
    <3>4. QED
      BY <2>1, <3>1, <3>2, <3>3
  <2>3. \A j, k \in Iterators :
            Holding(j)' /\ Holding(k)' /\ its'[j].map = its'[k].map => j = k
    BY <1>1, <2>1 DEF Owners
  <2>4. QED
    BY <2>2, <2>3
<1>9. ASSUME NEW n \in Maps, locked'[n]
      PROVE  n \in leaked' \/ \E j \in Iterators : Holding(j)' /\ its'[j].map = n
  <2>1. CASE n = m
    BY <1>4, <2>1
  <2>2. CASE n # m
    <3>1. locked[n]
      BY <1>6, <1>9, <2>2
    <3>2. n \in leaked \/ \E j \in Iterators : Holding(j) /\ its[j].map = n
      BY <1>1, <3>1 DEF Owners
    <3>3. QED
      BY <1>2, <1>5, <3>2
  <2>3. QED
    BY <2>1, <2>2
<1>10. \A n \in leaked' : locked'[n]
  BY <1>1, <1>6 DEF Owners, Typed
<1>11. QED
  BY <1>8, <1>9, <1>10 DEF Owners

\* An iterator is moved from; what its target held is left behind.
LEMMA OwnersMove ==
    ASSUME IInv, NEW i \in Iterators, NEW j \in Iterators, i # j, its[j] # None,
           its' = [its EXCEPT ![i] = its[j], ![j] = MovedFrom(its[j])],
           leaked' = leaked \cup (IF Holding(i) THEN {its[i].map} ELSE {}),
           locked' = locked
    PROVE  Owners'
<1>1. Owners /\ Typed
  BY DEF IInv
<1>2. its[j] \in Objects
  BY <1>1 DEF Typed
<1>3. its'[i] = its[j] /\ its'[j] = MovedFrom(its[j])
  BY <1>1 DEF Typed
<1>4. (Holding(i)' <=> Holding(j)) /\ ~Holding(j)'
  BY <1>2, <1>3, ObjectFields DEF Holding
<1>5. \A k \in Iterators : k # i /\ k # j => its'[k] = its[k] /\ (Holding(k)' <=> Holding(k))
  BY <1>1 DEF Typed, Holding
<1>6. ASSUME NEW k \in Iterators, Holding(k)'
      PROVE  \E l \in Iterators : /\ Holding(l) /\ its'[k].map = its[l].map /\ l # i
                                  /\ l = IF k = i THEN j ELSE k
  <2>1. CASE k = i
    BY <1>3, <1>4, <1>6, <2>1
  <2>2. CASE k # i
    BY <1>4, <1>5, <1>6, <2>2
  <2>3. QED
    BY <2>1, <2>2
<1>7. ASSUME NEW k \in Iterators, Holding(k)'
      PROVE  locked'[its'[k].map] /\ its'[k].map \notin leaked'
  <2>1. PICK l \in Iterators : Holding(l) /\ its'[k].map = its[l].map /\ l # i
    BY <1>6, <1>7
  <2>2. locked[its[l].map] /\ its[l].map \notin leaked
    BY <1>1, <2>1 DEF Owners
  <2>3. Holding(i) => its[l].map # its[i].map
    BY <1>1, <2>1 DEF Owners
  <2>4. QED
    BY <2>1, <2>2, <2>3
<1>8. ASSUME NEW k1 \in Iterators, NEW k2 \in Iterators, Holding(k1)', Holding(k2)',
             its'[k1].map = its'[k2].map
      PROVE  k1 = k2
  <2>1. PICK l1 \in Iterators : /\ Holding(l1) /\ its'[k1].map = its[l1].map
                                /\ l1 # i /\ l1 = IF k1 = i THEN j ELSE k1
    BY <1>6, <1>8
  <2>2. PICK l2 \in Iterators : /\ Holding(l2) /\ its'[k2].map = its[l2].map
                                /\ l2 # i /\ l2 = IF k2 = i THEN j ELSE k2
    BY <1>6, <1>8
  <2>3. l1 = l2
    BY <1>1, <1>8, <2>1, <2>2 DEF Owners
  <2>4. k1 # j /\ k2 # j
    BY <1>4, <1>8
  <2>5. QED
    BY <2>1, <2>2, <2>3, <2>4
<1>9. ASSUME NEW n \in Maps, locked'[n]
      PROVE  n \in leaked' \/ \E k \in Iterators : Holding(k)' /\ its'[k].map = n
  <2>1. CASE n \in leaked
    BY <2>1
  <2>2. CASE n \notin leaked
    <3>1. PICK k \in Iterators : Holding(k) /\ its[k].map = n
      BY <1>1, <1>9, <2>2 DEF Owners
    <3>2. CASE k = i
      BY <3>1, <3>2
    <3>3. CASE k = j
      BY <1>3, <1>4, <3>1, <3>3
    <3>4. CASE k # i /\ k # j
      BY <1>5, <3>1, <3>4
    <3>5. QED
      BY <3>2, <3>3, <3>4
  <2>3. QED
    BY <2>1, <2>2
<1>10. \A n \in leaked' : locked'[n]
  BY <1>1 DEF Owners
<1>11. QED
  BY <1>7, <1>8, <1>9, <1>10 DEF Owners

\* An iterator gives its locks back, if it has them.
LEMMA OwnersGive ==
    ASSUME IInv, NEW i \in Iterators, its[i] # None, NEW o \in Objects \cup {None},
           o # None => ~o.has_table_lock,
           its' = [its EXCEPT ![i] = o], locked' = Released(i), leaked' = leaked
    PROVE  Owners' /\ locked' \in [Maps -> BOOLEAN]
<1>1. Owners /\ Typed
  BY DEF IInv
<1>2. its[i] \in Objects
  BY <1>1 DEF Typed
<1>3. its[i].map \in Maps /\ its[i].has_table_lock \in BOOLEAN
  BY <1>2, ObjectFields
<1>4. its'[i] = o /\ ~Holding(i)'
  BY <1>1 DEF Typed, Holding
<1>5. \A k \in Iterators : k # i => its'[k] = its[k] /\ (Holding(k)' <=> Holding(k))
  BY <1>1 DEF Typed, Holding
<1>6. Holding(i) <=> its[i].has_table_lock
  BY DEF Holding
<1>7. \A n \in Maps : locked'[n] <=> locked[n] /\ ~(Holding(i) /\ n = its[i].map)
  BY <1>1, <1>3, <1>6 DEF Released, Typed
<1>8. locked' \in [Maps -> BOOLEAN]
  <2>1. (locked[its[i].map] /\ ~its[i].has_table_lock) \in BOOLEAN
    OBVIOUS
  <2>2. QED
    BY <1>1, <2>1 DEF Released, Typed
<1>9. \A k \in Iterators : Holding(k) => its[k].map \in Maps
  BY <1>1, HolderFields DEF Holding
<1>10. \A k \in Iterators : Holding(k)' => k # i /\ Holding(k) /\ its'[k] = its[k]
  BY <1>4, <1>5
<1>11. ASSUME NEW k \in Iterators, Holding(k)'
      PROVE  locked'[its'[k].map] /\ its'[k].map \notin leaked'
  <2>1. k # i /\ Holding(k) /\ its'[k] = its[k] /\ its[k].map \in Maps
    BY <1>9, <1>10, <1>11
  <2>2. locked[its[k].map] /\ its[k].map \notin leaked /\ ~(Holding(i) /\ its[k].map = its[i].map)
    BY <1>1, <2>1 DEF Owners
  <2>3. QED
    BY <1>7, <2>1, <2>2
<1>12. \A k1, k2 \in Iterators :
          Holding(k1)' /\ Holding(k2)' /\ its'[k1].map = its'[k2].map => k1 = k2
  BY <1>1, <1>10 DEF Owners
<1>13. ASSUME NEW n \in Maps, locked'[n]
      PROVE  n \in leaked' \/ \E k \in Iterators : Holding(k)' /\ its'[k].map = n
  <2>1. locked[n] /\ ~(Holding(i) /\ n = its[i].map)
    BY <1>7, <1>13
  <2>2. CASE n \in leaked
    BY <2>2
  <2>3. CASE n \notin leaked
    <3>1. PICK k \in Iterators : Holding(k) /\ its[k].map = n
      BY <1>1, <2>1, <2>3 DEF Owners
    <3>2. QED
      BY <1>5, <2>1, <3>1
  <2>4. QED
    BY <2>2, <2>3
<1>14. ASSUME NEW n \in leaked' PROVE locked'[n]
  <2>1. n \in Maps /\ locked[n] /\ (Holding(i) => its[i].map \notin leaked)
    BY <1>1, <1>14 DEF Owners, Typed
  <2>2. QED
    BY <1>7, <2>1
<1>15. QED
  BY <1>8, <1>11, <1>12, <1>13, <1>14 DEF Owners
-----------------------------------------------------------------------------
\* An iterator that a step leaves alone.
LEMMA WellSame ==
    ASSUME IInv, NEW j \in Iterators, its'[j] = its[j], items'[j] = items[j],
           Holding(j) => table'[its[j].map] = table[its[j].map]
    PROVE  Well(j)'
<1>1. Well(j)
  BY DEF IInv
<1>2. Holding(j)' <=> Holding(j)
  BY DEF Holding
<1>3. CASE Holding(j)
  <2>1. table'[its'[j].map] = table[its[j].map]
    BY <1>3
  <2>2. Rests(table'[its'[j].map], its'[j])
    BY <1>1, <1>3, <2>1 DEF Well
  <2>3. items'[j] # None => Collected(table'[its'[j].map], its'[j].pos, items'[j])
    BY <1>1, <2>1 DEF Well
  <2>4. QED
    BY <1>2, <1>3, <2>2, <2>3 DEF Well
<1>4. CASE ~Holding(j)
  BY <1>1, <1>2, <1>4 DEF Well
<1>5. QED
  BY <1>3, <1>4

LEMMA ChangeStep ==
    ASSUME IInv, NEW m \in Maps, Change(m)
    PROVE  IInv'
<1>1. PICK t \in Tables : table' = [table EXCEPT ![m] = t]
  BY DEF Change
<1>2. ~locked[m] /\ UNCHANGED <<locked, its, items, leaked>>
  BY DEF Change
<1>3. Typed /\ Owners
  BY DEF IInv
<1>4. Typed'
  BY <1>1, <1>2, <1>3, TablesAssumption DEF Typed
<1>5. Owners'
  BY <1>2, <1>3, OwnersSame DEF Holding
<1>6. ASSUME NEW j \in Iterators PROVE Well(j)'
  <2>1. Holding(j) => its[j].map # m
    BY <1>2, <1>3 DEF Owners
  <2>2. Holding(j) => table'[its[j].map] = table[its[j].map]
    <3>1. Holding(j) => its[j].map \in DOMAIN table
      BY <1>3, HolderFields DEF Typed, Holding
    <3>2. QED
      BY <1>1, <2>1, <3>1
  <2>3. QED
    BY <1>2, <2>2, WellSame
<1>7. QED
  BY <1>4, <1>5, <1>6 DEF IInv

\* The iterator o, at rest in a map whose locks were free, is made.
LEMMA MadeStep ==
    ASSUME IInv, NEW i \in Iterators, NEW m \in Maps, NEW is_end \in BOOLEAN,
           its[i] = None, ~locked[m],
           its' = [its EXCEPT ![i] = NewIterator(m, is_end)],
           locked' = [locked EXCEPT ![m] = TRUE], table' = table, leaked' = leaked,
           \/ items' = items
           \/ ~is_end /\ items' = [items EXCEPT ![i] = <<>>]
    PROVE  IInv'
<1> DEFINE o == NewIterator(m, is_end)
<1>1. Typed /\ Owners
  BY DEF IInv
<1>2. /\ o \in Objects /\ o # None /\ o.map = m /\ o.has_table_lock
      /\ Rests(table[m], o) /\ (~is_end => o.pos = BeginOf(table[m]))
  BY <1>1, NewOne
<1> HIDE DEF o
<1>3. its' = [its EXCEPT ![i] = o]
  BY DEF o
<1>4. Owners'
  BY <1>2, <1>3, OwnersTake
<1>5. Typed'
  <2>1. its' \in [Iterators -> Objects \cup {None}]
    BY <1>1, <1>2, <1>3 DEF Typed
  <2>2. items' \in [Iterators -> Seq(Items) \cup {None}]
    <3>1. <<>> \in Seq(Items)
      OBVIOUS
    <3>2. QED
      BY <1>1, <3>1 DEF Typed
  <2>3. locked' \in [Maps -> BOOLEAN]
    BY <1>1 DEF Typed
  <2>4. QED
    BY <1>1, <2>1, <2>2, <2>3 DEF Typed
<1>6. ASSUME NEW j \in Iterators, j # i PROVE Well(j)'
  <2>1. its'[j] = its[j] /\ items'[j] = items[j]
    BY <1>1, <1>3, <1>6 DEF Typed
  <2>2. QED
    BY <2>1, WellSame
<1>7. Well(i)'
  <2>1. its'[i] = o /\ Holding(i)'
    BY <1>1, <1>2, <1>3 DEF Typed, Holding
  <2>2. items[i] = None
    BY DEF IInv, Well, Holding
  <2>3. Rests(table'[its'[i].map], its'[i])
    BY <1>2, <2>1
  <2>4. items'[i] # None => ~is_end /\ items'[i] = <<>>
    BY <1>1, <2>2 DEF Typed
  <2>5. ~is_end => Collected(table'[its'[i].map], its'[i].pos, <<>>)
    <3>1. IsTable(table[m])
      BY <1>1 DEF Typed
    <3>2. Passed(table[m], BeginOf(table[m])) = {}
      BY <3>1, BeginIsFirst DEF Passed
    <3>3. Collected(table[m], BeginOf(table[m]), <<>>)
      BY <3>2, FS_EmptySet DEF Collected
    <3>4. QED
      BY <1>2, <2>1, <3>3
  <2>6. QED
    BY <2>1, <2>3, <2>4, <2>5 DEF Well
<1>8. QED
  BY <1>4, <1>5, <1>6, <1>7 DEF IInv

LEMMA MoveStep ==
    ASSUME IInv, NEW i \in Iterators, NEW j \in Iterators,
           MoveConstruct(i, j) \/ MoveAssign(i, j)
    PROVE  IInv'
<1>1. Typed /\ Owners
  BY DEF IInv
<1>2. /\ i # j /\ its[j] # None /\ items[i] = None /\ items[j] = None
      /\ its' = [its EXCEPT ![i] = its[j], ![j] = MovedFrom(its[j])]
      /\ leaked' = leaked \cup (IF Holding(i) THEN {its[i].map} ELSE {})
      /\ UNCHANGED <<table, locked, items>>
  <2>1. CASE MoveConstruct(i, j)
    <3>1. Well(i)
      BY DEF IInv
    <3>2. ~Holding(i) /\ items[i] = None
      BY <2>1, <3>1 DEF MoveConstruct, Holding, Well
    <3>3. QED
      BY <2>1, <3>2 DEF MoveConstruct, Users
  <2>2. CASE MoveAssign(i, j)
    <3>1. Holding(i) <=> its[i].has_table_lock
      BY <2>2 DEF MoveAssign, Users, Holding
    <3>2. QED
      BY <2>2, <3>1 DEF MoveAssign, Users
  <2>3. QED
    BY <2>1, <2>2
<1>3. its[j] \in Objects /\ its'[i] = its[j] /\ its'[j] = MovedFrom(its[j])
  BY <1>1, <1>2 DEF Typed
<1>4. Owners'
  BY <1>2, OwnersMove
<1>5. Typed'
  <2>1. its' \in [Iterators -> Objects \cup {None}]
    <3>1. MovedFrom(its[j]) \in Objects
      BY <1>3, ObjectFields
    <3>2. QED
      BY <1>1, <1>2, <1>3, <3>1 DEF Typed
  <2>2. Holding(i) => its[i].map \in Maps
    BY <1>1, HolderFields DEF Holding
  <2>3. QED
    BY <1>1, <1>2, <2>1, <2>2 DEF Typed
<1>6. ASSUME NEW k \in Iterators PROVE Well(k)'
  <2>1. CASE k = i
    <3>1. Holding(i)' => Holding(j) /\ Rests(table[its[j].map], its[j])
      BY <1>3 DEF IInv, Well, Holding
    <3>2. QED
      BY <1>2, <1>3, <2>1, <3>1 DEF Well
  <2>2. CASE k = j
    <3>1. ~Holding(j)'
      BY <1>3, ObjectFields DEF Holding
    <3>2. QED
      BY <1>2, <2>2, <3>1 DEF Well
  <2>3. CASE k # i /\ k # j
    <3>1. its'[k] = its[k]
      BY <1>1, <1>2, <2>3 DEF Typed
    <3>2. QED
      BY <1>2, <3>1, WellSame
  <2>4. QED
    BY <2>1, <2>2, <2>3
<1>7. QED
  BY <1>4, <1>5, <1>6 DEF IInv

\* release, the destructor and the return of snapshot_table.
LEMMA GiveStep ==
    ASSUME IInv, NEW i \in Iterators, Release(i) \/ Destroy(i) \/ SnapshotEnd(i)
    PROVE  IInv'
<1>1. Typed /\ Owners
  BY DEF IInv
<1>2. its[i] # None /\ items'[i] = None
  <2>1. SnapshotEnd(i) => its[i] # None
    BY DEF SnapshotEnd, IInv, Well, Holding
  <2>2. QED
    BY <1>1, <2>1 DEF Release, Destroy, SnapshotEnd, Users, Typed
<1>3. PICK o \in Objects \cup {None} :
          (o # None => ~o.has_table_lock) /\ its' = [its EXCEPT ![i] = o]
  <2>1. CASE Release(i)
    <3>1. /\ its[i] \in Objects
          /\ its' = [its EXCEPT ![i] = MovedFrom(its[i])]
      BY <1>1, <1>2, <2>1 DEF Release, MovedFrom, Typed
    <3>2. MovedFrom(its[i]) \in Objects /\ ~MovedFrom(its[i]).has_table_lock
      BY <3>1, ObjectFields
    <3>3. QED
      BY <3>1, <3>2
  <2>2. CASE Destroy(i) \/ SnapshotEnd(i)
    BY <2>2 DEF Destroy, SnapshotEnd
  <2>3. QED
    BY <2>1, <2>2
<1>4. /\ locked' = Released(i) /\ UNCHANGED <<table, leaked>>
      /\ \A k \in Iterators : k # i => items'[k] = items[k]
      /\ items' \in [Iterators -> Seq(Items) \cup {None}]
  BY <1>1 DEF Release, Destroy, SnapshotEnd, Typed
<1>5. Owners' /\ locked' \in [Maps -> BOOLEAN]
  BY <1>2, <1>3, <1>4, OwnersGive
<1>6. Typed'
  BY <1>1, <1>3, <1>4, <1>5 DEF Typed
<1>7. ASSUME NEW k \in Iterators PROVE Well(k)'
  <2>1. CASE k = i
    <3>1. ~Holding(i)'
      BY <1>1, <1>3 DEF Typed, Holding
    <3>2. QED
      BY <1>2, <2>1, <3>1 DEF Well
  <2>2. CASE k # i
    <3>1. its'[k] = its[k]
      BY <1>1, <1>3, <2>2 DEF Typed
    <3>2. QED
      BY <1>4, <2>2, <3>1, WellSame
  <2>3. QED
    BY <2>1, <2>2
<1>8. QED
  BY <1>5, <1>6, <1>7 DEF IInv

\* The iterator i is moved to position p of its table.
LEMMA PosStep ==
    ASSUME IInv, NEW i \in Iterators, Holding(i), NEW p \in Nat \X Nat,
           \/ p = EndOf(table[its[i].map])
           \/ p \in Positions(table[its[i].map]) /\ Occupied(table[its[i].map], p),
           its' = [its EXCEPT ![i].pos = p], UNCHANGED <<table, locked, leaked>>,
           items' \in [Iterators -> Seq(Items) \cup {None}],
           \A j \in Iterators : j # i => items'[j] = items[j],
           items'[i] # None => Collected(table[its[i].map], p, items'[i])
    PROVE  IInv'
<1>1. Typed /\ Owners /\ its[i] \in Objects /\ its[i] # None
  BY HolderFields DEF IInv, Holding
<1> DEFINE o == [its[i] EXCEPT !.pos = p]
<1>2. /\ o \in Objects /\ o # None /\ o.pos = p /\ o.map = its[i].map
      /\ o.has_table_lock = its[i].has_table_lock
      /\ o.begin_pos = its[i].begin_pos /\ o.end_pos = its[i].end_pos
  BY <1>1, ObjectFields
<1>3. its' = [its EXCEPT ![i] = o] /\ its'[i] = o
  BY <1>1 DEF Typed
<1> HIDE DEF o
<1>4. Typed'
  BY <1>1, <1>2, <1>3 DEF Typed
<1>5. \A j \in Iterators : j # i => its'[j] = its[j]
  BY <1>1, <1>3 DEF Typed
<1>6. Holding(i)'
  BY <1>2, <1>3 DEF Holding
<1>7. Owners'
  <2>1. \A j \in Iterators : /\ Holding(j)' <=> Holding(j)
                             /\ Holding(j) => its'[j].map = its[j].map
    BY <1>2, <1>3, <1>5, <1>6 DEF Holding
  <2>2. QED
    BY <1>1, <2>1, OwnersSame
<1>8. ASSUME NEW j \in Iterators PROVE Well(j)'
  <2>1. CASE j = i
    <3>1. Rests(table[its[i].map], its[i])
      BY DEF IInv, Well
    <3>2. Rests(table'[its'[i].map], its'[i])
      BY <1>2, <1>3, <3>1 DEF Rests
    <3>3. items'[i] # None => Collected(table'[its'[i].map], its'[i].pos, items'[i])
      BY <1>2, <1>3
    <3>4. QED
      BY <1>6, <2>1, <3>2, <3>3 DEF Well
  <2>2. CASE j # i
    BY <1>5, <2>2, WellSame
  <2>3. QED
    BY <2>1, <2>2
<1>9. QED
  BY <1>4, <1>7, <1>8 DEF IInv

\* Where an iterator that has the locks and is not at the end can be.
LEMMA Inside ==
    ASSUME IInv, NEW i \in Iterators, Holding(i)
    PROVE  /\ its[i].map \in Maps /\ IsTable(table[its[i].map])
           /\ Rests(table[its[i].map], its[i])
           /\ its[i].pos \in Positions(table[its[i].map]) \cup {EndOf(table[its[i].map])}
           /\ ~IsEnd(its[i]) => /\ its[i].pos \in Positions(table[its[i].map])
                                /\ Occupied(table[its[i].map], its[i].pos)
<1>1. Rests(table[its[i].map], its[i])
  BY DEF IInv, Well
<1>2. its[i].map \in Maps /\ IsTable(table[its[i].map])
  BY HolderFields DEF IInv, Typed, Holding
<1>3. QED
  BY <1>1, <1>2 DEF Rests, IsEnd

\* What forward_filled_slot and backward_filled_slot return is a place to rest.
LEMMA RestsAfter ==
    ASSUME NEW t, IsTable(t)
    PROVE  /\ \A p \in Positions(t) :
                  \/ ForwardFilled(t, p) = EndOf(t)
                  \/ ForwardFilled(t, p) \in Positions(t) /\ Occupied(t, ForwardFilled(t, p))
           /\ \A p \in Positions(t) \cup {EndOf(t)} :
                  \/ BackwardFilled(t, p) = EndOf(t)
                  \/ BackwardFilled(t, p) \in Positions(t) /\ Occupied(t, BackwardFilled(t, p))
<1>1. ASSUME NEW p \in Positions(t)
      PROVE  \/ ForwardFilled(t, p) = EndOf(t)
             \/ ForwardFilled(t, p) \in Positions(t) /\ Occupied(t, ForwardFilled(t, p))
  BY NextFilled DEF IsNextFilled
<1>2. ASSUME NEW p \in Positions(t) \cup {EndOf(t)}
      PROVE  \/ BackwardFilled(t, p) = EndOf(t)
             \/ BackwardFilled(t, p) \in Positions(t) /\ Occupied(t, BackwardFilled(t, p))
  BY PreviousFilled, BeginIsFirst DEF IsPreviousFilled
<1>3. QED
  BY <1>1, <1>2

LEMMA StepsStep ==
    ASSUME IInv, NEW i \in Iterators, Increment(i) \/ Decrement(i)
    PROVE  IInv'
<1>1. /\ Holding(i) /\ items[i] = None
      /\ UNCHANGED <<table, locked, items, leaked>>
  BY DEF Increment, Decrement, Users, Holding
<1> DEFINE t == table[its[i].map]
<1>2. IsTable(t) /\ its[i].pos \in Positions(t) \cup {EndOf(t)}
  BY <1>1, Inside
<1>3. items' \in [Iterators -> Seq(Items) \cup {None}]
  BY <1>1 DEF IInv, Typed
<1>4. CASE Increment(i)
  <2> DEFINE p == ForwardFilled(t, its[i].pos)
  <2>1. its[i].pos \in Positions(t)
    BY <1>1, <1>4, Inside DEF Increment
  <2>2. p \in Nat \X Nat /\ (p = EndOf(t) \/ (p \in Positions(t) /\ Occupied(t, p)))
    BY <1>2, <2>1, Pairs, RestsAfter
  <2>3. its' = [its EXCEPT ![i].pos = p]
    BY <1>4 DEF Increment
  <2> HIDE DEF p
  <2>4. QED
    BY <1>1, <1>3, <2>2, <2>3, PosStep
<1>5. CASE Decrement(i)
  <2> DEFINE p == BackwardFilled(t, its[i].pos)
  <2>1. p \in Nat \X Nat /\ (p = EndOf(t) \/ (p \in Positions(t) /\ Occupied(t, p)))
    BY <1>2, Pairs, RestsAfter
  <2>2. its' = [its EXCEPT ![i].pos = p]
    BY <1>5 DEF Decrement
  <2> HIDE DEF p
  <2>3. QED
    BY <1>1, <1>3, <2>1, <2>2, PosStep
<1>6. QED
  BY <1>4, <1>5

LEMMA SnapshotStep ==
    ASSUME IInv, NEW i \in Iterators, SnapshotNext(i)
    PROVE  IInv'
<1> DEFINE t == table[its[i].map]
           p == its[i].pos
           r == ForwardFilled(t, p)
           x == t[p[1]][p[2]]
<1>1. Holding(i) /\ Collected(t, p, items[i]) /\ items[i] # None
  BY DEF SnapshotNext, IInv, Well
<1>2. IsTable(t) /\ p \in Positions(t) /\ Occupied(t, p)
  BY <1>1, Inside DEF SnapshotNext
<1>3. r \in Nat \X Nat /\ (r = EndOf(t) \/ (r \in Positions(t) /\ Occupied(t, r)))
  BY <1>2, Pairs, RestsAfter
<1>4. x \in Items
  <2>1. x \in Items \cup {Empty}
    BY <1>2, Shape
  <2>2. QED
    BY <1>2, <2>1 DEF Occupied
<1>5. /\ its' = [its EXCEPT ![i].pos = r]
      /\ items' = [items EXCEPT ![i] = Append(items[i], x)]
      /\ UNCHANGED <<table, locked, leaked>>
  BY DEF SnapshotNext, Dereference
<1>6. items[i] \in Seq(Items)
  BY <1>1 DEF IInv, Typed
<1>7. items' \in [Iterators -> Seq(Items) \cup {None}] /\ items'[i] = Append(items[i], x)
      /\ \A j \in Iterators : j # i => items'[j] = items[j]
  <2>1. Append(items[i], x) \in Seq(Items)
    BY <1>4, <1>6
  <2>2. QED
    BY <1>5, <2>1 DEF IInv, Typed
<1>8. /\ Passed(t, r) = Passed(t, p) \cup {p} /\ p \notin Passed(t, p)
      /\ \A q \in Nat \X Nat : IsFiniteSet(Passed(t, q))
  BY <1>2, PassesOne
<1>9. ASSUME NEW q \in Passed(t, p)
      PROVE  Cardinality(Passed(t, q)) + 1 \in 1 .. Len(items[i])
  <2>1. q \in Positions(t) /\ q \in Nat \X Nat /\ p \in Nat \X Nat /\ Before(q, p)
    BY <1>2, Place DEF Passed
  <2>2. ASSUME NEW s \in Positions(t), Before(s, q) PROVE Before(s, p)
    <3>1. s \in Nat \X Nat
      BY <1>2, Place
    <3> HIDE DEF p, t
    <3>2. QED
      BY <2>1, <2>2, <3>1, Order
  <2>3. Passed(t, q) \in SUBSET Passed(t, p) /\ q \notin Passed(t, q)
    BY <2>1, <2>2, Order DEF Passed
  <2>4. IsFiniteSet(Passed(t, p)) /\ IsFiniteSet(Passed(t, q))
    BY <1>8, <2>1
  <2>5. /\ Cardinality(Passed(t, q)) <= Cardinality(Passed(t, p))
        /\ Cardinality(Passed(t, q)) # Cardinality(Passed(t, p))
    BY <2>3, <2>4, FS_Subset
  <2>6. Cardinality(Passed(t, q)) \in Nat /\ Cardinality(Passed(t, p)) \in Nat
    BY <2>4, FS_CardinalityType
  <2>7. QED
    BY <1>1, <2>5, <2>6 DEF Collected
<1>10. Collected(t, r, items'[i])
  <2>1. IsFiniteSet(Passed(t, p)) /\ Cardinality(Passed(t, p)) = Len(items[i])
    BY <1>1, <1>2, <1>8, Place DEF Collected
  <2>2. Cardinality(Passed(t, r)) = Len(items[i]) + 1
    BY <1>8, <2>1, FS_AddElement
  <2> DEFINE c == items'[i]
  <2>3. Len(c) = Len(items[i]) + 1 /\ c[Len(items[i]) + 1] = x
        /\ \A n \in 1 .. Len(items[i]) : c[n] = items[i][n]
    <3> DEFINE d == items[i]
    <3>1. d \in Seq(Items) /\ x \in Items /\ c = Append(d, x)
      BY <1>4, <1>6, <1>7
    <3> HIDE DEF c, d, x
    <3>2. Len(c) = Len(d) + 1 /\ c[Len(d) + 1] = x /\ \A n \in 1 .. Len(d) : c[n] = d[n]
      BY <3>1
    <3>3. QED
      BY <3>2 DEF d
  <2> HIDE DEF c
  <2>4. ASSUME NEW q \in Passed(t, r) PROVE c[Cardinality(Passed(t, q)) + 1] = t[q[1]][q[2]]
    <3>1. CASE q = p
      BY <2>1, <2>3, <3>1
    <3>2. CASE q \in Passed(t, p)
      BY <1>1, <1>9, <2>3, <3>2 DEF Collected
    <3>3. QED
      BY <1>8, <2>4, <3>1, <3>2
  <2>5. QED
    BY <2>2, <2>3, <2>4 DEF Collected, c
<1> HIDE DEF r, x
<1>11. QED
  BY <1>1, <1>3, <1>5, <1>7, <1>10, PosStep

LEMMA SetValueStep ==
    ASSUME IInv, NEW i \in Iterators, SetValue(i)
    PROVE  IInv'
<1> DEFINE m == its[i].map
           p == its[i].pos
<1>1. /\ Holding(i) /\ items[i] = None /\ ~IsEnd(its[i])
      /\ UNCHANGED <<locked, its, items, leaked>>
  BY DEF SetValue, Users, Holding
<1>2. /\ m \in Maps /\ IsTable(table[m])
      /\ p \in Positions(table[m]) /\ Occupied(table[m], p)
  BY <1>1, Inside
<1>3. PICK v \in Items : table' = [table EXCEPT ![m][p[1]][p[2]] = v]
  BY DEF SetValue
<1> DEFINE u == [table[m] EXCEPT ![p[1]][p[2]] = v]
<1>4. Typed /\ Owners
  BY DEF IInv
<1>5. table' = [table EXCEPT ![m] = u] /\ table'[m] = u
  BY <1>2, <1>3, <1>4 DEF Typed
<1>6. /\ IsTable(u) /\ EndOf(u) = EndOf(table[m]) /\ BeginOf(u) = BeginOf(table[m])
      /\ Positions(u) = Positions(table[m])
      /\ \A q \in Positions(table[m]) : Occupied(u, q) <=> Occupied(table[m], q)
  BY <1>2, SameSlots
<1> HIDE DEF u
<1>7. Typed'
  BY <1>1, <1>4, <1>5, <1>6 DEF Typed
<1>8. Owners'
  BY <1>1, <1>4, OwnersSame DEF Holding
<1>9. ASSUME NEW j \in Iterators PROVE Well(j)'
  <2>1. CASE j = i
    <3>1. Rests(table[m], its[i])
      BY <1>1, Inside
    <3>2. Rests(u, its[i])
      BY <1>6, <3>1 DEF Rests
    <3>3. QED
      BY <1>1, <1>5, <2>1, <3>2 DEF Well, Holding
  <2>2. CASE j # i
    <3>1. Holding(j) => its[j].map # m /\ its[j].map \in Maps
      BY <1>1, <1>4, <2>2, HolderFields DEF Owners, Holding
    <3>2. Holding(j) => table'[its[j].map] = table[its[j].map]
      BY <1>4, <1>5, <3>1 DEF Typed
    <3>3. QED
      BY <1>1, <3>2, WellSame
  <2>3. QED
    BY <2>1, <2>2
<1>10. QED
  BY <1>7, <1>8, <1>9 DEF IInv

LEMMA StepInv == IInv /\ [Next]_vars => IInv'
<1> SUFFICES ASSUME IInv, [Next]_vars PROVE IInv'
  OBVIOUS
<1>1. ASSUME NEW m \in Maps, Change(m) PROVE IInv'
  BY <1>1, ChangeStep
<1>2. ASSUME NEW i \in Iterators, NEW m \in Maps, Construct(i, m) PROVE IInv'
  <2>1. PICK is_end \in BOOLEAN : its' = [its EXCEPT ![i] = NewIterator(m, is_end)]
    BY <1>2 DEF Construct
  <2>2. QED
    BY <1>2, <2>1, MadeStep DEF Construct
<1>3. ASSUME NEW i \in Iterators, NEW m \in Maps, SnapshotBegin(i, m) PROVE IInv'
  BY <1>3, MadeStep DEF SnapshotBegin
<1>4. ASSUME NEW i \in Iterators, NEW j \in Iterators, MoveConstruct(i, j) \/ MoveAssign(i, j)
      PROVE  IInv'
  BY <1>4, MoveStep
<1>5. ASSUME NEW i \in Iterators, Increment(i) \/ Decrement(i) PROVE IInv'
  BY <1>5, StepsStep
<1>6. ASSUME NEW i \in Iterators, SetValue(i) PROVE IInv'
  BY <1>6, SetValueStep
<1>7. ASSUME NEW i \in Iterators, Release(i) \/ Destroy(i) \/ SnapshotEnd(i) PROVE IInv'
  BY <1>7, GiveStep
<1>8. ASSUME NEW i \in Iterators, SnapshotNext(i) PROVE IInv'
  BY <1>8, SnapshotStep
<1>9. CASE UNCHANGED vars
  <2>1. UNCHANGED <<table, locked, its, items, leaked>>
    BY <1>9 DEF vars
  <2>2. Typed' /\ Owners'
    BY <2>1 DEF IInv, Typed, Owners, Holding
  <2>3. \A j \in Iterators : Well(j)'
    BY <2>1, WellSame
  <2>4. QED
    BY <2>2, <2>3 DEF IInv
<1>10. QED
  BY <1>1, <1>2, <1>3, <1>4, <1>5, <1>6, <1>7, <1>8, <1>9 DEF Next
-----------------------------------------------------------------------------
\* The inductive invariant is one.
THEOREM Invariance == Spec => []IInv
BY InitInv, StepInv, PTL DEF Spec

(***************************************************************************)
(* All locks of a map are taken exactly while one iterator has them, or an *)
(* assignment by memcpy has left them without a holder.                    *)
(***************************************************************************)
THEOREM HeldOnceHolds == Spec => []HeldOnce
<1>1. IInv => HeldOnce
  <2> SUFFICES ASSUME IInv, NEW m \in Maps
               PROVE  /\ Cardinality(Holders(m)) =
                             (IF locked[m] /\ m \notin leaked THEN 1 ELSE 0)
                      /\ m \in leaked => locked[m]
    BY DEF HeldOnce
  <2>1. Owners
    BY DEF IInv
  <2>2. Holders(m) = {i \in Iterators : Holding(i) /\ its[i].map = m}
    BY DEF Holders, Holding
  <2>3. CASE locked[m] /\ m \notin leaked
    <3>1. PICK i \in Iterators : Holding(i) /\ its[i].map = m
      BY <2>1, <2>3 DEF Owners
    <3>2. \A j \in Iterators : Holding(j) /\ its[j].map = m => j = i
      BY <2>1, <3>1 DEF Owners
    <3>3. Holders(m) = {i}
      BY <2>2, <3>1, <3>2
    <3>4. QED
      BY <2>3, <3>3, FS_Singleton
  <2>4. CASE ~(locked[m] /\ m \notin leaked)
    <3>1. Holders(m) = {}
      BY <2>1, <2>2, <2>4 DEF Owners
    <3>2. QED
      BY <2>1, <2>4, <3>1, FS_EmptySet DEF Owners
  <2>5. QED
    BY <2>3, <2>4
<1>2. QED
  BY Invariance, <1>1, PTL

(***************************************************************************)
(* An iterator that has the locks is at a filled slot of the table as it   *)
(* is now, or at its end.                                                  *)
(***************************************************************************)
THEOREM FilledOrEndHolds == Spec => []FilledOrEnd
<1>1. IInv => FilledOrEnd
  <2> SUFFICES ASSUME IInv, NEW m \in Maps, NEW i \in Holders(m)
               PROVE  /\ its[i].end_pos = EndOf(table[m])
                      /\ IsEnd(its[i]) \/ Occupied(table[m], its[i].pos)
    BY DEF FilledOrEnd
  <2>1. i \in Iterators /\ Holding(i) /\ its[i].map = m
    BY DEF Holders, Holding
  <2>2. Rests(table[m], its[i])
    BY <2>1, Inside
  <2>3. QED
    BY <2>2 DEF Rests, IsEnd
<1>2. QED
  BY Invariance, <1>1, PTL

(***************************************************************************)
(* While snapshot_table runs it has collected exactly the contents of the  *)
(* slots it has passed, in order, as the table has them now.               *)
(***************************************************************************)
THEOREM SnapshotExactHolds == Spec => []SnapshotExact
<1>1. IInv => SnapshotExact
  BY DEF IInv, Well, Collected, SnapshotExact
<1>2. QED
  BY Invariance, <1>1, PTL

\* The slots a movement passes over: the one left behind or the one reached.
LEMMA PassesForward ==
    ASSUME NEW t, IsTable(t), NEW p \in Positions(t), Occupied(t, p)
    PROVE  {q \in Positions(t) :
               Occupied(t, q) /\ ~Before(q, p) /\ Before(q, ForwardFilled(t, p))} = {p}
<1> DEFINE r == ForwardFilled(t, p)
<1>1. Passed(t, r) = Passed(t, p) \cup {p} /\ p \notin Passed(t, p)
  BY PassesOne
<1> HIDE DEF r
<1>2. ASSUME NEW q \in Positions(t), Occupied(t, q)
      PROVE  (~Before(q, p) /\ Before(q, r)) <=> q = p
  BY <1>1, <1>2 DEF Passed
<1>3. QED
  BY <1>2 DEF r

LEMMA PassesBackward ==
    ASSUME NEW t, IsTable(t), NEW p \in Positions(t) \cup {EndOf(t)}, p # BeginOf(t),
           p = EndOf(t) \/ Occupied(t, p)
    PROVE  /\ BackwardFilled(t, p) \in Positions(t) /\ Before(BackwardFilled(t, p), p)
           /\ {q \in Positions(t) :
                  Occupied(t, q) /\ ~Before(q, BackwardFilled(t, p)) /\ Before(q, p)}
                 = {BackwardFilled(t, p)}
<1> DEFINE r == BackwardFilled(t, p)
           b == BeginOf(t)
<1>1. IsPreviousFilled(t, p, r)
  BY PreviousFilled
<1>2. p \in Nat \X Nat /\ b \in Nat \X Nat
  BY Place, Pairs
<1>3. b \in Positions(t) /\ Occupied(t, b) /\ Before(b, p)
  <2>1. /\ \/ b \in Positions(t) /\ Occupied(t, b)
           \/ b = EndOf(t) /\ \A q \in Positions(t) : ~Occupied(t, q)
        /\ \A q \in Positions(t) : Occupied(t, q) => ~Before(q, b)
    BY BeginIsFirst
  <2>2. CASE p = EndOf(t)
    <3>1. b # EndOf(t)
      BY <2>2
    <3>2. QED
      BY <2>1, <2>2, <3>1, Place
  <2>3. CASE p \in Positions(t) /\ Occupied(t, p)
    <3>1. b \in Positions(t) /\ Occupied(t, b) /\ ~Before(p, b)
      BY <2>1, <2>3
    <3>2. QED
      BY <1>2, <3>1, Order
  <2>4. QED
    BY <2>2, <2>3
<1> HIDE DEF r, b
<1>4. /\ r \in Positions(t) /\ Occupied(t, r) /\ Before(r, p)
      /\ \A q \in Positions(t) : Occupied(t, q) /\ Before(q, p) => ~Before(r, q)
  BY <1>1, <1>3 DEF IsPreviousFilled
<1>5. ASSUME NEW q \in Positions(t), Occupied(t, q)
      PROVE  (~Before(q, r) /\ Before(q, p)) <=> q = r
  <2>1. q \in Nat \X Nat /\ r \in Nat \X Nat
    BY <1>4, Place
  <2>2. QED
    BY <1>4, <1>5, <2>1, Order
<1>6. QED
  BY <1>4, <1>5 DEF r

(***************************************************************************)
(* A movement of an iterator, in either direction, never passes over a     *)
(* filled slot and never stands still.                                     *)
(***************************************************************************)
THEOREM MovesToNeighbourHolds == Spec => MovesToNeighbour
<1>1. ASSUME IInv, NEW i \in Iterators, Increment(i) \/ Decrement(i)
      PROVE  Cardinality({p \in Positions(table[its[i].map]) :
                 /\ Occupied(table[its[i].map], p)
                 /\ \/ ~Before(p, its[i].pos) /\ Before(p, its'[i].pos)
                    \/ ~Before(p, its'[i].pos) /\ Before(p, its[i].pos)}) = 1
  <2> DEFINE t == table[its[i].map]
             p == its[i].pos
             r == its'[i].pos
             Between == {q \in Positions(t) :
                 /\ Occupied(t, q)
                 /\ \/ ~Before(q, p) /\ Before(q, r)
                    \/ ~Before(q, r) /\ Before(q, p)}
  <2>1. Holding(i)
    BY <1>1 DEF Increment, Decrement, Users, Holding
  <2>2. /\ IsTable(t) /\ p \in Positions(t) \cup {EndOf(t)} /\ p \in Nat \X Nat
        /\ Rests(t, its[i])
        /\ ~IsEnd(its[i]) => p \in Positions(t) /\ Occupied(t, p)
    BY <1>1, <2>1, Inside, Place
  <2>3. its[i] \in Objects /\ i \in DOMAIN its
    BY <1>1, <2>1, HolderFields DEF IInv, Holding, Typed
  <2>4. CASE Increment(i)
    <3>1. p \in Positions(t) /\ Occupied(t, p)
      BY <2>2, <2>4 DEF Increment
    <3>2. r = ForwardFilled(t, p)
      BY <2>3, <2>4 DEF Increment, Objects
    <3>3. {q \in Positions(t) : Occupied(t, q) /\ ~Before(q, p) /\ Before(q, r)} = {p}
      BY <2>2, <3>1, <3>2, PassesForward
    <3>4. Before(p, r) /\ r \in Nat \X Nat
      BY <3>3, <2>2, <3>1, <3>2, Pairs
    <3>5. \A q \in Positions(t) : Before(q, p) => Before(q, r)
      BY <2>2, <3>4, Place, Order
    <3>6. Between = {p}
      BY <3>3, <3>5
    <3>7. QED
      BY <3>6, FS_Singleton
  <2>5. CASE Decrement(i)
    <3>1. r = BackwardFilled(t, p)
      BY <2>3, <2>5 DEF Decrement, Objects
    <3>2. p # BeginOf(t) /\ (p = EndOf(t) \/ Occupied(t, p))
      BY <2>2, <2>5 DEF Decrement, IsBegin, Rests
    <3>3. /\ r \in Positions(t) /\ Before(r, p)
          /\ {q \in Positions(t) : Occupied(t, q) /\ ~Before(q, r) /\ Before(q, p)} = {r}
      BY <2>2, <3>1, <3>2, PassesBackward
    <3>4. \A q \in Positions(t) : Before(q, r) => Before(q, p)
      BY <2>2, <3>3, Place, Order
    <3>5. Between = {r}
      BY <3>3, <3>4
    <3>6. QED
      BY <3>5, FS_Singleton
  <2>6. QED
    BY <1>1, <2>4, <2>5
<1> DEFINE Neighbour ==
        \A i \in Iterators : (Increment(i) \/ Decrement(i)) =>
            Cardinality({p \in Positions(table[its[i].map]) :
                /\ Occupied(table[its[i].map], p)
                /\ \/ ~Before(p, its[i].pos) /\ Before(p, its'[i].pos)
                   \/ ~Before(p, its'[i].pos) /\ Before(p, its[i].pos)}) = 1
<1>2. IInv => Neighbour
  BY <1>1
<1>3. MovesToNeighbour <=> [][Neighbour]_vars
  BY DEF MovesToNeighbour
<1> HIDE DEF Neighbour
<1>4. IInv /\ [Next]_vars => [Neighbour]_vars
  BY <1>2
<1>5. QED
  BY Invariance, <1>3, <1>4, PTL DEF Spec
=============================================================================
