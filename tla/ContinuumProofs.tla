-------------------------- MODULE ContinuumProofs --------------------------
(***************************************************************************)
(* Proofs about Continuum for any addresses, files and hash function, as   *)
(* far as the two assumptions of Continuum go:                             *)
(*   - what the recursive functions compute: sums of memories, which do    *)
(*     not depend on the order of the servers (MemoryReordered), and the   *)
(*     points made or kept by the loops (PointsCollected, PointsKept);     *)
(*   - that a sort keeps the elements and puts them in order (Sorting);    *)
(*   - whose keys move when points come or go (OnlyKeysOf);                *)
(*   - IInv, the inductive invariant, action by action, and from it the    *)
(*     three properties of Continuum.                                      *)
(***************************************************************************)
EXTENDS Continuum, FiniteSetTheorems, WellFoundedInduction, TLAPS

RingPoints == [addr : Addrs, point : Points]

\* The points of the vectors are in the order of their values.
Sorted(ps) == \A i, j \in 1 .. Len(ps) : i < j => ps[i].point <= ps[j].point
-----------------------------------------------------------------------------
(***************************************************************************)
(* What the recursive functions and the loops over a vector need.          *)
(***************************************************************************)

\* The least of some numbers.
LEMMA Least ==
    ASSUME NEW S, S \subseteq Nat, S # {}
    PROVE  \E k \in S : \A l \in S : k <= l
<1>1. PICK k \in S : \A l \in S : <<l, k>> \notin OpToRel(<, Nat)
  BY WFMin, NatLessThanWellFounded, Zenon
<1>2. \A l \in S : ~(l < k)
  BY <1>1, Zenon DEF OpToRel
<1>3. QED
  BY <1>2

\* Induction up to n, for the set of the numbers with a property.
LEMMA UpTo ==
    ASSUME NEW n \in Nat, NEW S, 0 \in S, \A k \in 1 .. n : k - 1 \in S => k \in S
    PROVE  \A k \in 0 .. n : k \in S
<1> DEFINE Bad == {k \in 0 .. n : k \notin S}
<1> SUFFICES ASSUME Bad # {} PROVE FALSE
  OBVIOUS
<1>1. Bad \subseteq Nat
  OBVIOUS
<1>2. PICK k \in Bad : \A l \in Bad : k <= l
  <2> HIDE DEF Bad
  <2>1. QED
    BY <1>1, Least
<1>3. k \in 1 .. n /\ k - 1 \notin Bad
  BY <1>2
<1>4. QED
  BY <1>3

\* f begins with base and goes from each number to the next by a step.
Follows(f, n, base, step) == f[0] = base /\ \A i \in 1 .. n : f[i] = step[i][f[i - 1]]

\* There is such a function.
LEMMA Steps ==
    ASSUME NEW n \in Nat, NEW T, NEW base \in T, NEW step \in [1 .. n -> [T -> T]]
    PROVE  \E f \in [0 .. n -> T] : Follows(f, n, base, step)
<1> USE DEF Follows
<1> DEFINE Made(k) == \E f \in [0 .. k -> T] : Follows(f, k, base, step)
           S == {k \in 0 .. n : Made(k)}
<1>1. 0 \in S
  <2> DEFINE f == [i \in 0 .. 0 |-> base]
  <2>1. f \in [0 .. 0 -> T] /\ f[0] = base /\ \A i \in 1 .. 0 : f[i] = step[i][f[i - 1]]
    OBVIOUS
  <2> HIDE DEF f
  <2>2. Made(0)
    BY <2>1
  <2>3. QED
    BY <2>2
<1>2. ASSUME NEW k \in 1 .. n, k - 1 \in S PROVE k \in S
  <2>1. PICK f \in [0 .. (k - 1) -> T] :
           f[0] = base /\ \A i \in 1 .. (k - 1) : f[i] = step[i][f[i - 1]]
    BY <1>2
  <2> DEFINE g == [i \in 0 .. k |-> IF i = k THEN step[k][f[k - 1]] ELSE f[i]]
  <2>2. k \in Nat \ {0} /\ k - 1 \in 0 .. (k - 1) /\ step[k] \in [T -> T]
    OBVIOUS
  <2>3. g \in [0 .. k -> T]
    BY <2>2
  <2>4. g[0] = base
    BY <2>1, <2>2
  <2>5. ASSUME NEW i \in 1 .. k PROVE g[i] = step[i][g[i - 1]]
    <3>1. g[i - 1] = f[i - 1]
      BY <2>2
    <3>2. CASE i = k
      BY <3>1, <3>2
    <3>3. CASE i # k
      <4>1. i \in 1 .. (k - 1)
        BY <3>3
      <4>2. QED
        BY <2>1, <3>1, <3>3, <4>1
    <3>4. QED
      BY <3>2, <3>3
  <2>6. Made(k)
    <3> HIDE DEF g
    <3>1. QED
      BY <2>3, <2>4, <2>5
  <2> HIDE DEF Made
  <2>7. QED
    BY <2>6
<1>3. \A k \in 0 .. n : k \in S
  <2> HIDE DEF S
  <2>1. QED
    BY <1>1, <1>2, UpTo
<1>4. Made(n)
  <2> HIDE DEF Made
  <2>1. QED
    BY <1>3
<1>5. QED
  BY <1>4

\* Numbers 1 .. n in another order are all of them.
LEMMA Pigeons ==
    ASSUME NEW n \in Nat, NEW p \in [1 .. n -> 1 .. n],
           \A i, j \in 1 .. n : p[i] = p[j] => i = j
    PROVE  \A k \in 1 .. n : \E i \in 1 .. n : p[i] = k
<1>1. IsFiniteSet(1 .. n)
  BY FS_Interval
<1>2. p \in Injection(1 .. n, 1 .. n)
  BY DEF Injection, IsInjective
<1>3. p \in Surjection(1 .. n, 1 .. n)
  BY <1>1, <1>2, FS_Injection
<1>4. QED
  BY <1>3 DEF Surjection
-----------------------------------------------------------------------------
(***************************************************************************)
(* total_memory_.                                                          *)
(***************************************************************************)
\* A server has a memory.
LEMMA MemoryNat == \A x \in Servers : x.addr \in Addrs /\ x.mem \in Nat
<1>1. 0 .. (MemoryValues - 1) \subseteq Nat
  BY ContinuumAssumption
<1>2. QED
  BY <1>1 DEF Servers

\* The sums are natural numbers, each more by the memory of a server.
LEMMA MemorySteps ==
    ASSUME NEW s \in Seq(Servers)
    PROVE  /\ MemoryUpTo(s) \in [0 .. Len(s) -> Nat]
           /\ MemoryUpTo(s)[0] = 0
           /\ \A i \in 1 .. Len(s) : MemoryUpTo(s)[i] = MemoryUpTo(s)[i - 1] + s[i].mem
<1> DEFINE n == Len(s)
           step == [i \in 1 .. n |-> [x \in Nat |-> x + s[i].mem]]
           IsSum(f) == f = [i \in 0 .. n |-> IF i = 0 THEN 0 ELSE f[i - 1] + s[i].mem]
<1>1. n \in Nat /\ \A i \in 1 .. n : s[i].mem \in Nat
  <2>1. \A i \in 1 .. n : s[i] \in Servers
    OBVIOUS
  <2>2. QED
    BY <2>1, MemoryNat
<1>2. step \in [1 .. n -> [Nat -> Nat]]
  BY <1>1
<1>3. PICK f \in [0 .. n -> Nat] : Follows(f, n, 0, step)
  <2> DEFINE T == Nat
  <2>1. n \in Nat /\ 0 \in T /\ step \in [1 .. n -> [T -> T]]
    BY <1>1, <1>2
  <2> HIDE DEF n, step, T
  <2>2. \E f \in [0 .. n -> T] : Follows(f, n, 0, step)
    BY <2>1, Steps
  <2>3. QED
    BY <2>2 DEF T
<1>4. \A i \in 1 .. n : f[i] = f[i - 1] + s[i].mem
  <2>1. \A i \in 1 .. n : f[i - 1] \in Nat
    <3>1. \A i \in 1 .. n : i - 1 \in 0 .. n
      BY <1>1
    <3> HIDE DEF n
    <3>2. QED
      BY <3>1
  <2>2. \A i \in 1 .. n : \A x \in Nat : step[i][x] = x + s[i].mem
    BY <1>1
  <2>3. \A i \in 1 .. n : f[i] = step[i][f[i - 1]]
    BY <1>3 DEF Follows
  <2> HIDE DEF step, n
  <2>4. QED
    BY <2>1, <2>2, <2>3
<1>5. IsSum(f)
  BY <1>1, <1>3, <1>4 DEF Follows
<1>6. IsSum(MemoryUpTo(s))
  <2>1. MemoryUpTo(s) = CHOOSE g : IsSum(g)
    BY DEF MemoryUpTo
  <2> HIDE DEF IsSum
  <2>2. QED
    BY <1>5, <2>1, Zenon
<1> DEFINE g == MemoryUpTo(s)
<1> HIDE DEF g, step
<1>7. g = [i \in 0 .. n |-> IF i = 0 THEN 0 ELSE g[i - 1] + s[i].mem]
  BY <1>6 DEF g
<1>8. g[0] = 0 /\ \A i \in 1 .. n : g[i] = g[i - 1] + s[i].mem
  BY <1>1, <1>7
<1>9. g \in [0 .. n -> Nat]
  <2> DEFINE S == {i \in 0 .. n : g[i] \in Nat}
  <2>1. 0 \in S
    BY <1>1, <1>8
  <2>2. \A k \in 1 .. n : k - 1 \in S => k \in S
    BY <1>1, <1>8
  <2>3. \A k \in 0 .. n : k \in S
    <3> HIDE DEF S, n
    <3>1. QED
      BY <1>1, <2>1, <2>2, UpTo
  <2>4. QED
    BY <1>7, <2>3
<1>10. QED
  BY <1>8, <1>9 DEF g

\* Servers and their memories.
LEMMA ServerAt ==
    ASSUME NEW s \in Seq(Servers)
    PROVE  /\ Len(s) \in Nat
           /\ \A i \in 1 .. Len(s) : /\ s[i] \in Servers
                                     /\ s[i].addr \in Addrs /\ s[i].mem \in Nat
<1>1. \A i \in 1 .. Len(s) : s[i] \in Servers
  OBVIOUS
<1>2. QED
  BY <1>1, MemoryNat

\* A sum of memories is a natural number.
LEMMA TotalNat ==
    ASSUME NEW s \in Seq(Servers)
    PROVE  TotalMemory(s) \in Nat
<1>1. Len(s) \in 0 .. Len(s)
  OBVIOUS
<1>2. QED
  BY <1>1, MemorySteps DEF TotalMemory

\* Vectors that begin alike have the same memory up to there.
LEMMA MemoryAlike ==
    ASSUME NEW s \in Seq(Servers), NEW t \in Seq(Servers), NEW m \in 0 .. Len(s),
           m <= Len(t), \A i \in 1 .. m : s[i] = t[i]
    PROVE  MemoryUpTo(s)[m] = MemoryUpTo(t)[m]
<1> DEFINE S == {k \in 0 .. m : MemoryUpTo(s)[k] = MemoryUpTo(t)[k]}
<1>1. m \in Nat /\ Len(s) \in Nat /\ Len(t) \in Nat /\ m <= Len(s)
  OBVIOUS
<1>2. 0 \in S
  BY <1>1, MemorySteps
<1>3. ASSUME NEW k \in 1 .. m, k - 1 \in S PROVE k \in S
  <2>1. k \in 1 .. Len(s) /\ k \in 1 .. Len(t)
    BY <1>1
  <2>2. /\ MemoryUpTo(s)[k] = MemoryUpTo(s)[k - 1] + s[k].mem
        /\ MemoryUpTo(t)[k] = MemoryUpTo(t)[k - 1] + t[k].mem
    BY <2>1, MemorySteps
  <2>3. QED
    BY <1>1, <1>3, <2>2
<1>4. \A k \in 0 .. m : k \in S
  <2> HIDE DEF S
  <2>1. QED
    BY <1>1, <1>2, <1>3, UpTo
<1>5. m \in S
  BY <1>1, <1>4
<1>6. QED
  BY <1>5

\* One more server (add_server) adds its memory.
LEMMA MemoryAppended ==
    ASSUME NEW s \in Seq(Servers), NEW x \in Servers
    PROVE  TotalMemory(Append(s, x)) = TotalMemory(s) + x.mem
<1> DEFINE t == Append(s, x)
           n == Len(s)
<1>1. /\ n \in Nat /\ t \in Seq(Servers) /\ Len(t) = n + 1
      /\ t[n + 1] = x /\ \A i \in 1 .. n : s[i] = t[i]
  OBVIOUS
<1> HIDE DEF t
<1>2. MemoryUpTo(t)[n] = MemoryUpTo(s)[n]
  BY <1>1, MemoryAlike
<1>3. MemoryUpTo(t)[n + 1] = MemoryUpTo(t)[n] + x.mem
  <2>1. n + 1 \in 1 .. Len(t) /\ (n + 1) - 1 = n
    BY <1>1
  <2>2. QED
    BY <1>1, <2>1, MemorySteps
<1>4. QED
  BY <1>1, <1>2, <1>3 DEF TotalMemory, t

\* The vector without element j has its memory less.
LEMMA MemoryErased ==
    ASSUME NEW s \in Seq(Servers), NEW j \in 1 .. Len(s)
    PROVE  /\ Without(s, j) \in Seq(Servers) /\ Len(Without(s, j)) = Len(s) - 1
           /\ TotalMemory(Without(s, j)) = TotalMemory(s) - s[j].mem
<1> DEFINE t == Without(s, j)
<1>0. /\ t \in Seq(Servers) /\ Len(t) = Len(s) - 1
      /\ \A k \in 1 .. Len(t) : t[k] = s[IF k < j THEN k ELSE k + 1]
  <2>1. \A k \in 1 .. (Len(s) - 1) : k \in 1 .. Len(s) /\ k + 1 \in 1 .. Len(s)
    OBVIOUS
  <2>2. \A k \in 1 .. Len(s) : s[k] \in Servers
    BY ServerAt
  <2>3. QED
    BY <2>1, <2>2 DEF Without
<1> HIDE DEF t
<1> DEFINE S == {k \in 0 .. Len(t) :
                    MemoryUpTo(t)[k] = IF k < j THEN MemoryUpTo(s)[k]
                                       ELSE MemoryUpTo(s)[k + 1] - s[j].mem}
<1>1. Len(t) \in Nat /\ Len(s) \in Nat /\ j \in Nat /\ 1 <= j /\ j <= Len(s)
  BY <1>0
<1>2. \A i \in 1 .. Len(s) : s[i].mem \in Nat /\ MemoryUpTo(s)[i - 1] \in Nat
  <2>1. \A i \in 1 .. Len(s) : i - 1 \in 0 .. Len(s)
    BY <1>1
  <2>2. QED
    BY <2>1, ServerAt, MemorySteps
<1>3. 0 \in S
  BY <1>0, <1>1, MemorySteps
<1>4. ASSUME NEW k \in 1 .. Len(t), k - 1 \in S PROVE k \in S
  <2>1. k \in 1 .. Len(s) /\ k + 1 \in 1 .. Len(s) /\ (k + 1) - 1 = k /\ (k - 1) + 1 = k
    BY <1>0, <1>1
  <2>2. /\ MemoryUpTo(t)[k] = MemoryUpTo(t)[k - 1] + t[k].mem
        /\ MemoryUpTo(s)[k] = MemoryUpTo(s)[k - 1] + s[k].mem
        /\ MemoryUpTo(s)[k + 1] = MemoryUpTo(s)[k] + s[k + 1].mem
    BY <1>0, <2>1, MemorySteps
  <2>3. MemoryUpTo(t)[k - 1] = IF k - 1 < j THEN MemoryUpTo(s)[k - 1]
                               ELSE MemoryUpTo(s)[k] - s[j].mem
    BY <1>4, <2>1
  <2>4. CASE k < j
    BY <1>0, <1>1, <2>2, <2>3, <2>4
  <2>5. CASE k = j
    BY <1>0, <1>1, <1>2, <2>1, <2>2, <2>3, <2>5
  <2>6. CASE k > j
    <3>1. ~(k - 1 < j) /\ ~(k < j)
      BY <1>1, <2>6
    <3>2. t[k] = s[k + 1]
      BY <1>0, <3>1
    <3>3. MemoryUpTo(t)[k] = (MemoryUpTo(s)[k] - s[j].mem) + s[k + 1].mem
      BY <2>2, <2>3, <3>1, <3>2
    <3>4. MemoryUpTo(s)[k] \in Nat /\ s[j].mem \in Nat /\ s[k + 1].mem \in Nat
      BY <1>1, <1>2, <2>1
    <3>5. QED
      BY <2>2, <3>1, <3>3, <3>4
  <2>7. QED
    BY <1>1, <2>4, <2>5, <2>6
<1>5. \A k \in 0 .. Len(t) : k \in S
  <2> HIDE DEF S
  <2>1. QED
    BY <1>1, <1>3, <1>4, UpTo
<1>6. MemoryUpTo(t)[Len(t)] = IF Len(t) < j THEN MemoryUpTo(s)[Len(t)]
                              ELSE MemoryUpTo(s)[Len(t) + 1] - s[j].mem
  BY <1>1, <1>5
<1>7. MemoryUpTo(s)[Len(s)] = MemoryUpTo(s)[Len(s) - 1] + s[Len(s)].mem
  BY <1>1, MemorySteps
<1>8. MemoryUpTo(s)[Len(s) - 1] \in Nat /\ s[Len(s)].mem \in Nat
  BY <1>1, <1>2
<1>9. ASSUME j = Len(s) PROVE TotalMemory(t) = TotalMemory(s) - s[j].mem
  BY <1>0, <1>1, <1>6, <1>7, <1>8, <1>9 DEF TotalMemory
<1>10. ASSUME j < Len(s) PROVE TotalMemory(t) = TotalMemory(s) - s[j].mem
  BY <1>0, <1>1, <1>6, <1>10 DEF TotalMemory
<1>11. TotalMemory(t) = TotalMemory(s) - s[j].mem
  BY <1>1, <1>9, <1>10
<1>12. QED
  BY <1>0, <1>11 DEF t

\* The order of the servers does not matter.
LEMMA MemoryReordered ==
    ASSUME NEW s \in Seq(Servers), NEW t \in Seq(Servers), Len(t) = Len(s),
           NEW p \in Orders(Len(s)), \A i \in 1 .. Len(s) : t[i] = s[p[i]]
    PROVE  TotalMemory(t) = TotalMemory(s)
<1> DEFINE Same(k) ==
        \A u, v \in Seq(Servers) : \A q \in Orders(k) :
            Len(u) = k /\ Len(v) = k /\ (\A i \in 1 .. k : v[i] = u[q[i]])
                => TotalMemory(v) = TotalMemory(u)
           S == {k \in 0 .. Len(s) : Same(k)}
<1>1. Same(0)
  <2>1. ASSUME NEW u \in Seq(Servers), Len(u) = 0 PROVE TotalMemory(u) = 0
    BY <2>1, MemorySteps DEF TotalMemory
  <2>2. QED
    BY <2>1
<1>2. ASSUME NEW k \in Nat \ {0}, Same(k - 1) PROVE Same(k)
  <2> SUFFICES ASSUME NEW u \in Seq(Servers), NEW v \in Seq(Servers), NEW q \in Orders(k),
                      Len(u) = k, Len(v) = k, \A i \in 1 .. k : v[i] = u[q[i]]
               PROVE  TotalMemory(v) = TotalMemory(u)
    OBVIOUS
  <2> DEFINE j == q[k]
             u1 == Without(u, j)
             v1 == Without(v, k)
             q1 == [i \in 1 .. (k - 1) |-> IF q[i] < j THEN q[i] ELSE q[i] - 1]
  <2>1. /\ q \in [1 .. k -> 1 .. k] /\ j \in 1 .. k
        /\ \A i, l \in 1 .. k : q[i] = q[l] => i = l
    BY DEF Orders
  <2>2. /\ u1 \in Seq(Servers) /\ Len(u1) = k - 1
        /\ TotalMemory(u1) = TotalMemory(u) - u[j].mem
        /\ v1 \in Seq(Servers) /\ Len(v1) = k - 1
        /\ TotalMemory(v1) = TotalMemory(v) - v[k].mem
    <3> HIDE DEF j
    <3>1. j \in 1 .. Len(u) /\ k \in 1 .. Len(v)
      BY <2>1
    <3>2. /\ u1 \in Seq(Servers) /\ Len(u1) = k - 1
          /\ TotalMemory(u1) = TotalMemory(u) - u[j].mem
      BY <3>1, MemoryErased
    <3>3. /\ v1 \in Seq(Servers) /\ Len(v1) = k - 1
          /\ TotalMemory(v1) = TotalMemory(v) - v[k].mem
      BY <3>1, MemoryErased
    <3>4. QED
      BY <3>2, <3>3
  <2> DEFINE Down(x) == IF x < j THEN x ELSE x - 1
  <2>0. ASSUME NEW x \in 1 .. k, x # j
        PROVE  /\ Down(x) \in 1 .. (k - 1)
               /\ (IF Down(x) < j THEN Down(x) ELSE Down(x) + 1) = x
    <3>1. x \in Int /\ j \in Int /\ 1 <= x /\ x <= k /\ 1 <= j /\ j <= k /\ k \in Int
      BY <2>1
    <3> HIDE DEF j
    <3>2. CASE x < j
      BY <2>0, <3>1, <3>2
    <3>3. CASE ~(x < j)
      BY <2>0, <3>1, <3>3
    <3>4. QED
      BY <3>2, <3>3
  <2>3. \A i \in 1 .. (k - 1) :
           /\ i \in 1 .. k /\ i # k /\ q[i] \in 1 .. k /\ q[i] # j
           /\ q1[i] = Down(q[i]) /\ q1[i] \in 1 .. (k - 1)
    <3> SUFFICES ASSUME NEW i \in 1 .. (k - 1)
                 PROVE  /\ i \in 1 .. k /\ i # k /\ q[i] \in 1 .. k /\ q[i] # j
                        /\ q1[i] = Down(q[i])
                        /\ q1[i] \in 1 .. (k - 1)
      OBVIOUS
    <3>1. i \in 1 .. k /\ i # k /\ q[i] \in 1 .. k /\ q[i] # j
      BY <2>1
    <3>2. q1[i] = Down(q[i])
      OBVIOUS
    <3> HIDE DEF j, q1, Down
    <3>3. QED
      BY <2>0, <3>1, <3>2
  <2>4. q1 \in Orders(k - 1) /\ \A i \in 1 .. (k - 1) : v1[i] = u1[q1[i]]
    <3>1. q1 \in [1 .. (k - 1) -> 1 .. (k - 1)]
      BY <2>3
    <3> HIDE DEF j, q1, Down
    <3>2. ASSUME NEW i \in 1 .. (k - 1), NEW l \in 1 .. (k - 1), q1[i] = q1[l]
          PROVE  i = l
      <4>1. q[i] = q[l]
        <5>1. Down(q[i]) = Down(q[l]) /\ q[i] \in 1 .. k /\ q[i] # j /\ q[l] \in 1 .. k /\ q[l] # j
          BY <2>3, <3>2
        <5>2. QED
          BY <2>0, <5>1
      <4>2. QED
        BY <2>1, <2>3, <4>1
    <3>3. ASSUME NEW i \in 1 .. (k - 1) PROVE v1[i] = u1[q1[i]]
      <4>1. v1[i] = v[i]
        BY DEF Without
      <4>2. u1[q1[i]] = u[IF q1[i] < j THEN q1[i] ELSE q1[i] + 1]
        BY <2>3 DEF Without
      <4>3. (IF q1[i] < j THEN q1[i] ELSE q1[i] + 1) = q[i]
        BY <2>0, <2>3
      <4>4. v[i] = u[q[i]]
        BY <2>3
      <4>5. QED
        BY <4>1, <4>2, <4>3, <4>4
    <3>4. QED
      BY <3>1, <3>2, <3>3 DEF Orders
  <2>5. TotalMemory(v1) = TotalMemory(u1)
    <3> HIDE DEF u1, v1, q1
    <3>1. QED
      BY <1>2, <2>2, <2>4
  <2>6. v[k] = u[j] /\ v[k].mem \in Nat /\ TotalMemory(u) \in Nat /\ TotalMemory(v) \in Nat
    BY <2>1, ServerAt, TotalNat
  <2> HIDE DEF u1, v1, j
  <2>7. QED
    BY <2>2, <2>5, <2>6
<1>3. \A k \in 0 .. Len(s) : k \in S
  <2>1. 0 \in S
    BY <1>1
  <2>2. ASSUME NEW k \in 1 .. Len(s), k - 1 \in S PROVE k \in S
    <3> HIDE DEF Same
    <3>1. QED
      BY <1>2, <2>2
  <2>3. Len(s) \in Nat
    OBVIOUS
  <2> HIDE DEF S
  <2>4. QED
    BY <2>1, <2>2, <2>3, UpTo
<1>4. Same(Len(s))
  <2> HIDE DEF Same
  <2>1. QED
    BY <1>3
<1>5. QED
  BY <1>4
-----------------------------------------------------------------------------
(***************************************************************************)
(* std::sort of the points.                                                *)
(***************************************************************************)
\* The elements of a vector of points.
LEMMA PointAt ==
    ASSUME NEW ps \in Seq(RingPoints)
    PROVE  /\ Len(ps) \in Nat /\ DOMAIN ps = 1 .. Len(ps)
           /\ \A i \in 1 .. Len(ps) : /\ ps[i] \in RingPoints /\ ps[i].addr \in Addrs
                                      /\ ps[i].point \in Points /\ ps[i].point \in Int
<1>1. \A i \in 1 .. Len(ps) : ps[i] \in RingPoints
  OBVIOUS
<1>2. Points \subseteq Nat
  BY ContinuumAssumption
<1>3. \A p \in RingPoints : p.addr \in Addrs /\ p.point \in Points /\ p.point \in Int
  <2> SUFFICES ASSUME NEW p \in RingPoints
               PROVE  p.addr \in Addrs /\ p.point \in Points /\ p.point \in Int
    OBVIOUS
  <2>1. p.addr \in Addrs /\ p.point \in Points
    BY DEF RingPoints
  <2>2. p.point \in Nat
    BY <1>2, <2>1
  <2>3. QED
    BY <2>1, <2>2
<1>4. Len(ps) \in Nat /\ DOMAIN ps = 1 .. Len(ps)
  OBVIOUS
<1>5. QED
  BY <1>1, <1>3, <1>4

\* The vector after std::sort has the same points, in order.
LEMMA Sorting ==
    ASSUME NEW ps \in Seq(RingPoints)
    PROVE  /\ SortedPoints(ps) \in Seq(RingPoints)
           /\ Len(SortedPoints(ps)) = Len(ps)
           /\ Elements(SortedPoints(ps)) = Elements(ps)
           /\ Sorted(SortedPoints(ps))
<1> DEFINE n == Len(ps)
           place == Places(ps)
           at(k) == CHOOSE i \in 1 .. n : place[i] = k
           r == [k \in 1 .. n |-> ps[at(k)]]
<1>0. \A i \in 1 .. n : place[i] = Cardinality(NotAfter(ps, i))
  BY DEF Places
<1>1. n \in Nat /\ \A i \in 1 .. n : ps[i] \in RingPoints /\ ps[i].point \in Int
  BY PointAt
<1>2. \A i \in 1 .. n : IsFiniteSet(NotAfter(ps, i)) /\ Cardinality(NotAfter(ps, i)) \in 1 .. n
  <2> SUFFICES ASSUME NEW i \in 1 .. n
               PROVE  IsFiniteSet(NotAfter(ps, i)) /\ Cardinality(NotAfter(ps, i)) \in 1 .. n
    OBVIOUS
  <2>1. IsFiniteSet(1 .. n) /\ Cardinality(1 .. n) = n
    BY <1>1, FS_Interval
  <2>2. NotAfter(ps, i) \subseteq 1 .. n /\ i \in NotAfter(ps, i)
    BY <1>1 DEF NotAfter
  <2>3. IsFiniteSet(NotAfter(ps, i)) /\ Cardinality(NotAfter(ps, i)) <= n
    BY <2>1, <2>2, FS_Subset
  <2>4. Cardinality(NotAfter(ps, i)) \in Nat /\ Cardinality(NotAfter(ps, i)) # 0
    BY <2>2, <2>3, FS_CardinalityType, FS_EmptySet
  <2>5. QED
    BY <1>1, <2>3, <2>4
<1>3. ASSUME NEW i \in 1 .. n, NEW j \in 1 .. n, i \in NotAfter(ps, j), i # j
      PROVE  Places(ps)[i] < Places(ps)[j]
  <2>1. /\ NotAfter(ps, i) \subseteq NotAfter(ps, j) /\ j \in NotAfter(ps, j)
        /\ j \notin NotAfter(ps, i)
    BY <1>1, <1>3 DEF NotAfter
  <2>2. IsFiniteSet(NotAfter(ps, j)) /\ NotAfter(ps, i) # NotAfter(ps, j)
    BY <1>2, <2>1
  <2>3. Cardinality(NotAfter(ps, i)) < Cardinality(NotAfter(ps, j))
    <3>1. Cardinality(NotAfter(ps, i)) \in Nat /\ Cardinality(NotAfter(ps, j)) \in Nat
      BY <1>2
    <3>2. QED
      BY <2>1, <2>2, <3>1, FS_Subset
  <2>4. QED
    BY <1>0, <2>3
<1>4. \A i, j \in 1 .. n : i \in NotAfter(ps, j) \/ j \in NotAfter(ps, i)
  <2> SUFFICES ASSUME NEW i \in 1 .. n, NEW j \in 1 .. n
               PROVE  i \in NotAfter(ps, j) \/ j \in NotAfter(ps, i)
    OBVIOUS
  <2>1. i \in Int /\ j \in Int /\ ps[i].point \in Int /\ ps[j].point \in Int
    BY <1>1
  <2>2. QED
    <3>1. ps[i].point < ps[j].point \/ ps[j].point < ps[i].point \/ ps[i].point = ps[j].point
      BY <2>1
    <3>2. i <= j \/ j <= i
      BY <2>1
    <3>3. QED
      BY <3>1, <3>2 DEF NotAfter
<1>5. place \in [1 .. n -> 1 .. n] /\ \A i, j \in 1 .. n : place[i] = place[j] => i = j
  <2>1. place \in [1 .. n -> 1 .. n]
    <3>1. place = [i \in 1 .. n |-> Cardinality(NotAfter(ps, i))]
      BY DEF Places
    <3>2. QED
      BY <1>2, <3>1
  <2>2. \A i, j \in 1 .. n : i \in NotAfter(ps, j) /\ i # j => place[i] < place[j]
    BY <1>3
  <2> HIDE DEF place
  <2>3. QED
    BY <1>4, <2>1, <2>2
<1>6. \A k \in 1 .. n : at(k) \in 1 .. n /\ place[at(k)] = k
  <2> HIDE DEF place
  <2>1. \A k \in 1 .. n : \E i \in 1 .. n : place[i] = k
    BY <1>1, <1>5, Pigeons
  <2>2. QED
    BY <2>1
<1>7. SortedPoints(ps) = r
  BY DEF SortedPoints
<1>8. r \in Seq(RingPoints) /\ Len(r) = n
  <2>1. \A k \in 1 .. n : ps[at(k)] \in RingPoints
    BY <1>1, <1>6
  <2> HIDE DEF at
  <2>2. QED
    BY <1>1, <2>1
<1>9. Elements(r) = Elements(ps)
  <2>1. \A i \in 1 .. n : at(place[i]) = i /\ place[i] \in 1 .. n
    <3> HIDE DEF at, place
    <3>1. QED
      BY <1>5, <1>6
  <2>2. DOMAIN r = 1 .. n /\ DOMAIN ps = 1 .. n
    OBVIOUS
  <2> HIDE DEF at, place
  <2>3. \A k \in 1 .. n : r[k] = ps[at(k)]
    OBVIOUS
  <2> HIDE DEF r
  <2>4. QED
    BY <1>6, <2>1, <2>2, <2>3 DEF Elements
<1>10. Sorted(r)
  <2> SUFFICES ASSUME NEW k \in 1 .. n, NEW l \in 1 .. n, k < l
               PROVE  r[k].point <= r[l].point
    BY <1>8 DEF Sorted
  <2> DEFINE i == at(k)
             j == at(l)
  <2>1. /\ i \in 1 .. n /\ j \in 1 .. n /\ place[i] = k /\ place[j] = l
    BY <1>6
  <2>2. r[k] = ps[i] /\ r[l] = ps[j]
    OBVIOUS
  <2> HIDE DEF i, j, r, at
  <2>3. i \in NotAfter(ps, j)
    <3>1. \A x, y \in 1 .. n : x \in NotAfter(ps, y) /\ x # y => place[x] < place[y]
      BY <1>3
    <3> HIDE DEF place
    <3>2. k \in Int /\ l \in Int
      BY <1>1
    <3>3. QED
      BY <1>4, <2>1, <3>1, <3>2
  <2>4. QED
    BY <1>1, <2>1, <2>2, <2>3 DEF NotAfter
<1>11. QED
  BY <1>7, <1>8, <1>9, <1>10
-----------------------------------------------------------------------------
(***************************************************************************)
(* The points of a server, of all servers, and of all but one.             *)
(***************************************************************************)

\* The numbers of points that the files may ever have set.
Reads == {0} \cup {Read(0, f.points) : f \in PropertyFiles}

\* A point hashed under one of the files.
Hashed(p) == \E n \in Reads : \E i \in 0 .. (PointsPerServer(n) - 1) : p.point = Hash(p.addr, i)

\* What load_config reads from one of the files is one of Reads.
LEMMA ReadsNat ==
    /\ \A n \in Reads : n \in Nat /\ PointsPerServer(n) \in Nat
    /\ \A old \in Reads : \A f \in PropertyFiles : Read(old, f.points) \in Reads
<1>1. \A f \in PropertyFiles : f.points \in Nat \cup {Missing}
  BY ContinuumAssumption
<1>2. \A f \in PropertyFiles : Read(0, f.points) \in Nat
  BY <1>1 DEF Read
<1>3. \A n \in Reads : n \in Nat
  BY <1>2 DEF Reads
<1>4. \A n \in Nat : PointsPerServer(n) \in Nat
  BY DEF PointsPerServer
<1>5. ASSUME NEW old \in Reads, NEW f \in PropertyFiles
      PROVE  Read(old, f.points) \in Reads
  <2>1. CASE f.points = Missing
    BY <2>1 DEF Read
  <2>2. CASE f.points # Missing
    <3>1. Read(old, f.points) = Read(0, f.points)
      BY <2>2 DEF Read
    <3>2. QED
      BY <3>1 DEF Reads
  <2>3. QED
    BY <2>1, <2>2
<1>6. QED
  BY <1>3, <1>4, <1>5

\* The hash of a point is on the ring.
LEMMA HashOnRing ==
    ASSUME NEW n \in Reads, NEW i \in 0 .. (PointsPerServer(n) - 1), NEW a \in Addrs
    PROVE  Hash(a, i) \in Points
<1>1. n # 0
  BY DEF PointsPerServer
<1>2. PICK f \in PropertyFiles : n = Read(0, f.points)
  BY <1>1 DEF Reads
<1>3. QED
  BY <1>2, HashAssumption

\* Points that fall together are of one server, whichever files they are from.
LEMMA SamePlace ==
    ASSUME NEW p \in RingPoints, NEW q \in RingPoints, Hashed(p), Hashed(q), p.point = q.point
    PROVE  p.addr = q.addr
<1>1. PICK n \in Reads : \E k \in 0 .. (PointsPerServer(n) - 1) : p.point = Hash(p.addr, k)
  BY DEF Hashed
<1>2. PICK m \in Reads : \E k \in 0 .. (PointsPerServer(m) - 1) : q.point = Hash(q.addr, k)
  BY DEF Hashed
<1>3. PICK i \in 0 .. (PointsPerServer(n) - 1), j \in 0 .. (PointsPerServer(m) - 1) :
         p.point = Hash(p.addr, i) /\ q.point = Hash(q.addr, j)
  BY <1>1, <1>2
<1>4. /\ PointsPerServer(n) \in Nat /\ PointsPerServer(m) \in Nat
      /\ p.addr \in Addrs /\ q.addr \in Addrs
  BY ReadsNat DEF RingPoints
<1>5. ASSUME NEW l \in Reads,
             i \in 0 .. (PointsPerServer(l) - 1), j \in 0 .. (PointsPerServer(l) - 1)
      PROVE  p.addr = q.addr
  <2>1. l # 0
    BY <1>5 DEF PointsPerServer
  <2>2. PICK f \in PropertyFiles : l = Read(0, f.points)
    BY <2>1 DEF Reads
  <2>3. QED
    <3>1. Hash(p.addr, i) = Hash(q.addr, j) /\ p.addr \in Addrs /\ q.addr \in Addrs
      BY <1>3, <1>4
    <3>2. /\ i \in 0 .. (PointsPerServer(Read(0, f.points)) - 1)
          /\ j \in 0 .. (PointsPerServer(Read(0, f.points)) - 1)
      BY <1>5, <2>2
    <3>3. QED
      BY <3>1, <3>2, HashAssumption
<1>6. CASE PointsPerServer(n) <= PointsPerServer(m)
  <2>1. i \in 0 .. (PointsPerServer(m) - 1)
    BY <1>4, <1>6
  <2>2. QED
    BY <1>5, <2>1
<1>7. CASE PointsPerServer(m) <= PointsPerServer(n)
  <2>1. j \in 0 .. (PointsPerServer(n) - 1)
    BY <1>4, <1>7
  <2>2. QED
    BY <1>5, <2>1
<1>8. QED
  BY <1>4, <1>6, <1>7

\* A share is between none and the configured number.
LEMMA Share ==
    ASSUME NEW s, NEW n, NEW memory, m_points_per_server \in Reads
    PROVE  NumHashes(s, n, memory) \in 0 .. PointsPerServer(m_points_per_server)
<1> DEFINE most == PointsPerServer(m_points_per_server)
           made == {h \in 1 .. most : h <= Shared(s, n, memory, most)}
<1>1. most \in Nat
  BY ReadsNat
<1> HIDE DEF most
<1>2. IsFiniteSet(1 .. most) /\ Cardinality(1 .. most) = most
  BY <1>1, FS_Interval
<1>3. made \in SUBSET (1 .. most)
  OBVIOUS
<1> HIDE DEF made
<1>4. Cardinality(made) \in 0 .. most
  <2>1. IsFiniteSet(made) /\ Cardinality(made) <= most
    BY <1>2, <1>3, FS_Subset
  <2>2. Cardinality(made) \in Nat
    BY <2>1, FS_CardinalityType
  <2>3. QED
    BY <1>1, <2>1, <2>2
<1>5. NumHashes(s, n, memory) \in {0, most, Cardinality(made)}
  BY DEF NumHashes, most, made
<1>6. NumHashes(s, n, memory) \in 0 .. most
  BY <1>1, <1>4, <1>5
<1>7. QED
  BY <1>6 DEF most

\* add_points_to_continuum makes as many points as the share, all of the server.
LEMMA PointsMade ==
    ASSUME NEW s \in Servers, NEW n, NEW memory, m_points_per_server \in Reads
    PROVE  /\ PointsOf(s, n, memory) \in Seq({p \in RingPoints : p.addr = s.addr /\ Hashed(p)})
           /\ Len(PointsOf(s, n, memory)) = NumHashes(s, n, memory)
<1> DEFINE h == NumHashes(s, n, memory)
           most == PointsPerServer(m_points_per_server)
           at(i) == [addr |-> s.addr, point |-> Hash(s.addr, i - 1)]
<1>1. h \in 0 .. most /\ most \in Nat /\ s.addr \in Addrs
  <2>1. s.addr \in Addrs
    BY DEF Servers
  <2>2. h \in 0 .. most
    BY Share
  <2>3. most \in Nat
    BY ReadsNat
  <2>4. QED
    BY <2>1, <2>2, <2>3
<1>2. ASSUME NEW i \in 1 .. h PROVE at(i) \in RingPoints /\ at(i).addr = s.addr /\ Hashed(at(i))
  <2>1. i - 1 \in 0 .. (most - 1)
    BY <1>1
  <2>2. Hash(s.addr, i - 1) \in Points
    BY <1>1, <2>1, HashOnRing
  <2>3. at(i) \in RingPoints
    BY <1>1, <2>2 DEF RingPoints
  <2>4. at(i).point = Hash(at(i).addr, i - 1)
    OBVIOUS
  <2>5. Hashed(at(i))
    BY <2>1, <2>4 DEF Hashed
  <2>6. QED
    BY <2>3, <2>5
<1>3. PointsOf(s, n, memory) = [i \in 1 .. h |-> at(i)] /\ h \in Nat
  BY <1>1 DEF PointsOf
<1> HIDE DEF h, at
<1>4. QED
  BY <1>2, <1>3 DEF h

\* The points of all servers are of servers that are listed.
LEMMA PointsCollected ==
    ASSUME servers_ \in Seq(Servers), m_points_per_server \in Reads
    PROVE  AllPoints \in Seq({p \in RingPoints : p.addr \in Listed /\ Hashed(p)})
<1> DEFINE n == Len(servers_)
           P == {p \in RingPoints : p.addr \in Listed /\ Hashed(p)}
           T == Seq(P)
           of(i) == PointsOf(servers_[i], total_servers_, total_memory_)
           step == [i \in 1 .. n |-> [x \in T |-> x \o of(i)]]
           Made(f) == f = [i \in 0 .. n |-> IF i = 0 THEN <<>> ELSE f[i - 1] \o of(i)]
<1>1. n \in Nat /\ \A i \in 1 .. n : servers_[i] \in Servers
  BY ServerAt
<1>2. ASSUME NEW i \in 1 .. n PROVE of(i) \in T
  <2> DEFINE Mine == {p \in RingPoints : p.addr = servers_[i].addr /\ Hashed(p)}
  <2>1. of(i) \in Seq(Mine)
    BY <1>1, PointsMade
  <2>2. servers_[i].addr \in Listed
    <3>1. DOMAIN servers_ = 1 .. n
      OBVIOUS
    <3>2. QED
      BY <3>1 DEF Listed, Elements
  <2>3. Mine \subseteq P
    BY <2>2
  <2>4. \A x \in Seq(Mine) : x \in T
    <3> HIDE DEF Mine, P
    <3>1. QED
      BY <2>3
  <2>5. QED
    BY <2>1, <2>4
<1> HIDE DEF P
<1>3. step \in [1 .. n -> [T -> T]]
  <2> HIDE DEF of
  <2>1. \A i \in 1 .. n : of(i) \in Seq(P)
    BY <1>2
  <2>2. \A i \in 1 .. n : \A x \in Seq(P) : x \o of(i) \in Seq(P)
    BY <2>1
  <2>3. QED
    BY <2>2
<1>4. PICK f \in [0 .. n -> T] : Follows(f, n, <<>>, step)
  <2>1. <<>> \in T
    OBVIOUS
  <2> HIDE DEF step, T, n
  <2>2. QED
    BY <1>1, <1>3, <2>1, Steps
<1>5. f[0] = <<>> /\ \A i \in 1 .. n : f[i] = f[i - 1] \o of(i)
  <2>1. \A i \in 1 .. n : f[i] = step[i][f[i - 1]]
    BY <1>4 DEF Follows
  <2>2. \A i \in 1 .. n : f[i - 1] \in T
    <3>1. \A i \in 1 .. n : i - 1 \in 0 .. n
      BY <1>1
    <3> HIDE DEF n, T
    <3>2. QED
      BY <3>1
  <2>3. \A i \in 1 .. n : \A x \in T : step[i][x] = x \o of(i)
    <3> HIDE DEF of, T, n
    <3>1. QED
      OBVIOUS
  <2> HIDE DEF step, T, n, of
  <2>4. QED
    BY <1>4, <2>1, <2>2, <2>3 DEF Follows
<1>6. Made(f)
  <2> HIDE DEF T, of
  <2>1. QED
    BY <1>1, <1>5
<1>7. Made(PointsUpTo)
  <2>1. PointsUpTo = CHOOSE g : Made(g)
    BY DEF PointsUpTo
  <2> HIDE DEF Made
  <2>2. QED
    BY <1>6, <2>1, Zenon
<1> DEFINE g == PointsUpTo
<1> HIDE DEF g, of
<1>8. g = [i \in 0 .. n |-> IF i = 0 THEN <<>> ELSE g[i - 1] \o of(i)]
  BY <1>7 DEF g
<1>9. g[0] = <<>> /\ \A i \in 1 .. n : g[i] = g[i - 1] \o of(i)
  <2> HIDE DEF n
  <2>1. 0 \in 0 .. n /\ \A i \in 1 .. n : i \in 0 .. n /\ i # 0
    BY <1>1
  <2>2. QED
    BY <1>8, <2>1
<1> DEFINE S == {k \in 0 .. n : g[k] \in T}
<1>10. 0 \in S
  <2>1. <<>> \in T /\ 0 \in 0 .. n
    BY <1>1
  <2> HIDE DEF n, T
  <2>2. QED
    BY <1>9, <2>1
<1>11. ASSUME NEW k \in 1 .. n, k - 1 \in S PROVE k \in S
  <2>1. g[k - 1] \in Seq(P) /\ of(k) \in Seq(P) /\ g[k] = g[k - 1] \o of(k)
    BY <1>2, <1>9, <1>11
  <2>2. g[k] \in Seq(P)
    BY <2>1
  <2> HIDE DEF n
  <2>3. QED
    BY <2>2
<1>12. \A k \in 0 .. n : k \in S
  <2> HIDE DEF S, n
  <2>1. QED
    BY <1>1, <1>10, <1>11, UpTo
<1>13. n \in S
  <2> HIDE DEF S
  <2>1. QED
    BY <1>1, <1>12
<1>14. QED
  BY <1>13 DEF AllPoints, g, P

\* remove_server erases the points of the server, and no other.
LEMMA PointsKept ==
    ASSUME points_ \in Seq(RingPoints), Sorted(points_), NEW a
    PROVE  /\ PointsWithout(a) \in Seq(RingPoints) /\ Sorted(PointsWithout(a))
           /\ Elements(PointsWithout(a)) = {p \in Elements(points_) : p.addr # a}
<1> DEFINE n == Len(points_)
           T == Seq(RingPoints)
           next(i, x) == IF points_[i].addr = a THEN x ELSE Append(x, points_[i])
           step == [i \in 1 .. n |-> [x \in T |-> next(i, x)]]
           Made(f) == f = [i \in 0 .. n |->
                             IF i = 0 THEN <<>>
                             ELSE IF points_[i].addr = a THEN f[i - 1]
                                  ELSE Append(f[i - 1], points_[i])]
<1>1. n \in Nat /\ \A i \in 1 .. n : points_[i] \in RingPoints /\ points_[i].point \in Int
  BY PointAt
<1>2. step \in [1 .. n -> [T -> T]]
  <2>1. \A i \in 1 .. n : \A x \in Seq(RingPoints) : next(i, x) \in Seq(RingPoints)
    BY <1>1
  <2> HIDE DEF next
  <2>2. QED
    BY <2>1
<1>3. PICK f \in [0 .. n -> T] : Follows(f, n, <<>>, step)
  <2>1. <<>> \in T
    OBVIOUS
  <2> HIDE DEF step, T, n
  <2>2. QED
    BY <1>1, <1>2, <2>1, Steps
<1>4. f[0] = <<>> /\ \A i \in 1 .. n : f[i] = next(i, f[i - 1])
  <2>1. \A i \in 1 .. n : f[i - 1] \in T
    <3>1. \A i \in 1 .. n : i - 1 \in 0 .. n
      BY <1>1
    <3> HIDE DEF n, T
    <3>2. QED
      BY <3>1
  <2>2. \A i \in 1 .. n : \A x \in T : step[i][x] = next(i, x)
    <3> HIDE DEF next, T, n
    <3>1. QED
      OBVIOUS
  <2> HIDE DEF step, T, n, next
  <2>3. QED
    BY <1>3, <2>1, <2>2 DEF Follows
<1>5. Made(f)
  <2> HIDE DEF T, n
  <2>1. 0 \in 0 .. n /\ \A i \in 0 .. n : i = 0 \/ i \in 1 .. n
    BY <1>1
  <2>2. QED
    BY <1>4, <2>1
<1>6. Made(KeptUpTo(a))
  <2>1. KeptUpTo(a) = CHOOSE g : Made(g)
    BY DEF KeptUpTo
  <2> HIDE DEF Made
  <2>2. QED
    BY <1>5, <2>1, Zenon
<1> DEFINE g == KeptUpTo(a)
<1> HIDE DEF g
<1>7. g[0] = <<>> /\ \A i \in 1 .. n : g[i] = next(i, g[i - 1])
  <2>1. g = [i \in 0 .. n |-> IF i = 0 THEN <<>>
                             ELSE IF points_[i].addr = a THEN g[i - 1]
                                  ELSE Append(g[i - 1], points_[i])]
    BY <1>6 DEF g
  <2> HIDE DEF n
  <2>2. 0 \in 0 .. n /\ \A i \in 1 .. n : i \in 0 .. n /\ i # 0
    BY <1>1
  <2>3. QED
    BY <2>1, <2>2
<1> DEFINE Is(q, k) ==
        /\ q \in Seq(RingPoints) /\ Sorted(q)
        /\ \A i \in 1 .. Len(q) : \E j \in 1 .. k : q[i] = points_[j] /\ points_[j].addr # a
        /\ \A j \in 1 .. k : points_[j].addr # a => \E i \in 1 .. Len(q) : q[i] = points_[j]
           S == {k \in 0 .. n : Is(g[k], k)}
<1>8. 0 \in S
  <2>1. Is(<<>>, 0)
    <3>1. 1 .. 0 = {} /\ Len(<<>>) = 0 /\ <<>> \in Seq(RingPoints)
      OBVIOUS
    <3>2. QED
      BY <3>1 DEF Sorted
  <2> HIDE DEF Is, n
  <2>2. QED
    BY <1>1, <1>7, <2>1
<1>9. ASSUME NEW k \in 1 .. n, k - 1 \in S PROVE k \in S
  <2>1. Is(g[k - 1], k - 1) /\ g[k] = next(k, g[k - 1])
    <3> HIDE DEF Is, n, next
    <3>1. QED
      BY <1>7, <1>9
  <2> DEFINE q == g[k - 1]
  <2> HIDE DEF q
  <2>2. /\ k \in Nat /\ 1 <= k /\ k <= n
        /\ \A j \in 1 .. k : j = k \/ j \in 1 .. (k - 1)
        /\ \A j \in 1 .. (k - 1) : j \in 1 .. k /\ j < k
        /\ \A j \in 1 .. k : j \in 1 .. n
    BY <1>1
  <2>3. Is(q, k - 1)
    BY <2>1 DEF q
  <2>4. CASE points_[k].addr = a
    <3>1. Is(q, k)
      BY <2>2, <2>3, <2>4
    <3>2. g[k] = q
      BY <2>1, <2>4 DEF q
    <3> HIDE DEF Is
    <3>3. QED
      BY <3>1, <3>2
  <2>5. CASE points_[k].addr # a
    <3> DEFINE x == points_[k]
               r == Append(q, x)
    <3>1. x \in RingPoints
      BY <1>1
    <3>2. /\ r \in Seq(RingPoints) /\ Len(r) = Len(q) + 1 /\ Len(q) \in Nat
          /\ r[Len(q) + 1] = x /\ \A i \in 1 .. Len(q) : r[i] = q[i]
      BY <2>3, <3>1
    <3>3. \A i \in 1 .. Len(r) : i = Len(q) + 1 \/ i \in 1 .. Len(q)
      BY <3>2
    <3>4. \A i \in 1 .. Len(q) : i \in 1 .. Len(r) /\ i < Len(q) + 1
      BY <3>2
    <3>5. Len(q) + 1 \in 1 .. Len(r)
      BY <3>2
    <3> HIDE DEF r
    <3>6. \A i \in 1 .. Len(q) : q[i].point <= x.point
      <4>1. \A j \in 1 .. (k - 1) : points_[j].point <= x.point
        BY <1>1, <2>2 DEF Sorted
      <4>2. QED
        BY <2>3, <4>1
    <3>7. Sorted(r)
      <4> SUFFICES ASSUME NEW i \in 1 .. Len(r), NEW j \in 1 .. Len(r), i < j
                   PROVE  r[i].point <= r[j].point
        BY DEF Sorted
      <4>1. i \in 1 .. Len(q)
        BY <3>2, <3>3
      <4>2. CASE j \in 1 .. Len(q)
        BY <2>3, <3>2, <4>1, <4>2 DEF Sorted
      <4>3. CASE j = Len(q) + 1
        BY <3>2, <3>6, <4>1, <4>3
      <4>4. QED
        BY <3>3, <4>2, <4>3
    <3>8. \A i \in 1 .. Len(r) : \E j \in 1 .. k : r[i] = points_[j] /\ points_[j].addr # a
      <4>1. k \in 1 .. k
        BY <2>2
      <4>2. r[Len(q) + 1] = points_[k] /\ points_[k].addr # a
        BY <2>5, <3>2
      <4>3. \A i \in 1 .. Len(q) : \E j \in 1 .. k : r[i] = points_[j] /\ points_[j].addr # a
        BY <2>2, <2>3, <3>2
      <4> HIDE DEF x
      <4>4. QED
        BY <3>3, <4>1, <4>2, <4>3
    <3>9. \A j \in 1 .. k : points_[j].addr # a => \E i \in 1 .. Len(r) : r[i] = points_[j]
      BY <2>2, <2>3, <3>2, <3>4, <3>5
    <3>10. Is(r, k)
      BY <3>2, <3>7, <3>8, <3>9
    <3>11. g[k] = r
      BY <2>1, <2>5 DEF q, r
    <3> HIDE DEF Is
    <3>12. QED
      BY <3>10, <3>11
  <2>6. QED
    BY <2>4, <2>5
<1>10. Is(g[n], n)
  <2>1. \A k \in 0 .. n : k \in S
    <3> HIDE DEF S, n
    <3>1. QED
      BY <1>1, <1>8, <1>9, UpTo
  <2> HIDE DEF Is, n
  <2>2. QED
    BY <1>1, <2>1
<1>11. PointsWithout(a) = g[n]
  BY DEF PointsWithout, g
<1> DEFINE w == g[n]
<1> HIDE DEF w, g
<1>12. Is(w, n)
  BY <1>10 DEF w
<1>13. DOMAIN w = 1 .. Len(w) /\ DOMAIN points_ = 1 .. n
  BY <1>12
<1>14. Elements(w) = {p \in Elements(points_) : p.addr # a}
  <2>1. Elements(w) = {w[i] : i \in 1 .. Len(w)}
    BY <1>13 DEF Elements
  <2>2. Elements(points_) = {points_[i] : i \in 1 .. n}
    BY <1>13 DEF Elements
  <2> HIDE DEF n
  <2>3. ASSUME NEW p \in Elements(w) PROVE p \in Elements(points_) /\ p.addr # a
    BY <1>12, <2>1, <2>2
  <2>4. ASSUME NEW p \in Elements(points_), p.addr # a PROVE p \in Elements(w)
    BY <1>12, <2>1, <2>2, <2>4
  <2>5. QED
    BY <2>3, <2>4
<1>15. QED
  BY <1>11, <1>12, <1>14 DEF w
-----------------------------------------------------------------------------
(***************************************************************************)
(* The vector of servers.                                                  *)
(***************************************************************************)
LEMMA ServersSorted ==
    ASSUME NEW s \in Seq(Servers), NEW r \in SortedServers(s)
    PROVE  /\ r \in Seq(Servers) /\ Len(r) = Len(s)
           /\ TotalMemory(r) = TotalMemory(s) /\ Elements(r) = Elements(s)
<1> DEFINE n == Len(s)
<1>1. PICK p \in Orders(n) : r = [i \in 1 .. n |-> s[p[i]]]
  BY DEF SortedServers
<1>2. /\ n \in Nat /\ p \in [1 .. n -> 1 .. n] /\ \A i \in 1 .. n : s[i] \in Servers
      /\ \A i, j \in 1 .. n : p[i] = p[j] => i = j
  BY ServerAt DEF Orders
<1>3. r \in Seq(Servers) /\ Len(r) = n
  BY <1>1, <1>2
<1>4. \A i \in 1 .. n : r[i] = s[p[i]]
  BY <1>1
<1>5. TotalMemory(r) = TotalMemory(s)
  BY <1>3, <1>4, MemoryReordered
<1>6. \A k \in 1 .. n : \E i \in 1 .. n : p[i] = k
  BY <1>2, Pigeons
<1>7. DOMAIN r = 1 .. n /\ DOMAIN s = 1 .. n
  BY <1>3
<1>8. Elements(r) = Elements(s)
  <2> HIDE DEF n
  <2>1. QED
    BY <1>2, <1>4, <1>6, <1>7 DEF Elements
<1>9. QED
  BY <1>3, <1>5, <1>8

\* lower_bound finds a place.
LEMMA Bound ==
    ASSUME servers_ \in Seq(Servers), NEW a \in Addrs
    PROVE  LowerBound(a) \in 1 .. (Len(servers_) + 1)
<1> DEFINE n == Len(servers_)
           S == {i \in 1 .. (n + 1) : i <= n => Ip(servers_[i].addr) >= Ip(a)}
           Is(i) == /\ \A j \in 1 .. (i - 1) : Ip(servers_[j].addr) < Ip(a)
                    /\ i <= n => Ip(servers_[i].addr) >= Ip(a)
<1>1. n \in Nat /\ \A i \in 1 .. n : servers_[i].addr \in Addrs
  BY ServerAt
<1>2. n + 1 \in S /\ S \subseteq Nat
  BY <1>1
<1>3. PICK i \in S : \A l \in S : i <= l
  <2> HIDE DEF S
  <2>1. QED
    BY <1>2, Least
<1>4. \A x \in Addrs : Ip(x) \in Int
  BY ContinuumAssumption
<1>5. Is(i) /\ i \in 1 .. (n + 1)
  <2>1. ASSUME NEW j \in 1 .. (i - 1) PROVE Ip(servers_[j].addr) < Ip(a)
    <3>1. j \in 1 .. n /\ j < i
      BY <1>1, <1>3
    <3>2. j \notin S
      <4> HIDE DEF S
      <4>1. QED
        BY <1>1, <1>2, <1>3, <3>1
    <3>3. ~(Ip(servers_[j].addr) >= Ip(a))
      BY <1>1, <3>1, <3>2
    <3>4. QED
      BY <1>1, <1>4, <3>1, <3>3
  <2>2. QED
    BY <1>3, <2>1
<1>6. LowerBound(a) = CHOOSE k \in 1 .. (n + 1) : Is(k)
  BY DEF LowerBound
<1> HIDE DEF Is
<1>7. QED
  BY <1>5, <1>6

-----------------------------------------------------------------------------
(***************************************************************************)
(* Keys on the ring.                                                       *)
(***************************************************************************)

\* Of the points E, p is the one that serves hash h: the least one from h on, or
\* the least one of all.
Nearest(E, h, p) ==
    /\ p \in E
    /\ p.point >= h \/ \A q \in E : q.point < h
    /\ \A q \in E : q.point >= h \/ p.point < h => p.point <= q.point

\* get_server finds the nearest point of a sorted ring.
LEMMA Served ==
    ASSUME NEW ps \in Seq(RingPoints), Sorted(ps), ps # <<>>, NEW h \in Nat
    PROVE  \E p : Nearest(Elements(ps), h, p) /\ ServerFor(ps, h) = p.addr
<1> DEFINE n == Len(ps)
           from == {i \in 1 .. n : ps[i].point >= h}
<1>1. n \in Nat \ {0} /\ DOMAIN ps = 1 .. n /\ \A i \in 1 .. n : ps[i].point \in Int
  BY PointAt
<1>2. \A q : q \in Elements(ps) <=> \E i \in 1 .. n : q = ps[i]
  BY <1>1 DEF Elements
<1>3. CASE from = {}
  <2>1. ServerFor(ps, h) = ps[1].addr
    BY <1>3 DEF ServerFor
  <2>2. \A i \in 1 .. n : ps[i].point < h /\ ps[1].point <= ps[i].point
    <3> SUFFICES ASSUME NEW i \in 1 .. n
                 PROVE  ps[i].point < h /\ ps[1].point <= ps[i].point
      OBVIOUS
    <3>1. ps[i].point < h
      BY <1>1, <1>3
    <3>2. i = 1 \/ (1 \in 1 .. n /\ 1 < i)
      BY <1>1
    <3>3. ps[1].point <= ps[i].point
      BY <1>1, <3>2 DEF Sorted
    <3>4. QED
      BY <3>1, <3>3
  <2>3. 1 \in 1 .. n
    BY <1>1
  <2>4. Nearest(Elements(ps), h, ps[1])
    BY <1>2, <2>2, <2>3 DEF Nearest
  <2>5. QED
    BY <2>1, <2>4
<1>4. CASE from # {}
  <2> DEFINE least == CHOOSE i \in from : \A j \in from : i <= j
  <2>1. least \in from /\ \A j \in from : least <= j
    <3>1. from \subseteq Nat
      OBVIOUS
    <3> HIDE DEF from
    <3>2. \E i \in from : \A j \in from : i <= j
      BY <1>4, <3>1, Least
    <3>3. QED
      BY <3>2
  <2>2. ServerFor(ps, h) = ps[least].addr
    BY <1>4 DEF ServerFor
  <2> HIDE DEF least
  <2>3. least \in 1 .. n /\ ps[least].point >= h
    BY <2>1
  <2>4. \A j \in 1 .. n : ps[j].point >= h => ps[least].point <= ps[j].point
    <3> SUFFICES ASSUME NEW j \in 1 .. n, ps[j].point >= h
                 PROVE  ps[least].point <= ps[j].point
      OBVIOUS
    <3>1. least <= j
      BY <2>1
    <3>2. least = j \/ least < j
      BY <2>3, <3>1
    <3>3. QED
      BY <1>1, <2>3, <3>2 DEF Sorted
  <2>5. ~(ps[least].point < h)
    BY <1>1, <2>3
  <2>6. Nearest(Elements(ps), h, ps[least])
    BY <1>2, <2>3, <2>4, <2>5 DEF Nearest
  <2>7. QED
    BY <2>2, <2>6
<1>5. QED
  BY <1>3, <1>4

\* Whether its points are added or taken away: if another point of the larger
\* ring F serves a hash than of the smaller one E, it is a point of server a.
LEMMA OnlyKeysOf ==
    ASSUME NEW F, \A p \in F : p \in RingPoints /\ Hashed(p), NEW a,
           NEW E, E \subseteq F, \A p \in F : p \in E \/ p.addr = a,
           NEW h \in Nat, NEW p, NEW q, Nearest(E, h, p), Nearest(F, h, q), p.addr # q.addr
    PROVE  q.addr = a
<1> SUFFICES ASSUME q.addr # a PROVE FALSE
  OBVIOUS
<1>1. p \in E /\ q \in E /\ p \in RingPoints /\ q \in RingPoints /\ Hashed(p) /\ Hashed(q)
  BY DEF Nearest
<1>2. p.point \in Int /\ q.point \in Int
  <2>1. Points \subseteq Nat
    BY ContinuumAssumption
  <2>2. p.point \in Points /\ q.point \in Points
    BY <1>1 DEF RingPoints
  <2>3. p.point \in Nat /\ q.point \in Nat
    BY <2>1, <2>2
  <2>4. QED
    BY <2>3
<1>3. p.point <= q.point /\ q.point <= p.point
  BY <1>1, <1>2 DEF Nearest
<1>4. p.point = q.point
  BY <1>2, <1>3
<1>5. QED
  BY <1>1, <1>4, SamePlace
-----------------------------------------------------------------------------
(***************************************************************************)
(* The inductive invariant.                                                *)
(***************************************************************************)
Typed ==
    /\ servers_ \in Seq(Servers) /\ spare \in Seq(Servers) /\ points_ \in Seq(RingPoints)
    /\ total_servers_ \in Int /\ total_memory_ \in Int /\ total_points_ \in Int
    /\ m_num_servers \in Nat /\ m_points_per_server \in Reads
    /\ phase \in {"new", "loaded", "ready", "crashed"} /\ stray \in Nat

\* The totals are those of the vectors, from the loading on, while remove_server
\* has not erased at end().
Counted ==
    /\ phase \in {"new", "loaded"} => points_ = <<>>
    /\ phase \in {"loaded", "ready"} /\ stray = 0 => /\ total_servers_ = Len(servers_)
                                                    /\ total_memory_ = TotalMemory(servers_)
    /\ phase \in {"loaded", "ready"} => total_points_ = Len(points_)
    /\ phase = "new" => total_points_ = 0

\* The ring is sorted, of points that the hash function gave to servers, which
\* are listed as long as that has not happened.
Ring ==
    /\ Sorted(points_)
    /\ \A p \in Elements(points_) : Hashed(p)
    /\ phase = "ready" /\ stray = 0 => \A p \in Elements(points_) : p.addr \in Listed

IInv == Typed /\ Counted /\ Ring

\* The ring before create_continuum.
LEMMA EmptyRing == <<>> \in Seq(RingPoints) /\ Sorted(<<>>) /\ Elements(<<>>) = {} /\ Len(<<>>) = 0
<1>1. <<>> \in Seq(RingPoints) /\ Len(<<>>) = 0 /\ 1 .. 0 = {} /\ DOMAIN <<>> = {}
  OBVIOUS
<1>2. QED
  BY <1>1 DEF Sorted, Elements

\* The elements of a sequence are those of its type.
LEMMA ElementsOf ==
    ASSUME NEW S, NEW q \in Seq(S)
    PROVE  Elements(q) \subseteq S /\ (q = <<>> <=> Len(q) = 0) /\ Len(q) \in Nat
<1>1. DOMAIN q = 1 .. Len(q) /\ \A i \in 1 .. Len(q) : q[i] \in S
  OBVIOUS
<1>2. QED
  BY <1>1 DEF Elements

\* The elements of two sequences one after the other.
LEMMA ElementsJoined ==
    ASSUME NEW S, NEW q \in Seq(S), NEW r \in Seq(S)
    PROVE  Elements(q \o r) = Elements(q) \cup Elements(r)
<1> DEFINE u == q \o r
<1>1. /\ Len(q) \in Nat /\ Len(r) \in Nat /\ Len(u) = Len(q) + Len(r)
      /\ DOMAIN q = 1 .. Len(q) /\ DOMAIN r = 1 .. Len(r) /\ DOMAIN u = 1 .. Len(u)
      /\ \A i \in 1 .. Len(u) : u[i] = IF i <= Len(q) THEN q[i] ELSE r[i - Len(q)]
  OBVIOUS
<1> HIDE DEF u
<1>2. \A i \in 1 .. Len(q) : i \in 1 .. Len(u) /\ u[i] = q[i]
  BY <1>1
<1>3. \A i \in 1 .. Len(r) : Len(q) + i \in 1 .. Len(u) /\ u[Len(q) + i] = r[i]
  BY <1>1
<1>4. \A i \in 1 .. Len(u) :
         i \in 1 .. Len(q) \/ (i - Len(q) \in 1 .. Len(r) /\ u[i] = r[i - Len(q)])
  BY <1>1
<1>5. \A x : /\ x \in Elements(q) <=> \E i \in 1 .. Len(q) : x = q[i]
             /\ x \in Elements(r) <=> \E i \in 1 .. Len(r) : x = r[i]
             /\ x \in Elements(u) <=> \E i \in 1 .. Len(u) : x = u[i]
  BY <1>1 DEF Elements
<1>6. ASSUME NEW x \in Elements(u) PROVE x \in Elements(q) \cup Elements(r)
  BY <1>2, <1>4, <1>5
<1>7. ASSUME NEW x \in Elements(q) \cup Elements(r) PROVE x \in Elements(u)
  BY <1>2, <1>3, <1>5
<1>8. Elements(u) = Elements(q) \cup Elements(r)
  BY <1>6, <1>7
<1>9. QED
  BY <1>8 DEF u

-----------------------------------------------------------------------------
\* The invariant does not depend on how it is called and configured.
LEMMA SameKeeps ==
    ASSUME IInv, m_num_servers' \in Nat, m_points_per_server' \in Reads,
           UNCHANGED <<servers_, spare, points_, total_servers_, total_memory_,
                       total_points_, phase, stray>>
    PROVE  IInv'
BY DEF IInv, Typed, Counted, Ring, Listed

\* load_config and reload.
LEMMA LoadConfigKeeps == ASSUME IInv, LoadConfig PROVE IInv'
<1>1. PICK f \in PropertyFiles : /\ m_num_servers' = Read(m_num_servers, f.servers)
                                 /\ m_points_per_server' = Read(m_points_per_server, f.points)
  BY DEF LoadConfig
<1>2. m_points_per_server' \in Reads
  BY <1>1, ReadsNat DEF IInv, Typed
<1>3. m_num_servers' \in Nat
  <2>1. f.servers \in Nat \cup {Missing}
    BY ContinuumAssumption
  <2>2. QED
    BY <1>1, <2>1 DEF Read, IInv, Typed
<1>4. QED
  BY <1>2, <1>3, SameKeeps DEF LoadConfig, list, totals

\* initialize_continuum.
LEMMA InitializeKeeps == ASSUME IInv, Initialize PROVE IInv'
<1>1. PICK cfg \in Configs : /\ servers_' = Accepted(cfg)
                             /\ total_servers_' = Len(Accepted(cfg))
                             /\ total_memory_' = TotalMemory(Accepted(cfg))
  BY DEF Initialize
<1>2. /\ phase = "new" /\ phase' = "loaded" /\ points_' = points_ /\ spare' = spare
      /\ total_points_' = total_points_ /\ m_points_per_server' = m_points_per_server
      /\ m_num_servers' = m_num_servers /\ stray' = stray
  BY DEF Initialize, config
<1>3. Accepted(cfg) \in Seq(Servers)
  <2>1. cfg \in Seq(Servers)
    BY ContinuumAssumption
  <2>2. \A n \in Int : n <= Len(cfg) => SubSeq(cfg, 1, n) \in Seq(Servers)
    BY <2>1
  <2>3. Len(cfg) \in Nat /\ m_num_servers \in Nat
    BY <2>1 DEF IInv, Typed
  <2> DEFINE n == IF Len(cfg) > m_num_servers THEN m_num_servers + 1 ELSE Len(cfg)
  <2>4. n \in Int /\ n <= Len(cfg)
    BY <2>3
  <2>5. Accepted(cfg) = SubSeq(cfg, 1, n)
    BY DEF Accepted
  <2> HIDE DEF n
  <2>6. QED
    BY <2>2, <2>4, <2>5
<1>4. Len(Accepted(cfg)) \in Int /\ TotalMemory(Accepted(cfg)) \in Int
  BY <1>3, TotalNat
<1>5. points_ = <<>> /\ total_points_ = 0 /\ Len(points_) = 0
  BY <1>2, EmptyRing DEF IInv, Counted
<1>6. Typed'
  BY <1>1, <1>2, <1>3, <1>4, <1>5 DEF IInv, Typed
<1>7. Counted'
  BY <1>1, <1>2, <1>5 DEF Counted
<1>8. Ring'
  BY <1>2 DEF IInv, Ring
<1>9. QED
  BY <1>6, <1>7, <1>8 DEF IInv

\* create_continuum.
LEMMA CreateKeeps == ASSUME IInv, Create PROVE IInv'
<1>1. /\ phase = "loaded" /\ phase' = "ready" /\ servers_' \in SortedServers(servers_)
      /\ points_' = SortedPoints(AllPoints) /\ total_points_' = Len(AllPoints)
      /\ UNCHANGED <<spare, total_servers_, total_memory_, m_num_servers, m_points_per_server, stray>>
  BY DEF Create, config
<1>2. /\ servers_ \in Seq(Servers) /\ m_points_per_server \in Reads
      /\ stray = 0 => total_servers_ = Len(servers_) /\ total_memory_ = TotalMemory(servers_)
  BY <1>1 DEF IInv, Typed, Counted
<1> DEFINE P == {p \in RingPoints : p.addr \in Listed /\ Hashed(p)}
<1>3. AllPoints \in Seq(P) /\ AllPoints \in Seq(RingPoints)
  <2>1. AllPoints \in Seq(P)
    BY <1>2, PointsCollected
  <2>2. \A q \in Seq(P) : q \in Seq(RingPoints)
    OBVIOUS
  <2>3. QED
    BY <2>1, <2>2
<1>4. /\ points_' \in Seq(RingPoints) /\ Len(points_') = Len(AllPoints)
      /\ Elements(points_') = Elements(AllPoints) /\ Sorted(points_')
      /\ Elements(AllPoints) \subseteq P /\ Len(AllPoints) \in Nat
  BY <1>1, <1>3, Sorting, ElementsOf
<1>5. /\ servers_' \in Seq(Servers) /\ Len(servers_') = Len(servers_)
      /\ TotalMemory(servers_') = TotalMemory(servers_) /\ Elements(servers_') = Elements(servers_)
  BY <1>1, <1>2, ServersSorted
<1>6. Listed' = Listed
  BY <1>5 DEF Listed
<1>7. Typed'
  BY <1>1, <1>4, <1>5 DEF IInv, Typed
<1>8. Counted'
  BY <1>1, <1>2, <1>4, <1>5 DEF Counted
<1>9. Ring'
  BY <1>4, <1>6 DEF Ring
<1>10. QED
  BY <1>7, <1>8, <1>9 DEF IInv

\* The ring after an add_server has the points it had, and new ones of the server.
LEMMA AddServerKeeps ==
    ASSUME IInv, NEW a \in Addrs, AddServer(a)
    PROVE  /\ IInv'
           /\ Elements(points_) \subseteq Elements(points_')
           /\ \A x \in Elements(points_') : x \in Elements(points_) \/ x.addr = a
<1>1. PICK m \in Memories :
         LET s      == [addr |-> a, mem |-> m]
             memory == Plus(total_memory_, m, MemoryValues)
             mine   == PointsOf(s, total_servers_ + 1, memory)
         IN /\ TotalMemory(servers_) + m < MemoryValues
            /\ servers_' \in SortedServers(Append(servers_, s))
            /\ total_memory_' = memory
            /\ points_' = SortedPoints(points_ \o mine)
            /\ total_points_' = total_points_ + Len(mine)
  BY DEF AddServer
<1> DEFINE s == [addr |-> a, mem |-> m]
           mine == PointsOf(s, total_servers_ + 1, Plus(total_memory_, m, MemoryValues))
           P == {p \in RingPoints : p.addr = s.addr /\ Hashed(p)}
           all == points_ \o mine
<1>2. /\ phase = "ready" /\ phase' = "ready" /\ total_servers_' = total_servers_ + 1
      /\ spare' = (IF spare = <<>> THEN <<>> ELSE Tail(spare))
      /\ UNCHANGED <<m_num_servers, m_points_per_server, stray>>
  BY DEF AddServer, config
<1>3. /\ servers_ \in Seq(Servers) /\ points_ \in Seq(RingPoints) /\ spare \in Seq(Servers)
      /\ stray = 0 => total_servers_ = Len(servers_) /\ total_memory_ = TotalMemory(servers_)
      /\ total_servers_ \in Int /\ total_memory_ \in Int
      /\ total_points_ = Len(points_) /\ m_points_per_server \in Reads
      /\ Len(servers_) \in Nat /\ TotalMemory(servers_) \in Nat
  BY <1>2, TotalNat, ElementsOf DEF IInv, Typed, Counted
<1>4. s \in Servers /\ s.mem \in Nat /\ s.mem = m
  <2>1. m \in 0 .. (MemoryValues - 1) /\ MemoryValues \in Nat
    BY ContinuumAssumption
  <2>2. QED
    BY <2>1 DEF Servers
<1>5. mine \in Seq(P) /\ mine \in Seq(RingPoints)
  <2>1. mine \in Seq(P)
    BY <1>3, <1>4, PointsMade
  <2>2. \A q \in Seq(P) : q \in Seq(RingPoints)
    OBVIOUS
  <2>3. QED
    BY <2>1, <2>2
<1> HIDE DEF mine, s
<1>6. /\ all \in Seq(RingPoints) /\ Len(all) = Len(points_) + Len(mine) /\ Len(mine) \in Nat
      /\ Elements(all) = Elements(points_) \cup Elements(mine) /\ Elements(mine) \subseteq P
  BY <1>3, <1>5, ElementsOf, ElementsJoined
<1>7. points_' = SortedPoints(all) /\ total_points_' = total_points_ + Len(mine)
  BY <1>1 DEF s, mine
<1> HIDE DEF all
<1>8. /\ points_' \in Seq(RingPoints) /\ Len(points_') = Len(all) /\ Sorted(points_')
      /\ Elements(points_') = Elements(points_) \cup Elements(mine)
  BY <1>6, <1>7, Sorting
<1> DEFINE more == Append(servers_, s)
<1>9. /\ more \in Seq(Servers) /\ Len(more) = Len(servers_) + 1
      /\ TotalMemory(more) = TotalMemory(servers_) + s.mem
      /\ Elements(more) = Elements(servers_) \cup {s}
  <2>1. more \in Seq(Servers) /\ Len(more) = Len(servers_) + 1
    BY <1>3, <1>4
  <2>2. TotalMemory(more) = TotalMemory(servers_) + s.mem
    BY <1>3, <1>4, MemoryAppended
  <2>3. /\ DOMAIN more = 1 .. (Len(servers_) + 1) /\ DOMAIN servers_ = 1 .. Len(servers_)
        /\ more[Len(servers_) + 1] = s /\ \A i \in 1 .. Len(servers_) : more[i] = servers_[i]
    BY <1>3, <1>4
  <2>4. /\ \A i \in 1 .. (Len(servers_) + 1) : i = Len(servers_) + 1 \/ i \in 1 .. Len(servers_)
        /\ \A i \in 1 .. Len(servers_) : i \in 1 .. (Len(servers_) + 1)
        /\ Len(servers_) + 1 \in 1 .. (Len(servers_) + 1)
    BY <1>3
  <2>5. Elements(more) = Elements(servers_) \cup {s}
    <3> HIDE DEF more
    <3>1. QED
      BY <2>3, <2>4 DEF Elements
  <2>6. QED
    BY <2>1, <2>2, <2>5
<1>10. /\ servers_' \in SortedServers(more) /\ total_memory_' \in Int
       /\ stray = 0 => total_memory_' = total_memory_ + s.mem
  <2>1. /\ servers_' \in SortedServers(more) /\ TotalMemory(servers_) + m < MemoryValues
        /\ total_memory_' = Plus(total_memory_, m, MemoryValues)
    BY <1>1 DEF s
  <2>2. MemoryValues \in Nat /\ m \in Nat
    BY <1>4, ContinuumAssumption
  <2>3. QED
    BY <1>3, <1>4, <2>1, <2>2 DEF Plus
<1> HIDE DEF more
<1>11. /\ servers_' \in Seq(Servers) /\ Len(servers_') = Len(servers_) + 1
       /\ TotalMemory(servers_') = TotalMemory(servers_) + s.mem
       /\ Elements(servers_') = Elements(servers_) \cup {s}
  BY <1>9, <1>10, ServersSorted
<1>12. Listed' = Listed \cup {s.addr}
  BY <1>11 DEF Listed
<1>13. Typed'
  <2>1. spare' \in Seq(Servers)
    BY <1>2, <1>3
  <2>2. total_servers_' \in Int /\ total_memory_' \in Int /\ total_points_' \in Int
    BY <1>2, <1>3, <1>6, <1>7, <1>10 DEF IInv, Typed
  <2>3. QED
    BY <1>2, <1>8, <1>11, <2>1, <2>2 DEF IInv, Typed
<1>14. Counted'
  BY <1>2, <1>3, <1>6, <1>7, <1>8, <1>10, <1>11 DEF Counted
<1>15. Ring'
  BY <1>2, <1>6, <1>8, <1>12 DEF IInv, Ring
<1>16. \A x \in Elements(mine) : x.addr = a
  BY <1>6 DEF s
<1>17. QED
  BY <1>8, <1>13, <1>14, <1>15, <1>16 DEF IInv

\* What every removal does: the points of the server are erased.
LEMMA RemovedKeeps ==
    ASSUME IInv, NEW a \in Addrs, Removed(a)
    PROVE  /\ LowerBound(a) \in 1 .. (Len(servers_) + 1) /\ Len(servers_) \in Nat
           /\ points_' \in Seq(RingPoints) /\ Sorted(points_')
           /\ Elements(points_') = {p \in Elements(points_) : p.addr # a}
           /\ total_points_' = Len(points_') /\ total_points_' \in Int
           /\ total_servers_' \in Int /\ total_memory_' \in Int
           /\ UNCHANGED <<m_num_servers, m_points_per_server>>
<1> DEFINE i == LowerBound(a)
           n == Len(servers_)
<1>1. /\ servers_ \in Seq(Servers) /\ points_ \in Seq(RingPoints) /\ spare \in Seq(Servers)
      /\ total_servers_ \in Int /\ total_memory_ \in Int
      /\ total_points_ = Len(points_) /\ Sorted(points_) /\ Len(points_) \in Nat /\ n \in Nat
  BY ElementsOf DEF Removed, IInv, Typed, Counted, Ring
<1>2. /\ points_' = PointsWithout(a) /\ IsServer(At(i), a)
      /\ total_points_' = total_points_ - (Len(points_) - Len(PointsWithout(a)))
      /\ total_servers_' = Minus(total_servers_, 1, CountValues)
      /\ total_memory_' = Minus(total_memory_, At(i).mem, MemoryValues)
      /\ UNCHANGED <<m_num_servers, m_points_per_server>>
  BY DEF Removed, Erased, config
<1>3. /\ points_' \in Seq(RingPoints) /\ Sorted(points_') /\ Len(points_') \in Nat
      /\ Elements(points_') = {p \in Elements(points_) : p.addr # a}
  BY <1>1, <1>2, PointsKept, ElementsOf
<1>4. i \in 1 .. (n + 1)
  BY <1>1, Bound
<1>5. total_points_' = Len(points_')
  BY <1>1, <1>2, <1>3
<1>6. At(i) \in Servers
  <2>1. At(i) # Garbage
    BY <1>2 DEF IsServer
  <2>2. i <= n => servers_[i] \in Servers
    BY <1>1, <1>4
  <2>3. spare # <<>> => spare[1] \in Servers
    BY <1>1
  <2>4. QED
    BY <2>1, <2>2, <2>3 DEF At
<1>7. total_servers_' \in Int /\ total_memory_' \in Int
  <2>1. At(i).mem \in Nat /\ MemoryValues \in Nat /\ CountValues \in Nat
    BY <1>6, MemoryNat, ContinuumAssumption
  <2>2. QED
    BY <1>1, <1>2, <2>1 DEF Minus
<1>8. QED
  BY <1>1, <1>2, <1>3, <1>4, <1>5, <1>7

\* Without one server the list has the others.
LEMMA ListedWithout ==
    ASSUME servers_ \in Seq(Servers), NEW i \in 1 .. Len(servers_), servers_' = Without(servers_, i)
    PROVE  \A b \in Listed : b = servers_[i].addr \/ b \in Listed'
<1> DEFINE n == Len(servers_)
<1>1. /\ servers_' \in Seq(Servers) /\ Len(servers_') = n - 1 /\ n \in Nat
  BY MemoryErased
<1> SUFFICES ASSUME NEW b \in Listed, b # servers_[i].addr PROVE b \in Listed'
  OBVIOUS
<1>2. DOMAIN servers_ = 1 .. n /\ DOMAIN servers_' = 1 .. (n - 1)
  BY <1>1
<1>3. PICK j \in 1 .. n : b = servers_[j].addr
  BY <1>2 DEF Listed, Elements
<1>4. j # i
  BY <1>3
<1> DEFINE k == IF j < i THEN j ELSE j - 1
<1>5. k \in 1 .. (n - 1) /\ (IF k < i THEN k ELSE k + 1) = j
  BY <1>1, <1>4
<1>6. servers_'[k] = servers_[j]
  <2> HIDE DEF k
  <2>1. QED
    BY <1>5 DEF Without
<1> HIDE DEF k
<1>7. servers_'[k] \in Elements(servers_')
  BY <1>2, <1>5 DEF Elements
<1>8. QED
  BY <1>3, <1>6, <1>7 DEF Listed

\* remove_server of a server in the list.
LEMMA RemoveServerKeeps == ASSUME IInv, NEW a \in Addrs, RemoveServer(a) PROVE IInv'
<1> DEFINE i == LowerBound(a)
           n == Len(servers_)
<1>1. /\ servers_ \in Seq(Servers) /\ spare \in Seq(Servers)
      /\ stray = 0 => total_servers_ = n /\ total_memory_ = TotalMemory(servers_)
      /\ TotalMemory(servers_) \in Nat /\ phase = "ready"
      /\ stray = 0 => \A p \in Elements(points_) : p.addr \in Listed
  BY TotalNat DEF RemoveServer, Removed, IInv, Typed, Counted, Ring
<1>2. /\ Removed(a) /\ i <= n /\ servers_' = Without(servers_, i)
      /\ spare' = <<servers_[n]>> \o spare /\ UNCHANGED <<phase, stray>>
  BY DEF RemoveServer
<1>3. /\ i \in 1 .. n /\ n \in 1 .. n /\ n \in Nat
      /\ points_' \in Seq(RingPoints) /\ Sorted(points_')
      /\ Elements(points_') = {p \in Elements(points_) : p.addr # a}
      /\ total_points_' = Len(points_') /\ total_points_' \in Int
      /\ total_servers_' \in Int /\ total_memory_' \in Int
      /\ UNCHANGED <<m_num_servers, m_points_per_server>>
  BY <1>2, RemovedKeeps
<1>4. /\ At(i) = servers_[i] /\ servers_[i].addr = a
      /\ total_servers_' = Minus(total_servers_, 1, CountValues)
      /\ total_memory_' = Minus(total_memory_, servers_[i].mem, MemoryValues)
  BY <1>2 DEF Removed, At, IsServer
<1> HIDE DEF i
<1>5. /\ servers_' \in Seq(Servers) /\ Len(servers_') = n - 1
      /\ TotalMemory(servers_') = TotalMemory(servers_) - servers_[i].mem
      /\ TotalMemory(servers_') \in Nat
  BY <1>1, <1>2, <1>3, MemoryErased, TotalNat
<1>6. spare' \in Seq(Servers)
  <2>1. servers_[n] \in Servers
    BY <1>1, <1>3, ServerAt
  <2>2. \A x \in Servers : <<x>> \o spare \in Seq(Servers)
    BY <1>1
  <2> HIDE DEF n
  <2>3. QED
    BY <1>2, <2>1, <2>2
<1>7. \A b \in Listed : b = a \/ b \in Listed'
  BY <1>1, <1>2, <1>3, <1>4, ListedWithout
<1>8. stray = 0 => /\ total_servers_' = Len(servers_')
                  /\ total_memory_' = TotalMemory(servers_')
  <2>1. servers_[i].mem \in Nat
    BY <1>1, <1>3, ServerAt
  <2>2. QED
    BY <1>1, <1>3, <1>4, <1>5, <2>1 DEF Minus
<1>9. Typed'
  BY <1>2, <1>3, <1>5, <1>6 DEF IInv, Typed
<1>10. Counted'
  BY <1>1, <1>2, <1>3, <1>8 DEF Counted
<1>11. Ring'
  BY <1>1, <1>2, <1>3, <1>7 DEF IInv, Ring
<1>12. QED
  BY <1>9, <1>10, <1>11 DEF IInv

\* remove_server of one that is not, which erases at end().
LEMMA RemoveAtEndKeeps == ASSUME IInv, NEW a \in Addrs, RemoveAtEnd(a) PROVE IInv'
<1> DEFINE n == Len(servers_)
<1>1. servers_ \in Seq(Servers) /\ spare \in Seq(Servers) /\ phase = "ready" /\ stray \in Nat
  BY DEF RemoveAtEnd, Removed, IInv, Typed
<1>2. /\ Removed(a) /\ stray' = stray + 1 /\ phase' \in {"ready", "crashed"}
      /\ \/ UNCHANGED <<servers_, spare>>
         \/ /\ servers_ # <<>> /\ servers_' = Without(servers_, n)
            /\ spare' = <<servers_[n]>> \o spare
  BY <1>1 DEF RemoveAtEnd
<1>3. /\ n \in Nat
      /\ points_' \in Seq(RingPoints) /\ Sorted(points_')
      /\ Elements(points_') = {p \in Elements(points_) : p.addr # a}
      /\ total_points_' = Len(points_') /\ total_points_' \in Int
      /\ total_servers_' \in Int /\ total_memory_' \in Int
      /\ UNCHANGED <<m_num_servers, m_points_per_server>>
  BY <1>2, RemovedKeeps
<1>4. stray' \in Nat /\ stray' # 0
  BY <1>1, <1>2
<1>5. servers_' \in Seq(Servers) /\ spare' \in Seq(Servers)
  <2>1. CASE UNCHANGED <<servers_, spare>>
    BY <1>1, <2>1
  <2>2. CASE /\ servers_ # <<>> /\ servers_' = Without(servers_, n)
             /\ spare' = <<servers_[n]>> \o spare
    <3>1. n \in 1 .. Len(servers_)
      BY <1>1, <2>2
    <3>2. servers_' \in Seq(Servers)
      BY <1>1, <2>2, <3>1, MemoryErased
    <3>3. servers_[n] \in Servers
      BY <1>1, <3>1, ServerAt
    <3>4. \A x \in Servers : <<x>> \o spare \in Seq(Servers)
      BY <1>1
    <3> HIDE DEF n
    <3>5. QED
      BY <2>2, <3>2, <3>3, <3>4
  <2>3. QED
    BY <1>2, <2>1, <2>2
<1>6. Typed'
  BY <1>2, <1>3, <1>4, <1>5 DEF IInv, Typed
<1>7. Counted' /\ Ring'
  BY <1>2, <1>3, <1>4 DEF IInv, Counted, Ring
<1>8. QED
  BY <1>6, <1>7 DEF IInv

(***************************************************************************)
(* The inductive invariant: the ring is sorted and has hashed points; its  *)
(* servers are listed and the totals are those of the vectors, as long as  *)
(* remove_server has not erased at end().                                  *)
(***************************************************************************)
THEOREM Invariance == Spec => []IInv
<1>1. Init => IInv
  <2> SUFFICES ASSUME Init PROVE IInv
    OBVIOUS
  <2>1. /\ servers_ = <<>> /\ spare = <<>> /\ points_ = <<>> /\ phase = "new"
        /\ m_points_per_server = 0 /\ stray = 0
    BY DEF Init
  <2>2. <<>> \in Seq(Servers) /\ 0 \in Reads
    BY DEF Reads
  <2>3. Typed
    BY <2>1, <2>2, EmptyRing DEF Init, Typed
  <2>4. QED
    BY <2>1, <2>3, EmptyRing DEF Init, IInv, Counted, Ring
<1>2. IInv /\ [Next]_vars => IInv'
  <2> SUFFICES ASSUME IInv, [Next]_vars PROVE IInv'
    OBVIOUS
  <2>1. CASE UNCHANGED vars
    BY <2>1, SameKeeps DEF vars, config, IInv, Typed
  <2>0. ASSUME NEW a \in Addrs, NullEnd(a) \/ AddOutside(a) PROVE IInv'
    BY <2>0 DEF NullEnd, AddOutside, list, totals, config, IInv, Typed, Counted, Ring, Listed
  <2>2. CASE LoadConfig
    BY <2>2, LoadConfigKeeps
  <2>3. CASE Initialize
    BY <2>3, InitializeKeeps
  <2>4. CASE Create
    BY <2>4, CreateKeeps
  <2>5. ASSUME NEW a \in Addrs, AddDuplicate(a) \/ RemoveNothing(a) PROVE IInv'
    BY <2>5, SameKeeps DEF AddDuplicate, RemoveNothing, list, totals, config, IInv, Typed
  <2>6. ASSUME NEW a \in Addrs, AddServer(a) PROVE IInv'
    BY <2>6, AddServerKeeps
  <2>7. ASSUME NEW a \in Addrs, RemoveServer(a) PROVE IInv'
    BY <2>7, RemoveServerKeeps
  <2>8. ASSUME NEW a \in Addrs, RemoveAtEnd(a) PROVE IInv'
    BY <2>8, RemoveAtEndKeeps
  <2>9. QED
    BY <2>0, <2>1, <2>2, <2>3, <2>4, <2>5, <2>6, <2>7, <2>8 DEF Next, Crashed
<1>3. QED
  BY <1>1, <1>2, PTL DEF Spec

(***************************************************************************)
(* The points are counted exactly, and the servers and their memory, from  *)
(* which later shares are computed, until remove_server erases at end().   *)
(***************************************************************************)
THEOREM TotalsExactHolds == Spec => []TotalsExact
<1>1. IInv => TotalsExact
  BY DEF IInv, Typed, Counted, TotalsExact
<1>2. QED
  BY <1>1, Invariance, PTL

(***************************************************************************)
(* Points are of listed servers, until then.                               *)
(***************************************************************************)
THEOREM ServesListedHolds == Spec => []ServesListed
<1>1. IInv => ServesListed
  BY DEF IInv, Ring, ServesListed
<1>2. QED
  BY <1>1, Invariance, PTL

(***************************************************************************)
(* Consistent hashing, for any ring: a server that is added takes keys     *)
(* only to itself, one that is removed gives only its own away.            *)
(***************************************************************************)
THEOREM MovesOnlyItsKeysHolds == Spec => MovesOnlyItsKeys
<1> DEFINE Moves ==
        phase = "ready" /\ points_ # <<>> /\ points_' # <<>> =>
            \A h \in Points :
                LET old == ServerFor(points_, h)
                    new == ServerFor(points_', h)
                IN old # new => /\ last'.op = "add" => new = last'.addr
                                /\ last'.op = "remove" => old = last'.addr
<1>1. ASSUME IInv, IInv', [Next]_vars PROVE Moves
  <2> SUFFICES ASSUME phase = "ready", points_ # <<>>, points_' # <<>>, NEW h \in Points,
                      ServerFor(points_, h) # ServerFor(points_', h)
               PROVE  /\ last'.op = "add" => ServerFor(points_', h) = last'.addr
                      /\ last'.op = "remove" => ServerFor(points_, h) = last'.addr
    OBVIOUS
  <2>1. /\ points_ \in Seq(RingPoints) /\ Sorted(points_)
        /\ \A p \in Elements(points_) : Hashed(p)
    BY <1>1 DEF IInv, Typed, Ring
  <2>2. /\ points_' \in Seq(RingPoints) /\ Sorted(points_')
        /\ \A p \in Elements(points_') : Hashed(p)
    BY <1>1 DEF IInv, Typed, Ring
  <2>3. h \in Nat
    BY ContinuumAssumption
  <2>4. PICK p : Nearest(Elements(points_), h, p) /\ ServerFor(points_, h) = p.addr
    BY <2>1, <2>3, Served
  <2>5. PICK q : Nearest(Elements(points_'), h, q) /\ ServerFor(points_', h) = q.addr
    BY <2>2, <2>3, Served
  <2>6. /\ \A x \in Elements(points_) : x \in RingPoints /\ Hashed(x)
        /\ \A x \in Elements(points_') : x \in RingPoints /\ Hashed(x)
    BY <2>1, <2>2, ElementsOf
  <2>7. points_' # points_
    OBVIOUS
  <2>8. PICK a \in Addrs : AddServer(a) \/ Removed(a)
    BY <1>1, <2>7 DEF Next, vars, LoadConfig, Initialize, Create, Crashed,
       AddDuplicate, RemoveNothing, NullEnd, AddOutside, RemoveServer, RemoveAtEnd
  <2>9. CASE AddServer(a)
    <3>1. last'.op = "add" /\ last'.addr = a
      BY <2>9 DEF AddServer, Done
    <3>2. /\ Elements(points_) \subseteq Elements(points_')
          /\ \A x \in Elements(points_') : x \in Elements(points_) \/ x.addr = a
      BY <1>1, <2>9, AddServerKeeps
    <3> DEFINE E == Elements(points_)
               F == Elements(points_')
    <3>3. /\ \A x \in F : x \in RingPoints /\ Hashed(x)
          /\ E \subseteq F /\ \A x \in F : x \in E \/ x.addr = a
          /\ Nearest(E, h, p) /\ Nearest(F, h, q) /\ p.addr # q.addr
      BY <2>4, <2>5, <2>6, <3>2
    <3> HIDE DEF E, F
    <3>4. q.addr = a
      BY <2>3, <3>3, OnlyKeysOf
    <3>5. QED
      BY <2>5, <3>1, <3>4
  <2>10. CASE Removed(a)
    <3>1. last'.op = "remove" /\ last'.addr = a
      BY <2>10 DEF Removed, Done
    <3>2. Elements(points_') = {x \in Elements(points_) : x.addr # a}
      BY <2>1, <2>10, PointsKept DEF Removed
    <3> DEFINE E == Elements(points_')
               F == Elements(points_)
    <3>3. /\ \A x \in F : x \in RingPoints /\ Hashed(x)
          /\ E \subseteq F /\ \A x \in F : x \in E \/ x.addr = a
          /\ Nearest(E, h, q) /\ Nearest(F, h, p) /\ q.addr # p.addr
      BY <2>4, <2>5, <2>6, <3>2
    <3> HIDE DEF E, F
    <3>4. p.addr = a
      BY <2>3, <3>3, OnlyKeysOf
    <3>5. QED
      BY <2>4, <3>1, <3>4
  <2>11. QED
    BY <2>8, <2>9, <2>10
<1>2. MovesOnlyItsKeys <=> [][Moves]_vars
  BY DEF MovesOnlyItsKeys
<1> HIDE DEF Moves
<1>3. IInv /\ IInv' /\ [Next]_vars => [Moves]_vars
  BY <1>1
<1>4. QED
  BY Invariance, <1>2, <1>3, PTL DEF Spec
=============================================================================
