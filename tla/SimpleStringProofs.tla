------------------------- MODULE SimpleStringProofs -------------------------
(***************************************************************************)
(* Proofs about SimpleString for any number of strings, any texts and any  *)
(* sizes of the small buffer, as far as StringAssumption goes:             *)
(*   - what the operators on bytes do to a buffer that holds a text and    *)
(*     then zeros (Holds): copying to its end, over it, cutting its front; *)
(*   - when the fields of an object make a string (SmallIs, HeapIs) and    *)
(*     what follows if they do (SmallSays, HeapSays, HeapSound);           *)
(*   - method by method, what an object is afterwards (the ...Typed        *)
(*     lemmas) and what it promises;                                       *)
(*   - IInv, the inductive invariant, and from it both properties.         *)
(***************************************************************************)
EXTENDS SimpleString, WellFoundedInduction, TLAPS

\* The bytes of a buffer, which may be '\0'.
Char == Chars \cup {Nul}

\* mem begins with t, and from there to byte cap all is zero.
Holds(mem, t, cap) ==
    /\ mem \in Seq(Char) /\ t \in Seq(Chars) /\ cap \in Nat
    /\ Len(t) <= cap /\ cap < Len(mem)
    /\ \A i \in 1 .. Len(t) : mem[i] = t[i]
    /\ \A i \in (Len(t) + 1) .. (cap + 1) : mem[i] = Nul
-----------------------------------------------------------------------------
(***************************************************************************)
(* The operators on numbers and bytes.                                     *)
(***************************************************************************)

\* A set of naturals has a least member.
LEMMA LeastOf ==
    ASSUME NEW S, S \subseteq Nat, S # {}
    PROVE  Least(S) \in S /\ \A k \in S : Least(S) <= k
<1>1. PICK k \in S : \A l \in S : <<l, k>> \notin OpToRel(<, Nat)
  BY WFMin, NatLessThanWellFounded, Zenon
<1>2. \A l \in S : ~(l < k)
  BY <1>1, Zenon DEF OpToRel
<1>3. \A l \in S : k <= l
  BY <1>2
<1>4. QED
  BY <1>3, Zenon DEF Least

\* And a bounded one a greatest.
LEMMA GreatestOf ==
    ASSUME NEW n \in Nat, NEW S, S \subseteq 0 .. n, S # {}
    PROVE  Greatest(S) \in S /\ \A k \in S : k <= Greatest(S)
<1> DEFINE Down == {n - k : k \in S}
<1>1. Down \subseteq Nat /\ Down # {}
  <2>1. \A k \in S : k \in Nat /\ n - k \in Nat
    OBVIOUS
  <2>2. QED
    BY <2>1
<1>2. Least(Down) \in Down /\ \A k \in Down : Least(Down) <= k
  <2> HIDE DEF Down
  <2>1. QED
    BY <1>1, LeastOf
<1>3. PICK m \in S : Least(Down) = n - m
  BY <1>2
<1>4. \A k \in S : k <= m
  <2> TAKE k \in S
  <2>1. n - m <= n - k
    BY <1>2, <1>3
  <2>2. QED
    BY <2>1
<1>5. QED
  BY <1>4, Zenon DEF Greatest

\* A number that 32 bits hold keeps its value, and any becomes one.
LEMMA UintIs ==
    /\ \A n \in 0 .. (UintValues - 1) : Uint(n) = n
    /\ \A n \in Int : Uint(n) \in Nat
  BY StringAssumption DEF Uint

\* What strlen and the like make of a buffer that holds a text.
LEMMA Text ==
    ASSUME NEW mem, NEW t, NEW cap, Holds(mem, t, cap)
    PROVE  /\ Terminated(mem) /\ strlen(mem) = Len(t) /\ CString(mem) = t
           /\ Holds(mem, t, Len(t)) /\ SubSeq(mem, 1, Len(t)) = t
<1> DEFINE Ends == {i \in DOMAIN mem : mem[i] = Nul}
<1> USE DEF Holds
<1>1. Len(t) \in Nat /\ Len(mem) \in Nat /\ DOMAIN mem = 1 .. Len(mem)
  OBVIOUS
<1>2. Len(t) + 1 \in Ends
  BY <1>1
<1>3. \A i \in Ends : Len(t) + 1 <= i
  <2> SUFFICES ASSUME NEW i \in Ends, i <= Len(t) PROVE FALSE
    BY <1>1
  <2>1. t[i] \in Chars /\ mem[i] = t[i] /\ mem[i] = Nul
    BY <1>1
  <2>2. QED
    BY <2>1, StringAssumption
<1>4. Ends \subseteq Nat
  BY <1>1
<1>5. Least(Ends) = Len(t) + 1
  <2>1. Least(Ends) \in Ends /\ \A k \in Ends : Least(Ends) <= k
    <3> HIDE DEF Ends
    <3>1. QED
      BY <1>2, <1>4, LeastOf
  <2>2. QED
    <3> HIDE DEF Ends
    <3>1. Least(Ends) <= Len(t) + 1 /\ Len(t) + 1 <= Least(Ends) /\ Least(Ends) \in Nat
      BY <1>2, <1>3, <1>4, <2>1, Zenon
    <3>2. QED
      BY <1>1, <3>1
<1>6. strlen(mem) = Len(t)
  BY <1>1, <1>5 DEF strlen
<1>7. SubSeq(mem, 1, Len(t)) = t
  <2>1. /\ SubSeq(mem, 1, Len(t)) \in Seq(Char) /\ Len(SubSeq(mem, 1, Len(t))) = Len(t)
        /\ \A i \in 1 .. Len(t) : SubSeq(mem, 1, Len(t))[i] = mem[i]
    BY <1>1
  <2>2. QED
    BY <2>1
<1>8. QED
  BY <1>1, <1>2, <1>6, <1>7 DEF Terminated, CString

\* A buffer with a '\0' in it holds a text.
LEMMA HasText ==
    ASSUME NEW mem \in Seq(Char), Terminated(mem)
    PROVE  /\ Holds(mem, CString(mem), strlen(mem))
           /\ Len(CString(mem)) = strlen(mem) /\ strlen(mem) \in Nat
<1> DEFINE Ends == {i \in DOMAIN mem : mem[i] = Nul}
           k == strlen(mem)
<1>1. Len(mem) \in Nat /\ DOMAIN mem = 1 .. Len(mem)
  OBVIOUS
<1>2. Ends \subseteq Nat /\ Ends # {}
  BY <1>1 DEF Terminated
<1>3. Least(Ends) \in Ends /\ \A i \in Ends : Least(Ends) <= i
  <2> HIDE DEF Ends
  <2>1. QED
    BY <1>2, LeastOf
<1>4. k \in Nat /\ k < Len(mem) /\ mem[k + 1] = Nul /\ \A i \in 1 .. k : mem[i] # Nul
  <2>1. k + 1 \in Ends /\ k + 1 \in Nat /\ \A i \in Ends : k + 1 <= i
    <3>1. k = Least(Ends) - 1
      BY DEF strlen
    <3>2. Least(Ends) \in Nat
      BY <1>2, <1>3, Zenon
    <3>3. k + 1 = Least(Ends)
      <4> HIDE DEF Ends, k
      <4>1. QED
        BY <3>1, <3>2
    <3>4. QED
      BY <1>3, <3>2, <3>3, Zenon
  <2>2. k + 1 \in 1 .. Len(mem) /\ mem[k + 1] = Nul
    BY <1>1, <2>1
  <2>3. \A i \in 1 .. Len(mem) : mem[i] = Nul => k + 1 <= i
    BY <1>1, <2>1
  <2>4. k \in Int
    BY <1>2, <1>3 DEF strlen
  <2> HIDE DEF k, Ends
  <2>5. k \in Nat /\ k < Len(mem)
    BY <1>1, <2>2, <2>4
  <2>6. QED
    BY <1>1, <2>2, <2>3, <2>5
<1>5. \A i \in 1 .. k : mem[i] \in Chars
  BY <1>1, <1>4 DEF Char
<1>6. /\ CString(mem) = SubSeq(mem, 1, k) /\ Len(CString(mem)) = k
      /\ \A i \in 1 .. k : CString(mem)[i] = mem[i]
  <2> HIDE DEF k
  <2>1. QED
    BY <1>1, <1>4 DEF CString, k
<1>7. CString(mem) \in Seq(Chars)
  <2> HIDE DEF k
  <2>1. CString(mem) = [i \in 1 .. k |-> mem[i]]
    BY <1>4, <1>6
  <2>2. QED
    BY <1>4, <1>5, <2>1
<1>8. QED
  <2> HIDE DEF k
  <2>1. QED
    BY <1>4, <1>6, <1>7 DEF Holds, k

\* Zeros are the empty text.
LEMMA ZerosHold ==
    ASSUME NEW n \in Nat
    PROVE  /\ Zeros(n) \in Seq(Char) /\ Len(Zeros(n)) = n
           /\ n > 0 => Holds(Zeros(n), <<>>, n - 1)
<1>1. Zeros(n) \in Seq(Char) /\ Len(Zeros(n)) = n /\ \A i \in 1 .. n : Zeros(n)[i] = Nul
  BY DEF Zeros, Char
<1>2. <<>> \in Seq(Chars) /\ Len(<<>>) = 0
  OBVIOUS
<1>3. QED
  BY <1>1, <1>2 DEF Holds

\* sstring_copy changes no length.
LEMMA CopyLength ==
    ASSUME NEW mem \in Seq(Char), NEW at \in Int, NEW s \in Seq(Char)
    PROVE  /\ Copy(mem, at, s) \in Seq(Char) /\ Len(Copy(mem, at, s)) = Len(mem)
           /\ \A i \in 1 .. Len(mem) : Copy(mem, at, s)[i] =
                                           IF i - at \in 1 .. Len(s) THEN s[i - at] ELSE mem[i]
<1>1. DOMAIN s = 1 .. Len(s) /\ DOMAIN mem = 1 .. Len(mem) /\ Len(mem) \in Nat /\ Len(s) \in Nat
  OBVIOUS
<1> DEFINE new(i) == IF i - at \in 1 .. Len(s) THEN s[i - at] ELSE mem[i]
<1>2. Copy(mem, at, s) = [i \in 1 .. Len(mem) |-> new(i)]
  BY <1>1 DEF Copy
<1>3. \A i \in 1 .. Len(mem) : new(i) \in Char
  <2> TAKE i \in 1 .. Len(mem)
  <2>1. CASE i - at \in 1 .. Len(s)
    BY <1>1, <2>1
  <2>2. CASE i - at \notin 1 .. Len(s)
    BY <1>1, <2>2
  <2>3. QED
    BY <2>1, <2>2
<1> HIDE DEF new
<1>4. QED
  <2>1. /\ Copy(mem, at, s) \in Seq(Char) /\ Len(Copy(mem, at, s)) = Len(mem)
        /\ \A i \in 1 .. Len(mem) : Copy(mem, at, s)[i] = new(i)
    BY <1>1, <1>2, <1>3
  <2>2. QED
    BY <2>1 DEF new

\* Two texts one after the other.
LEMMA Joined ==
    ASSUME NEW t \in Seq(Chars), NEW u \in Seq(Chars)
    PROVE  /\ t \o u \in Seq(Chars) /\ Len(t \o u) = Len(t) + Len(u)
           /\ \A i \in 1 .. Len(t) : (t \o u)[i] = t[i]
           /\ \A i \in (Len(t) + 1) .. (Len(t) + Len(u)) : (t \o u)[i] = u[i - Len(t)]
  OBVIOUS

\* A text copied to the end of another, into free space.
LEMMA Copied ==
    ASSUME NEW mem, NEW t, NEW cap, Holds(mem, t, cap),
           NEW u \in Seq(Chars), Len(t) + Len(u) <= cap
    PROVE  Holds(Copy(mem, Len(t), u), t \o u, cap) /\ Len(Copy(mem, Len(t), u)) = Len(mem)
<1> DEFINE new == Copy(mem, Len(t), u)
<1>1. /\ mem \in Seq(Char) /\ t \in Seq(Chars) /\ u \in Seq(Char) /\ cap \in Nat
      /\ Len(t) \in Nat /\ Len(u) \in Nat /\ Len(mem) \in Nat /\ cap < Len(mem)
  <2>1. Seq(Chars) \subseteq Seq(Char)
    BY DEF Char
  <2>2. QED
    BY <2>1 DEF Holds
<1>2. /\ new \in Seq(Char) /\ Len(new) = Len(mem)
      /\ \A i \in 1 .. Len(mem) : new[i] = IF i - Len(t) \in 1 .. Len(u) THEN u[i - Len(t)] ELSE mem[i]
  BY <1>1, CopyLength
<1> HIDE DEF new
<1>3. \A i \in 1 .. Len(t) : new[i] = t[i]
  <2> TAKE i \in 1 .. Len(t)
  <2>1. i - Len(t) \notin 1 .. Len(u) /\ i \in 1 .. Len(mem) /\ mem[i] = t[i]
    BY <1>1 DEF Holds
  <2>2. QED
    BY <1>2, <2>1
<1>4. \A i \in (Len(t) + 1) .. (Len(t) + Len(u)) : new[i] = u[i - Len(t)]
  BY <1>1, <1>2
<1>5. \A i \in (Len(t) + Len(u) + 1) .. (cap + 1) : new[i] = Nul
  <2> TAKE i \in (Len(t) + Len(u) + 1) .. (cap + 1)
  <2>1. i - Len(t) \notin 1 .. Len(u) /\ i \in 1 .. Len(mem) /\ mem[i] = Nul
    BY <1>1 DEF Holds
  <2>2. QED
    BY <1>2, <2>1
<1>6. /\ t \o u \in Seq(Chars) /\ Len(t \o u) = Len(t) + Len(u)
      /\ \A i \in 1 .. Len(t) : (t \o u)[i] = t[i]
      /\ \A i \in (Len(t) + 1) .. (Len(t) + Len(u)) : (t \o u)[i] = u[i - Len(t)]
  BY <1>1, Joined
<1>7. \A i \in 1 .. Len(t \o u) : new[i] = (t \o u)[i]
  <2> TAKE i \in 1 .. Len(t \o u)
  <2>1. i \in 1 .. Len(t) \/ i \in (Len(t) + 1) .. (Len(t) + Len(u))
    BY <1>1, <1>6
  <2>2. QED
    BY <1>3, <1>4, <1>6, <2>1
<1>8. QED
  BY <1>1, <1>2, <1>5, <1>6, <1>7 DEF Holds, new

\* A text copied over another leaves a text, though not always the one copied.
LEMMA CopiedOver ==
    ASSUME NEW mem, NEW t, NEW cap, Holds(mem, t, cap),
           NEW u \in Seq(Chars), Len(u) <= cap
    PROVE  \E v : Holds(Copy(mem, 0, u), v, cap) /\ Len(Copy(mem, 0, u)) = Len(mem)
<1> DEFINE new == Copy(mem, 0, u)
           n == IF Len(u) >= Len(t) THEN Len(u) ELSE Len(t)
           v == [i \in 1 .. n |-> new[i]]
<1>1. /\ mem \in Seq(Char) /\ t \in Seq(Chars) /\ u \in Seq(Char) /\ cap \in Nat
      /\ Len(t) \in Nat /\ Len(u) \in Nat /\ Len(mem) \in Nat /\ cap < Len(mem) /\ Len(t) <= cap
  <2>1. Seq(Chars) \subseteq Seq(Char)
    BY DEF Char
  <2>2. QED
    BY <2>1 DEF Holds
<1>2. /\ new \in Seq(Char) /\ Len(new) = Len(mem)
      /\ \A i \in 1 .. Len(mem) : new[i] = IF i \in 1 .. Len(u) THEN u[i] ELSE mem[i]
  <2>1. \A i \in 1 .. Len(mem) : i - 0 = i
    BY <1>1
  <2>2. QED
    BY <1>1, <2>1, CopyLength
<1> HIDE DEF new
<1>3. n \in Nat /\ n <= cap /\ Len(u) <= n /\ Len(t) <= n
  BY <1>1
<1>4. \A i \in 1 .. n : new[i] \in Chars
  <2> TAKE i \in 1 .. n
  <2>1. CASE i \in 1 .. Len(u)
    BY <1>1, <1>2, <1>3, <2>1
  <2>2. CASE i \notin 1 .. Len(u)
    <3>1. i \in 1 .. Len(t) /\ i \in 1 .. Len(mem)
      BY <1>1, <2>2
    <3>2. new[i] = mem[i] /\ mem[i] = t[i] /\ t[i] \in Chars
      BY <1>1, <1>2, <2>2, <3>1 DEF Holds
    <3>3. QED
      BY <3>2
  <2>3. QED
    BY <2>1, <2>2
<1>5. \A i \in (n + 1) .. (cap + 1) : new[i] = Nul
  <2> TAKE i \in (n + 1) .. (cap + 1)
  <2>1. i \notin 1 .. Len(u) /\ i \in 1 .. Len(mem) /\ i \in (Len(t) + 1) .. (cap + 1)
    BY <1>1, <1>3
  <2>2. QED
    BY <1>2, <2>1 DEF Holds
<1> HIDE DEF n
<1>6. v \in Seq(Chars) /\ Len(v) = n /\ \A i \in 1 .. n : v[i] = new[i]
  BY <1>3, <1>4
<1> HIDE DEF v
<1>7. Holds(new, v, cap)
  BY <1>1, <1>2, <1>3, <1>5, <1>6 DEF Holds
<1>8. QED
  BY <1>2, <1>7 DEF new

\* Copied over zeros it is that text.
LEMMA CopiedFirst ==
    ASSUME NEW n \in Nat, NEW u \in Seq(Chars), Len(u) <= n
    PROVE  Holds(Copy(Zeros(n + 1), 0, u), u, n) /\ Len(Copy(Zeros(n + 1), 0, u)) = n + 1
<1>1. Holds(Zeros(n + 1), <<>>, n) /\ Len(Zeros(n + 1)) = n + 1
  <2>1. n + 1 \in Nat /\ n + 1 > 0 /\ n + 1 - 1 = n
    OBVIOUS
  <2>2. QED
    BY <2>1, ZerosHold
<1>2. Len(<<>>) = 0 /\ <<>> \o u = u /\ 0 + Len(u) <= n
  OBVIOUS
<1>3. /\ Holds(Copy(Zeros(n + 1), Len(<<>>), u), <<>> \o u, n)
      /\ Len(Copy(Zeros(n + 1), Len(<<>>), u)) = Len(Zeros(n + 1))
  BY <1>1, <1>2, Copied
<1>4. QED
  BY <1>1, <1>2, <1>3

\* A new block holds its text.
LEMMA BlockHolds ==
    ASSUME NEW size \in Nat, NEW text \in Seq(Chars), Len(text) <= size
    PROVE  /\ Holds(Block(size, text).mem, text, size)
           /\ Len(Block(size, text).mem) = size + 1
           /\ Block(size, text).len = Len(text) /\ Block(size, text).free = size - Len(text)
           /\ Block(size, text) \in Blocks
<1> DEFINE n == size + 1 - Len(text)
           mem == text \o Zeros(n)
<1>1. Len(text) \in Nat /\ n \in Nat /\ Seq(Chars) \subseteq Seq(Char)
  BY DEF Char
<1>2. Zeros(n) \in Seq(Char) /\ Len(Zeros(n)) = n /\ \A i \in 1 .. n : Zeros(n)[i] = Nul
  <2> HIDE DEF n
  <2>1. QED
    BY <1>1, ZerosHold DEF Zeros
<1>3. /\ mem \in Seq(Char) /\ Len(mem) = Len(text) + n
      /\ \A i \in 1 .. Len(text) : mem[i] = text[i]
      /\ \A i \in (Len(text) + 1) .. (Len(text) + n) : mem[i] = Nul
  <2> DEFINE z == Zeros(n)
  <2> HIDE DEF n, z
  <2>1. z \in Seq(Char) /\ Len(z) = n /\ text \in Seq(Char) /\ \A i \in 1 .. n : z[i] = Nul
    BY <1>1, <1>2 DEF z
  <2>2. /\ text \o z \in Seq(Char) /\ Len(text \o z) = Len(text) + n
        /\ \A i \in 1 .. Len(text) : (text \o z)[i] = text[i]
        /\ \A i \in (Len(text) + 1) .. (Len(text) + n) : (text \o z)[i] = z[i - Len(text)]
    BY <1>1, <2>1
  <2>3. \A i \in (Len(text) + 1) .. (Len(text) + n) : i - Len(text) \in 1 .. n
    BY <1>1
  <2>4. QED
    BY <2>1, <2>2, <2>3 DEF z
<1>4. Block(size, text) = [mem |-> mem, len |-> Len(text), free |-> size - Len(text)]
  BY DEF Block
<1> HIDE DEF mem
<1>5. Len(mem) = size + 1 /\ Holds(mem, text, size)
  BY <1>1, <1>3 DEF Holds
<1>6. Len(text) \in Nat /\ size - Len(text) \in Nat
  BY <1>1
<1>7. QED
  BY <1>3, <1>4, <1>5, <1>6 DEF Blocks, Char

\* The text behind its first bytes.
LEMMA FromHolds ==
    ASSUME NEW mem, NEW t, NEW cap, Holds(mem, t, cap), NEW k \in 0 .. Len(t)
    PROVE  Holds(From(mem, k), From(t, k), cap - k) /\ Len(From(t, k)) = Len(t) - k
<1>1. /\ mem \in Seq(Char) /\ t \in Seq(Chars) /\ cap \in Nat /\ k \in Nat
      /\ Len(t) \in Nat /\ Len(mem) \in Nat /\ cap < Len(mem) /\ Len(t) <= cap /\ k <= Len(t)
  BY DEF Holds
<1>2. /\ From(mem, k) \in Seq(Char) /\ Len(From(mem, k)) = Len(mem) - k
      /\ \A i \in 1 .. (Len(mem) - k) : From(mem, k)[i] = mem[i + k]
  BY <1>1 DEF From
<1>3. /\ From(t, k) \in Seq(Chars) /\ Len(From(t, k)) = Len(t) - k
      /\ \A i \in 1 .. (Len(t) - k) : From(t, k)[i] = t[i + k]
  BY <1>1 DEF From
<1>4. \A i \in 1 .. (Len(t) - k) : From(mem, k)[i] = From(t, k)[i]
  <2> TAKE i \in 1 .. (Len(t) - k)
  <2>1. i + k \in 1 .. Len(t) /\ i \in 1 .. (Len(mem) - k)
    BY <1>1
  <2>2. QED
    BY <1>2, <1>3, <2>1 DEF Holds
<1>5. \A i \in (Len(t) - k + 1) .. (cap - k + 1) : From(mem, k)[i] = Nul
  <2> TAKE i \in (Len(t) - k + 1) .. (cap - k + 1)
  <2>1. i + k \in (Len(t) + 1) .. (cap + 1) /\ i \in 1 .. (Len(mem) - k)
    BY <1>1
  <2>2. QED
    BY <1>2, <2>1 DEF Holds
<1>6. cap - k \in Nat /\ Len(t) - k <= cap - k /\ cap - k < Len(mem) - k
  BY <1>1
<1>7. QED
  BY <1>2, <1>3, <1>4, <1>5, <1>6 DEF Holds
-----------------------------------------------------------------------------
(***************************************************************************)
(* Strings.  The small buffer always holds a text and then zeros, whatever *)
(* m_sso says, though the text may be an old one.                          *)
(***************************************************************************)
Plain(buf) == Len(buf) = SSO_SIZE + 1 /\ \E t : Holds(buf, t, SSO_SIZE)

Formed == {s \in Strings : Plain(s.sso_buf)}

\* A string in its small buffer.
LEMMA SmallIs ==
    ASSUME NEW s \in Strings, s.m_sso, Len(s.sso_buf) = SSO_SIZE + 1,
           NEW t, Holds(s.sso_buf, t, SSO_SIZE)
    PROVE  IsString(s, t) /\ s \in Formed
<1>1. Terminated(s.sso_buf) /\ strlen(s.sso_buf) = Len(t) /\ CString(s.sso_buf) = t
  BY Text
<1>2. s # Undefined /\ SSO_SIZE \in Nat /\ Len(t) \in Nat
  BY StringAssumption DEF Holds
<1>3. length(s) = Len(t) /\ capacity(s) = SSO_SIZE /\ TextOf(s) = t
  BY <1>1, <1>2 DEF length, capacity, free_space, TextOf
<1>4. Readable(s)
  BY <1>2 DEF Readable
<1>5. \A i \in (Len(t) + 1) .. (SSO_SIZE + 1) : s.sso_buf[i] = Nul
  BY DEF Holds
<1>6. QED
  BY <1>2, <1>3, <1>4, <1>5 DEF IsString, Sane, Formed, Plain

\* It is a sound one.
LEMMA SmallSays ==
    ASSUME NEW s \in Formed, s.m_sso
    PROVE  /\ IsString(s, TextOf(s)) /\ Holds(s.sso_buf, TextOf(s), SSO_SIZE)
           /\ CString(s.sso_buf) = TextOf(s) /\ length(s) = Len(TextOf(s))
           /\ free_space(s) = SSO_SIZE - Len(TextOf(s))
           /\ s \in Strings /\ Len(s.sso_buf) = SSO_SIZE + 1
<1>1. s \in Strings /\ Len(s.sso_buf) = SSO_SIZE + 1 /\ \E t : Holds(s.sso_buf, t, SSO_SIZE)
  BY DEF Formed, Plain
<1>2. PICK t : Holds(s.sso_buf, t, SSO_SIZE)
  BY <1>1
<1>3. IsString(s, t)
  BY <1>1, <1>2, SmallIs
<1>4. strlen(s.sso_buf) = Len(t) /\ CString(s.sso_buf) = t
  BY <1>2, Text
<1>5. TextOf(s) = t
  BY <1>3 DEF IsString
<1>6. QED
  BY <1>1, <1>2, <1>3, <1>4, <1>5 DEF length, free_space

\* A string on the heap whose counters say what is in the block.
LEMMA HeapIs ==
    ASSUME NEW s \in Strings, ~s.m_sso, s.srep \in Blocks,
           NEW t, Holds(s.srep.mem, t, s.srep.len + s.srep.free), s.srep.len = Len(t)
    PROVE  IsString(s, t)
<1>1. Terminated(s.srep.mem) /\ strlen(s.srep.mem) = Len(t) /\ CString(s.srep.mem) = t
  BY Text
<1>2. s # Undefined /\ s.srep # None /\ s.srep.len \in Nat /\ s.srep.free \in Nat
  BY StringAssumption DEF Blocks
<1>3. length(s) = Len(t) /\ capacity(s) = s.srep.len + s.srep.free /\ TextOf(s) = t
  BY <1>1 DEF length, capacity, free_space, TextOf
<1>4. Len(s.srep.mem) \in Nat /\ s.srep.len + s.srep.free < Len(s.srep.mem)
  BY <1>2 DEF Holds
<1>5. Readable(s)
  BY <1>1, <1>2, <1>4 DEF Readable, Inside
<1>6. \A i \in (Len(t) + 1) .. (s.srep.len + s.srep.free + 1) : s.srep.mem[i] = Nul
  BY DEF Holds
<1>7. QED
  BY <1>2, <1>3, <1>4, <1>5, <1>6 DEF IsString, Sane

\* The same of one whose free space is not counted right.
LEMMA HeapReads ==
    ASSUME NEW s \in Strings, ~s.m_sso, s.srep \in Blocks,
           NEW t, Holds(s.srep.mem, t, Len(t)), s.srep.len = Len(t)
    PROVE  Readable(s) /\ TextOf(s) = t
<1>1. Terminated(s.srep.mem) /\ strlen(s.srep.mem) = Len(t) /\ CString(s.srep.mem) = t
  BY Text
<1>2. s # Undefined /\ s.srep # None /\ s.srep.len \in Nat
  BY StringAssumption DEF Blocks
<1>3. Len(s.srep.mem) \in Nat /\ s.srep.len + 1 <= Len(s.srep.mem)
  BY <1>2 DEF Holds
<1>4. QED
  BY <1>1, <1>2, <1>3 DEF Readable, Inside, TextOf

\* What one knows of a string on the heap that makes sense.
LEMMA HeapSays ==
    ASSUME NEW s \in Strings, ~s.m_sso, Readable(s)
    PROVE  /\ s.srep \in Blocks /\ s.srep # None
           /\ Holds(s.srep.mem, TextOf(s), s.srep.len) /\ s.srep.len = Len(TextOf(s))
           /\ Bytes(s.srep) = TextOf(s) /\ length(s) = Len(TextOf(s)) /\ free_space(s) = s.srep.free
           /\ s.srep.len + 1 <= Len(s.srep.mem) /\ Len(s.srep.mem) \in Nat
           /\ s.srep.len \in Nat /\ s.srep.free \in Nat
<1>1. s.srep # None /\ s.srep.len + 1 <= Len(s.srep.mem)
  BY DEF Readable, Inside
<1>2. Terminated(s.srep.mem) /\ strlen(s.srep.mem) = s.srep.len
  BY DEF Readable
<1>3. s.srep \in Blocks /\ s.srep.mem \in Seq(Char) /\ s.srep.len \in Nat /\ s.srep.free \in Nat
  BY <1>1 DEF Strings, Blocks, Char
<1>4. TextOf(s) = CString(s.srep.mem)
  BY DEF TextOf
<1>5. /\ Holds(s.srep.mem, TextOf(s), s.srep.len) /\ Len(TextOf(s)) = s.srep.len
  BY <1>2, <1>3, <1>4, HasText
<1>6. Bytes(s.srep) = TextOf(s)
  BY <1>2, <1>4 DEF Bytes, CString
<1>7. Len(s.srep.mem) \in Nat
  BY <1>3
<1>8. QED
  BY <1>1, <1>3, <1>5, <1>6, <1>7 DEF length, free_space

\* And of one whose free space is there too.
LEMMA HeapSound ==
    ASSUME NEW s \in Strings, ~s.m_sso, Sane(s)
    PROVE  /\ Holds(s.srep.mem, TextOf(s), s.srep.len + s.srep.free)
           /\ capacity(s) = s.srep.len + s.srep.free
           /\ s.srep.len + s.srep.free < Len(s.srep.mem)
<1>1. Readable(s)
  BY DEF Sane
<1>2. /\ s.srep \in Blocks /\ Holds(s.srep.mem, TextOf(s), s.srep.len) /\ s.srep.len = Len(TextOf(s))
      /\ length(s) = Len(TextOf(s)) /\ free_space(s) = s.srep.free
      /\ s.srep.len \in Nat /\ s.srep.free \in Nat /\ Len(s.srep.mem) \in Nat
  BY <1>1, HeapSays
<1>3. capacity(s) = s.srep.len + s.srep.free
  BY <1>2 DEF capacity
<1>4. /\ s.srep.len + s.srep.free < Len(s.srep.mem)
      /\ \A i \in (s.srep.len + 1) .. (s.srep.len + s.srep.free + 1) : s.srep.mem[i] = Nul
  BY <1>2, <1>3 DEF Sane
<1>5. QED
  BY <1>2, <1>3, <1>4 DEF Holds

\* Text appended to a small string that has room for it.
LEMMA PutSmall ==
    ASSUME NEW s \in Strings, s.m_sso, Len(s.sso_buf) = SSO_SIZE + 1,
           NEW t, Holds(s.sso_buf, t, SSO_SIZE),
           NEW u \in Seq(Chars), Len(t) + Len(u) <= SSO_SIZE
    PROVE  IsString(Put(s, Len(t), u), t \o u) /\ Put(s, Len(t), u) \in Formed
<1> DEFINE buf == Copy(s.sso_buf, Len(t), u)
           new == [s EXCEPT !.sso_buf = buf]
<1>1. Holds(buf, t \o u, SSO_SIZE) /\ Len(buf) = SSO_SIZE + 1
  BY Copied
<1>2. buf \in Seq(Char)
  BY <1>1 DEF Holds
<1> HIDE DEF buf
<1>3. new \in Strings /\ new.m_sso /\ new.sso_buf = buf
  BY <1>2 DEF Strings, Char
<1>4. Put(s, Len(t), u) = new
  BY DEF Put, buf
<1> HIDE DEF new
<1>5. QED
  BY <1>1, <1>3, <1>4, SmallIs

\* Text written over what is in the small buffer.
LEMMA PutOver ==
    ASSUME NEW s \in Formed, s.m_sso, NEW u \in Seq(Chars), Len(u) <= SSO_SIZE
    PROVE  Put(s, 0, u) \in Formed
<1> DEFINE buf == Copy(s.sso_buf, 0, u)
           new == [s EXCEPT !.sso_buf = buf]
<1>1. s \in Strings /\ Len(s.sso_buf) = SSO_SIZE + 1 /\ \E t : Holds(s.sso_buf, t, SSO_SIZE)
  BY DEF Formed, Plain
<1>2. PICK t : Holds(s.sso_buf, t, SSO_SIZE)
  BY <1>1
<1>3. \E v : Holds(buf, v, SSO_SIZE) /\ Len(buf) = Len(s.sso_buf)
  BY <1>2, CopiedOver
<1>4. buf \in Seq(Char) /\ Plain(buf)
  BY <1>1, <1>3 DEF Holds, Plain
<1> HIDE DEF buf
<1>5. new \in Strings /\ new.sso_buf = buf
  BY <1>1, <1>4 DEF Strings, Char
<1>6. Put(s, 0, u) = new
  BY DEF Put, buf
<1>7. QED
  BY <1>4, <1>5, <1>6 DEF Formed

\* s with other bytes in its block, and other counters.
Rewritten(s, mem, len, free) ==
    [s EXCEPT !.srep.mem = mem, !.srep.len = len, !.srep.free = free]

LEMMA RewrittenIs ==
    ASSUME NEW s \in Strings, s.srep \in Blocks,
           NEW mem \in Seq(Char), NEW len \in Nat, NEW free \in Nat
    PROVE  /\ Rewritten(s, mem, len, free) \in Strings /\ Rewritten(s, mem, len, free).srep \in Blocks
           /\ Rewritten(s, mem, len, free).m_sso = s.m_sso
           /\ Rewritten(s, mem, len, free).sso_buf = s.sso_buf
           /\ Rewritten(s, mem, len, free).srep.mem = mem
           /\ Rewritten(s, mem, len, free).srep.len = len
           /\ Rewritten(s, mem, len, free).srep.free = free
<1>1. Rewritten(s, mem, len, free) \in Strings /\ Rewritten(s, mem, len, free).srep \in Blocks
  BY DEF Rewritten, Strings, Blocks, Char
<1>2. /\ Rewritten(s, mem, len, free).m_sso = s.m_sso
      /\ Rewritten(s, mem, len, free).sso_buf = s.sso_buf
  BY DEF Rewritten, Strings, Blocks, Char
<1>3. /\ Rewritten(s, mem, len, free).srep.mem = mem
      /\ Rewritten(s, mem, len, free).srep.len = len
      /\ Rewritten(s, mem, len, free).srep.free = free
  BY DEF Rewritten, Strings, Blocks, Char
<1>4. QED
  BY <1>1, <1>2, <1>3

\* What sstring_copy does to a string on the heap.
LEMMA PutFields ==
    ASSUME NEW s \in Strings, ~s.m_sso, s.srep \in Blocks, NEW at \in Nat, NEW u \in Seq(Chars),
           at + Len(u) <= Len(s.srep.mem)
    PROVE  /\ Put(s, at, u) \in Strings /\ ~Put(s, at, u).m_sso /\ Put(s, at, u).srep \in Blocks
           /\ Put(s, at, u).sso_buf = s.sso_buf
           /\ Put(s, at, u).srep.mem = Copy(s.srep.mem, at, u)
           /\ Put(s, at, u).srep.len = Uint(s.srep.len + Len(u))
           /\ Put(s, at, u).srep.free = Uint(s.srep.free - Len(u))
<1> DEFINE mem == Copy(s.srep.mem, at, u)
           len == Uint(s.srep.len + Len(u))
           free == Uint(s.srep.free - Len(u))
<1>1. s.srep.mem \in Seq(Char) /\ s.srep.len \in Nat /\ s.srep.free \in Nat
  BY DEF Blocks, Char
<1>2. mem \in Seq(Char) /\ len \in Nat /\ free \in Nat
  <2>1. u \in Seq(Char) /\ at \in Int
    BY DEF Char
  <2>2. mem \in Seq(Char)
    BY <1>1, <2>1, CopyLength
  <2>3. s.srep.len + Len(u) \in Int /\ s.srep.free - Len(u) \in Int
    BY <1>1
  <2>4. QED
    BY <2>2, <2>3, UintIs
<1>3. Inside(s.srep, at + Len(u))
  BY StringAssumption DEF Inside
<1>4. Put(s, at, u) = Rewritten(s, mem, len, free)
  BY <1>3 DEF Put, Rewritten
<1> HIDE DEF mem, len, free
<1>5. QED
  BY <1>2, <1>4, RewrittenIs DEF mem, len, free

\* Whatever it writes, it leaves an object behind or has no defined behaviour.
LEMMA PutTyped ==
    ASSUME NEW s \in Formed, ~s.m_sso, s.srep \in Blocks, NEW at \in Nat, NEW u \in Seq(Chars)
    PROVE  Put(s, at, u) \in Formed \cup {Undefined}
<1>1. s \in Strings /\ Plain(s.sso_buf)
  BY DEF Formed
<1>2. CASE at + Len(u) <= Len(s.srep.mem)
  <2>1. Put(s, at, u) \in Strings /\ Put(s, at, u).sso_buf = s.sso_buf
    BY <1>1, <1>2, PutFields
  <2>2. QED
    BY <1>1, <2>1 DEF Formed
<1>3. CASE ~(at + Len(u) <= Len(s.srep.mem))
  BY <1>3, StringAssumption DEF Put, Inside
<1>4. QED
  BY <1>2, <1>3

\* Text appended to a string on the heap that has room for it.
LEMMA PutHeap ==
    ASSUME NEW s \in Strings, ~s.m_sso, s.srep \in Blocks,
           NEW t, Holds(s.srep.mem, t, s.srep.len + s.srep.free), s.srep.len = Len(t),
           NEW u \in Seq(Chars), Len(u) <= s.srep.free,
           s.srep.free < UintValues, Len(t) + Len(u) < UintValues
    PROVE  IsString(Put(s, Len(t), u), t \o u)
<1> DEFINE new == Put(s, Len(t), u)
<1>1. /\ s.srep.len \in Nat /\ s.srep.free \in Nat /\ t \in Seq(Chars) /\ Len(t) \in Nat /\ Len(u) \in Nat
      /\ s.srep.len + s.srep.free < Len(s.srep.mem) /\ Len(s.srep.mem) \in Nat
  BY DEF Holds, Blocks
<1>2. Len(t) + Len(u) <= Len(s.srep.mem)
  BY <1>1
<1>3. /\ new \in Strings /\ ~new.m_sso /\ new.srep \in Blocks
      /\ new.srep.mem = Copy(s.srep.mem, Len(t), u)
      /\ new.srep.len = Uint(s.srep.len + Len(u)) /\ new.srep.free = Uint(s.srep.free - Len(u))
  BY <1>1, <1>2, PutFields
<1> HIDE DEF new
<1>4. new.srep.len = Len(t) + Len(u) /\ new.srep.free = s.srep.free - Len(u)
  <2>1. s.srep.len + Len(u) \in 0 .. (UintValues - 1) /\ s.srep.free - Len(u) \in 0 .. (UintValues - 1)
    BY <1>1, StringAssumption
  <2>2. QED
    BY <1>1, <1>3, <2>1, UintIs
<1>5. Len(t) + Len(u) <= s.srep.len + s.srep.free
  BY <1>1
<1>6. Holds(new.srep.mem, t \o u, s.srep.len + s.srep.free)
  BY <1>3, <1>5, Copied
<1>7. new.srep.len + new.srep.free = s.srep.len + s.srep.free /\ new.srep.len = Len(t \o u)
  BY <1>1, <1>4, Joined
<1>8. QED
  BY <1>3, <1>6, <1>7, HeapIs DEF new
-----------------------------------------------------------------------------
(***************************************************************************)
(* The constructors.                                                       *)
(***************************************************************************)

\* An object none of whose fields has been written to.
LEMMA BlankedIs ==
    /\ Blanked \in Formed /\ ~Blanked.m_sso /\ Blanked.srep = None
    /\ Blanked.sso_buf = Zeros(SSO_SIZE + 1)
    /\ Zeros(SSO_SIZE + 1) \in Seq(Char) /\ Plain(Zeros(SSO_SIZE + 1))
    /\ Holds(Zeros(SSO_SIZE + 1), <<>>, SSO_SIZE)
<1>1. SSO_SIZE + 1 \in Nat /\ SSO_SIZE + 1 > 0 /\ SSO_SIZE + 1 - 1 = SSO_SIZE
  BY StringAssumption
<1>2. /\ Zeros(SSO_SIZE + 1) \in Seq(Char) /\ Len(Zeros(SSO_SIZE + 1)) = SSO_SIZE + 1
      /\ Holds(Zeros(SSO_SIZE + 1), <<>>, SSO_SIZE)
  <2> DEFINE n == SSO_SIZE + 1
  <2>1. n \in Nat /\ n > 0 /\ n - 1 = SSO_SIZE
    BY <1>1, StringAssumption
  <2> HIDE DEF n
  <2>2. Zeros(n) \in Seq(Char) /\ Len(Zeros(n)) = n /\ Holds(Zeros(n), <<>>, n - 1)
    BY <2>1, ZerosHold
  <2>3. QED
    BY <2>1, <2>2 DEF n
<1>3. QED
  BY <1>2 DEF Blanked, Formed, Strings, Plain, Char

\* The third constructor makes an empty object, with room for `size` bytes.
LEMMA SizeMade ==
    ASSUME NEW size \in Nat, NEW do_sso \in BOOLEAN
    PROVE  /\ FromSize(size, do_sso) \in Formed
           /\ FromSize(size, do_sso).sso_buf = Zeros(SSO_SIZE + 1)
           /\ FromSize(size, do_sso).m_sso => size <= SSO_SIZE
           /\ ~FromSize(size, do_sso).m_sso => FromSize(size, do_sso).srep = Block(size, <<>>)
<1> DEFINE s == FromSize(size, do_sso)
           z == Zeros(SSO_SIZE + 1)
<1>1. z \in Seq(Char) /\ Plain(z)
  BY BlankedIs
<1> HIDE DEF z
<1>2. CASE do_sso /\ size <= SSO_SIZE
  <2>1. s = [m_sso |-> TRUE, sso_buf |-> z, srep |-> None]
    BY <1>2 DEF FromSize, init_new_srep_struct, Blanked, z
  <2>2. s.m_sso = TRUE /\ s.sso_buf = z /\ s.srep = None
    BY <2>1
  <2>3. s \in Strings
    BY <1>1, <2>1 DEF Strings, Char
  <2>4. s \in Formed
    BY <1>1, <2>2, <2>3 DEF Formed
  <2> HIDE DEF s
  <2>5. QED
    BY <1>2, <2>2, <2>4 DEF s, z
<1>3. CASE ~(do_sso /\ size <= SSO_SIZE)
  <2> DEFINE b == Block(size, <<>>)
  <2>1. b \in Blocks
    <3>1. <<>> \in Seq(Chars) /\ Len(<<>>) <= size
      OBVIOUS
    <3>2. QED
      BY <3>1, BlockHolds
  <2> HIDE DEF b
  <2>2. s = [m_sso |-> FALSE, sso_buf |-> z, srep |-> b]
    BY <1>3 DEF FromSize, init_new_srep_struct, Blanked, b, z
  <2>3. QED
    BY <1>1, <2>1, <2>2 DEF Formed, Strings, Char, b, z
<1>4. QED
  BY <1>2, <1>3

\* The second one makes the string of its argument.
LEMMA LiteralMade ==
    ASSUME NEW text \in Seq(Chars), Len(text) < UintValues, NEW do_sso \in BOOLEAN
    PROVE  IsString(FromLiteral(text, do_sso), text) /\ FromLiteral(text, do_sso) \in Formed
<1> DEFINE s == FromSize(Len(text), do_sso)
<1>1. Len(text) \in Nat /\ <<>> \in Seq(Chars) /\ Len(<<>>) = 0 /\ <<>> \o text = text
  OBVIOUS
<1>2. /\ s \in Formed /\ s.sso_buf = Zeros(SSO_SIZE + 1)
      /\ s.m_sso => Len(text) <= SSO_SIZE
      /\ ~s.m_sso => s.srep = Block(Len(text), <<>>)
  BY <1>1, SizeMade
<1>3. FromLiteral(text, do_sso) = Put(s, Len(<<>>), text)
  BY <1>1 DEF FromLiteral
<1> HIDE DEF s
<1>4. s \in Strings /\ Len(s.sso_buf) = SSO_SIZE + 1 /\ Holds(s.sso_buf, <<>>, SSO_SIZE)
  BY <1>2, BlankedIs DEF Formed, Plain
<1>5. CASE s.m_sso
  <2>1. Len(<<>>) + Len(text) <= SSO_SIZE
    BY <1>1, <1>2, <1>5
  <2>2. IsString(Put(s, Len(<<>>), text), <<>> \o text) /\ Put(s, Len(<<>>), text) \in Formed
    BY <1>1, <1>4, <1>5, <2>1, PutSmall
  <2>3. QED
    BY <1>1, <1>3, <2>2
<1>6. CASE ~s.m_sso
  <2> DEFINE b == Block(Len(text), <<>>)
  <2>1. Holds(b.mem, <<>>, Len(text)) /\ b.len = 0 /\ b.free = Len(text) /\ b \in Blocks
    <3>1. /\ Holds(b.mem, <<>>, Len(text)) /\ b.len = Len(<<>>)
          /\ b.free = Len(text) - Len(<<>>) /\ b \in Blocks
      <4> DEFINE n == Len(text)
                 e == <<>>
      <4>1. n \in Nat /\ e \in Seq(Chars) /\ Len(e) <= n
        BY <1>1
      <4> HIDE DEF n, e
      <4>2. /\ Holds(Block(n, e).mem, e, n) /\ Block(n, e).len = Len(e)
            /\ Block(n, e).free = n - Len(e) /\ Block(n, e) \in Blocks
        BY <4>1, BlockHolds
      <4>3. QED
        BY <4>2 DEF n, e
    <3> HIDE DEF b
    <3>2. QED
      BY <1>1, <3>1
  <2>2. s.srep = b
    BY <1>2, <1>6
  <2> HIDE DEF b
  <2>3. /\ Holds(s.srep.mem, <<>>, s.srep.len + s.srep.free) /\ s.srep.len = Len(<<>>)
        /\ Len(text) <= s.srep.free /\ s.srep.free < UintValues
        /\ Len(<<>>) + Len(text) < UintValues /\ s.srep \in Blocks
    BY <1>1, <2>1, <2>2
  <2>4. IsString(Put(s, Len(<<>>), text), <<>> \o text)
    BY <1>1, <1>4, <1>6, <2>3, PutHeap
  <2>5. Put(s, Len(<<>>), text) \in Formed \cup {Undefined}
    BY <1>1, <1>2, <1>6, <2>3, PutTyped
  <2>6. QED
    BY <1>1, <1>3, <2>4, <2>5 DEF IsString, Sane, Readable
<1>7. QED
  BY <1>5, <1>6
-----------------------------------------------------------------------------
(***************************************************************************)
(* The methods, on an object that is worked with: what they leave behind,  *)
(* and what they promise.                                                  *)
(***************************************************************************)

\* Such an object is a small string, a heap string that makes sense, or was
\* moved from; and it is not long.
LEMMA Cases ==
    ASSUME NEW s \in Formed, InBounds(s)
    PROVE  /\ s \in Strings /\ s # Undefined /\ Plain(s.sso_buf)
           /\ ~s.m_sso => s.srep = None \/ Readable(s)
           /\ s.m_sso \/ s.srep # None =>
                  /\ TextOf(s) \in Seq(Chars) /\ length(s) = Len(TextOf(s))
                  /\ Len(TextOf(s)) <= MaxLen + SSO_SIZE
           /\ ~s.m_sso /\ s.srep # None =>
                  /\ s.srep \in Blocks /\ s.srep.len = Len(TextOf(s))
                  /\ s.srep.len <= MaxLen /\ s.srep.free <= MaxFree
<1>1. s \in Strings /\ Plain(s.sso_buf) /\ s # Undefined
  BY StringAssumption DEF Formed
<1>2. ~s.m_sso /\ s.srep # None => Readable(s) /\ s.srep.len <= MaxLen /\ s.srep.free <= MaxFree
  BY DEF InBounds
<1>3. CASE s.m_sso
  <2>1. Holds(s.sso_buf, TextOf(s), SSO_SIZE) /\ length(s) = Len(TextOf(s))
    BY <1>3, SmallSays
  <2>2. TextOf(s) \in Seq(Chars) /\ Len(TextOf(s)) <= MaxLen + SSO_SIZE
    BY <2>1, StringAssumption DEF Holds
  <2>3. QED
    BY <1>1, <1>3, <2>1, <2>2
<1>4. CASE ~s.m_sso /\ s.srep # None
  <2>1. /\ s.srep \in Blocks /\ s.srep.len = Len(TextOf(s)) /\ length(s) = Len(TextOf(s))
        /\ Holds(s.srep.mem, TextOf(s), s.srep.len)
    BY <1>1, <1>2, <1>4, HeapSays
  <2>2. TextOf(s) \in Seq(Chars) /\ Len(TextOf(s)) <= MaxLen + SSO_SIZE
    BY <1>2, <1>4, <2>1, StringAssumption DEF Holds
  <2>3. QED
    BY <1>1, <1>2, <1>4, <2>1, <2>2
<1>5. QED
  BY <1>1, <1>3, <1>4

\* clear leaves an object behind, with zeros in its small buffer if it is used.
LEMMA ClearTyped ==
    ASSUME NEW s \in Formed, InBounds(s)
    PROVE  /\ clear(s) \in Formed \cup {Undefined}
           /\ clear(s) # Undefined =>
                  clear(s).sso_buf = IF s.m_sso THEN Zeros(SSO_SIZE + 1) ELSE s.sso_buf
<1>1. s \in Strings /\ Plain(s.sso_buf)
  BY Cases
<1>2. CASE s.m_sso
  <2> DEFINE z == Zeros(SSO_SIZE + 1)
  <2>1. z \in Seq(Char) /\ Plain(z)
    BY BlankedIs
  <2>2. clear(s) = [s EXCEPT !.sso_buf = z]
    BY <1>2 DEF clear
  <2> HIDE DEF z
  <2>3. clear(s) \in Strings /\ clear(s).sso_buf = z
    BY <1>1, <2>1, <2>2 DEF Strings, Char
  <2>4. QED
    BY <1>2, <2>1, <2>3 DEF Formed, z
<1>3. CASE ~s.m_sso /\ (s.srep = None \/ ~Inside(s.srep, capacity(s)))
  BY <1>3 DEF clear
<1>4. CASE ~s.m_sso /\ s.srep # None /\ Inside(s.srep, capacity(s))
  <2>1. Readable(s)
    BY <1>4, Cases
  <2>2. /\ s.srep \in Blocks /\ s.srep.len \in Nat /\ s.srep.free \in Nat
        /\ length(s) = s.srep.len /\ free_space(s) = s.srep.free
    BY <1>1, <1>4, <2>1, HeapSays
  <2> DEFINE cap == capacity(s)
             mem == Copy(s.srep.mem, 0, Zeros(cap))
             free == Uint(cap)
  <2>3. cap \in Nat
    BY <2>2 DEF capacity
  <2>4. mem \in Seq(Char) /\ free \in Nat
    <3>1. Zeros(cap) \in Seq(Char) /\ s.srep.mem \in Seq(Char)
      BY <2>2, <2>3, ZerosHold DEF Blocks, Char
    <3>2. QED
      BY <2>3, <3>1, CopyLength, UintIs
  <2>5. clear(s) = Rewritten(s, mem, 0, free)
    <3>1. clear(s) = [s EXCEPT !.srep.mem = Copy(@, 0, Zeros(cap)), !.srep.free = free, !.srep.len = 0]
      BY <1>4 DEF clear
    <3>2. QED
      BY <1>1, <2>2, <3>1 DEF Rewritten, Strings, Blocks
  <2> HIDE DEF mem, free
  <2>6. Rewritten(s, mem, 0, free) \in Strings /\ Rewritten(s, mem, 0, free).sso_buf = s.sso_buf
    BY <1>1, <2>2, <2>4, RewrittenIs
  <2>7. QED
    BY <1>1, <1>4, <2>5, <2>6 DEF Formed
<1>5. QED
  BY <1>2, <1>3, <1>4

\* Of a sound string it makes the empty one.
LEMMA Cleared ==
    ASSUME NEW s \in Formed, InBounds(s), Sane(s)
    PROVE  IsString(clear(s), <<>>)
<1>1. s \in Strings /\ Plain(s.sso_buf)
  BY Cases
<1>2. CASE s.m_sso
  <2> DEFINE z == Zeros(SSO_SIZE + 1)
  <2>1. z \in Seq(Char) /\ Plain(z) /\ Holds(z, <<>>, SSO_SIZE)
    BY BlankedIs
  <2>2. clear(s) = [s EXCEPT !.sso_buf = z]
    BY <1>2 DEF clear
  <2> HIDE DEF z
  <2>3. clear(s) \in Strings /\ clear(s).sso_buf = z /\ clear(s).m_sso
    BY <1>1, <1>2, <2>1, <2>2 DEF Strings, Char
  <2>4. QED
    BY <2>1, <2>3, SmallIs DEF Plain
<1>3. CASE ~s.m_sso
  <2>1. Readable(s)
    BY DEF Sane
  <2>2. /\ s.srep \in Blocks /\ s.srep.len \in Nat /\ s.srep.free \in Nat /\ s.srep # None
        /\ length(s) = s.srep.len /\ Len(s.srep.mem) \in Nat
    BY <1>1, <1>3, <2>1, HeapSays
  <2>3. /\ Holds(s.srep.mem, TextOf(s), s.srep.len + s.srep.free)
        /\ capacity(s) = s.srep.len + s.srep.free /\ s.srep.len + s.srep.free < Len(s.srep.mem)
    BY <1>1, <1>3, HeapSound
  <2> DEFINE cap == capacity(s)
             mem == Copy(s.srep.mem, 0, Zeros(cap))
             new == Rewritten(s, mem, 0, cap)
  <2>4. cap \in Nat /\ cap < Len(s.srep.mem) /\ Uint(cap) = cap
    <3>1. s.srep.len <= MaxLen /\ s.srep.free <= MaxFree
      BY <1>3, <2>2, Cases
    <3>2. cap \in 0 .. (UintValues - 1)
      BY <2>2, <2>3, <3>1, StringAssumption
    <3>3. QED
      BY <2>2, <2>3, <3>2, UintIs
  <2>5. Inside(s.srep, cap)
    BY <2>2, <2>4 DEF Inside
  <2>6. clear(s) = new
    <3>1. clear(s) = [s EXCEPT !.srep.mem = Copy(@, 0, Zeros(cap)), !.srep.free = cap, !.srep.len = 0]
      BY <1>3, <2>2, <2>4, <2>5 DEF clear
    <3>2. QED
      BY <1>1, <2>2, <3>1 DEF Rewritten, Strings, Blocks
  <2>7. Zeros(cap) \in Seq(Char) /\ Len(Zeros(cap)) = cap /\ \A i \in 1 .. cap : Zeros(cap)[i] = Nul
    BY <2>4, ZerosHold DEF Zeros
  <2>8. /\ mem \in Seq(Char) /\ Len(mem) = Len(s.srep.mem)
        /\ \A i \in 1 .. Len(s.srep.mem) :
               mem[i] = IF i - 0 \in 1 .. Len(Zeros(cap)) THEN Zeros(cap)[i - 0] ELSE s.srep.mem[i]
    <3>1. s.srep.mem \in Seq(Char)
      BY <2>2 DEF Blocks, Char
    <3>2. QED
      BY <2>7, <3>1, CopyLength
  <2> HIDE DEF mem
  <2>9. \A i \in 1 .. (cap + 1) : mem[i] = Nul
    <3> TAKE i \in 1 .. (cap + 1)
    <3>1. i \in 1 .. Len(s.srep.mem) /\ i - 0 = i
      BY <2>2, <2>4
    <3>2. CASE i \in 1 .. cap
      BY <2>7, <2>8, <3>1, <3>2
    <3>3. CASE i \notin 1 .. cap
      <4>1. i = cap + 1 /\ i \notin 1 .. Len(Zeros(cap))
        BY <2>4, <2>7, <3>3
      <4>2. Len(TextOf(s)) \in Nat /\ Len(TextOf(s)) <= cap
        BY <2>3 DEF Holds
      <4>3. s.srep.mem[i] = Nul
        BY <2>3, <2>4, <4>1, <4>2 DEF Holds
      <4>4. QED
        BY <2>8, <3>1, <4>1, <4>3
    <3>4. QED
      BY <3>2, <3>3
  <2> HIDE DEF cap
  <2>10. <<>> \in Seq(Chars) /\ Len(<<>>) = 0
    OBVIOUS
  <2>11. Holds(mem, <<>>, cap)
    BY <2>4, <2>8, <2>9, <2>10 DEF Holds
  <2>12. /\ new \in Strings /\ ~new.m_sso /\ new.srep \in Blocks
         /\ new.srep.mem = mem /\ new.srep.len = 0 /\ new.srep.free = cap
    BY <1>1, <1>3, <2>2, <2>4, <2>8, RewrittenIs
  <2> HIDE DEF new
  <2>13. Holds(new.srep.mem, <<>>, new.srep.len + new.srep.free) /\ new.srep.len = Len(<<>>)
    BY <2>4, <2>10, <2>11, <2>12
  <2>14. QED
    BY <2>6, <2>12, <2>13, HeapIs
<1>4. QED
  BY <1>2, <1>3

\* __expand__: the text t in a new block with room for u.
Widened(s, t, u) == [s EXCEPT !.m_sso = FALSE, !.srep = Block(NewSize(Len(t), Len(u)), t)]

LEMMA Expanded ==
    ASSUME NEW s \in Formed, NEW t \in Seq(Chars), NEW u \in Seq(Chars),
           Len(t) <= MaxLen + SSO_SIZE, Len(u) <= MaxLen
    PROVE  /\ IsString(Put(Widened(s, t, u), Len(t), u), t \o u)
           /\ Put(Widened(s, t, u), Len(t), u) \in Formed
<1> DEFINE size == NewSize(Len(t), Len(u))
           b == Block(size, t)
           wide == [s EXCEPT !.m_sso = FALSE, !.srep = b]
<1>1. /\ Len(t) \in Nat /\ Len(u) \in Nat /\ size \in Nat /\ Len(t) + Len(u) <= size
      /\ size - Len(t) < UintValues /\ Len(t) + Len(u) < UintValues
  <2>1. Len(t) \in Nat /\ Len(u) \in Nat
    OBVIOUS
  <2>2. QED
    BY <2>1, StringAssumption DEF NewSize
<1> HIDE DEF size
<1>2. Holds(b.mem, t, size) /\ b.len = Len(t) /\ b.free = size - Len(t) /\ b \in Blocks
  <2>1. Len(t) <= size
    BY <1>1
  <2>2. QED
    BY <1>1, <2>1, BlockHolds
<1> HIDE DEF b
<1>3. s \in Strings /\ Plain(s.sso_buf)
  BY DEF Formed
<1>4. wide \in Strings /\ ~wide.m_sso /\ wide.srep = b /\ wide.sso_buf = s.sso_buf
  BY <1>2, <1>3 DEF Strings
<1>5. Widened(s, t, u) = wide
  BY DEF Widened, b, size
<1> HIDE DEF wide
<1>6. /\ Holds(wide.srep.mem, t, wide.srep.len + wide.srep.free) /\ wide.srep.len = Len(t)
      /\ Len(u) <= wide.srep.free /\ wide.srep.free < UintValues /\ wide.srep \in Blocks
  <2>1. Len(t) + (size - Len(t)) = size /\ Len(u) <= size - Len(t)
    BY <1>1
  <2>2. QED
    BY <1>1, <1>2, <1>4, <2>1
<1>7. IsString(Put(wide, Len(t), u), t \o u)
  BY <1>1, <1>4, <1>6, PutHeap
<1>8. Put(wide, Len(t), u) \in Formed \cup {Undefined}
  <2>1. wide \in Formed
    BY <1>3, <1>4 DEF Formed
  <2>2. QED
    BY <1>1, <1>4, <1>6, <2>1, PutTyped
<1>9. QED
  BY <1>5, <1>7, <1>8 DEF IsString, Sane, Readable

\* append expands when the text does not fit.
LEMMA AppendExpands ==
    ASSUME NEW s \in Formed, InBounds(s), s.m_sso \/ s.srep # None,
           NEW u \in Seq(Chars), ~(Len(u) <= free_space(s))
    PROVE  Appended(s, u) = Put(Widened(s, TextOf(s), u), Len(TextOf(s)), u)
<1>1. s \in Strings /\ length(s) = Len(TextOf(s)) /\ (~s.m_sso => Readable(s))
  BY Cases
<1>2. (IF s.m_sso THEN CString(s.sso_buf) ELSE Bytes(s.srep)) = TextOf(s)
  BY <1>1, SmallSays, HeapSays
<1>3. ~s.m_sso => Inside(s.srep, s.srep.len)
  <2>1. ~s.m_sso => s.srep # None /\ s.srep.len \in Nat /\ Len(s.srep.mem) \in Nat
                    /\ s.srep.len + 1 <= Len(s.srep.mem)
    BY <1>1, HeapSays
  <2>2. QED
    BY <2>1 DEF Inside
<1>4. QED
  BY <1>1, <1>2, <1>3, Zenon DEF Appended, Widened

\* append leaves an object behind.
LEMMA AppendTyped ==
    ASSUME NEW s \in Formed, InBounds(s), NEW u \in Seq(Chars), Len(u) <= MaxLen
    PROVE  Appended(s, u) \in Formed \cup {Undefined}
<1>1. CASE ~s.m_sso /\ s.srep = None
  BY <1>1 DEF Appended
<1>2. CASE s.m_sso /\ Len(u) <= free_space(s)
  <2>1. /\ Holds(s.sso_buf, TextOf(s), SSO_SIZE) /\ length(s) = Len(TextOf(s))
        /\ free_space(s) = SSO_SIZE - Len(TextOf(s)) /\ s \in Strings /\ Len(s.sso_buf) = SSO_SIZE + 1
    BY <1>2, SmallSays
  <2>2. Len(TextOf(s)) + Len(u) <= SSO_SIZE
    BY <1>2, <2>1, StringAssumption DEF Holds
  <2>3. Appended(s, u) = Put(s, Len(TextOf(s)), u)
    BY <1>2, <2>1 DEF Appended
  <2>4. QED
    BY <1>2, <2>1, <2>2, <2>3, PutSmall
<1>3. CASE ~s.m_sso /\ s.srep # None /\ Len(u) <= free_space(s)
  <2>1. s.srep \in Blocks /\ length(s) \in Nat
    BY <1>3, Cases
  <2>2. Appended(s, u) = Put(s, length(s), u)
    BY <1>3 DEF Appended
  <2>3. QED
    BY <1>3, <2>1, <2>2, PutTyped
<1>4. CASE (s.m_sso \/ s.srep # None) /\ ~(Len(u) <= free_space(s))
  <2>1. Appended(s, u) = Put(Widened(s, TextOf(s), u), Len(TextOf(s)), u)
    BY <1>4, AppendExpands
  <2>2. TextOf(s) \in Seq(Chars) /\ Len(TextOf(s)) <= MaxLen + SSO_SIZE
    BY <1>4, Cases
  <2>3. QED
    BY <2>1, <2>2, Expanded
<1>5. QED
  BY <1>1, <1>2, <1>3, <1>4

\* To a sound string it appends the text.
LEMMA AppendsText ==
    ASSUME NEW s \in Formed, InBounds(s), Sane(s), NEW u \in Seq(Chars), Len(u) <= MaxLen
    PROVE  IsString(Appended(s, u), TextOf(s) \o u)
<1>1. Readable(s) /\ s \in Strings
  BY Cases DEF Sane
<1>2. s.m_sso \/ s.srep # None
  BY <1>1, HeapSays
<1>3. CASE s.m_sso /\ Len(u) <= free_space(s)
  <2>1. /\ Holds(s.sso_buf, TextOf(s), SSO_SIZE) /\ length(s) = Len(TextOf(s))
        /\ free_space(s) = SSO_SIZE - Len(TextOf(s)) /\ s \in Strings /\ Len(s.sso_buf) = SSO_SIZE + 1
    BY <1>3, SmallSays
  <2>2. Len(TextOf(s)) + Len(u) <= SSO_SIZE
    BY <1>3, <2>1, StringAssumption DEF Holds
  <2>3. Appended(s, u) = Put(s, Len(TextOf(s)), u)
    BY <1>3, <2>1 DEF Appended
  <2>4. QED
    BY <1>3, <2>1, <2>2, <2>3, PutSmall
<1>4. CASE ~s.m_sso /\ Len(u) <= free_space(s)
  <2>1. /\ s.srep \in Blocks /\ s.srep # None /\ s.srep.len = Len(TextOf(s))
        /\ length(s) = Len(TextOf(s)) /\ free_space(s) = s.srep.free
        /\ s.srep.len \in Nat /\ s.srep.free \in Nat
    BY <1>1, <1>4, HeapSays
  <2>2. Holds(s.srep.mem, TextOf(s), s.srep.len + s.srep.free)
    BY <1>1, <1>4, HeapSound
  <2>3. s.srep.free < UintValues /\ Len(TextOf(s)) + Len(u) < UintValues
    <3>1. s.srep.len <= MaxLen /\ s.srep.free <= MaxFree
      BY <1>4, <2>1, Cases
    <3>2. QED
      BY <2>1, <3>1, StringAssumption
  <2>4. Appended(s, u) = Put(s, Len(TextOf(s)), u)
    BY <1>4, <2>1 DEF Appended
  <2>5. Len(u) <= s.srep.free
    BY <1>4, <2>1
  <2>6. QED
    BY <1>1, <1>4, <2>1, <2>2, <2>3, <2>4, <2>5, PutHeap
<1>5. CASE ~(Len(u) <= free_space(s))
  <2>1. Appended(s, u) = Put(Widened(s, TextOf(s), u), Len(TextOf(s)), u)
    BY <1>2, <1>5, AppendExpands
  <2>2. TextOf(s) \in Seq(Chars) /\ Len(TextOf(s)) <= MaxLen + SSO_SIZE
    BY <1>2, Cases
  <2>3. QED
    BY <2>1, <2>2, Expanded
<1>6. QED
  BY <1>3, <1>4, <1>5

\* shrink_to_fit leaves a string as it is, in a block that has its length.
LEMMA ShrinkKeeps ==
    ASSUME NEW s \in Formed, InBounds(s), Readable(s)
    PROVE  IsString(shrink_to_fit(s), TextOf(s)) /\ shrink_to_fit(s) \in Formed
<1>1. s \in Strings /\ Plain(s.sso_buf)
  BY Cases
<1>2. CASE s.m_sso
  BY <1>2, SmallSays DEF shrink_to_fit
<1>3. CASE ~s.m_sso
  <2> DEFINE t == TextOf(s)
  <2>1. /\ s.srep \in Blocks /\ s.srep # None /\ Holds(s.srep.mem, t, s.srep.len)
        /\ s.srep.len = Len(t) /\ Bytes(s.srep) = t /\ length(s) = Len(t)
        /\ free_space(s) = s.srep.free /\ s.srep.len + 1 <= Len(s.srep.mem)
        /\ s.srep.len \in Nat /\ s.srep.free \in Nat /\ Len(s.srep.mem) \in Nat
    BY <1>1, <1>3, HeapSays
  <2>2. Terminated(s.srep.mem) /\ strlen(s.srep.mem) = s.srep.len
    BY <1>3 DEF Readable
  <2>3. Inside(s.srep, s.srep.len)
    BY <2>1 DEF Inside
  <2>4. t \in Seq(Chars)
    BY <2>1 DEF Holds
  <2>5. CASE IsExact(s)
    <3>1. s.srep.len + s.srep.free = s.srep.len
      BY <2>1, <2>2, <2>5 DEF IsExact, capacity
    <3>2. IsString(s, t)
      <4> HIDE DEF t
      <4>1. QED
        BY <1>1, <1>3, <2>1, <3>1, HeapIs
    <3>3. shrink_to_fit(s) = s
      BY <1>3, <2>1, <2>2, <2>5 DEF shrink_to_fit
    <3>4. QED
      BY <3>2, <3>3
  <2>6. CASE ~IsExact(s)
    <3> DEFINE b == Block(s.srep.len, t)
               new == [s EXCEPT !.srep = b]
    <3>1. Holds(b.mem, t, Len(t)) /\ b.len = Len(t) /\ b.free = 0 /\ b \in Blocks
      <4> HIDE DEF t
      <4>1. Len(t) <= s.srep.len /\ s.srep.len - Len(t) = 0
        BY <2>1
      <4>2. QED
        BY <2>1, <2>4, <4>1, BlockHolds
    <3>2. shrink_to_fit(s) = new
      BY <1>3, <2>1, <2>2, <2>3, <2>6 DEF shrink_to_fit
    <3> HIDE DEF b, t
    <3>3. new \in Strings /\ ~new.m_sso /\ new.srep = b /\ new.sso_buf = s.sso_buf
      BY <1>1, <1>3, <3>1 DEF Strings
    <3>4. new \in Formed
      BY <1>1, <3>3 DEF Formed
    <3> HIDE DEF new
    <3>5. Holds(new.srep.mem, t, new.srep.len + new.srep.free) /\ new.srep.len = Len(t)
      <4>1. Len(t) + 0 = Len(t)
        BY <2>1
      <4>2. QED
        BY <3>1, <3>3, <4>1
    <3>6. IsString(new, t)
      BY <3>1, <3>3, <3>5, HeapIs
    <3>7. QED
      BY <3>2, <3>4, <3>6 DEF t
  <2>7. QED
    BY <2>5, <2>6
<1>4. QED
  BY <1>2, <1>3

\* Where the loops of trim stop.
LEMMA TrimEnds ==
    ASSUME NEW r \in Blocks
    PROVE  /\ Kept(r) \subseteq 0 .. r.len /\ r.len \in Nat
           /\ TrimStart(r) \in 0 .. (r.len + 1) /\ TrimEnd(r) \in 0 .. r.len
           /\ Kept(r) # {} => /\ TrimStart(r) \in Kept(r) /\ TrimEnd(r) \in Kept(r)
                              /\ \A i \in Kept(r) : TrimStart(r) <= i /\ i <= TrimEnd(r)
                              /\ TrimStart(r) = Least(Kept(r)) /\ TrimEnd(r) = Greatest(Kept(r))
<1>1. Kept(r) \subseteq 0 .. r.len /\ r.len \in Nat
  BY DEF Kept, Blocks
<1>2. Kept(r) \subseteq Nat
  BY <1>1
<1>3. CASE Kept(r) = {}
  BY <1>1, <1>3 DEF TrimStart, TrimEnd
<1>4. CASE Kept(r) # {}
  <2>1. Least(Kept(r)) \in Kept(r) /\ \A i \in Kept(r) : Least(Kept(r)) <= i
    BY <1>2, <1>4, LeastOf
  <2>2. Greatest(Kept(r)) \in Kept(r) /\ \A i \in Kept(r) : i <= Greatest(Kept(r))
    BY <1>1, <1>4, GreatestOf
  <2>3. TrimStart(r) = Least(Kept(r)) /\ TrimEnd(r) = Greatest(Kept(r))
    BY <1>4 DEF TrimStart, TrimEnd
  <2>4. QED
    BY <1>1, <1>4, <2>1, <2>2, <2>3
<1>5. QED
  BY <1>3, <1>4

\* What trim makes of a block.
TrimmedMem(r) == From(Copy(r.mem, TrimEnd(r) + 1, Zeros(r.len - TrimEnd(r))), TrimStart(r))

LEMMA TrimFields ==
    ASSUME NEW s \in Formed, InBounds(s), ~s.m_sso, s.srep # None
    PROVE  /\ Trimmed(s) \in Formed /\ Trimmed(s).srep \in Blocks /\ ~Trimmed(s).m_sso
           /\ Trimmed(s).srep.mem = TrimmedMem(s.srep)
           /\ Len(Trimmed(s).srep.mem) = Len(s.srep.mem) - TrimStart(s.srep)
           /\ Trimmed(s).srep.len =
                  Uint(s.srep.len - TrimStart(s.srep) - (s.srep.len - TrimEnd(s.srep) - 1))
           /\ Trimmed(s).srep.free = Uint(s.srep.free + s.srep.len - TrimEnd(s.srep))
<1> DEFINE r == s.srep
           c == TrimStart(r)
           e == TrimEnd(r)
           mem == TrimmedMem(r)
           len == Uint(r.len - c - (r.len - e - 1))
           free == Uint(r.free + r.len - e)
<1>1. s \in Strings /\ Plain(s.sso_buf) /\ Readable(s)
  BY Cases
<1>2. /\ r \in Blocks /\ r # None /\ r.len + 1 <= Len(r.mem) /\ Len(r.mem) \in Nat
      /\ r.len \in Nat /\ r.free \in Nat /\ r.mem \in Seq(Char)
  BY <1>1, HeapSays DEF Blocks, Char
<1>3. c \in 0 .. (r.len + 1) /\ e \in 0 .. r.len
  BY <1>2, TrimEnds
<1>4. Inside(r, r.len + 1)
  BY <1>2 DEF Inside
<1> HIDE DEF c, e
<1>5. mem \in Seq(Char) /\ Len(mem) = Len(r.mem) - c
  <2> DEFINE z == Zeros(r.len - e)
             m == Copy(r.mem, e + 1, z)
  <2>1. r.len - e \in Nat
    BY <1>2, <1>3
  <2>2. z \in Seq(Char)
    BY <2>1, ZerosHold
  <2> HIDE DEF z
  <2>3. m \in Seq(Char) /\ Len(m) = Len(r.mem)
    <3>1. e + 1 \in Int
      BY <1>3
    <3>2. QED
      BY <1>2, <2>2, <3>1, CopyLength
  <2> HIDE DEF m
  <2>4. From(m, c) \in Seq(Char) /\ Len(From(m, c)) = Len(m) - c
    <3>1. c \in Nat /\ c <= Len(m)
      BY <1>2, <1>3, <2>3
    <3>2. QED
      BY <2>3, <3>1 DEF From
  <2>5. QED
    BY <2>3, <2>4 DEF TrimmedMem, m, z, c, e
<1>6. len \in Nat /\ free \in Nat
  <2>1. r.len - c - (r.len - e - 1) \in Int /\ r.free + r.len - e \in Int
    BY <1>2, <1>3
  <2>2. QED
    BY <2>1, UintIs
<1>7. Trimmed(s) = Rewritten(s, mem, len, free)
  <2>1. Trimmed(s) = [s EXCEPT !.srep.mem = From(Copy(@, e + 1, Zeros(r.len - e)), c),
                               !.srep.len = Uint(@ - c - (r.len - e - 1)),
                               !.srep.free = Uint(@ + r.len - e)]
    BY <1>4 DEF Trimmed, c, e
  <2>2. QED
    BY <2>1 DEF Rewritten, TrimmedMem, c, e
<1> HIDE DEF mem, len, free
<1>8. /\ Trimmed(s) \in Strings /\ Trimmed(s).srep \in Blocks
      /\ Trimmed(s).m_sso = s.m_sso /\ Trimmed(s).sso_buf = s.sso_buf
      /\ Trimmed(s).srep.mem = mem /\ Trimmed(s).srep.len = len
      /\ Trimmed(s).srep.free = free
  <2> DEFINE new == Rewritten(s, mem, len, free)
  <2>1. s \in Strings /\ s.srep \in Blocks
    BY <1>1, <1>2
  <2>2. new = Rewritten(s, mem, len, free) /\ Trimmed(s) = new
    BY <1>7
  <2> HIDE DEF new, r
  <2>3. /\ new \in Strings /\ new.srep \in Blocks /\ new.m_sso = s.m_sso /\ new.sso_buf = s.sso_buf
        /\ new.srep.mem = mem /\ new.srep.len = len /\ new.srep.free = free
    BY <1>5, <1>6, <2>1, <2>2, RewrittenIs
  <2>4. QED
    BY <2>2, <2>3
<1>9. QED
  BY <1>1, <1>5, <1>8 DEF Formed, mem, len, free, c, e

LEMMA TrimTyped ==
    ASSUME NEW s \in Formed, InBounds(s)
    PROVE  Trimmed(s) \in Formed \cup {Undefined}
<1>1. CASE s.m_sso \/ s.srep = None
  BY <1>1 DEF Trimmed, Inside
<1>2. CASE ~s.m_sso /\ s.srep # None
  BY <1>2, TrimFields
<1>3. QED
  BY <1>1, <1>2

\* A text with something in it loses the blanks on both sides.
LEMMA TrimStrips ==
    ASSUME NEW s \in Formed, InBounds(s), ~s.m_sso, Readable(s),
           \E i \in DOMAIN TextOf(s) : TextOf(s)[i] # Blank
    PROVE  Readable(Trimmed(s)) /\ TextOf(Trimmed(s)) = Stripped(TextOf(s))
<1> DEFINE r == s.srep
           t == TextOf(s)
           n == r.len
           c == TrimStart(r)
           e == TrimEnd(r)
           kept == {i \in DOMAIN t : t[i] # Blank}
<1>1. s \in Strings
  BY Cases
<1>2. /\ r \in Blocks /\ r # None /\ n + 1 <= Len(r.mem) /\ Len(r.mem) \in Nat
      /\ n \in Nat /\ Len(t) = n /\ Holds(r.mem, t, n) /\ r.mem \in Seq(Char)
  BY <1>1, HeapSays DEF Blocks, Char
<1>3. t \in Seq(Chars) /\ DOMAIN t = 1 .. n /\ \A i \in 1 .. n : r.mem[i] = t[i] /\ t[i] \in Chars
  BY <1>2 DEF Holds
<1>4. r.mem[n + 1] = Nul
  BY <1>2 DEF Holds
<1> DEFINE K == Kept(r)
<1>5. \A i \in 0 .. n : i \in K <=> i + 1 \in kept
  <2> TAKE i \in 0 .. n
  <2>1. CASE i = n
    BY <1>2, <1>3, <1>4, <2>1 DEF Kept
  <2>2. CASE i # n
    <3>1. i + 1 \in 1 .. n
      BY <1>2, <2>2
    <3>2. r.mem[i + 1] = t[i + 1] /\ t[i + 1] # Nul
      BY <1>3, <3>1, StringAssumption
    <3>3. i \in K <=> r.mem[i + 1] \notin {Blank, Nul}
      BY DEF Kept
    <3>4. i + 1 \in kept <=> t[i + 1] # Blank
      BY <1>3, <3>1
    <3>5. QED
      BY <3>2, <3>3, <3>4
  <2>3. QED
    BY <2>1, <2>2
<1>6. K \subseteq 0 .. n /\ kept \subseteq 1 .. n /\ kept # {}
  BY <1>2, <1>3 DEF Kept
<1>7. K # {}
  <2>1. PICK j \in kept : TRUE
    BY <1>6
  <2>2. j - 1 \in 0 .. n /\ j - 1 + 1 = j
    BY <1>2, <1>6
  <2>3. QED
    BY <1>5, <2>1, <2>2
<1>8. c \in K /\ e \in K /\ (\A i \in K : c <= i /\ i <= e)
  BY <1>2, <1>7, TrimEnds
<1> HIDE DEF K, kept
<1>9. c \in Nat /\ e \in Nat /\ c <= e /\ e < n
  <2>1. c \in 0 .. n /\ e \in 0 .. n /\ c <= e
    BY <1>6, <1>8
  <2>2. e + 1 \in 1 .. n
    BY <1>5, <1>6, <1>8, <2>1
  <2>3. QED
    BY <1>2, <2>1, <2>2
<1>10. Least(kept) = c + 1 /\ Greatest(kept) = e + 1
  <2>1. c + 1 \in kept /\ e + 1 \in kept
    BY <1>2, <1>5, <1>8, <1>9
  <2>2. \A j \in kept : c + 1 <= j /\ j <= e + 1
    <3> TAKE j \in kept
    <3>1. j - 1 \in 0 .. n /\ j - 1 + 1 = j /\ j \in Int
      BY <1>2, <1>6
    <3>2. j - 1 \in K
      BY <1>5, <3>1
    <3>3. c <= j - 1 /\ j - 1 <= e
      BY <1>8, <3>2
    <3>4. QED
      BY <1>9, <3>1, <3>3
  <2>3. kept \subseteq Nat /\ kept \subseteq 0 .. n
    BY <1>2, <1>6
  <2>4. Least(kept) \in kept /\ \A j \in kept : Least(kept) <= j
    BY <1>6, <2>3, LeastOf
  <2>5. Greatest(kept) \in kept /\ \A j \in kept : j <= Greatest(kept)
    BY <1>2, <1>6, <2>3, GreatestOf
  <2>6. /\ Least(kept) <= c + 1 /\ c + 1 <= Least(kept) /\ Least(kept) \in Nat
        /\ Greatest(kept) <= e + 1 /\ e + 1 <= Greatest(kept) /\ Greatest(kept) \in Nat
    BY <2>1, <2>2, <2>3, <2>4, <2>5, Zenon
  <2>7. QED
    BY <1>9, <2>6
<1> DEFINE u == SubSeq(t, c + 1, e + 1)
           mem == TrimmedMem(r)
           k == e - c + 1
<1>11. Stripped(t) = u
  BY <1>10 DEF Stripped, kept
<1>12. u \in Seq(Chars) /\ Len(u) = k /\ k \in Nat /\ \A i \in 1 .. k : u[i] = t[c + i]
  <2> HIDE DEF t, c, e
  <2>1. c + 1 \in 1 .. n /\ e + 1 \in 1 .. n /\ k \in Nat
    BY <1>2, <1>9
  <2>2. u \in Seq(Chars) /\ Len(u) = k /\ \A i \in 1 .. k : u[i] = t[c + 1 + i - 1]
    BY <1>2, <1>3, <1>9, <2>1
  <2>3. \A i \in 1 .. k : c + 1 + i - 1 = c + i
    BY <1>9
  <2>4. QED
    BY <2>1, <2>2, <2>3
<1>13. /\ mem \in Seq(Char) /\ Len(mem) = Len(r.mem) - c
       /\ \A i \in 1 .. k : mem[i] = t[c + i]
       /\ mem[k + 1] = Nul
  <2> DEFINE z == Zeros(n - e)
             m == Copy(r.mem, e + 1, z)
  <2>1. n - e \in Nat /\ n - e > 0
    BY <1>2, <1>9
  <2>2. z \in Seq(Char) /\ Len(z) = n - e /\ \A i \in 1 .. (n - e) : z[i] = Nul
    BY <2>1, ZerosHold DEF Zeros
  <2> HIDE DEF z
  <2>3. /\ m \in Seq(Char) /\ Len(m) = Len(r.mem)
        /\ \A i \in 1 .. Len(r.mem) :
               m[i] = IF i - (e + 1) \in 1 .. Len(z) THEN z[i - (e + 1)] ELSE r.mem[i]
    <3>1. e + 1 \in Int
      BY <1>9
    <3>2. QED
      BY <1>2, <2>2, <3>1, CopyLength
  <2> HIDE DEF m
  <2>4. mem = From(m, c)
    BY DEF TrimmedMem, m, z
  <2> HIDE DEF mem, c, e, t
  <2>5. /\ From(m, c) \in Seq(Char) /\ Len(From(m, c)) = Len(m) - c
        /\ \A i \in 1 .. (Len(m) - c) : From(m, c)[i] = m[c + i]
    <3>1. c \in Nat /\ c <= Len(m) /\ Len(m) \in Nat
      BY <1>2, <1>9, <2>3
    <3>2. /\ From(m, c) \in Seq(Char) /\ Len(From(m, c)) = Len(m) - c
          /\ \A i \in 1 .. (Len(m) - c) : From(m, c)[i] = m[i + c]
      BY <2>3, <3>1 DEF From
    <3>3. \A i \in 1 .. (Len(m) - c) : i + c = c + i
      BY <3>1
    <3>4. QED
      BY <3>2, <3>3
  <2>6. \A i \in 1 .. k : mem[i] = t[c + i]
    <3> TAKE i \in 1 .. k
    <3>1. i \in Nat /\ 1 <= i /\ c + i <= e + 1 /\ c + i \in Nat
      BY <1>9
    <3>2. /\ i \in 1 .. (Len(m) - c) /\ c + i \in 1 .. n /\ c + i \in 1 .. Len(r.mem)
          /\ c + i - (e + 1) \notin 1 .. Len(z)
      <4>1. Len(m) = Len(r.mem)
        BY <2>3
      <4>2. QED
        BY <1>2, <1>9, <3>1, <4>1
    <3>3. mem[i] = m[c + i]
      BY <2>4, <2>5, <3>2
    <3>4. m[c + i] = r.mem[c + i]
      <4> DEFINE j == c + i
      <4>1. j \in 1 .. Len(r.mem) /\ j - (e + 1) \notin 1 .. Len(z)
        BY <1>9, <2>1, <2>2, <3>1, <3>2
      <4> HIDE DEF j
      <4>2. m[j] = r.mem[j]
        BY <2>3, <4>1
      <4>3. QED
        BY <4>2 DEF j
    <3>5. r.mem[c + i] = t[c + i]
      BY <1>3, <3>2
    <3>6. QED
      BY <3>3, <3>4, <3>5
  <2>7. mem[k + 1] = Nul
    <3>1. k + 1 \in 1 .. (Len(m) - c) /\ c + (k + 1) = e + 2
      <4>1. Len(m) = Len(r.mem)
        BY <2>3
      <4>2. QED
        BY <1>2, <1>9, <4>1
    <3>2. e + 2 \in 1 .. Len(r.mem) /\ e + 2 - (e + 1) = 1 /\ 1 \in 1 .. (n - e)
      BY <1>2, <1>9, <2>1
    <3>3. mem[k + 1] = m[e + 2]
      <4> DEFINE j == k + 1
      <4>1. j \in 1 .. (Len(m) - c) /\ c + j = e + 2
        BY <3>1
      <4> HIDE DEF j
      <4>2. mem[j] = m[e + 2]
        BY <2>4, <2>5, <4>1
      <4>3. QED
        BY <4>2 DEF j
    <3>4. m[e + 2] = z[1] /\ z[1] = Nul
      <4>1. m[e + 2] = IF 1 \in 1 .. (n - e) THEN z[1] ELSE r.mem[e + 2]
        <5> DEFINE j == e + 2
                   d == j - (e + 1)
        <5>1. j \in 1 .. Len(r.mem) /\ d = 1
          BY <1>2, <1>9, <3>2
        <5> HIDE DEF d
        <5>2. m[j] = IF d \in 1 .. Len(z) THEN z[d] ELSE r.mem[j]
          BY <2>3, <3>2 DEF d
        <5>3. QED
          BY <2>2, <5>1, <5>2
      <4>2. QED
        BY <2>2, <3>2, <4>1
    <3>5. QED
      BY <3>3, <3>4
  <2>8. QED
    BY <2>3, <2>4, <2>5, <2>6, <2>7
<1>14. /\ Trimmed(s) \in Strings /\ Trimmed(s).srep \in Blocks /\ ~Trimmed(s).m_sso
       /\ Trimmed(s).srep.mem = mem /\ Trimmed(s).srep.len = Uint(n - c - (n - e - 1))
  BY <1>2, TrimFields DEF Formed
<1>15. Uint(n - c - (n - e - 1)) = k
  <2>1. n <= MaxLen
    BY <1>2, Cases
  <2>2. n - c - (n - e - 1) = k /\ k \in 0 .. (UintValues - 1)
    <3> HIDE DEF c, e
    <3>1. QED
      BY <1>2, <1>9, <2>1, StringAssumption
  <2>3. QED
    BY <2>2, UintIs
<1> HIDE DEF mem, u, c, e, r, t
<1>16. Holds(mem, u, k)
  <2>1. k < Len(mem)
    BY <1>2, <1>9, <1>13
  <2>2. \A i \in (k + 1) .. (k + 1) : mem[i] = Nul
    BY <1>12, <1>13
  <2>3. QED
    BY <1>12, <1>13, <2>1, <2>2 DEF Holds
<1>17. Readable(Trimmed(s)) /\ TextOf(Trimmed(s)) = u
  BY <1>12, <1>14, <1>15, <1>16, HeapReads
<1>18. QED
  BY <1>11, <1>17 DEF t

\* A text with nothing but blanks: buf_ goes one byte past the '\0'.
LEMMA TrimOfBlanks ==
    ASSUME NEW s \in Formed, InBounds(s), ~s.m_sso, Readable(s),
           \A i \in DOMAIN TextOf(s) : TextOf(s)[i] = Blank
    PROVE  Readable(Trimmed(s)) <=>
               Inside(s.srep, length(s) + 2) /\ s.srep.mem[length(s) + 2] = Nul
<1> DEFINE r == s.srep
           t == TextOf(s)
           n == r.len
           new == Trimmed(s)
           mem == new.srep.mem
<1>1. s \in Strings
  BY Cases
<1>2. /\ r \in Blocks /\ r # None /\ n + 1 <= Len(r.mem) /\ Len(r.mem) \in Nat
      /\ n \in Nat /\ Len(t) = n /\ length(s) = n /\ Holds(r.mem, t, n) /\ r.mem \in Seq(Char)
  BY <1>1, HeapSays DEF Blocks, Char
<1>3. DOMAIN t = 1 .. n /\ (\A i \in 1 .. n : r.mem[i] = t[i]) /\ r.mem[n + 1] = Nul
  BY <1>2 DEF Holds
<1>4. Kept(r) = {}
  <2> SUFFICES ASSUME NEW i \in 0 .. n, r.mem[i + 1] \notin {Blank, Nul} PROVE FALSE
    BY DEF Kept
  <2>1. CASE i = n
    BY <1>3, <2>1
  <2>2. CASE i # n
    <3>1. i + 1 \in 1 .. n
      BY <1>2, <2>2
    <3>2. QED
      BY <1>3, <3>1
  <2>3. QED
    BY <2>1, <2>2
<1>5. TrimStart(r) = n + 1 /\ TrimEnd(r) = n
  BY <1>4 DEF TrimStart, TrimEnd
<1>6. Copy(r.mem, n + 1, Zeros(n - n)) = r.mem
  <2> DEFINE z == Zeros(0)
             m == Copy(r.mem, n + 1, z)
  <2>1. n - n = 0 /\ n + 1 \in Int
    BY <1>2
  <2>2. z \in Seq(Char) /\ Len(z) = 0
    BY ZerosHold
  <2> HIDE DEF z
  <2>3. /\ m \in Seq(Char) /\ Len(m) = Len(r.mem)
        /\ \A i \in 1 .. Len(r.mem) :
               m[i] = IF i - (n + 1) \in 1 .. Len(z) THEN z[i - (n + 1)] ELSE r.mem[i]
    BY <1>2, <2>1, <2>2, CopyLength
  <2> HIDE DEF m
  <2>4. \A i \in 1 .. Len(r.mem) : m[i] = r.mem[i]
    <3> TAKE i \in 1 .. Len(r.mem)
    <3>1. i - (n + 1) \notin 1 .. Len(z)
      BY <1>2, <2>2
    <3>2. QED
      BY <2>3, <3>1
  <2>5. m = r.mem
    BY <1>2, <2>3, <2>4
  <2>6. QED
    BY <2>1, <2>5 DEF m, z
<1>7. /\ new \in Strings /\ ~new.m_sso /\ new.srep \in Blocks
      /\ mem = TrimmedMem(r) /\ new.srep.len = Uint(n - (n + 1) - (n - n - 1))
  BY <1>2, <1>5, TrimFields DEF Formed
<1>8. new.srep.len = 0
  <2>1. n - (n + 1) - (n - n - 1) = 0 /\ 0 \in 0 .. (UintValues - 1)
    BY <1>2, StringAssumption
  <2>2. QED
    BY <1>7, <2>1, UintIs
<1>9. mem = From(r.mem, n + 1)
  BY <1>5, <1>6, <1>7 DEF TrimmedMem
<1>10. /\ mem \in Seq(Char) /\ Len(mem) = Len(r.mem) - (n + 1)
       /\ Len(mem) >= 1 => mem[1] = r.mem[n + 2]
  <2> DEFINE m == From(r.mem, n + 1)
  <2>1. n + 1 \in Nat /\ n + 1 <= Len(r.mem)
    BY <1>2
  <2>2. /\ m \in Seq(Char) /\ Len(m) = Len(r.mem) - (n + 1)
        /\ \A i \in 1 .. (Len(r.mem) - (n + 1)) : m[i] = r.mem[i + (n + 1)]
    <3> HIDE DEF n
    <3>1. QED
      BY <1>2, <2>1 DEF From
  <2>3. mem = m
    BY <1>9
  <2> HIDE DEF m, mem
  <2>4. Len(m) >= 1 => m[1] = r.mem[1 + (n + 1)]
    BY <1>2, <2>2
  <2>5. 1 + (n + 1) = n + 2
    BY <1>2
  <2>6. QED
    BY <2>2, <2>3, <2>4, <2>5
<1>11. Inside(r, n + 2) <=> Len(mem) >= 1
  BY <1>2, <1>10 DEF Inside
<1> HIDE DEF r, t, n, new
<1>12. ASSUME Readable(new) PROVE Len(mem) >= 1 /\ mem[1] = Nul
  <2>1. Holds(mem, TextOf(new), new.srep.len) /\ new.srep.len + 1 <= Len(mem)
    BY <1>7, <1>12, HeapSays
  <2> DEFINE u == TextOf(new)
  <2>2. u \in Seq(Chars) /\ Len(u) <= 0 /\ \A i \in (Len(u) + 1) .. (0 + 1) : mem[i] = Nul
    BY <1>8, <2>1 DEF Holds
  <2> HIDE DEF u, mem
  <2>3. Len(u) = 0
    BY <2>2
  <2>4. mem[1] = Nul
    BY <2>2, <2>3
  <2>5. QED
    BY <1>8, <2>1, <2>4 DEF mem
<1>13. ASSUME Len(mem) >= 1, mem[1] = Nul PROVE Readable(new)
  <2>1. <<>> \in Seq(Chars) /\ Len(<<>>) = 0
    OBVIOUS
  <2>2. Holds(mem, <<>>, 0)
    BY <1>10, <1>13, <2>1 DEF Holds
  <2>3. QED
    BY <1>7, <1>8, <2>1, <2>2, HeapReads
<1>14. QED
  <2>1. Inside(r, n + 2) => Len(mem) >= 1 /\ mem[1] = r.mem[n + 2]
    BY <1>10, <1>11
  <2>2. length(s) = n
    BY <1>2 DEF n
  <2>3. Readable(new) <=> Inside(r, n + 2) /\ r.mem[n + 2] = Nul
    BY <1>10, <1>11, <1>12, <1>13, <2>1
  <2>4. QED
    BY <2>2, <2>3 DEF r, new

\* Where len_ and free_ are what the block holds, trim claims a byte more.
LEMMA TrimClaims ==
    ASSUME NEW s \in Formed, InBounds(s), ~s.m_sso, Readable(s),
           Sane(s), Len(s.srep.mem) = capacity(s) + 1
    PROVE  ~Sane(Trimmed(s))
<1> DEFINE r == s.srep
           n == r.len
           f == r.free
           c == TrimStart(r)
           e == TrimEnd(r)
           new == Trimmed(s)
<1>1. s \in Strings
  BY Cases
<1>2. r \in Blocks /\ r # None /\ n \in Nat /\ f \in Nat /\ n <= MaxLen /\ f <= MaxFree
  BY <1>1, HeapSays DEF InBounds
<1>3. Len(r.mem) = n + f + 1
  BY <1>1, HeapSound
<1>4. c \in 0 .. (n + 1) /\ e \in 0 .. n /\ c <= e + 1
  <2>1. c \in 0 .. (n + 1) /\ e \in 0 .. n
    BY <1>2, TrimEnds
  <2>2. CASE Kept(r) = {}
    BY <1>2, <2>1, <2>2 DEF TrimStart, TrimEnd
  <2>3. CASE Kept(r) # {}
    <3>1. c <= e
      BY <1>2, <2>3, TrimEnds
    <3> HIDE DEF c, e
    <3>2. QED
      BY <2>1, <3>1
  <2>4. QED
    BY <2>2, <2>3
<1>5. /\ ~new.m_sso /\ Len(new.srep.mem) = Len(r.mem) - c
      /\ new.srep.len = Uint(n - c - (n - e - 1)) /\ new.srep.free = Uint(f + n - e)
  BY <1>2, TrimFields
<1> HIDE DEF c, e, new
<1>6. new.srep.len = e + 1 - c /\ new.srep.free = f + n - e
  <2>1. /\ n - c - (n - e - 1) = e + 1 - c /\ e + 1 - c \in 0 .. (UintValues - 1)
        /\ f + n - e \in 0 .. (UintValues - 1)
    <3> HIDE DEF n, f
    <3>1. n < UintValues - 1 /\ f + n < UintValues /\ UintValues \in Nat
      BY <1>2, StringAssumption
    <3>2. QED
      BY <1>2, <1>4, <3>1
  <2>2. QED
    BY <1>5, <2>1, UintIs
<1>7. capacity(new) = (e + 1 - c) + (f + n - e)
  BY <1>5, <1>6 DEF capacity, length, free_space
<1>8. capacity(new) = Len(new.srep.mem)
  BY <1>2, <1>3, <1>4, <1>5, <1>7
<1>9. Sane(new) => capacity(new) < Len(new.srep.mem)
  BY <1>5 DEF Sane
<1>10. capacity(new) \in Int
  BY <1>2, <1>4, <1>7
<1>11. QED
  BY <1>8, <1>9, <1>10 DEF new

LEMMA TrimMemEffTyped ==
    ASSUME NEW s \in Formed, InBounds(s), NEW junk \in Char
    PROVE  TrimmedMemEff(s, junk) \in Formed \cup {Undefined}
<1>1. CASE s.m_sso \/ s.srep = None
  BY <1>1 DEF TrimmedMemEff, Inside
<1>2. CASE ~s.m_sso /\ s.srep # None
  <2> DEFINE r == s.srep
             c == TrimStart(r)
             e == TrimEnd(r)
             kept == SubSeq(r.mem, c + 1, e + 1)
             b == [mem |-> Append(kept, junk), len |-> Len(kept), free |-> 0]
             new == [s EXCEPT !.srep = b]
  <2>1. s \in Strings /\ Plain(s.sso_buf) /\ Readable(s)
    BY <1>2, Cases
  <2>2. /\ r \in Blocks /\ r # None /\ r.len + 1 <= Len(r.mem) /\ Len(r.mem) \in Nat
        /\ r.len \in Nat /\ r.mem \in Seq(Char)
    BY <1>2, <2>1, HeapSays DEF Blocks, Char
  <2>3. Inside(r, r.len + 1)
    BY <2>2 DEF Inside
  <2>4. c \in 0 .. (r.len + 1) /\ e \in 0 .. r.len
    BY <2>2, TrimEnds
  <2>5. TrimmedMemEff(s, junk) = new
    BY <1>2, <2>3 DEF TrimmedMemEff
  <2> HIDE DEF c, e
  <2>6. kept \in Seq(Char)
    BY <2>2, <2>4
  <2> HIDE DEF kept
  <2>7. Append(kept, junk) \in Seq(Char) /\ Len(kept) \in Nat
    BY <2>6
  <2>8. b \in Blocks
    BY <2>7 DEF Blocks, Char
  <2> HIDE DEF b
  <2>9. new \in Strings /\ new.sso_buf = s.sso_buf
    BY <2>1, <2>8 DEF Strings
  <2>10. QED
    BY <2>1, <2>5, <2>9 DEF Formed
<1>3. QED
  BY <1>1, <1>2

LEMMA ShrinkTyped ==
    ASSUME NEW s \in Formed, InBounds(s)
    PROVE  shrink_to_fit(s) \in Formed \cup {Undefined}
<1>1. CASE s.m_sso
  BY <1>1 DEF shrink_to_fit
<1>2. CASE ~s.m_sso /\ s.srep = None
  BY <1>2 DEF shrink_to_fit
<1>3. CASE ~s.m_sso /\ s.srep # None
  <2>1. Readable(s)
    BY <1>3, Cases
  <2>2. QED
    BY <2>1, ShrinkKeeps
<1>4. QED
  BY <1>1, <1>2, <1>3

\* substr, with the positions and the number of bytes it zeroes.
CutOf(s, s_pos, e_pos) ==
    LET from == IF s_pos < 0 THEN 0 ELSE s_pos
        to   == IF e_pos < 0 THEN 0 ELSE e_pos
        n    == length(s) - from - to + 1
    IN  IF n > 0 THEN n ELSE 0

CutMem(r, from, cut) == From(Copy(r.mem, r.len + 1 - cut, Zeros(cut)), from)

LEMMA SubstringIs ==
    ASSUME NEW s \in Formed, InBounds(s), ~s.m_sso, s.srep # None, length(s) # 0,
           NEW s_pos \in Int, NEW e_pos \in Int, NEW from \in Nat,
           from = IF s_pos < 0 THEN 0 ELSE s_pos, from <= Len(s.srep.mem)
    PROVE  /\ CutOf(s, s_pos, e_pos) \in Nat
           /\ CutMem(s.srep, from, CutOf(s, s_pos, e_pos)) \in Seq(Char)
           /\ Substring(s, s_pos, e_pos) =
                  Rewritten(s, CutMem(s.srep, from, CutOf(s, s_pos, e_pos)),
                            Uint(s.srep.len - from - CutOf(s, s_pos, e_pos)),
                            Uint(s.srep.free + CutOf(s, s_pos, e_pos)))
<1> DEFINE r == s.srep
           cut == CutOf(s, s_pos, e_pos)
           z == Zeros(cut)
           m == Copy(r.mem, r.len + 1 - cut, z)
<1>1. s \in Strings /\ Readable(s)
  BY Cases
<1>2. /\ r \in Blocks /\ r # None /\ r.len + 1 <= Len(r.mem) /\ Len(r.mem) \in Nat
      /\ r.len \in Nat /\ r.mem \in Seq(Char) /\ length(s) = Len(TextOf(s)) /\ r.len = Len(TextOf(s))
  BY <1>1, HeapSays DEF Blocks, Char
<1>3. Inside(r, r.len + 1) /\ Inside(r, from)
  BY <1>2 DEF Inside
<1>4. cut \in Nat
  BY <1>2 DEF CutOf
<1>5. Substring(s, s_pos, e_pos) =
          Rewritten(s, CutMem(r, from, cut), Uint(r.len - from - cut), Uint(r.free + cut))
  BY <1>3 DEF Substring, Rewritten, CutMem, CutOf
<1> HIDE DEF cut
<1>6. z \in Seq(Char)
  BY <1>4, ZerosHold
<1> HIDE DEF z
<1>7. m \in Seq(Char) /\ Len(m) = Len(r.mem)
  <2>1. r.len + 1 - cut \in Int
    BY <1>2, <1>4
  <2>2. QED
    BY <1>2, <1>6, <2>1, CopyLength
<1>8. CutMem(r, from, cut) = From(m, from)
  BY DEF CutMem, m, z
<1> HIDE DEF m
<1>9. From(m, from) \in Seq(Char)
  BY <1>7 DEF From
<1>10. QED
  BY <1>4, <1>5, <1>8, <1>9 DEF cut

\* From a position that is not negative, substr starts where it is told to.
LEMMA SubstringAt ==
    ASSUME NEW s \in Formed, InBounds(s), ~s.m_sso, s.srep # None, length(s) # 0,
           NEW p \in Nat, NEW n \in Int, p <= Len(s.srep.mem)
    PROVE  /\ CutMem(s.srep, p, CutOf(s, p, n)) \in Seq(Char)
           /\ Substring(s, p, n) = Rewritten(s, CutMem(s.srep, p, CutOf(s, p, n)),
                                            Uint(s.srep.len - p - CutOf(s, p, n)),
                                            Uint(s.srep.free + CutOf(s, p, n)))
<1>1. p \in Int /\ p = (IF p < 0 THEN 0 ELSE p)
  OBVIOUS
<1>2. QED
  BY <1>1, SubstringIs

LEMMA SubstringTyped ==
    ASSUME NEW s \in Formed, InBounds(s), NEW s_pos \in Int, NEW e_pos \in Int
    PROVE  Substring(s, s_pos, e_pos) \in Formed \cup {Undefined}
<1> DEFINE from == IF s_pos < 0 THEN 0 ELSE s_pos
           cut == CutOf(s, s_pos, e_pos)
<1>1. from \in Nat
  OBVIOUS
<1>2. CASE length(s) = 0 \/ s.m_sso \/ s.srep = None \/ ~(from <= Len(s.srep.mem))
  <2>1. s.srep = None \/ ~(from <= Len(s.srep.mem)) => ~Inside(s.srep, from)
    BY DEF Inside
  <2>2. QED
    BY <1>2, <2>1 DEF Substring
<1>3. CASE length(s) # 0 /\ ~s.m_sso /\ s.srep # None /\ from <= Len(s.srep.mem)
  <2> DEFINE mem == CutMem(s.srep, from, cut)
             len == Uint(s.srep.len - from - cut)
             free == Uint(s.srep.free + cut)
  <2>1. cut \in Nat /\ mem \in Seq(Char) /\ Substring(s, s_pos, e_pos) = Rewritten(s, mem, len, free)
    BY <1>1, <1>3, SubstringIs
  <2>2. s \in Strings /\ Plain(s.sso_buf) /\ s.srep \in Blocks
    BY <1>3, Cases
  <2> HIDE DEF from, cut
  <2>3. len \in Nat /\ free \in Nat
    <3>1. s.srep.len - from - cut \in Int /\ s.srep.free + cut \in Int
      BY <1>1, <2>1, <2>2 DEF Blocks
    <3>2. QED
      BY <3>1, UintIs
  <2> HIDE DEF mem, len, free
  <2>4. Rewritten(s, mem, len, free) \in Strings /\ Rewritten(s, mem, len, free).sso_buf = s.sso_buf
    BY <2>1, <2>2, <2>3, RewrittenIs
  <2>5. QED
    BY <2>1, <2>2, <2>4 DEF Formed
<1>4. QED
  BY <1>2, <1>3

\* Copying no bytes changes none.
LEMMA NothingCopied ==
    ASSUME NEW mem \in Seq(Char), NEW at \in Int
    PROVE  Copy(mem, at, Zeros(0)) = mem
<1>1. DOMAIN Zeros(0) = {}
  BY DEF Zeros
<1>2. QED
  BY <1>1 DEF Copy

\* With a range up to the end, substr makes the rest of a sound string.
LEMMA SubstringRest ==
    ASSUME NEW s \in Formed, InBounds(s), ~s.m_sso, Sane(s),
           NEW p \in Nat, NEW n \in Nat, p <= length(s), n > length(s) - p
    PROVE  IsString(Substring(s, p, n), From(TextOf(s), p))
<1> DEFINE r == s.srep
           t == TextOf(s)
<1>1. s \in Strings /\ Readable(s)
  BY Cases DEF Sane
<1>2. /\ r \in Blocks /\ r # None /\ r.len + 1 <= Len(r.mem) /\ Len(r.mem) \in Nat
      /\ r.len \in Nat /\ r.free \in Nat /\ r.mem \in Seq(Char) /\ length(s) = Len(t) /\ r.len = Len(t)
      /\ t \in Seq(Chars)
  BY <1>1, HeapSays DEF Blocks, Char, Holds
<1>3. Holds(r.mem, t, r.len + r.free)
  BY <1>1, HeapSound
<1>4. CASE length(s) = 0
  <2>1. Substring(s, p, n) = s
    BY <1>2, <1>4 DEF Substring
  <2>2. p = 0
    BY <1>2, <1>4
  <2>3. From(t, 0) = t
    BY <1>2 DEF From
  <2>4. IsString(s, t)
    BY DEF IsString
  <2>5. QED
    BY <2>1, <2>2, <2>3, <2>4
<1>5. CASE length(s) # 0
  <2> DEFINE cut == CutOf(s, p, n)
             mem == From(r.mem, p)
             len == r.len - p
             cap == r.len + r.free
             new == Rewritten(s, mem, len, r.free)
  <2>1. cut = 0
    BY <1>2 DEF CutOf
  <2>2. p = (IF p < 0 THEN 0 ELSE p) /\ p \in Int /\ n \in Int
    OBVIOUS
  <2>3. p <= Len(r.mem)
    BY <1>2
  <2>4. /\ CutMem(r, p, cut) \in Seq(Char)
        /\ Substring(s, p, n) = Rewritten(s, CutMem(r, p, cut), Uint(r.len - p - cut), Uint(r.free + cut))
    <3>1. s.srep # None /\ length(s) # 0 /\ p <= Len(s.srep.mem) /\ n \in Int
      BY <1>2, <1>5, <2>2, <2>3
    <3> HIDE DEF r, t, cut, mem, len, cap, new
    <3>2. /\ CutMem(s.srep, p, CutOf(s, p, n)) \in Seq(Char)
          /\ Substring(s, p, n) = Rewritten(s, CutMem(s.srep, p, CutOf(s, p, n)),
                                           Uint(s.srep.len - p - CutOf(s, p, n)),
                                           Uint(s.srep.free + CutOf(s, p, n)))
      BY <3>1, SubstringAt
    <3>3. QED
      BY <3>2 DEF r, cut
  <2>5. CutMem(r, p, 0) = mem
    <3>1. r.len + 1 - 0 \in Int
      BY <1>2
    <3>2. QED
      BY <1>2, <3>1, NothingCopied DEF CutMem
  <2>6. Uint(r.len - p - 0) = r.len - p /\ Uint(r.free + 0) = r.free
    <3>1. r.len <= MaxLen /\ r.free <= MaxFree
      BY <1>2, Cases
    <3>2. r.len - p - 0 \in 0 .. (UintValues - 1) /\ r.free + 0 \in 0 .. (UintValues - 1)
      BY <1>2, <3>1, StringAssumption
    <3>3. Uint(r.len - p - 0) = r.len - p - 0 /\ Uint(r.free + 0) = r.free + 0
      BY <3>2, UintIs
    <3>4. QED
      BY <1>2, <3>3
  <2>7. Substring(s, p, n) = new
    BY <2>1, <2>4, <2>5, <2>6
  <2>8. Holds(mem, From(t, p), cap - p) /\ Len(From(t, p)) = Len(t) - p
    <3>1. p \in 0 .. Len(t) /\ Holds(r.mem, t, cap)
      BY <1>2, <1>3
    <3> HIDE DEF r, t, cap
    <3>2. QED
      BY <3>1, FromHolds
  <2>9. mem \in Seq(Char) /\ len \in Nat
    BY <1>2, <2>1, <2>4, <2>5
  <2>10. len + r.free = cap - p /\ len = Len(From(t, p))
    BY <1>2, <2>8
  <2> HIDE DEF mem, len
  <2>11. /\ new \in Strings /\ ~new.m_sso /\ new.srep \in Blocks
         /\ new.srep.mem = mem /\ new.srep.len = len /\ new.srep.free = r.free
    <3> DEFINE free == r.free
    <3>1. free \in Nat /\ s.srep \in Blocks
      BY <1>2
    <3> HIDE DEF free
    <3>2. new = Rewritten(s, mem, len, free)
      BY DEF free
    <3> HIDE DEF new
    <3>3. /\ new \in Strings /\ new.m_sso = s.m_sso /\ new.srep \in Blocks
          /\ new.srep.mem = mem /\ new.srep.len = len /\ new.srep.free = free
      BY <1>1, <2>9, <3>1, <3>2, RewrittenIs
    <3>4. QED
      BY <3>3 DEF free
  <2> HIDE DEF new, cap
  <2>12. Holds(new.srep.mem, From(t, p), new.srep.len + new.srep.free) /\ new.srep.len = Len(From(t, p))
    BY <2>8, <2>10, <2>11
  <2>13. QED
    BY <2>7, <2>11, <2>12, HeapIs
<1>6. QED
  BY <1>4, <1>5
-----------------------------------------------------------------------------
(***************************************************************************)
(* Copies, moves and assignments.                                          *)
(***************************************************************************)

\* The copy constructor makes the text of a heap string anew.
LEMMA CopyMade ==
    ASSUME NEW t \in Formed, InBounds(t), ~t.m_sso, Readable(t)
    PROVE  IsString(CopyOf(t), TextOf(t)) /\ CopyOf(t) \in Formed
<1> DEFINE text == TextOf(t)
<1>1. t \in Strings
  BY Cases
<1>2. /\ t.srep \in Blocks /\ t.srep # None /\ t.srep.len = Len(text) /\ Bytes(t.srep) = text
      /\ t.srep.len + 1 <= Len(t.srep.mem) /\ Len(t.srep.mem) \in Nat /\ t.srep.len \in Nat
      /\ text \in Seq(Chars)
  BY <1>1, HeapSays DEF Holds
<1>3. Inside(t.srep, t.srep.len)
  BY <1>2 DEF Inside
<1>4. CopyOf(t) = FromLiteral(text, TRUE)
  BY <1>2, <1>3 DEF CopyOf, FromLiteral
<1>5. Len(text) < UintValues
  <2>1. t.srep.len <= MaxLen
    BY <1>2, Cases
  <2>2. QED
    BY <1>2, <2>1, StringAssumption
<1> HIDE DEF text
<1>6. QED
  BY <1>2, <1>4, <1>5, LiteralMade DEF text

LEMMA CopyTyped ==
    ASSUME NEW t \in Formed, InBounds(t)
    PROVE  CopyOf(t) \in Formed \cup {Undefined}
<1>1. CASE t.m_sso \/ t.srep = None
  BY <1>1 DEF CopyOf, Inside
<1>2. CASE ~t.m_sso /\ t.srep # None
  <2>1. Readable(t)
    BY <1>2, Cases
  <2>2. QED
    BY <1>2, <2>1, CopyMade
<1>3. QED
  BY <1>1, <1>2

\* The move constructor takes over the block, or copies the small text.
LEMMA MoveMade ==
    ASSUME NEW t \in Formed
    PROVE  /\ MovedFrom(t) \in Formed /\ Left(t) \in Formed
           /\ Sane(t) => IsString(MovedFrom(t), TextOf(t))
<1>1. t \in Strings /\ Plain(t.sso_buf)
  BY DEF Formed
<1>2. CASE t.m_sso
  <2> DEFINE u == TextOf(t)
             buf == Copy(Zeros(SSO_SIZE + 1), 0, u)
             new == [m_sso |-> TRUE, sso_buf |-> buf, srep |-> None]
  <2>1. CString(t.sso_buf) = u /\ Holds(t.sso_buf, u, SSO_SIZE)
    BY <1>2, SmallSays
  <2>2. u \in Seq(Chars) /\ Len(u) <= SSO_SIZE
    BY <2>1 DEF Holds
  <2>3. MovedFrom(t) = new
    BY <1>2, <2>1 DEF MovedFrom, Blanked
  <2> HIDE DEF u
  <2>4. Holds(buf, u, SSO_SIZE) /\ Len(buf) = SSO_SIZE + 1
    BY <2>2, CopiedFirst, StringAssumption
  <2> HIDE DEF buf
  <2>5. new \in Strings /\ new.m_sso /\ new.sso_buf = buf
    BY <2>4 DEF Strings, Holds, Char
  <2> HIDE DEF new
  <2>6. IsString(new, u) /\ new \in Formed
    BY <2>4, <2>5, SmallIs
  <2>7. QED
    BY <1>2, <2>3, <2>6 DEF u, Left
<1>3. CASE ~t.m_sso
  <2> DEFINE z == Zeros(SSO_SIZE + 1)
             new == [m_sso |-> FALSE, sso_buf |-> z, srep |-> t.srep]
             old == [t EXCEPT !.srep = None]
  <2>1. z \in Seq(Char) /\ Plain(z)
    BY BlankedIs
  <2>2. MovedFrom(t) = new /\ Left(t) = old
    BY <1>3 DEF MovedFrom, Blanked, Left
  <2> HIDE DEF z
  <2>3. new \in Strings /\ ~new.m_sso /\ new.sso_buf = z /\ new.srep = t.srep
    BY <1>1, <2>1 DEF Strings, Char
  <2>4. old \in Strings /\ old.sso_buf = t.sso_buf
    BY <1>1 DEF Strings
  <2>5. new \in Formed /\ old \in Formed
    BY <1>1, <2>1, <2>3, <2>4 DEF Formed
  <2> HIDE DEF new, old
  <2>6. Sane(t) => IsString(new, TextOf(t))
    <3> SUFFICES ASSUME Sane(t) PROVE IsString(new, TextOf(t))
      OBVIOUS
    <3>1. Readable(t)
      BY DEF Sane
    <3>2. t.srep \in Blocks /\ t.srep.len = Len(TextOf(t))
      BY <1>1, <1>3, <3>1, HeapSays
    <3>3. Holds(t.srep.mem, TextOf(t), t.srep.len + t.srep.free)
      BY <1>1, <1>3, HeapSound
    <3>4. QED
      BY <2>3, <3>2, <3>3, HeapIs
  <2>7. QED
    BY <2>2, <2>5, <2>6
<1>4. QED
  BY <1>2, <1>3

\* Copy assignment of a small string.
LEMMA CopyAssignSmall ==
    ASSUME NEW s \in Formed, NEW t \in Formed, t.m_sso
    PROVE  IsString(CopyAssigned(s, t), TextOf(t)) /\ CopyAssigned(s, t) \in Formed
<1> DEFINE u == TextOf(t)
           z == Zeros(SSO_SIZE + 1)
           x == [s EXCEPT !.srep = None, !.m_sso = TRUE, !.sso_buf = z]
<1>1. s \in Strings
  BY DEF Formed
<1>2. CString(t.sso_buf) = u /\ Holds(t.sso_buf, u, SSO_SIZE)
  BY SmallSays
<1>3. u \in Seq(Chars) /\ Len(u) <= SSO_SIZE
  BY <1>2 DEF Holds
<1>4. z \in Seq(Char) /\ Len(z) = SSO_SIZE + 1 /\ Holds(z, <<>>, SSO_SIZE)
  BY BlankedIs DEF Plain
<1>5. CopyAssigned(s, t) = Put(x, 0, u)
  BY <1>2 DEF CopyAssigned
<1> HIDE DEF u, z
<1>6. x \in Strings /\ x.m_sso /\ x.sso_buf = z
  BY <1>1, <1>4 DEF Strings, Char
<1> HIDE DEF x
<1>7. Len(<<>>) = 0 /\ Len(<<>>) + Len(u) <= SSO_SIZE /\ <<>> \o u = u
  BY <1>3
<1>8. IsString(Put(x, Len(<<>>), u), <<>> \o u) /\ Put(x, Len(<<>>), u) \in Formed
  BY <1>3, <1>4, <1>6, <1>7, PutSmall
<1>9. QED
  BY <1>5, <1>7, <1>8 DEF u

\* Copy assignment of a heap string to one that is on the heap.
LEMMA CopyAssignHeap ==
    ASSUME NEW s \in Formed, ~s.m_sso, NEW t \in Formed, InBounds(t), ~t.m_sso, Readable(t)
    PROVE  /\ CopyAssigned(s, t) \in Formed
           /\ Readable(CopyAssigned(s, t)) /\ TextOf(CopyAssigned(s, t)) = TextOf(t)
           /\ Sane(CopyAssigned(s, t)) <=> t.srep.free = 0
<1> DEFINE u == TextOf(t)
           b == Block(t.srep.len, u)
           f == [b EXCEPT !.free = t.srep.free]
           new == [s EXCEPT !.srep = f]
<1>1. s \in Strings /\ Plain(s.sso_buf) /\ t \in Strings
  BY DEF Formed
<1>2. /\ t.srep \in Blocks /\ t.srep # None /\ t.srep.len = Len(u) /\ Bytes(t.srep) = u
      /\ t.srep.len + 1 <= Len(t.srep.mem) /\ Len(t.srep.mem) \in Nat /\ t.srep.len \in Nat
      /\ t.srep.free \in Nat /\ u \in Seq(Chars)
  BY <1>1, HeapSays DEF Holds
<1>3. Inside(t.srep, t.srep.len)
  BY <1>2 DEF Inside
<1>4. CopyAssigned(s, t) = new
  BY <1>2, <1>3 DEF CopyAssigned
<1> HIDE DEF u
<1>5. b \in Blocks /\ Holds(b.mem, u, t.srep.len) /\ b.len = Len(u) /\ Len(b.mem) = t.srep.len + 1
  <2>1. Len(u) <= t.srep.len
    BY <1>2
  <2>2. QED
    BY <1>2, <2>1, BlockHolds
<1> HIDE DEF b
<1>6. f \in Blocks /\ f.mem = b.mem /\ f.len = b.len /\ f.free = t.srep.free
  BY <1>2, <1>5 DEF Blocks
<1> HIDE DEF f
<1>7. new \in Strings /\ ~new.m_sso /\ new.srep = f /\ new.sso_buf = s.sso_buf
  BY <1>1, <1>6 DEF Strings
<1>8. new \in Formed
  BY <1>1, <1>7 DEF Formed
<1> HIDE DEF new
<1>9. t.srep.free = 0 => IsString(new, u)
  <2> SUFFICES ASSUME t.srep.free = 0 PROVE IsString(new, u)
    OBVIOUS
  <2>1. new.srep.len = Len(u) /\ new.srep.len + new.srep.free = t.srep.len /\ new.srep.mem = b.mem
    BY <1>2, <1>5, <1>6, <1>7
  <2>2. Holds(new.srep.mem, u, new.srep.len + new.srep.free) /\ new.srep \in Blocks
    BY <1>5, <1>6, <1>7, <2>1
  <2>3. QED
    BY <1>7, <2>1, <2>2, HeapIs
<1>10. Readable(new) /\ TextOf(new) = u
  BY <1>2, <1>5, <1>6, <1>7, HeapReads
<1>11. Sane(new) => t.srep.free = 0
  <2> SUFFICES ASSUME Sane(new) PROVE t.srep.free = 0
    OBVIOUS
  <2>1. new.srep.len + new.srep.free < Len(new.srep.mem)
    BY <1>7, HeapSound
  <2>2. QED
    BY <1>2, <1>5, <1>6, <1>7, <2>1
<1>12. t.srep.free = 0 => Sane(new)
  BY <1>9 DEF IsString
<1>13. QED
  BY <1>4, <1>8, <1>10, <1>11, <1>12 DEF u

LEMMA CopyAssignTyped ==
    ASSUME NEW s \in Formed, NEW t \in Formed, InBounds(t)
    PROVE  CopyAssigned(s, t) \in Formed \cup {Undefined}
<1>1. CASE t.m_sso
  BY <1>1, CopyAssignSmall
<1>2. CASE ~t.m_sso /\ t.srep = None
  BY <1>2 DEF CopyAssigned, Inside
<1>3. CASE ~t.m_sso /\ t.srep # None /\ s.m_sso
  BY <1>3 DEF CopyAssigned
<1>4. CASE ~t.m_sso /\ t.srep # None /\ ~s.m_sso
  <2>1. Readable(t)
    BY <1>4, Cases
  <2>2. QED
    BY <1>4, <2>1, CopyAssignHeap
<1>5. QED
  BY <1>1, <1>2, <1>3, <1>4

LEMMA SelfAssignTyped ==
    ASSUME NEW s \in Formed, InBounds(s)
    PROVE  SelfAssigned(s) \in Formed \cup {Undefined}
<1>1. s \in Strings /\ Plain(s.sso_buf)
  BY DEF Formed
<1>2. CASE s.m_sso
  <2> DEFINE z == Zeros(SSO_SIZE + 1)
             new == [s EXCEPT !.srep = None, !.sso_buf = z]
  <2>1. z \in Seq(Char) /\ Plain(z)
    BY BlankedIs
  <2>2. SelfAssigned(s) = new
    BY <1>2 DEF SelfAssigned
  <2> HIDE DEF z
  <2>3. new \in Strings /\ new.sso_buf = z
    BY <1>1, <2>1 DEF Strings, Char
  <2>4. QED
    BY <2>1, <2>2, <2>3 DEF Formed
<1>3. CASE ~s.m_sso /\ s.srep = None
  BY <1>3 DEF SelfAssigned, Inside
<1>4. CASE ~s.m_sso /\ s.srep # None
  <2> DEFINE u == TextOf(s)
             b == Block(s.srep.len, u)
             f == [b EXCEPT !.len = 0, !.free = 0]
             new == [s EXCEPT !.srep = f]
  <2>1. Readable(s)
    BY <1>4, Cases
  <2>2. /\ s.srep \in Blocks /\ s.srep.len = Len(u) /\ Bytes(s.srep) = u
        /\ s.srep.len + 1 <= Len(s.srep.mem) /\ Len(s.srep.mem) \in Nat /\ s.srep.len \in Nat
        /\ u \in Seq(Chars)
    BY <1>1, <1>4, <2>1, HeapSays DEF Holds
  <2>3. Inside(s.srep, s.srep.len)
    BY <1>4, <2>2 DEF Inside
  <2>4. SelfAssigned(s) = new
    BY <1>4, <2>2, <2>3 DEF SelfAssigned
  <2> HIDE DEF u
  <2>5. b \in Blocks
    <3>1. Len(u) <= s.srep.len
      BY <2>2
    <3>2. QED
      BY <2>2, <3>1, BlockHolds
  <2> HIDE DEF b
  <2>6. f \in Blocks
    BY <2>5 DEF Blocks
  <2> HIDE DEF f
  <2>7. new \in Strings /\ new.sso_buf = s.sso_buf
    BY <1>1, <2>6 DEF Strings
  <2>8. QED
    BY <1>1, <2>4, <2>7 DEF Formed
<1>5. QED
  BY <1>2, <1>3, <1>4

\* Move assignment leaves an object behind.
LEMMA MoveAssignTyped ==
    ASSUME NEW s \in Formed, InBounds(s), NEW t \in Formed
    PROVE  MoveAssigned(s, t) \in Formed \cup {Undefined}
<1>1. t \in Strings /\ s \in Strings /\ Plain(s.sso_buf)
  BY DEF Formed
<1>2. CASE t.m_sso /\ clear(s) = Undefined
  BY <1>2 DEF MoveAssigned
<1>3. CASE t.m_sso /\ clear(s) # Undefined
  <2> DEFINE u == TextOf(t)
             c == clear(s)
             x == [c EXCEPT !.m_sso = TRUE, !.srep = None]
  <2>1. CString(t.sso_buf) = u /\ Holds(t.sso_buf, u, SSO_SIZE)
    BY <1>3, SmallSays
  <2>2. u \in Seq(Chars) /\ Len(u) <= SSO_SIZE
    BY <2>1 DEF Holds
  <2>3. MoveAssigned(s, t) = Put(x, 0, u)
    BY <1>3, <2>1 DEF MoveAssigned
  <2>4. c \in Strings /\ Plain(c.sso_buf)
    BY <1>3, ClearTyped DEF Formed
  <2> HIDE DEF c, u
  <2>5. x \in Strings /\ x.m_sso /\ x.sso_buf = c.sso_buf
    BY <2>4 DEF Strings
  <2> HIDE DEF x
  <2>6. x \in Formed
    BY <2>4, <2>5 DEF Formed
  <2>7. QED
    BY <2>2, <2>3, <2>5, <2>6, PutOver
<1>4. CASE ~t.m_sso
  <2> DEFINE new == [s EXCEPT !.srep = t.srep, !.m_sso = FALSE]
  <2>1. MoveAssigned(s, t) = new
    BY <1>4 DEF MoveAssigned
  <2>2. new \in Strings /\ new.sso_buf = s.sso_buf
    BY <1>1 DEF Strings
  <2>3. QED
    BY <1>1, <2>1, <2>2 DEF Formed
<1>5. QED
  BY <1>2, <1>3, <1>4

\* And the string that was moved, if nothing is left in the small buffer.
LEMMA MovesText ==
    ASSUME NEW s \in Formed, InBounds(s), NEW t \in Formed, Sane(t), Assignable(s) \/ ~t.m_sso
    PROVE  IsString(MoveAssigned(s, t), TextOf(t))
<1>1. t \in Strings /\ s \in Strings
  BY DEF Formed
<1>2. CASE t.m_sso
  <2> DEFINE u == TextOf(t)
             c == clear(s)
             z == Zeros(SSO_SIZE + 1)
             x == [c EXCEPT !.m_sso = TRUE, !.srep = None]
  <2>1. CString(t.sso_buf) = u /\ Holds(t.sso_buf, u, SSO_SIZE)
    BY <1>2, SmallSays
  <2>2. u \in Seq(Chars) /\ Len(u) <= SSO_SIZE
    BY <2>1 DEF Holds
  <2>3. Sane(s) /\ (s.m_sso \/ s.sso_buf = z)
    BY <1>2 DEF Assignable
  <2>4. c # Undefined
    BY <2>3, Cleared DEF IsString, Sane, Readable
  <2>5. c \in Strings /\ c.sso_buf = z
    BY <2>3, <2>4, ClearTyped DEF Formed
  <2>6. MoveAssigned(s, t) = Put(x, 0, u)
    BY <1>2, <2>1, <2>4 DEF MoveAssigned
  <2>7. Len(z) = SSO_SIZE + 1 /\ Holds(z, <<>>, SSO_SIZE)
    BY BlankedIs DEF Plain
  <2> HIDE DEF c, u, z
  <2>8. x \in Strings /\ x.m_sso /\ x.sso_buf = z
    BY <2>5 DEF Strings
  <2> HIDE DEF x
  <2>9. Len(<<>>) = 0 /\ Len(<<>>) + Len(u) <= SSO_SIZE /\ <<>> \o u = u
    BY <2>2
  <2>10. IsString(Put(x, Len(<<>>), u), <<>> \o u)
    BY <2>2, <2>7, <2>8, <2>9, PutSmall
  <2>11. QED
    BY <2>6, <2>9, <2>10 DEF u
<1>3. CASE ~t.m_sso
  <2> DEFINE new == [s EXCEPT !.srep = t.srep, !.m_sso = FALSE]
  <2>1. MoveAssigned(s, t) = new
    BY <1>3 DEF MoveAssigned
  <2>2. new \in Strings /\ ~new.m_sso /\ new.srep = t.srep
    BY <1>1 DEF Strings
  <2> HIDE DEF new
  <2>3. Readable(t)
    BY DEF Sane
  <2>4. t.srep \in Blocks /\ t.srep.len = Len(TextOf(t))
    BY <1>1, <1>3, <2>3, HeapSays
  <2>5. Holds(t.srep.mem, TextOf(t), t.srep.len + t.srep.free)
    BY <1>1, <1>3, HeapSound
  <2>6. QED
    BY <2>1, <2>2, <2>4, <2>5, HeapIs
<1>4. QED
  BY <1>2, <1>3

LEMMA SelfMoveTyped ==
    ASSUME NEW s \in Formed, InBounds(s)
    PROVE  SelfMoved(s) \in Formed \cup {Undefined}
<1>1. CASE s.m_sso
  BY <1>1, ClearTyped DEF SelfMoved
<1>2. CASE ~s.m_sso
  <2> DEFINE new == [s EXCEPT !.srep = None]
  <2>1. s \in Strings /\ Plain(s.sso_buf)
    BY DEF Formed
  <2>2. new \in Strings /\ new.sso_buf = s.sso_buf
    BY <2>1 DEF Strings
  <2>3. QED
    BY <1>2, <2>1, <2>2 DEF SelfMoved, Formed
<1>3. QED
  BY <1>1, <1>2
-----------------------------------------------------------------------------
(***************************************************************************)
(* The inductive invariant: every object whose behaviour is defined has    *)
(* its fields as the class makes them, and text and zeros in its small     *)
(* buffer.                                                                 *)
(***************************************************************************)
IInv == str \in [Objects -> Formed \cup {Undefined}]

\* The objects of a program that is still followed.
LEMMA Followed ==
    ASSUME IInv, Running, NEW o \in Objects
    PROVE  str[o] \in Formed /\ InBounds(str[o])
<1>1. str[o] \in Formed \cup {Undefined} /\ InBounds(str[o])
  BY DEF IInv, Running
<1>2. QED
  BY <1>1 DEF InBounds

LEMMA BecomesKeeps ==
    ASSUME IInv, NEW o \in Objects, NEW s \in Formed \cup {Undefined}, Becomes(o, s)
    PROVE  IInv'
  BY DEF IInv, Becomes

LEMMA BothKeep ==
    ASSUME IInv, NEW o \in Objects, NEW p \in Objects,
           NEW s \in Formed \cup {Undefined}, NEW t \in Formed,
           str' = [str EXCEPT ![o] = s, ![p] = t]
    PROVE  IInv'
  BY DEF IInv

\* A text of the program is not too long for 32 bits, nor for an append.
LEMMA LiteralFits ==
    ASSUME NEW text \in Literals
    PROVE  text \in Seq(Chars) /\ Len(text) < UintValues /\ Len(text) <= MaxLen
<1>1. text \in Seq(Chars) /\ Len(text) <= MaxLen /\ Len(text) \in Nat
  BY StringAssumption
<1>2. QED
  BY <1>1, StringAssumption

LEMMA ConstructKeeps ==
    ASSUME IInv, Running, NEW o \in Objects, Construct(o)
    PROVE  IInv'
<1>1. ASSUME NEW n \in Sizes, NEW do_sso \in BOOLEAN, ConstructSize(o, n, do_sso)
      PROVE  IInv'
  <2>1. n \in Nat
    BY StringAssumption
  <2>2. FromSize(n, do_sso) \in Formed
    BY <2>1, SizeMade
  <2>3. QED
    BY <1>1, <2>2, BecomesKeeps DEF ConstructSize
<1>2. ASSUME NEW text \in Literals, NEW do_sso \in BOOLEAN, ConstructLiteral(o, text, do_sso)
      PROVE  IInv'
  <2>1. FromLiteral(text, do_sso) \in Formed
    BY LiteralFits, LiteralMade
  <2>2. QED
    BY <1>2, <2>1, BecomesKeeps DEF ConstructLiteral
<1>3. ASSUME NEW p \in Objects, CopyConstruct(o, p) PROVE IInv'
  <2>1. CopyOf(str[p]) \in Formed \cup {Undefined}
    BY Followed, CopyTyped
  <2>2. QED
    BY <1>3, <2>1, BecomesKeeps DEF CopyConstruct
<1>4. ASSUME NEW p \in Objects, MoveConstruct(o, p) PROVE IInv'
  <2>1. MovedFrom(str[p]) \in Formed /\ Left(str[p]) \in Formed
    BY Followed, MoveMade
  <2>2. QED
    BY <1>4, <2>1, BothKeep DEF MoveConstruct
<1>5. QED
  BY <1>1, <1>2, <1>3, <1>4 DEF Construct

LEMMA AssignKeeps ==
    ASSUME IInv, Running, NEW o \in Objects, Assign(o)
    PROVE  IInv'
<1>1. ASSUME NEW p \in Objects, CopyAssign(o, p) PROVE IInv'
  <2>1. /\ SelfAssigned(str[o]) \in Formed \cup {Undefined}
        /\ CopyAssigned(str[o], str[p]) \in Formed \cup {Undefined}
    BY Followed, SelfAssignTyped, CopyAssignTyped
  <2>2. QED
    BY <1>1, <2>1, BecomesKeeps DEF CopyAssign
<1>2. ASSUME NEW p \in Objects, MoveAssign(o, p) PROVE IInv'
  <2>1. CASE o # p /\ str' = [str EXCEPT ![o] = MoveAssigned(str[o], str[p]), ![p] = Left(str[p])]
    <3>1. MoveAssigned(str[o], str[p]) \in Formed \cup {Undefined} /\ Left(str[p]) \in Formed
      BY Followed, MoveAssignTyped, MoveMade
    <3>2. QED
      BY <2>1, <3>1, BothKeep
  <2>2. CASE o = p /\ Becomes(o, SelfMoved(str[o]))
    <3>1. SelfMoved(str[o]) \in Formed \cup {Undefined}
      BY Followed, SelfMoveTyped
    <3>2. QED
      BY <2>2, <3>1, BecomesKeeps
  <2>3. QED
    BY <1>2, <2>1, <2>2 DEF MoveAssign
<1>3. ASSUME NEW text \in Literals, AssignLiteral(o, text) PROVE IInv'
  <2>1. FromLiteral(text, TRUE) \in Formed
    BY LiteralFits, LiteralMade
  <2>2. MoveAssigned(str[o], FromLiteral(text, TRUE)) \in Formed \cup {Undefined}
    BY <2>1, Followed, MoveAssignTyped
  <2>3. QED
    BY <1>3, <2>2, BecomesKeeps DEF AssignLiteral
<1>4. QED
  BY <1>1, <1>2, <1>3 DEF Assign

LEMMA EditKeeps ==
    ASSUME IInv, Running, NEW o \in Objects, Edit(o)
    PROVE  IInv'
<1>1. str[o] \in Formed /\ InBounds(str[o])
  BY Followed
<1>2. ASSUME NEW text \in Literals, AppendText(o, text) PROVE IInv'
  <2>1. Appended(str[o], text) \in Formed \cup {Undefined}
    BY <1>1, LiteralFits, AppendTyped
  <2>2. QED
    BY <1>2, <2>1, BecomesKeeps DEF AppendText
<1>3. CASE Clear(o)
  BY <1>1, <1>3, ClearTyped, BecomesKeeps DEF Clear
<1>4. CASE Trim(o)
  BY <1>1, <1>4, TrimTyped, BecomesKeeps DEF Trim
<1>5. CASE TrimMemEff(o)
  <2>1. PICK junk \in Chars \cup {Nul} : Becomes(o, TrimmedMemEff(str[o], junk))
    BY <1>5 DEF TrimMemEff
  <2>2. TrimmedMemEff(str[o], junk) \in Formed \cup {Undefined}
    BY <1>1, TrimMemEffTyped DEF Char
  <2>3. QED
    BY <2>1, <2>2, BecomesKeeps
<1>6. CASE Shrink(o)
  BY <1>1, <1>6, ShrinkTyped, BecomesKeeps DEF Shrink
<1>7. ASSUME NEW s_pos \in Positions, NEW e_pos \in Positions, Substr(o, s_pos, e_pos) PROVE IInv'
  <2>1. s_pos \in Int /\ e_pos \in Int
    BY StringAssumption
  <2>2. Substring(str[o], s_pos, e_pos) \in Formed \cup {Undefined}
    BY <1>1, <2>1, SubstringTyped
  <2>3. QED
    BY <1>7, <2>2, BecomesKeeps DEF Substr
<1>8. QED
  BY <1>2, <1>3, <1>4, <1>5, <1>6, <1>7 DEF Edit

\* The inductive invariant holds in every state of every program.
THEOREM Invariance == Spec => []IInv
<1>1. Init => IInv
  <2> SUFFICES ASSUME Init PROVE IInv
    OBVIOUS
  <2>1. FromSize(0, TRUE) \in Formed
    BY SizeMade
  <2>2. QED
    BY <2>1 DEF Init, IInv
<1>2. IInv /\ [Next]_vars => IInv'
  <2> SUFFICES ASSUME IInv, [Next]_vars PROVE IInv'
    OBVIOUS
  <2>1. CASE Stopped \/ UNCHANGED vars
    BY <2>1 DEF Stopped, vars, IInv
  <2>2. ASSUME Running, NEW o \in Objects, Construct(o) \/ Assign(o) \/ Edit(o) PROVE IInv'
    BY <2>2, ConstructKeeps, AssignKeeps, EditKeeps
  <2>3. QED
    BY <2>1, <2>2 DEF Next
<1>3. QED
  BY <1>1, <1>2, PTL DEF Spec

\* EditsAsAsked for any texts, bounds and number of strings: append, clear,
\* shrink_to_fit, trim and substr do what is asked of them, and trim goes
\* wrong in the two ways stated there.
THEOREM EditsHold == Spec => []EditsAsAsked
<1>1. IInv => EditsAsAsked
  <2> SUFFICES ASSUME IInv, Running, NEW o \in Objects
               PROVE  LET s == str[o]
                          exact == Len(s.srep.mem) = capacity(s) + 1
                      IN
                      /\ Sane(s) =>
                          /\ \A text \in Literals : IsString(Appended(s, text), TextOf(s) \o text)
                          /\ IsString(clear(s), <<>>)
                      /\ Readable(s) => IsString(shrink_to_fit(s), TextOf(s))
                      /\ ~s.m_sso /\ Readable(s) =>
                          /\ IF \E i \in DOMAIN TextOf(s) : TextOf(s)[i] # Blank
                             THEN Readable(Trimmed(s)) /\ TextOf(Trimmed(s)) = Stripped(TextOf(s))
                             ELSE Readable(Trimmed(s)) <=>
                                      Inside(s.srep, length(s) + 2) /\ s.srep.mem[length(s) + 2] = Nul
                          /\ Sane(s) /\ exact => ~Sane(Trimmed(s))
                          /\ \A p, n \in Positions \cap Nat :
                                  Sane(s) /\ p <= length(s) /\ n > length(s) - p =>
                                      IsString(Substring(s, p, n), From(TextOf(s), p))
    BY DEF EditsAsAsked
  <2> DEFINE s == str[o]
  <2>1. s \in Formed /\ InBounds(s)
    BY Followed
  <2> HIDE DEF s
  <2>2. ASSUME Sane(s), NEW text \in Literals PROVE IsString(Appended(s, text), TextOf(s) \o text)
    BY <2>1, <2>2, LiteralFits, AppendsText
  <2>3. Sane(s) => IsString(clear(s), <<>>)
    BY <2>1, Cleared
  <2>4. Readable(s) => IsString(shrink_to_fit(s), TextOf(s))
    BY <2>1, ShrinkKeeps
  <2>5. ~s.m_sso /\ Readable(s) /\ (\E i \in DOMAIN TextOf(s) : TextOf(s)[i] # Blank) =>
            Readable(Trimmed(s)) /\ TextOf(Trimmed(s)) = Stripped(TextOf(s))
    BY <2>1, TrimStrips
  <2>6. ASSUME ~s.m_sso, NEW p \in Positions \cap Nat, NEW n \in Positions \cap Nat,
               Sane(s), p <= length(s), n > length(s) - p
        PROVE  IsString(Substring(s, p, n), From(TextOf(s), p))
    BY <2>1, <2>6, SubstringRest
  <2>7. ~s.m_sso /\ Readable(s) /\ ~(\E i \in DOMAIN TextOf(s) : TextOf(s)[i] # Blank) =>
            (Readable(Trimmed(s)) <=>
                 Inside(s.srep, length(s) + 2) /\ s.srep.mem[length(s) + 2] = Nul)
    BY <2>1, TrimOfBlanks
  <2>8. ~s.m_sso /\ Readable(s) /\ Sane(s) /\ Len(s.srep.mem) = capacity(s) + 1 => ~Sane(Trimmed(s))
    BY <2>1, TrimClaims
  <2>9. QED
    BY <2>2, <2>3, <2>4, <2>5, <2>6, <2>7, <2>8 DEF s
<1>2. QED
  BY <1>1, Invariance, PTL

\* CopiesAsAsked for any texts, bounds and number of strings: constructors and
\* assignments make the string they are given, == compares texts, and copy
\* assignment goes wrong in the two ways stated there.
THEOREM CopiesHold == Spec => []CopiesAsAsked
<1>1. ASSUME NEW s \in Formed, InBounds(s), NEW text \in Literals, NEW do_sso \in BOOLEAN
      PROVE  LET literal == FromLiteral(text, do_sso)
             IN /\ IsString(literal, text)
                /\ Assignable(s) \/ ~literal.m_sso => IsString(MoveAssigned(s, literal), text)
  <2> DEFINE literal == FromLiteral(text, do_sso)
  <2>1. IsString(literal, text) /\ literal \in Formed
    BY LiteralFits, LiteralMade
  <2> HIDE DEF literal
  <2>2. Sane(literal) /\ TextOf(literal) = text
    BY <2>1 DEF IsString
  <2>3. Assignable(s) \/ ~literal.m_sso => IsString(MoveAssigned(s, literal), text)
    BY <1>1, <2>1, <2>2, MovesText
  <2>4. QED
    BY <2>1, <2>3 DEF literal
<1>2. ASSUME NEW s \in Formed, InBounds(s), NEW t \in Formed, InBounds(t), Readable(t)
      PROVE  /\ ~t.m_sso => IsString(CopyOf(t), TextOf(t))
             /\ LET copy == CopyAssigned(s, t)
                IN IF t.m_sso THEN IsString(copy, TextOf(t))
                   ELSE IF s.m_sso THEN TextOf(copy) = TextOf(s)
                   ELSE Readable(copy) /\ TextOf(copy) = TextOf(t) /\ (Sane(copy) <=> t.srep.free = 0)
             /\ Sane(t) => IsString(MovedFrom(t), TextOf(t))
             /\ Sane(t) /\ (Assignable(s) \/ ~t.m_sso) => IsString(MoveAssigned(s, t), TextOf(t))
             /\ Readable(s) => (Equal(s, t) <=> TextOf(s) = TextOf(t))
  <2>1. ~t.m_sso => IsString(CopyOf(t), TextOf(t))
    BY <1>2, CopyMade
  <2>2. LET copy == CopyAssigned(s, t)
        IN IF t.m_sso THEN IsString(copy, TextOf(t))
           ELSE IF s.m_sso THEN TextOf(copy) = TextOf(s)
           ELSE Readable(copy) /\ TextOf(copy) = TextOf(t) /\ (Sane(copy) <=> t.srep.free = 0)
    <3>1. CASE t.m_sso
      BY <1>2, <3>1, CopyAssignSmall
    <3>2. CASE ~t.m_sso /\ s.m_sso
      <4>1. Inside(t.srep, t.srep.len)
        <5>1. t \in Strings
          BY <1>2 DEF Formed
        <5>2. t.srep # None /\ t.srep.len + 1 <= Len(t.srep.mem) /\ t.srep.len \in Nat /\ Len(t.srep.mem) \in Nat
          BY <1>2, <3>2, <5>1, HeapSays
        <5>3. QED
          BY <5>2 DEF Inside
      <4>2. CopyAssigned(s, t) = s
        BY <3>2, <4>1 DEF CopyAssigned
      <4>3. QED
        BY <3>2, <4>2
    <3>3. CASE ~t.m_sso /\ ~s.m_sso
      BY <1>2, <3>3, CopyAssignHeap
    <3>4. QED
      BY <3>1, <3>2, <3>3
  <2>3. Sane(t) => IsString(MovedFrom(t), TextOf(t))
    BY <1>2, MoveMade
  <2>4. Sane(t) /\ (Assignable(s) \/ ~t.m_sso) => IsString(MoveAssigned(s, t), TextOf(t))
    BY <1>2, MovesText
  <2>5. Readable(s) => (Equal(s, t) <=> TextOf(s) = TextOf(t))
    <3>1. \A x \in Formed : Readable(x) =>
              /\ (IF x.m_sso THEN CString(x.sso_buf) ELSE Bytes(x.srep)) = TextOf(x)
              /\ length(x) = Len(TextOf(x))
      <4> TAKE x \in Formed
      <4>1. x \in Strings
        BY DEF Formed
      <4>2. QED
        BY <4>1, SmallSays, HeapSays
    <3>2. QED
      BY <1>2, <3>1 DEF Equal
  <2>6. QED
    BY <2>1, <2>2, <2>3, <2>4, <2>5
<1>3. IInv => CopiesAsAsked
  <2> SUFFICES ASSUME IInv, Running PROVE CopiesAsAsked
    BY DEF CopiesAsAsked
  <2>1. \A o \in Objects : str[o] \in Formed /\ InBounds(str[o])
    BY Followed
  <2>2. QED
    BY <1>1, <1>2, <2>1 DEF CopiesAsAsked
<1>4. QED
  BY <1>3, Invariance, PTL
=============================================================================
