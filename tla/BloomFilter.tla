----------------------------- MODULE BloomFilter -----------------------------
(***************************************************************************)
(* bloom_filter.h: a buffer of bytes, a byte being the set of its bits.    *)
(* insert assigns to the byte of each of a key's seeds instead of adding   *)
(* to it; can_have asks for the bits.                                      *)
(***************************************************************************)
EXTENDS Integers

CONSTANTS
    Keys,
    NumHashFuncs,    \* m_num_hash_funcs and m_num_bits, as the constructor
    NumBits,         \* computes them from the estimates
    Hash(_, _)       \* what m_hash returns for a key in round i, under the
                     \* seed of the round before

CHAR_BIT == 8

\* m_num_bytes
NumBytes == (NumBits \div CHAR_BIT) + (IF NumBits % CHAR_BIT # 0 THEN 1 ELSE 0)

Bytes == 0 .. (NumBytes - 1)

Rounds == 1 .. NumHashFuncs

\* A filter with room, and a hash function that returns a uint32_t.
Proper ==
    /\ NumBits \in Nat \ {0}
    /\ NumHashFuncs \in Nat
    /\ \A k \in Keys, i \in Rounds : Hash(k, i) \in Nat

Seed(k, i) == Hash(k, i) % NumBits

ByteOf(seed) == seed \div CHAR_BIT

BitOf(seed) == seed % CHAR_BIT

VARIABLES
    mp_bloom_buf,    \* the bits of each byte
    m_stored_items

vars == <<mp_bloom_buf, m_stored_items>>
-----------------------------------------------------------------------------
Init ==
    /\ mp_bloom_buf = [b \in Bytes |-> {}]
    /\ m_stored_items = 0

\* The rounds of insert that assign to byte b, and the one that does so last.
RoundsOn(k, b) == {i \in Rounds : ByteOf(Seed(k, i)) = b}

LastOn(k, b) == CHOOSE i \in RoundsOn(k, b) : \A j \in RoundsOn(k, b) : j <= i

Insert(k) ==
    /\ mp_bloom_buf' =
          [b \in Bytes |-> IF RoundsOn(k, b) = {} THEN mp_bloom_buf[b]
                           ELSE {BitOf(Seed(k, LastOn(k, b)))}]
    /\ m_stored_items' = m_stored_items + 1

can_have(k) == \A i \in Rounds : BitOf(Seed(k, i)) \in mp_bloom_buf[ByteOf(Seed(k, i))]

Next == \E k \in Keys : Insert(k)

Spec == Init /\ [][Next]_vars
-----------------------------------------------------------------------------
\* Keys k and l want the same bit of every byte that both of them use.
Agree(k, l) ==
    \A i, j \in Rounds :
        ByteOf(Seed(k, i)) = ByteOf(Seed(l, j)) => BitOf(Seed(k, i)) = BitOf(Seed(l, j))

(***************************************************************************)
(* A byte never holds two bits, so that a key with two bits in one byte is *)
(* not found, not even when it has just been inserted.                     *)
(***************************************************************************)
OneBitPerByte == \A b \in Bytes : \A m, n \in mp_bloom_buf[b] : m = n

NeverFound == \A k \in Keys : ~Agree(k, k) => ~can_have(k)

(***************************************************************************)
(* Any other key is found once it is inserted, and until a key is inserted *)
(* that wants another bit of one of its bytes.                             *)
(***************************************************************************)
FoundOnceInserted == [][\A k \in Keys : Insert(k) /\ Agree(k, k) => can_have(k)']_vars

FoundUntilOverwritten ==
    [][\A k, l \in Keys : Insert(l) /\ Agree(k, l) /\ can_have(k) => can_have(k)']_vars
=============================================================================
