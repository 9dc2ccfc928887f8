----------------------------- MODULE HashIndex -----------------------------
(***************************************************************************)
(* index_hash and alt_index of cuckoohash_map.hh: the two buckets of a     *)
(* hashed key, and partial_key, the part of the hash stored beside a key.  *)
(***************************************************************************)
EXTENDS Integers, Bitwise

hashsize(hp) == 2 ^ hp

index_hash(hp, hv) == hv % hashsize(hp)

(***************************************************************************)
(* (index ^ (tag * 0x5bd1e995)) & hashmask, tag = (hv >> hashpower) + 1.   *)
(* Only the low hp bits survive the mask, so the product is taken modulo   *)
(* 2^hp, as are its factors (1540483477 is 0x5bd1e995).                    *)
(***************************************************************************)
alt_index(hp, hv, index) ==
    LET size == hashsize(hp)
        tag  == (hv \div size) + 1
    IN (index ^^ (((tag % size) * (1540483477 % size)) % size)) % size

\* The upper bits of the hash, HashBits being the width of a hash value.
partial_key(HashBits, hv) == hv \div (2 ^ (HashBits - 2))
=============================================================================
