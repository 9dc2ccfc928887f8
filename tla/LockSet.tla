------------------------------ MODULE LockSet ------------------------------
(***************************************************************************)
(* What the users of cuckoohash_map's lock helpers rely on: a thread takes *)
(* a whole set of bucket locks in one step, no lock is ever in the sets of *)
(* two threads, and a thread may later give part of its set back.          *)
(***************************************************************************)
CONSTANTS Threads,   \* the threads that use one TableInfo
          LockIds    \* the indexes of its locks_ array

VARIABLE owned       \* owned[t] is the set of locks thread t may rely on

Init == owned = [t \in Threads |-> {}]

Take(t, S) ==
    /\ owned[t] = {}
    /\ S \subseteq LockIds
    /\ \A u \in Threads : S \cap owned[u] = {}
    /\ owned' = [owned EXCEPT ![t] = S]

Give(t, S) ==
    /\ S \subseteq owned[t]
    /\ owned' = [owned EXCEPT ![t] = owned[t] \ S]

Next == \E t \in Threads : \E S \in SUBSET LockIds : Take(t, S) \/ Give(t, S)

Spec == Init /\ [][Next]_owned
=============================================================================
