----------------------------- MODULE SortedMap -----------------------------
(***************************************************************************)
(* What skip_list.h promises: a map whose entries are kept in the order of *)
(* descending keys, and operations that take effect when they return.      *)
(***************************************************************************)
EXTENDS Integers

CONSTANTS Keys,
          Vals,
          NoVal,     \* not a value: what find returns for a key that is absent
          Tail,      \* the end of the entries; not a key
          None       \* not a call, nor something returned

VARIABLES dict,      \* dict[k]: the value of key k, or NoVal
          call,      \* the call in progress, or None
          ret        \* what the last one returned

vars == <<dict, call, ret>>

Init ==
    /\ dict = [k \in Keys |-> NoVal]
    /\ call = None
    /\ ret = None

Requests ==
    [op : {"insert"}, key : Keys, val : Vals]
        \cup [op : {"remove", "find"}, key : Keys]
        \cup [op : {"find_range"}, key : Keys, key2 : Keys]

Invoke ==
    /\ call = None
    /\ call' \in Requests
    /\ ret' = None
    /\ UNCHANGED dict

Respond(r, d) == call' = None /\ ret' = r /\ dict' = d

Present == {k \in Keys : dict[k] # NoVal}

\* The first entry that does not come before key k.
From(k) ==
    LET rest == {j \in Present : j <= k}
    IN IF rest = {} THEN Tail ELSE CHOOSE j \in rest : \A i \in rest : i <= j

\* "false: If duplicate key was found"
Insert ==
    /\ call.op = "insert"
    /\ IF call.key \in Present
       THEN Respond(FALSE, dict)
       ELSE Respond(TRUE, [dict EXCEPT ![call.key] = call.val])

\* "false: If element was not present"
Remove ==
    /\ call.op = "remove"
    /\ Respond(call.key \in Present, [dict EXCEPT ![call.key] = NoVal])

Find == call.op = "find" /\ Respond(dict[call.key], dict)

\* The entries from the first returned to just before the second have keys
\* from key_1 down to just above key_2.
FindRange ==
    /\ call.op = "find_range"
    /\ Respond(<<From(call.key), From(call.key2)>>, dict)

Apply == call # None /\ (Insert \/ Remove \/ Find \/ FindRange)

Next == Invoke \/ Apply

Spec == Init /\ [][Next]_vars
=============================================================================
