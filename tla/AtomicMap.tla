----------------------------- MODULE AtomicMap -----------------------------
(***************************************************************************)
(* What cuckoohash_map promises its callers: a map whose operations take   *)
(* effect at one instant between their call and their return.  Rehashing   *)
(* is a call like any other, with no effect on the contents.               *)
(***************************************************************************)
CONSTANTS Threads,
          Keys,
          Vals,
          Absent,      \* not a value: the key is not in the map
          Fn(_)        \* the updater passed to update_fn and upsert

VARIABLES dict,        \* dict[k]: the value of key k, or Absent
          pending,     \* the call a thread is in, or Absent between calls
          ret          \* what the thread's last call returned

vars == <<dict, pending, ret>>

Init ==
    /\ dict \in [Keys -> Vals \cup {Absent}]
    /\ pending = [t \in Threads |-> Absent]
    /\ ret = [t \in Threads |-> "none"]

Invoke(t) ==
    /\ pending[t] = Absent
    /\ \E op \in {"find", "insert", "erase", "update", "update_fn", "upsert",
                  "clear", "rehash"}, k \in Keys, v \in Vals :
           pending' = [pending EXCEPT ![t] = [op |-> op, key |-> k, val |-> v]]
    /\ ret' = [ret EXCEPT ![t] = "none"]
    /\ UNCHANGED dict

\* The call returns r, leaving the contents d.
Respond(t, r, d) ==
    /\ pending' = [pending EXCEPT ![t] = Absent]
    /\ ret' = [ret EXCEPT ![t] = r]
    /\ dict' = d

Put(k, v) == [dict EXCEPT ![k] = v]

Find(t, k) == Respond(t, dict[k], dict)

Insert(t, k, v) ==
    IF dict[k] = Absent THEN Respond(t, "ok", Put(k, v)) ELSE Respond(t, "fail", dict)

Erase(t, k) ==
    IF dict[k] = Absent THEN Respond(t, "fail", dict) ELSE Respond(t, "ok", Put(k, Absent))

Update(t, k, v) ==
    IF dict[k] = Absent THEN Respond(t, "fail", dict) ELSE Respond(t, "ok", Put(k, v))

UpdateFn(t, k) ==
    IF dict[k] = Absent THEN Respond(t, "fail", dict)
    ELSE Respond(t, "ok", Put(k, Fn(dict[k])))

\* "It will always succeed": upsert has no way to fail.
Upsert(t, k, v) ==
    Respond(t, "ok", Put(k, IF dict[k] = Absent THEN v ELSE Fn(dict[k])))

Clear(t) == Respond(t, "ok", [k \in Keys |-> Absent])

Rehash(t) == \E r \in {"ok", "fail"} : Respond(t, r, dict)

Apply(t) ==
    /\ pending[t] # Absent
    /\ LET c == pending[t] IN
       \/ c.op = "find" /\ Find(t, c.key)
       \/ c.op = "insert" /\ Insert(t, c.key, c.val)
       \/ c.op = "erase" /\ Erase(t, c.key)
       \/ c.op = "update" /\ Update(t, c.key, c.val)
       \/ c.op = "update_fn" /\ UpdateFn(t, c.key)
       \/ c.op = "upsert" /\ Upsert(t, c.key, c.val)
       \/ c.op = "clear" /\ Clear(t)
       \/ c.op = "rehash" /\ Rehash(t)

Next == \E t \in Threads : Invoke(t) \/ Apply(t)

Spec == Init /\ [][Next]_vars
=============================================================================
