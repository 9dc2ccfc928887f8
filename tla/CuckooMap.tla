----------------------------- MODULE CuckooMap -----------------------------
(***************************************************************************)
(* The concurrent cuckoo hash table of cuckoohash_map.hh: find, insert,    *)
(* erase, update, update_fn, upsert, clear, rehash and reserve, the        *)
(* breadth-first search for a cuckoo path, the displacement of keys along  *)
(* it, and the expansion that replaces the table under running operations. *)
(*                                                                         *)
(* A section of code that takes some bucket locks and releases them all is *)
(* one step; one that keeps locks ends with them in `owned`, and another   *)
(* step goes on from there.  StripedLocks shows that the lock helpers make *)
(* this sound.  A TableInfo is named by its hashpower, which grows with    *)
(* every expansion; TableReclaim models how the old ones are freed.        *)
(***************************************************************************)
EXTENDS Integers, Sequences, FiniteSetsExt

CONSTANTS
    Threads,              \* the threads calling the map
    Keys,                 \* the keys, each standing for its hash value
    Vals,                 \* the mapped values
    Empty,                \* what an unoccupied slot holds; not an entry
    Absent,               \* what find returns without a value; not a value
    Fn(_),                \* the updater given to update_fn and upsert
    IndexHash(_, _),      \* index_hash(hashpower, hash)
    AltIndex(_, _, _),    \* alt_index(hashpower, hash, bucket)
    PartialKey(_),        \* partial_key(hash)
    SlotsPerBucket,       \* SLOT_PER_BUCKET
    MaxBfsDepth,          \* MAX_BFS_DEPTH
    MaxCuckooCount,       \* MAX_CUCKOO_COUNT, the capacity of b_queue
    NumLocks,             \* kNumLocks
    NumCores,             \* kNumCores, the threads that rebuild a table
    InitPower,            \* the hashpower the map is built with
    Layouts,              \* what it may hold then: sets of [key, val, b, s]
    MaxPower,             \* bound: no expansion beyond this hashpower
    MaxSecond,            \* bound: keys of a rebuilt table not in their first bucket
    Requests(_),          \* the calls a thread may make: [op, key, val, n]
    MaxCalls              \* bound: how many calls a thread makes

Buckets(hp) == 0 .. (2 ^ hp - 1)
Powers == InitPower .. MaxPower
Slots == 0 .. (SlotsPerBucket - 1)

ASSUME SizeAssumption ==
    /\ SlotsPerBucket \in Nat \ {0} /\ MaxBfsDepth \in Nat \ {0}
    /\ MaxCuckooCount \in Nat \ {0, 1} /\ NumLocks \in Nat \ {0}
    /\ NumCores \in Nat \ {0}
    /\ InitPower \in Nat \ {0} /\ MaxPower \in Nat /\ InitPower <= MaxPower

\* Both buckets of a key are in the table and each is the other's alternate.
ASSUME HashAssumption ==
    \A hp \in Powers : \A k \in Keys :
        /\ IndexHash(hp, k) \in Buckets(hp)
        /\ \A b \in Buckets(hp) :
              /\ AltIndex(hp, k, b) \in Buckets(hp)
              /\ AltIndex(hp, k, AltIndex(hp, k, b)) = b

VARIABLES
    table_info,   \* the hashpower of the current TableInfo
    tables,       \* tables[hp]: buckets and counters of each TableInfo
    owned,        \* owned[t]: the lock indexes thread t holds in table ti[t]
    pc,           \* where each thread is
    call,         \* the operation, key and value of its current call
    calls,        \* how many calls it has made
    ti,           \* its snapshot of table_info
    want,         \* the hashpower its expansion asks for
    inserting,    \* whether its upsert has given up updating and inserts
    bfs,          \* slot_search: the queue, the dequeued b_slot, the slot
    path,         \* cuckoopath_search: the code found, the records read
    ret           \* what its last call returned

vars ==
    <<table_info, tables, owned, pc, call, calls, ti, want, inserting, bfs, path, ret>>

map == <<table_info, tables>>
-----------------------------------------------------------------------------
\* A slot holding a key: setKV and, for keys that are not simple, partial.
Entry(k, v) == [key |-> k, partial |-> PartialKey(k), val |-> v]

\* What a bucket's slots, and a TableInfo, may hold.
Slot == {Entry(k, v) : k \in Keys, v \in Vals} \cup {Empty}
Table(hp) == [bucket : [Buckets(hp) -> [Slots -> Slot]], inserts : Nat, deletes : Nat]

Ops == {"find", "insert", "erase", "update", "update_fn", "upsert", "clear", "rehash"}

\* Neither Empty nor Absent looks like something else.
ASSUME ValueAssumption ==
    /\ \A v \in Vals : Fn(v) \in Vals
    /\ \A k \in Keys, v \in Vals : Entry(k, v) # Empty
    /\ \A hp \in Powers : Empty \notin Table(hp) \cup [b : Buckets(hp), code : Seq(Nat)]
    /\ Absent \notin Vals
    /\ \A o \in Ops, k \in Keys, v \in Vals : [op |-> o, key |-> k, val |-> v] # Absent

ASSUME RequestAssumption ==
    /\ \A t \in Threads : Requests(t) \subseteq [op : Ops, key : Keys, val : Vals, n : Nat]
    /\ MaxCalls \in Nat

\* mutant: the mask of lock_ind forgotten
LockIndUnmasked(b) == b

LockInd(b) == b % NumLocks

First(hp, k) == IndexHash(hp, k)
Second(hp, k) == AltIndex(hp, k, IndexHash(hp, k))

\* mutant: only the first bucket is locked
OneLock(hp, k) == {LockInd(First(hp, k))}

\* The locks lock_two takes for a key, in the table the thread looks at.
TwoLocks(hp, k) == {LockInd(First(hp, k)), LockInd(Second(hp, k))}

\* Nobody else holds one of these locks of the same table.
Free(t, locks) ==
    \A u \in Threads \ {t} : ti[u] = ti[t] => owned[u] \cap locks = {}

Occupied(hp, b, s) == tables[hp].bucket[b][s] # Empty

EmptySlots(hp, b) == {s \in Slots : ~Occupied(hp, b, s)}

\* The lowest element, what a loop over the slots meets first.
Lowest(S) == CHOOSE s \in S : \A r \in S : s <= r

\* The slots of a bucket that compare equal to a key: partial first, then key.
Matches(hp, b, k) ==
    {s \in Slots : /\ Occupied(hp, b, s)
                   /\ tables[hp].bucket[b][s].partial = PartialKey(k)
                   /\ tables[hp].bucket[b][s].key = k}

\* Where cuckoo_find, cuckoo_delete and cuckoo_update meet a key: in the
\* first bucket, else in the second, else nowhere.
Places(hp, k) ==
    LET b == IF Matches(hp, First(hp, k), k) # {} THEN First(hp, k) ELSE Second(hp, k)
    IN IF Matches(hp, b, k) = {} THEN {} ELSE {<<b, Lowest(Matches(hp, b, k))>>}

\* The table with entry e in slot s of bucket b.
Set(tab, b, s, e) == [tab EXCEPT !.bucket[b][s] = e]

\* add_to_bucket also counts the insert.
Add(tab, b, s, k, v) == [Set(tab, b, s, Entry(k, v)) EXCEPT !.inserts = @ + 1]

\* mutant: an erase that is not counted
RemoveUncounted(tab, b, s) == Set(tab, b, s, Empty)

\* try_del_from_bucket also counts the delete.
Remove(tab, b, s) == [Set(tab, b, s, Empty) EXCEPT !.deletes = @ + 1]

NoSearch == [q |-> <<>>, x |-> Empty, slot |-> 0]
NoPath == [code |-> <<>>, recs |-> <<>>, depth |-> 0]
NoCall == [op |-> "none", key |-> Absent, val |-> Absent, n |-> 0]
-----------------------------------------------------------------------------
\* What inserts into an empty map leave behind: each key in one of its two
\* buckets, no key and no slot twice.
ASSUME LayoutAssumption ==
    \A entries \in Layouts :
        /\ IsFiniteSet(entries)
        /\ \A e \in entries :
              /\ e.key \in Keys /\ e.val \in Vals /\ e.s \in Slots
              /\ e.b \in {First(InitPower, e.key), Second(InitPower, e.key)}
              /\ \A d \in entries : d.key = e.key \/ (d.b = e.b /\ d.s = e.s) => d = e

\* A table that inserts filled with these entries.
Filled(hp, entries) ==
    [bucket |-> [b \in Buckets(hp) |-> [s \in Slots |->
        LET here == {e \in entries : e.b = b /\ e.s = s}
        IN IF here = {} THEN Empty
           ELSE LET e == CHOOSE e \in here : TRUE IN Entry(e.key, e.val)]],
     inserts |-> Cardinality(entries), deletes |-> 0]

\* cuckoo_init, then inserts that put the initial entries where they are.
Init ==
    /\ table_info = InitPower
    /\ \E entries \in Layouts :
           tables = [hp \in Powers |->
                        IF hp = InitPower THEN Filled(hp, entries) ELSE Empty]
    /\ owned = [t \in Threads |-> {}]
    /\ pc = [t \in Threads |-> "idle"]
    /\ call = [t \in Threads |-> NoCall]
    /\ calls = [t \in Threads |-> 0]
    /\ ti = [t \in Threads |-> InitPower]
    /\ want = [t \in Threads |-> 0]
    /\ inserting = [t \in Threads |-> FALSE]
    /\ bfs = [t \in Threads |-> NoSearch]
    /\ path = [t \in Threads |-> NoPath]
    /\ ret = [t \in Threads |-> "none"]

Goto(t, label) == pc' = [pc EXCEPT ![t] = label]
Own(t, locks) == owned' = [owned EXCEPT ![t] = locks]

\* The call returns r; its local variables are gone.
Return(t, r) ==
    /\ Goto(t, "idle")
    /\ ret' = [ret EXCEPT ![t] = r]
    /\ call' = [call EXCEPT ![t] = NoCall]
    /\ want' = [want EXCEPT ![t] = 0]
    /\ inserting' = [inserting EXCEPT ![t] = FALSE]
    /\ bfs' = [bfs EXCEPT ![t] = NoSearch]
    /\ path' = [path EXCEPT ![t] = NoPath]

\* A public operation; n is the hashpower rehash and reserve ask for, else 0.
Call(t) ==
    /\ pc[t] = "idle"
    /\ calls[t] < MaxCalls
    /\ \E c \in Requests(t) :
          /\ call' = [call EXCEPT ![t] = c]
          /\ want' = [want EXCEPT ![t] = c.n]
    /\ calls' = [calls EXCEPT ![t] = @ + 1]
    /\ ret' = [ret EXCEPT ![t] = "none"]
    /\ Goto(t, "snapshot")
    /\ UNCHANGED <<table_info, tables, owned, ti, inserting, bfs, path>>

(***************************************************************************)
(* Load table_info and set the hazard pointer, until both agree.  rehash   *)
(* and reserve return at once when the table is large enough; an expansion *)
(* and clear go on to take all the locks, the other operations two.        *)
(***************************************************************************)
Snapshot(t) ==
    /\ pc[t] = "snapshot"
    /\ ti' = [ti EXCEPT ![t] = table_info]
    /\ IF call[t].op = "rehash" /\ want[t] <= table_info
       THEN Return(t, "fail") /\ UNCHANGED <<owned, calls>>
       ELSE /\ Goto(t, IF call[t].op \in {"clear", "rehash"} THEN "lock_all" ELSE "lock_two")
            /\ UNCHANGED <<owned, call, calls, want, inserting, bfs, path, ret>>
    /\ UNCHANGED map

\* mutant: no second look at table_info
NotRechecked(t) == TRUE

\* ti == table_info.load(), with the locks of ti held.
Current(t) == ti[t] = table_info

\* snapshot_and_lock_two: keep the locks only if the table is still current.
LockTwo(t) ==
    LET locks == TwoLocks(ti[t], call[t].key) IN
    /\ pc[t] = "lock_two"
    /\ Free(t, locks)
    /\ IF Current(t)
       THEN Own(t, locks) /\ Goto(t, "locked")
       ELSE Goto(t, "snapshot") /\ UNCHANGED owned
    /\ UNCHANGED <<table_info, tables, call, calls, ti, want, inserting, bfs, path, ret>>

\* What the locked operations look at and leave unchanged.
Locked(t, ops) == pc[t] = "locked" /\ call[t].op \in ops

KeyPlaces(t) == Places(ti[t], call[t].key)

\* Replace the current thread's table.
Write(t, tab) == tables' = [tables EXCEPT ![ti[t]] = tab]

\* unlock_two and return.
Finish(t, r) ==
    /\ Own(t, {})
    /\ Return(t, r)
    /\ UNCHANGED <<table_info, calls, ti>>

Find(t) ==
    /\ Locked(t, {"find"})
    /\ \/ /\ KeyPlaces(t) = {}
          /\ Finish(t, Absent)
       \/ \E p \in KeyPlaces(t) : Finish(t, tables[ti[t]].bucket[p[1]][p[2]].val)
    /\ UNCHANGED tables

\* The key is not there: find, erase, update and update_fn report it.
NotFound(t) ==
    /\ Locked(t, {"erase", "update", "update_fn"})
    /\ KeyPlaces(t) = {}
    /\ Finish(t, "fail")
    /\ UNCHANGED tables

Erase(t) ==
    /\ Locked(t, {"erase"})
    /\ \E p \in KeyPlaces(t) :
          Write(t, Remove(tables[ti[t]], p[1], p[2]))
    /\ Finish(t, "ok")

\* update, update_fn and the first half of upsert overwrite a value.
Update(t) ==
    /\ Locked(t, {"update", "update_fn", "upsert"})
    /\ ~inserting[t]
    /\ \E p \in KeyPlaces(t) :
          Write(t, [tables[ti[t]] EXCEPT !.bucket[p[1]][p[2]].val =
                        IF call[t].op = "update" THEN call[t].val ELSE Fn(@)])
    /\ Finish(t, "ok")

(***************************************************************************)
(* Unlock the buckets and take a new snapshot: cuckoo_insert_loop goes     *)
(* round (then an upsert goes on inserting), or upsert starts over.        *)
(***************************************************************************)
Retry(t, goOnInserting) ==
    /\ Own(t, {})
    /\ Goto(t, "snapshot")
    /\ inserting' = [inserting EXCEPT ![t] = goOnInserting]
    /\ want' = [want EXCEPT ![t] = 0]
    /\ path' = [path EXCEPT ![t] = NoPath]
    /\ UNCHANGED <<table_info, call, calls, ti, bfs, ret>>

\* failure_key_duplicated: an insert fails, an upsert tries to update again.
Duplicate(t) ==
    \/ call[t].op = "insert" /\ Finish(t, "fail")
    \/ call[t].op = "upsert" /\ Retry(t, FALSE)

\* cuckoo_insert finds the key in one of its buckets.
InsertDuplicate(t) ==
    /\ Locked(t, {"insert", "upsert"})
    /\ call[t].op = "upsert" => inserting[t]
    /\ KeyPlaces(t) # {}
    /\ Duplicate(t)
    /\ UNCHANGED tables

\* An empty slot in the first bucket, else in the second.
InsertFree(t) ==
    LET k == call[t].key
        hp == ti[t]
        b == IF EmptySlots(hp, First(hp, k)) # {} THEN First(hp, k) ELSE Second(hp, k)
    IN /\ Locked(t, {"insert", "upsert"})
       /\ KeyPlaces(t) = {}
       /\ EmptySlots(hp, b) # {}
       /\ Write(t, Add(tables[hp], b, Lowest(EmptySlots(hp, b)), k, call[t].val))
       /\ Finish(t, "ok")
-----------------------------------------------------------------------------
(***************************************************************************)
(* run_cuckoo.  A b_slot's pathcode is kept as the sequence it encodes:    *)
(* 0 or 1 for the bucket the path starts from, then one slot per bucket.   *)
(***************************************************************************)
Node(b, code) == [b |-> b, code |-> code]
Depth(x) == Len(x.code) - 1

NotFull(q) == Len(q) < MaxCuckooCount

\* mutant: an insert asks for the hashpower the table has
SamePower(t) == ti[t]

\* What cuckoo_insert_loop asks for when the table is full.
NextPower(t) == ti[t] + 1

(***************************************************************************)
(* The loops of slot_search between two looks at the table: the next slot  *)
(* of the dequeued node while the queue is not full, else the next node,   *)
(* else failure.  Dequeuing from an empty queue is the assertion in        *)
(* b_queue::dequeue; "drained" stands for what follows it.                 *)
(***************************************************************************)
Continue(t, q, x, slot) ==
    IF slot < SlotsPerBucket /\ NotFull(q) /\ x # Empty
    THEN /\ bfs' = [bfs EXCEPT ![t] = [q |-> q, x |-> x, slot |-> slot]]
         /\ Goto(t, "search")
         /\ UNCHANGED want
    ELSE IF ~NotFull(q)
    THEN \* the search failed: the table is full, cuckoo_insert_loop expands it
         /\ bfs' = [bfs EXCEPT ![t] = NoSearch]
         /\ want' = [want EXCEPT ![t] = NextPower(t)]
         /\ Goto(t, "expand")
    ELSE IF q = <<>>
    THEN Goto(t, "drained") /\ UNCHANGED <<bfs, want>>
    ELSE /\ bfs' = [bfs EXCEPT ![t] = [q |-> Tail(q), x |-> Head(q), slot |-> 0]]
         /\ Goto(t, "search")
         /\ UNCHANGED want

\* A (new) call of slot_search, by a thread that holds no lock.
StartSearch(t) ==
    LET k == call[t].key IN
    Continue(t, <<Node(First(ti[t], k), <<0>>), Node(Second(ti[t], k), <<1>>)>>, Empty, 0)

\* Both buckets are full of other keys: unlock them and look for a path.
InsertFull(t) ==
    LET k == call[t].key IN
    /\ Locked(t, {"insert", "upsert"})
    /\ KeyPlaces(t) = {}
    /\ EmptySlots(ti[t], First(ti[t], k)) \cup EmptySlots(ti[t], Second(ti[t], k)) = {}
    /\ Own(t, {})
    /\ inserting' = [inserting EXCEPT ![t] = TRUE]
    /\ StartSearch(t)
    /\ UNCHANGED <<table_info, tables, call, calls, ti, path, ret>>

\* slot_search succeeds with this pathcode.
FoundPath(t, code) ==
    /\ path' = [path EXCEPT ![t] = [code |-> code, recs |-> <<>>, depth |-> 0]]
    /\ bfs' = [bfs EXCEPT ![t] = NoSearch]
    /\ Goto(t, "path")
    /\ UNCHANGED want

\* Look at one slot of the dequeued bucket under its lock.
SearchSlot(t) ==
    LET x == bfs[t].x
        s == bfs[t].slot
    IN /\ pc[t] = "search"
       /\ Free(t, {LockInd(x.b)})
       /\ IF ~Occupied(ti[t], x.b, s)
          THEN FoundPath(t, Append(x.code, s))
          ELSE /\ bfs' = [bfs EXCEPT ![t].x =
                      [b |-> x.b, code |-> x.code,
                       alt |-> AltIndex(ti[t], tables[ti[t]].bucket[x.b][s].key, x.b)]]
               /\ Goto(t, "search_alt")
               /\ UNCHANGED <<path, want>>
       /\ UNCHANGED <<table_info, tables, owned, call, calls, ti, inserting, ret>>

\* mutant: the paths are searched one step less deep
EnqueueLess(q, y) == IF Depth(y) + 1 # MaxBfsDepth THEN Append(q, y) ELSE q

\* No empty slots were found, so we push this onto the queue.
Enqueue(q, y) == IF Depth(y) # MaxBfsDepth THEN Append(q, y) ELSE q

\* Look at the alternate bucket of the key seen there, under its own lock.
SearchAlt(t) ==
    LET x == bfs[t].x
        y == Node(x.alt, Append(x.code, bfs[t].slot))
        empty == EmptySlots(ti[t], y.b)
    IN /\ pc[t] = "search_alt"
       /\ Free(t, {LockInd(y.b)})
       /\ IF empty # {}
          THEN FoundPath(t, Append(y.code, Lowest(empty)))
          ELSE /\ Continue(t, Enqueue(bfs[t].q, y), Node(x.b, x.code), bfs[t].slot + 1)
               /\ UNCHANGED path
       /\ UNCHANGED <<table_info, tables, owned, call, calls, ti, inserting, ret>>

(***************************************************************************)
(* One record of cuckoopath_search: the bucket follows from the key read   *)
(* in the one before, the slot from the code.  An empty slot ends the path *)
(* early; so does the end of the code.                                     *)
(***************************************************************************)
ReadPath(t) ==
    LET recs == path[t].recs
        i    == Len(recs)
        code == path[t].code
        k    == call[t].key
        b    == IF i > 0 THEN AltIndex(ti[t], recs[i].key, recs[i].b)
                ELSE IF code[1] = 0 THEN First(ti[t], k) ELSE Second(ti[t], k)
        s    == code[i + 2]
        ends == ~Occupied(ti[t], b, s)
        rec  == [b |-> b, s |-> s,
                 key |-> IF ends THEN Absent ELSE tables[ti[t]].bucket[b][s].key]
    IN /\ pc[t] = "path"
       /\ Free(t, {LockInd(b)})
       /\ path' = [path EXCEPT ![t] = [@ EXCEPT !.recs = Append(recs, rec), !.depth = i]]
       /\ Goto(t, IF ends \/ i + 2 = Len(code) THEN "move" ELSE "path")
       /\ UNCHANGED <<table_info, tables, owned, call, calls, ti, want, inserting, bfs, ret>>

\* cuckoopath_move gives up and run_cuckoo searches again.
Again(t) ==
    /\ path' = [path EXCEPT ![t] = NoPath]
    /\ StartSearch(t)

\* mutant: what was empty when searched is taken to be empty still
AssumedEmpty(hp, rec) == TRUE

StillEmpty(hp, rec) == ~Occupied(hp, rec.b, rec.s)

(***************************************************************************)
(* cuckoopath_move with depth 0: nothing to move, a slot of i1 or i2 was   *)
(* seen empty.  If it still is, return with both buckets locked.           *)
(***************************************************************************)
MoveNothing(t) ==
    LET rec   == path[t].recs[1]
        locks == TwoLocks(ti[t], call[t].key)
    IN /\ pc[t] = "move"
       /\ path[t].depth = 0
       /\ Free(t, locks)
       /\ IF StillEmpty(ti[t], rec)
          THEN Own(t, locks) /\ Goto(t, "moved") /\ UNCHANGED <<want, bfs, path>>
          ELSE Again(t) /\ UNCHANGED owned
       /\ UNCHANGED <<table_info, tables, call, calls, ti, inserting, ret>>

\* mutant: the key that was found there is not compared
KeyUnchecked(hp, from, to) ==
    Occupied(hp, from.b, from.s) /\ ~Occupied(hp, to.b, to.s)

\* The key of the path is still where it was and its new slot still empty.
ValidMove(hp, from, to) ==
    /\ Occupied(hp, from.b, from.s)
    /\ tables[hp].bucket[from.b][from.s].key = from.key
    /\ ~Occupied(hp, to.b, to.s)

(***************************************************************************)
(* One move: the key at the end of the path goes to the empty slot, if it  *)
(* is still there and the slot still empty.  The move out of i1 or i2 is   *)
(* made with both of them locked and leaves them locked.                   *)
(***************************************************************************)
Move(t) ==
    LET d     == path[t].depth
        from  == path[t].recs[d]
        to    == path[t].recs[d + 1]
        hp    == ti[t]
        two   == TwoLocks(hp, call[t].key)
        locks == {LockInd(from.b), LockInd(to.b)} \cup (IF d = 1 THEN two ELSE {})
        e     == tables[hp].bucket[from.b][from.s]
    IN /\ pc[t] = "move"
       /\ d > 0
       /\ Free(t, locks)
       /\ IF ValidMove(hp, from, to)
          THEN /\ Write(t, Set(Set(tables[hp], to.b, to.s, e), from.b, from.s, Empty))
               /\ path' = [path EXCEPT ![t].depth = d - 1]
               /\ IF d = 1 THEN Own(t, two) /\ Goto(t, "moved")
                           ELSE UNCHANGED <<owned, pc>>
               /\ UNCHANGED <<want, bfs>>
          ELSE Again(t) /\ UNCHANGED <<tables, owned>>
       /\ UNCHANGED <<table_info, call, calls, ti, inserting, ret>>

\* mutant: no search for the key before it is added
NotSearched(t) == FALSE

\* Another insert of the key came first, while its buckets were unlocked.
AlreadyInserted(t) == KeyPlaces(t) # {}

(***************************************************************************)
(* run_cuckoo succeeded and both buckets are locked again.  If the table   *)
(* was replaced meanwhile, start over on the new one; if another insert    *)
(* added the key, the insert fails and an upsert starts over; else the key *)
(* goes into the slot that was freed.                                      *)
(***************************************************************************)
FinishInsert(t) ==
    LET rec == path[t].recs[1] IN
    /\ pc[t] = "moved"
    /\ \/ ti[t] # table_info /\ Retry(t, TRUE) /\ UNCHANGED tables
       \/ ti[t] = table_info /\ AlreadyInserted(t) /\ Duplicate(t) /\ UNCHANGED tables
       \/ /\ ti[t] = table_info /\ ~AlreadyInserted(t)
          /\ Write(t, Add(tables[ti[t]], rec.b, rec.s, call[t].key, call[t].val))
          /\ Finish(t, "ok")
-----------------------------------------------------------------------------
(***************************************************************************)
(* snapshot_and_lock_all: load table_info, take every lock of that table,  *)
(* and start over if it was replaced meanwhile.                            *)
(***************************************************************************)
ExpandSnapshot(t) ==
    /\ pc[t] = "expand"
    /\ ti' = [ti EXCEPT ![t] = table_info]
    /\ Goto(t, "lock_all")
    /\ UNCHANGED <<table_info, tables, owned, call, calls, want, inserting, bfs, path, ret>>

AllLocks == 0 .. (NumLocks - 1)

LockAll(t) ==
    /\ pc[t] = "lock_all"
    /\ Free(t, AllLocks)
    /\ IF Current(t)
       THEN Own(t, AllLocks) /\ Goto(t, "all_locked")
       ELSE Goto(t, "expand") /\ UNCHANGED owned
    /\ UNCHANGED <<table_info, tables, call, calls, ti, want, inserting, bfs, path, ret>>

\* clear: new empty buckets, all counters zero.
Clear(t) ==
    /\ pc[t] = "all_locked"
    /\ call[t].op = "clear"
    /\ Write(t, [bucket |-> [b \in Buckets(ti[t]) |-> [s \in Slots |-> Empty]],
                 inserts |-> 0, deletes |-> 0])
    /\ Finish(t, "ok")

\* mutant: a table of the hashpower asked for is not large enough
LargerOnly(t) == want[t] < ti[t]

\* n <= ti->hashpower_, with all its locks held.
LargeEnough(t) == want[t] <= ti[t]

\* Somebody else expanded the table first: failure_under_expansion.
ExpandLate(t) ==
    /\ pc[t] = "all_locked"
    /\ call[t].op # "clear"
    /\ LargeEnough(t)
    /\ IF call[t].op = "rehash" THEN Finish(t, "fail") ELSE Retry(t, TRUE)
    /\ UNCHANGED tables

(***************************************************************************)
(* The buckets that the i-th of NumCores threads copies.  The number per   *)
(* thread is rounded down, to 0 for a small table; the last one takes what *)
(* is left.                                                                *)
(***************************************************************************)
ThreadRange(hp, i) ==
    LET hashsize == Cardinality(Buckets(hp))
        each     == hashsize \div NumCores
    IN (i * each) .. (IF i = NumCores - 1 THEN hashsize - 1 ELSE (i + 1) * each - 1)

\* What the threads of an expansion insert into the new map.
Collected(hp) ==
    {tables[hp].bucket[b][s] : b \in UNION {ThreadRange(hp, i) : i \in 0 .. (NumCores - 1)},
                               s \in Slots} \ {Empty}

(***************************************************************************)
(* insert_into_table: the tables of hashpower n that inserting these       *)
(* entries into a new map, by several threads at once, can end in: each    *)
(* key in one of its two buckets.  The order of the keys within a bucket   *)
(* is not distinguished: they fill its slots from the first.  The bound    *)
(* MaxSecond keeps the placements few: so many are in the second bucket.   *)
(***************************************************************************)

\* A set's elements in some order, numbered from 0.
Numbered(S) ==
    CHOOSE f \in [0 .. (Cardinality(S) - 1) -> S] : \A x \in S : \E i \in DOMAIN f : f[i] = x

\* The entries that go to bucket b, if these keys go to their second one.
Landed(n, entries, second, b) ==
    {e \in entries : b = IF e.key \in second THEN Second(n, e.key) ELSE First(n, e.key)}

NewBucket(here) ==
    LET f == Numbered(here)
    IN [s \in Slots |-> IF s < Cardinality(here) THEN Entry(f[s].key, f[s].val) ELSE Empty]

NewTables(n, entries) ==
    {[bucket |-> [b \in Buckets(n) |-> NewBucket(Landed(n, entries, second, b))],
      inserts |-> Cardinality(entries), deletes |-> 0] :
        second \in {S \in UNION {kSubset(i, {e.key : e \in entries}) : i \in 0 .. MaxSecond} :
            \A b \in Buckets(n) : Cardinality(Landed(n, entries, S, b)) <= SlotsPerBucket}}

\* Build the new table while holding every lock of the old one and publish
\* it.  Its own inserts may expand the new map again before that.
Publish(t) ==
    /\ pc[t] = "all_locked"
    /\ call[t].op # "clear"
    /\ ~LargeEnough(t)
    /\ \E n \in want[t] .. MaxPower :
          /\ \E tab \in NewTables(n, Collected(ti[t])) : tables' = [tables EXCEPT ![n] = tab]
          /\ table_info' = n
    /\ Goto(t, "published")
    /\ UNCHANGED <<owned, call, calls, ti, want, inserting, bfs, path, ret>>

\* Release the old table's locks; an insert tries again on the new table.
Release(t) ==
    /\ pc[t] = "published"
    /\ IF call[t].op = "rehash" THEN Finish(t, "ok") ELSE Retry(t, TRUE)
    /\ UNCHANGED tables

Step(t) ==
    \/ Snapshot(t) \/ LockTwo(t) \/ Find(t) \/ NotFound(t) \/ Erase(t) \/ Update(t)
    \/ InsertDuplicate(t) \/ InsertFree(t) \/ InsertFull(t)
    \/ SearchSlot(t) \/ SearchAlt(t) \/ ReadPath(t) \/ MoveNothing(t) \/ Move(t)
    \/ FinishInsert(t)
    \/ ExpandSnapshot(t) \/ LockAll(t) \/ Clear(t) \/ ExpandLate(t) \/ Publish(t)
    \/ Release(t)

\* All calls made and returned: the only state in which the model may stop.
Finished ==
    /\ \A t \in Threads : pc[t] = "idle" /\ calls[t] = MaxCalls
    /\ UNCHANGED vars

Next == (\E t \in Threads : Call(t) \/ Step(t)) \/ Finished

Spec == Init /\ [][Next]_vars

\* Every thread is scheduled: what it can do for good it does.
FairSpec == Spec /\ \A t \in Threads : WF_vars(Step(t))
-----------------------------------------------------------------------------
Labels == {"idle", "snapshot", "lock_two", "locked", "search", "search_alt", "path",
           "move", "moved", "expand", "lock_all", "all_locked", "published", "drained"}

\* The types of the variables that the other properties do not pin down.
TypeOK ==
    /\ table_info \in Powers
    /\ DOMAIN tables = Powers /\ tables[table_info] # Empty
    /\ \A hp \in Powers : tables[hp] \in Table(hp) \cup {Empty}
    /\ owned \in [Threads -> SUBSET AllLocks]
    /\ pc \in [Threads -> Labels]
    /\ calls \in [Threads -> 0 .. MaxCalls]
    /\ ti \in [Threads -> Powers]
    /\ \A t \in Threads : tables[ti[t]] # Empty

(***************************************************************************)
(* The assertions of cuckoopath_search and cuckoo_insert on bucket         *)
(* indexes: whatever is displaced or expanded, a key of any table, current *)
(* or old, is in one of its own two buckets, beside its own partial key.   *)
(***************************************************************************)
OwnBuckets ==
    \A hp \in Powers : tables[hp] # Empty =>
        \A b \in Buckets(hp), s \in Slots : Occupied(hp, b, s) =>
            LET e == tables[hp].bucket[b][s] IN
            /\ b \in {First(hp, e.key), Second(hp, e.key)}
            /\ e.partial = PartialKey(e.key)

(***************************************************************************)
(* "the table doesn't support duplicate keys": no key is ever in two slots *)
(* although inserts of one key unlock its buckets while they displace      *)
(* others.                                                                 *)
(***************************************************************************)
NoDuplicates ==
    \A hp \in Powers : tables[hp] # Empty =>
        \A b1, b2 \in Buckets(hp), s1, s2 \in Slots :
            /\ Occupied(hp, b1, s1)
            /\ Occupied(hp, b2, s2)
            /\ tables[hp].bucket[b1][s1].key = tables[hp].bucket[b2][s2].key
            => b1 = b2 /\ s1 = s2

Entries(hp) == {tables[hp].bucket[b][s] : b \in Buckets(hp), s \in Slots} \ {Empty}

\* Inserts minus deletes, which size() reports, is the number of entries.
SizeExact ==
    tables[table_info].inserts - tables[table_info].deletes
        = Cardinality(Entries(table_info))

(***************************************************************************)
(* The assertions after cuckoopath_move: when it succeeded, both buckets   *)
(* of the key are locked and the slot it freed is one of theirs and still  *)
(* empty, also if the path led through the thread's own buckets.           *)
(***************************************************************************)
ReadyToInsert ==
    \A t \in Threads : pc[t] = "moved" =>
        LET rec == path[t].recs[1] IN
        /\ owned[t] = TwoLocks(ti[t], call[t].key)
        /\ rec.b \in {First(ti[t], call[t].key), Second(ti[t], call[t].key)}
        /\ ~Occupied(ti[t], rec.b, rec.s)

(***************************************************************************)
(* The assertion of b_queue::dequeue: the search ends with a path or with  *)
(* its queue full, because the queue is small enough for its depth; it is  *)
(* never left with nothing to look at.                                     *)
(***************************************************************************)
NeverDrained ==
    \A t \in Threads : pc[t] # "drained"

(***************************************************************************)
(* Every operation takes effect at one instant on the whole map: a find    *)
(* does not miss a key that is being displaced or copied to a new table,   *)
(* an insert into a table that was replaced is not lost, an upsert always  *)
(* succeeds, an expansion keeps every entry and its value.                 *)
(***************************************************************************)
Contents ==
    [k \in Keys |->
        LET found == {e \in Entries(table_info) : e.key = k}
        IN IF found = {} THEN Absent ELSE (CHOOSE e \in found : TRUE).val]

InCall ==
    [t \in Threads |-> IF pc[t] = "idle" THEN Absent
        ELSE [op |-> call[t].op, key |-> call[t].key, val |-> call[t].val]]

Abstract == INSTANCE AtomicMap WITH dict <- Contents, pending <- InCall

Linearizable == Abstract!Spec

(***************************************************************************)
(* The expansion's promise to others: the current table only ever grows,   *)
(* by a thread that holds all its locks, and an insert makes it grow only  *)
(* if that very table, and no smaller one before it, was the one it found  *)
(* full: inserts that find one table full together grow it once.           *)
(***************************************************************************)
GrowsOnly ==
    [][/\ table_info' >= table_info
       /\ table_info' # table_info =>
             \E t \in Threads :
                 /\ owned[t] = AllLocks /\ ti[t] = table_info
                 /\ call[t].op # "rehash" => want[t] = table_info + 1]_vars

(***************************************************************************)
(* Every call returns: when the others' calls have ended, no more moves    *)
(* are invalidated and no more tables replaced, and an insert that finds   *)
(* no path gets a larger table.  (Calls are finite in number; a spin lock  *)
(* promises nothing to a thread that competes with endless ones.)          *)
(***************************************************************************)
EveryCallReturns ==
    \A t \in Threads : pc[t] # "idle" ~> pc[t] = "idle"
=============================================================================
