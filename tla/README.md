# A TLA+ verification of hypocampd

hypocampd is the beginning of an in-memory cache server. Its repository holds a
concurrent cuckoo hash table (an early libcuckoo), a skip list, a string class, a
consistent-hash ring of servers, a bloom filter and a few utilities. This
directory specifies the parts whose correctness a unit test hardly reaches, checks
them with TLC on small instances and proves theorems about them with TLAPS.

Line numbers without a file are those of
`src/src/cache/cuckoo_detail/cuckoohash_map.hh`.

## 1. Inventory

### The cuckoo hash table (`cache/cuckoo_detail`)

| part | state | operations | hard because |
|---|---|---|---|
| bucket locks (131-150, 650-746, 802-836) | `locks_`: 2^13 `atomic_flag`s per table, bucket `b` uses lock `b & (2^13-1)` | `lock`, `lock_two`, `lock_three`, lock all; unlock counterparts | flags have no owner, buckets alias, four different acquisition patterns meet |
| table (197-290, 839-1552) | `TableInfo`: `hashpower_`, buckets of 8 slots with key, value, `occupied`, `partial`; insert and delete counters per core | `find`, `insert`, `erase`, `update`, `update_fn`, `upsert`, `clear`, `size` ... | an insert into full buckets unlocks them, searches breadth-first for a path of keys to displace, follows a path that may be stale, and inserts |
| expansion (1559-1599) | `table_info`, `new_map` | `rehash`, `reserve`, a full insert | replaces the table under running operations |
| reclamation (292-355, 758-836) | `old_table_infos`, global list of hazard pointers and its mutex, one thread-local pointer each | snapshot, `delete_unused`, `HazardPointerUnsetter` | lock-free protection of memory with a plain pointer |
| iterators (1621-1970, 1997-2004) | the map, a table snapshot, `has_table_lock` | `cbegin`, `++`, `set_value`, `release`, move | hold all locks; moved by `memcpy` |
| `reference` of `operator[]` | a map and a key | forwards | none beyond the operations it calls |

All of it is shared by any number of threads. Threads interact through
`table_info` (atomic), the lock flags (atomic), table contents (under the locks),
the counters (atomic), `old_table_infos` (not synchronized) and the hazard
pointers (plain). What makes the table correct: every operation takes effect at
one instant on one map; a key is in one of its own buckets, once; locks are
neither leaked nor cleared twice and never deadlock; no operation uses a deleted
table and every table is deleted once; every call returns.

`city.cc`, `city_hasher.hh` are third-party hashing; `cuckoo_hash.h.my_impl` is an
unfinished draft that nothing includes.

### Other components

| part | state | operations | what makes it correct |
|---|---|---|---|
| skip list (`memdictor/ds/sorted_set/skip_list.h`) | nodes with forward pointers per level, `m_curr_height` | `insert`, `remove`, `find`, `find_range`, iteration | every level is a sorted sublist of the one below; it behaves as a sorted map |
| simple string (`memdictor/ds/simple_string`) | small buffer or `mp_srep` with `len_`, `free_` | construct, copy, move, assign, `append`, `trim`, `substr` | the flag says which buffer is valid; lengths match |
| continuum (`consistent_hash/src`) | `servers_`, `points_` (both sorted), totals | `initialize`, `create`, `add_server`, `remove_server`, `get_server` | totals match the lists; each key has the next server on the ring |
| configuration (`config.*`, `config_loader.h`) | three numbers read from files | `load_config` | values survive their integer widths |
| bloom filter (`common/bloom`) | a bit array | `insert`, `can_have` | no false negatives |
| logger (`common/logger.*`) | one lazily created instance, a mutex | `get`, `log` | created once, never seen half built |
| reference counts, spin lock, aligned storage, internet addresses (`common`) | small | small | released once; mutual exclusion |

These are sequential, except the logger and the reference counts. They do not call
one another, save that the continuum uses configuration, addresses and hashing.

## 2. Plan

| order | module | models | status |
|---|---|---|---|
| 1 | `LockSet` | what callers rely on: sets of locks taken at once | done |
| 2 | `StripedLocks`, `StripedLocksProofs` | the lock helpers, flag by flag; implements `LockSet`; proofs | done, proved |
| 3 | `AtomicMap` | what the table promises: a map with atomic operations | done |
| 4 | `HashIndex`, `CuckooMap`, `CuckooMapProofs` | the table's operations; implements `AtomicMap`; proofs | done, proved |
| 5 | `TableReclaim`, `TableReclaimProofs` | the life of a `TableInfo`; proofs | done, proved |
| 6 | `SortedMap`, `SkipList`, `SkipListProofs` | an ordered map; the skip list that implements it; proofs | done, proved |
| 7 | `Floats`, `Continuum`, `ContinuumProofs` | the ring of servers, with shares in float, the order of addresses and the configuration it reads; proofs | done, proved |
| 8 | `CuckooIterator`, `CuckooIteratorProofs` | iterators and `snapshot_table`, over the lock sets; proofs | done, proved |
| 9 | `SimpleString`, `SimpleStringProofs` | the string class, on the bytes of its buffers; proofs | done, proved |
| 10 | `LoggerInit`, `RefCount`, `BloomFilter`, and `CommonProofs` for the three | the small utilities | done, proved |
| 11 | in `CuckooMap` | the partition of buckets over threads (done), `size` under concurrency | partly |

Theorems, in order: everything about `StripedLocks` and the utilities, `SkipList`,
`TableReclaim`, `CuckooMap`, `CuckooIterator`, `Continuum` and `SimpleString`: done. The
modules have no recursive operator and keep `Bitwise` in `HashIndex`, which only the MC
module uses, so that TLAPS can work with them.

## 3. Modules and their correspondence to the code

### StripedLocks

`flag[i]` is the `atomic_flag` of `locks_[i]`. `held[t]` is what thread `t` believes
it holds; the two differ if a helper clears a flag once too often, which the code
could not notice. A request (`Lock`, `LockTwo`, `LockThree`, `LockAll`) computes the
order of acquisition exactly as the branches of `lock_two` and `lock_three` do
(`LockTwoOrder`, `LockThreeOrder`), `Acquire` is one successful `test_and_set`,
`Unlock` one `clear`. `UnlockTarget` is the early `unlock(ti, tb)` of
`cuckoopath_move` (1139-1146). `bucket & (kNumLocks - 1)` is `%`, `kNumLocks` being a
power of two. The refinement `Sets` maps a thread's set to `held` while it is in its
critical section and to nothing elsewhere.

### CuckooMap

A `TableInfo` is named by its hashpower, since every expansion strictly increases
it; `tables[hp]` keeps replaced tables too, because threads go on using them until
they notice. `ti[t]` is the thread's snapshot, `owned[t]` its locks in that table. A
section of code that takes locks and releases all of them is one step:
`StripedLocks` shows that the sets behave as if taken at once. Where the code gives
up its locks, steps are separate:

| action | code |
|---|---|
| `Snapshot`, `LockTwo` | `snapshot_and_lock_two`: load, hazard pointer, lock, look again |
| `Find`, `NotFound`, `Erase`, `Update` | the locked part of `find`, `erase`, `update`, `update_fn`, first half of `upsert` |
| `InsertDuplicate`, `InsertFree`, `InsertFull` | `cuckoo_insert` up to `run_cuckoo` |
| `SearchSlot`, `SearchAlt` | the two locked looks of each round of `slot_search`; `Continue` is its loop heads |
| `ReadPath` | one record of `cuckoopath_search` |
| `MoveNothing`, `Move` | `cuckoopath_move` with depth 0, and one displacement |
| `FinishInsert` | after `run_cuckoo` succeeded: table replaced, key inserted meanwhile, or insert |
| `ExpandSnapshot`, `LockAll`, `Clear`, `ExpandLate`, `Publish`, `Release` | `snapshot_and_lock_all`, `clear`, `cuckoo_expand_simple` |

`upsert` is the loop of the code: an update, then (if the key is not there) inserts,
from which a duplicate sends it back to updating; `inserting` tells the halves
apart. The path code, a base-8 number in the code, is kept as the sequence it
encodes. `Publish` rebuilds the table with every placement of the keys that inserting
them from several threads may lead to (`ThreadRange` is the partition of the old buckets
over `kNumCores` threads, `Collected` what they find there), up to `MaxSecond` keys in their second bucket
and disregarding the order within a bucket; the new map may itself expand
further. Key and value copies do not throw. The alternate-bucket law is an
assumption (`HashAssumption`), which TLC checks for the functions of `HashIndex`, the
translation of `index_hash` and `alt_index`. The others are modest: sizes are positive and
the breadth-first queue has room for its two roots (`SizeAssumption`), an update
function maps values to values and the special values are told from the others
(`ValueAssumption`), requests are well formed (`RequestAssumption`), and a
layout the table starts with is one that inserts can have made (`LayoutAssumption`).

`AtomicMap` is the promise: each call has its effect in the one step that ends it.
`Linearizable` maps `dict` to the contents of the current table.

### TableReclaim

Here tables are addresses that can be freed and allocated again, and what matters is
who can still reach them. Every load, hazard-pointer store, comparison of
`delete_unused` (one node at a time), flag clear of `AllUnlocker` and destructor is a
step. The hazard pointer is not atomic in the code. `late` chooses between two
memory orders: stores visible at once, or held in a FIFO store buffer until flushed
or until an atomic read-modify-write (x86-TSO, the weakest behaviour that hardware
the code is built for shows; a compiler may do more). Since old locks do not carry an
owner, `UnlockAll` clears the flags whoever set them.

An insert that finds its buckets full goes through `run_cuckoo`: `Full` unlocks both
(1185), then `LockBuckets` and `UnlockBuckets` are the sections of `cuckoopath_search`
and `cuckoopath_move` that lock some buckets of the same table and give them back,
`SlotFreed` is the end of a move that keeps the locks of the insert buckets, and `CompareTable`
the look at `table_info` after it (1208). Between the sections the thread holds no lock and works in
the table all the same; only its hazard pointer keeps the table there. `TableFull` is the
search that finds no path. How often the locks are given back is bounded by `MaxSections`.

`astray` is a history variable, which no action reads: a lock has been taken in a table
that was already deleted, or was held in a table when it was deleted. Findings 1 and 3 of
section 6 are ways to get there. Once a table is allocated again at that address, the
flags cleared or taken through the old pointer are those of another table, so what the
locks protect (`Accounted`, `ReplacesCurrent`) is claimed until then. What the hazard
pointers protect (`SafeIfOrdered`, `SafeWhenLocked`) does not depend on the locks
and is claimed always.

### CuckooIterator

All the locks of a map are one flag here, `locked[m]`; while it is clear, `Change` is
anything other threads may do to the table. An iterator is the record of its fields;
`hm_` and `ti_` are `map`, because a table cannot be replaced while its locks are
held. `MoveAssign` overwrites its target as `memcpy` does, so locks the target held
have no holder afterwards: `leaked` remembers those maps. `forward_filled_slot` and
`backward_filled_slot` are recursive functions over the steps of `forward_slot` and
`backward_slot`. `snapshot_table` is a step per round of its loop. `TablesAssumption` gives
the shape of a table (any number of buckets, each with `SlotPerBucket` slots), and
`NoneAssumption` tells `None` from iterators and collections.

### SkipList

`fwd[n][i]` is `mp_fwd_nodes[i]` of the node with key `n`, or of `Head`. `Call` starts
an operation, `Right` and `Down` are the inner and the outer loop of `find_nearest`,
and one action per outcome ends it with everything it does to the list: `Insert`
chooses any height `new_height` may return, `Remove` includes the lowering of
`m_curr_height`. The list is descending, as the comparison `*key < *cmp_key` makes it;
a client's key is never equal to the `max_key` in the tail. `SortedMap` maps `dict` to
`val`, the values of the nodes; `Towers` ties `val` to the links.

### Continuum

`servers_` and `points_` are the vectors and the `total_` variables the counters.
`spare` is the content of the memory after the last server, where `*end()` reads:
`erase` moves elements down and leaves the former last one there. `LowerBound` uses
`Ip`, since `operator<` compares hosts only, and `IsServer` compares addresses with
their ports. `SortedServers` is every result `std::sort` may have, `SortedPoints` puts each
point at the place that counts how many are not after it, and the loops over a vector
(`TotalMemory`, `AllPoints`, `PointsWithout`) are recursive functions. A server
file is a constant: its entries in the order of `ConfigLoader`'s map. `LoadConfig` is
`Config::load_config` and `reload`: it reads a property file, any of
`PropertyFiles`, at any time, also between two changes of the ring. A number is read
into 16 bits (`Read`: one that is too large becomes the largest; a missing one leaves
the old value) and the points are returned in 8 (`PointsPerServer`).

`NumHashes` computes a share as the code does, in `float` and rounded down: `Floats` has the numbers
of IEEE single precision as records `[man, exp]`, with every product and quotient rounded
to 24 bits. A share may so come out a point short. With one point per server and 41 equal servers
all do (the `ASSUME` of `MCContinuum` has TLC compute for which numbers), and the ring is empty,
although the file has points. Dividing by no memory, or a share no `int` can hold, is undefined in the
conversion to `int`; `Saturates` chooses between the two results processors give. The totals
are unsigned: `Plus` and `Minus` wrap at `MemoryValues` and `CountValues`.

A vector with room has a block, `reserved`; without one `*end()` is a null pointer (`NullEnd`).
`RemoveAtEnd` is `erase(end())` (213), where `remove_server` finds at `end()` the server that was removed
before. The standard leaves it undefined; the library does one of three things. A `memmove` of the length
-1 crashes. Where nothing is moved the vector gets one element shorter: the last server is off the list,
though it was not asked for and keeps its points. If the list was empty already, `end()` is then before
`begin()` (`Backwards`), and the next `add_server` writes before the block (`AddOutside`, a crash here).
The stale element's memory is taken off the total again. `stray` counts these calls; the list and the totals
are claimed to agree until the first (`TotalsExact`, `ServesListed`), the points and the keys always.
`phase = "crashed"` is the end of the program.

`HashAssumption` says that no two points of the ring fall together, since `std::sort` leaves
open which of them would come first. `ContinuumAssumption` says that files hold servers and numbers,
and memories are numbers of the type.

### SimpleString

An object is its three fields: `m_sso`, the bytes of `sso_buf_`, and `srep`, which is
`None` for a null `mp_srep` and otherwise the bytes from `buf_` to the end of the block
with `len_` and `free_`. Constructors and methods are functions from objects to objects
(`CopyOf`, `Appended`, `Trimmed`, ...), one for each body in the header, and the actions
apply them to the strings of a program. A method whose code would follow a null
pointer or leave its block gives `Undefined`, where the program stops. The properties
apply every method once more to every reachable string. `Readable`
says that `len_` is the length of the text in the buffer, `Sane` in addition that the
space `free_` claims is there and zeroed. The provisos of `EditsAsAsked` and
`CopiesAsAsked` are what a caller of this class must know; each was found as a
counterexample of the property without it (section 6). Where a method goes wrong on a string that
a caller would expect it to work on (`trim` of blanks, the free space `trim` and copy assignment
claim) the properties state exactly when. `int`-wise copies and
comparisons are byte-wise here; blocks that `release()` leaks are not followed.
`StringAssumption` says that '\0' is no character of a text, that the `uint32_t` counters can hold
twice the longest lengths, sizes and free space that the bounds allow, and that `None` and
`Undefined` are told from blocks (`Blocks`) and objects (`Strings`).

### LoggerInit, RefCount, BloomFilter

These three are small enough to be proved outright; their theorems (section 5) take the
place of runs.

`LoggerInit` is `logger::get` with the two looks at `log_instance`, the mutex, and
`log_msg`, which uses the same mutex. `new Log()` is three steps: `Allocate`, and then
`Construct` and `SetInstance` in either order, because a plain pointer is published.
`RefCount` is `intrusive_ptr_add_ref` and `intrusive_ptr_release` as called by the
`intrusive_ptr` variables `Ptrs`; the decrement and the `delete` are two steps.
`BloomFilter` keeps a byte as the set of its bits. One round of `insert` assigns a byte,
so what an insert leaves in a byte is the bit of the last round on it (`LastOn`). What
`m_hash` returns in each round is a parameter, since the seeds depend on the key only.

## 4. Runs

| run | instance | shows |
|---|---|---|
| `locks` | 2 threads, 4 locks, buckets 0, 1, 2 and 4 (which shares lock 0) | mutual exclusion, no leak, deadlock freedom, some thread always gets in, refinement of `LockSet` |
| `map_move` | 2 threads with 2 calls, hashpower 2, two full layouts, 4 locks | key placement, no duplicates, a freed slot stays free until filled, the search queue never runs dry, linearizability, with displacement |
| `map_full` | 3 threads with 1 call, hashpower 1 to 3, a full table, 2 locks | linearizability across expansions, exact counters, growth, termination of every call |
| `reclaim_safe` | 2 threads with 1 call each of any operation, 3 addresses, both store orders, an insert that gives its locks back | deleted tables are not in use (in order; and in any order once looked at with the locks held), each table has one owner and expansions replace the current table (both until a lock has gone astray), termination |
| `reclaim_late` | the same, both orders | **violation**: a late hazard-pointer store lets `size` use a deleted table |
| `reclaim_unlock` | the same, 2 locks, in order | **violation**: the hazard pointer is given up before the locks of the old table are cleared |
| `reclaim_overlap` | the same, in order | **violation**: two expansions change `old_table_infos` at once |
| `iterators` | 2 iterators, 2 maps, tables of 1 to 3 buckets of 2 slots | each map's locks have one holder or were lost in an assignment, positions are filled slots of the present table, no slot is skipped, snapshots are exact |
| `skip_list` | keys 1, 2, 4, 5 around the tail's 3, heights 1 to 3, two values | sorted complete levels, correct trackers, refinement of `SortedMap`, termination |
| `strings` | 2 strings, a small buffer of 2 bytes, texts of an `x` and blanks | each method and each constructor or assignment makes the string asked for, under named provisos |
| `continuum` | 4 addresses (2 on one host), 3 server files, 2 property files, one erasure at `end()` | totals and points of listed servers only until then, changes move only the keys they should |
| `continuum_stale` | the same | **violation**: a removed server cannot be added again |

`iterators` does not check for deadlock: after assignments have lost the locks of
every map the system really is stuck. All other runs do.

Every property of a passing run has a mutant in `PROJECT.json`: a plausible bug in
one definition that makes TLC report the property violated.

### Bounds, and why they are enough

* `locks`: `lock_three` with three buckets, of which two share a lock, meets every
  branch; two threads are the smallest number that can deadlock or exclude each
  other, and the theorems below hold for any number.
* `map_*`: 2 slots per bucket (8 in the code) and a queue of 4 or 5 nodes (500)
  keep the ratio that matters: the queue is full before the search is through with
  the last level of nodes that it may enqueue. That level has 2 * 2 * 2 nodes here and
  2 * 8 * 8 * 8 in the code, both more than the queue takes, which is what
  `NeverDrainedHolds` asks for (see also section 6). The layouts give
  paths of one and of two moves, and keys whose two buckets share locks.
* `MaxCalls`: 2 in `map_move`, so a displacement meets the result of an earlier call
  of its own thread's and of the other's; 1 elsewhere, where three threads or
  expansions multiply.
* `NumCores` = 3 with tables of 2 and 4 buckets: ranges of no and of one bucket, and a
  last one that takes the rest.
* `MaxPower` caps expansion: an insert that would exceed it does not occur in these
  instances, since a table one or two sizes larger holds all keys.
* `MaxSecond` = 1: a rebuilt table has no or one key in its second bucket. Later
  operations find keys in either.
* `iterators`: tables that are empty, full, and with gaps at the beginning, between
  buckets and at the end take every branch of the slot steps; a third iterator adds
  no new way to move a lock.
* `skip_list`: every shape of a list of four keys with three levels is reached; each
  side of the tail's key has two keys, so that the test against the tail matters.
  A second value shows if one were changed or returned for another.
* `strings`: the small buffer holds 2 bytes (15 in the code), so texts of 1 and 3 bytes
  and appends cross from the buffer to the heap. Two strings suffice, since no
  operation involves a third. `UintValues` = 32 is far above every length, so that only
  a true underflow wraps. `MaxLen` = 3 ends appending and `MaxFree` = 4 the growth of
  `free_` by repeated `trim`.
* `MaxSections` = 1: an insert in `run_cuckoo` has given its locks back twice, before and after
  a section; a further one changes nothing that another thread could see.
* `continuum`: the property files have 3 points and 257 (1 after the conversion), and 70000 servers
  (65535) and none; where the number of servers is missing, files of up to 3 servers meet the check for
  too many; 2 servers share a host; `MaxServers` 3 leaves room to add one to each file but the longest.
  `MaxStray` = 1: after one erasure at `end()` the model follows every call but another of its
  kind. `MemoryValues` = 60 and `CountValues` = 20 are above the totals of any list, so that only a
  true underflow wraps.
* 3 addresses: one current, one old, one new; a fourth table needs a reuse, which is
  the case of interest.

### Fairness

`FairSpec` gives weak fairness to the steps of each thread: the operating system
schedules every thread. It never forces a thread to make a call. A spin lock is not
fair: a thread that waits for a lock can be overtaken for ever by threads that keep
taking it. With finitely many calls (`MaxCalls`) that cannot happen, which is what
`EveryCallReturns` assumes; without that bound (`StripedLocks` has none) only
`SomeoneGetsIn` is claimed. Store buffers drain. In `SkipList` weak fairness means that the one thread that
made a call goes on with it.

## 5. Proofs

`StripedLocksProofs` proves, for any set of threads, any number of locks and any set
of bucket indexes, everything the run `locks` checks except liveness:

* `Typing`, `MutexHolds`, `WorksLockedHolds`, `NoLeakHolds`, `AscendingHolds`,
  `DeadlockFreeHolds` as `Spec => []...`;
* `Refines`: the helpers implement `LockSet`;
* `LockThreeAscending`, `UnlockThreeOnce`: the case analyses of `lock_three` and
  `unlock_three`.

The only assumption is `LocksAssumption`: at least one lock, bucket indexes are
natural numbers. Mutual exclusion is not inductive, since nothing in it relates
flags to owners. The inductive invariant `IInv` adds `FlagInv` (a flag is set exactly
when some thread holds that lock) and `ThreadInv` (for a thread that is locking:
what it holds and what is still to do are together the locks of its buckets, in
ascending order, every held one below every one to do; for a thread that is
unlocking: what is to do is exactly what it holds, each once). Deadlock freedom
follows by taking the largest lock any thread waits for: its holder is not waiting,
or it would wait for a larger one.

`CommonProofs` holds the short proofs, whose hypotheses are in the theorems (`RefCount` and
`LoggerInit` are instances there, `Ref` and `Logger`):

* of the logger, for any set of threads that does not contain `None`: one `Log` is
  created and returned to all (`CreatedOnce`), lines are not mixed and the mutex is never
  waited for by its owner (`LinesWhole`), and only while `new Log()` runs can another
  thread see a `Log` half built (`HalfBuilt`). The invariant (`LoggerInvariance`) says who
  owns the mutex (`Owned`) and how far the creation is (`Progress`).
* of the reference counts, for any finite set of pointers: `SafelyDeleted`. `NoDangling`
  alone is not inductive; the invariant (`CountInvariance`) needs that the counter is the
  number of pointers (`Exact`) and that whoever found it at 0 is alone (`Alone`).
* of the bloom filter, for any hash function and at least one bit (`Proper`):
  no round leaves the buffer (`InBuffer`), a byte never holds two bits (`Forgetful`), a
  key with two bits in one byte is therefore never found (`Unfindable`), and any other
  key is found when it is inserted (`Remembered`) and until a key is inserted that wants
  another bit of one of its bytes (`Overwritten`).

`SkipListProofs`, for any keys, values and number of levels (`KeysAssumption`: keys and
the tail's key are integers, and the special values differ from them and from one another;
`HeightAssumption`: there is a level; `CallAssumption`: `None` is no request):

* `Typing`, `LinkedHolds`, `TowersHold`, `HeightHolds`, `TrackedHolds`: every safety
  invariant of the run `skip_list`;
* `Refines`: the list implements `SortedMap`, step by step.

No invariant of the list is inductive alone: `Linked` after a `remove` needs `Towers` to know
that the node is gone from every level, both need `Tracked` to know that the trackers
precede it there, and `Tracked` needs the position of a search in progress
(`Searching`). `Stacked` is `Towers` for any two levels, stated as an invariant of its own so
that no induction over levels is needed. `Calling` keeps the first result of
`find_range` until its second search ends.

`TableReclaimProofs`, for any threads, addresses, locks, bounds and either store order
(`ReclaimAssumption`: there is an address and a finite, positive number of locks; the
special values are not members of the sets they mark the absence from):

* `Typing`, `AccountedHolds`, `SafeIfOrderedHolds`, `SafeWhenLockedHolds`,
  `ReplacesCurrentHolds`: everything the run `reclaim_safe` checks except liveness.

The invariant has two layers. `Base` is about hazard pointers: where each thread is and
what it must have written (`Control`, `Written`), that a table which a thread found
current after its hazard pointer was in memory is live (`Guarded`, which follows the scan of
`delete_unused` node by node: while the scan looks at that table, it has not yet come to
the thread's node), and which table is where (`Places`). It holds whatever happens to the locks, and the
two safety properties of reclamation follow from it. A thread in `run_cuckoo`, with or without
locks, is `Guarded` like one that holds them: its hazard pointer has been in memory since its first lock.
`WellLocked` says what the locks
protect and is an invariant until `astray`.

`CuckooMapProofs`, for any threads, keys, values and calls, any hash functions that
satisfy the alternate-bucket law, and any sizes and bounds that satisfy the assumptions named in
section 3:

* `Typing`, `OwnBucketsHolds`, `NoDuplicatesHolds`, `SizeExactHolds`, `ReadyHolds`: every
  safety invariant of the map runs but `NeverDrained`; `GrowsOnlyHolds`: the action
  property (a table is replaced by a larger one, by a thread that works in that table with all its locks,
  and for inserts by one of the next size, whoever else found it full);
* `NeverDrainedHolds`: the breadth-first search never dequeues from an empty queue, if
  `MaxCuckooCount` is at most the size of level `MaxBfsDepth - 1`, the last that is
  enqueued. `Levels` gives these sizes: 2, and `SlotsPerBucket` times the one before. In the
  code they are 2, 16, 128 and 1024, and `MAX_CUCKOO_COUNT` is 500;
* `Refines`: the table is linearizable. Every step of `CuckooMap` is, under the
  mapping of `dict` to the contents of the current table, a step of `AtomicMap` or
  changes nothing there;
* the operator lemmas they rest on: what writing a slot does to the set of entries
  (`SetEffect`), that the two buckets of a key hold it if the table does
  (`PlacesExact`), that moving an entry to a free slot of its other bucket keeps a table
  as it was but for the place (`MoveSound`), that the ranges the old buckets are divided into
  for rebuilding leave none out (`CollectedAll`), and that a rebuilt table has the entries
  of the old (`NewSound`).

`IInv` says of every table that it is `Sound` (entries in their own buckets, no key twice,
the counters right), also of the replaced ones, since a thread may be working in one; of
every thread what it knows where it is (`Local`: a search's queue holds nodes of its
own table; a path is `Chained`, that is, it begins in a bucket of the key to be inserted and
goes on each time to the alternate bucket of the key read before; the locks held are those
the next step needs);
and how threads meet (`Exclusive`: no lock of a table has two holders; `Recent`: a thread that
has looked at `table_info` after locking works in the current table; `Emptied`: the slot freed
by the last displacement stays free). The queue of a search has an invariant of its own on
top of that, `InRound`: it holds what is left of one level, then the children of the nodes
taken from that level. `ReadyToInsert` alone is not inductive, because
whether the freed slot is in one of the inserted key's buckets is decided when the path is
read, and whether it stays free by who holds its lock. The proof goes by action: what the
step does to its own thread (`After`), that it leaves all tables sound (`TablesStep`), and
that it disturbs no other thread (`OthersStep`), where the locks come in. For
linearizability a table is seen through the set of its entries (`View`), which the
operator lemmas speak of.

`CuckooIteratorProofs`, for any maps, iterators and tables with any number of buckets and
slots:

* `HeldOnceHolds`, `FilledOrEndHolds`, `SnapshotExactHolds`, `MovesToNeighbourHolds`:
  everything the run `iterators` checks;
* `NextFilled`, `PreviousFilled`: the loops of `forward_filled_slot` and
  `backward_filled_slot`, which are recursive functions here, end at the nearest filled slot
  in their direction, and where the code wants to be if there is none.

For the two loops no induction is needed: the function that gives the nearest filled slot
satisfies the loop's equation (`NextRound`), so the recursive function exists; and if it were
wrong somewhere, then at a last position, which its next round contradicts. `IInv`
says for each iterator (`Well`) that with the locks it rests at a filled slot or the end
and knows the table's present begin and end (`Rests`), which is what `--` needs in order to
stop; and for the maps (`Owners`) who has which locks. `SetValue` disturbs none of
it, since it changes a filled slot into a filled slot (`SameSlots`). `SnapshotExact`
follows since each round passes exactly one filled slot (`PassesOne`).

`ContinuumProofs`, for any addresses, hosts, memories, files and hash functions that satisfy
the assumptions named in section 3:

* `TotalsExactHolds`, `ServesListedHolds`, `MovesOnlyItsKeysHolds`: everything the run
  `continuum` checks.

`IInv` has three parts. `Counted` ties the total of the points to the vector in every phase but
`crashed`, and the others as long as `stray` is 0; `Ring` says that the points are sorted, that each was
given by the hash function under one of the property files, and, while `stray` is 0, that each
belongs to a listed server; `Typed` that the vectors are
what they are declared to be. `TotalsExact` is a conjunct of that, but what it rests on is not:
sorting does not change a sum (`MemoryReordered`, from a bijection of places, `Pigeons`), taking a server off
lowers it by that server's memory, and
`remove_server` finds as many points of the server as it subtracts (`PointsKept`). None of
this depends on how shares are rounded, so the proofs use no fact about `Floats`.
`MovesOnlyItsKeys` compares two rings. The server of a key
has the least point not below it, or the least of all (`Served`); two points of one value
belong to one server, also when they were made under different files (`SamePlace`); so a ring
that differs from another only in the points of one server serves each key by the same server
as before or by that one (`OnlyKeysOf`); that holds of a server removed at `end()` too.

The recursive functions over a vector exist because a partial solution of length `k` extends to
`k + 1`, and a least length without one would contradict that (`Steps`, with `Least`, the
least element of a set of naturals); facts about their values follow in the same way.

`SimpleStringProofs`, for any number of strings, any texts, positions and sizes of the small
buffer that satisfy `StringAssumption`: `EditsHold` and `CopiesHold`, which is everything the run
`strings` checks.

Both properties look one call ahead from every state a program gets to, so that the invariant must
say what every call needs. `IInv` says that an object whose behaviour is defined is `Formed`: its fields
have their types, and its small buffer holds a text and then zeros, even while the string is on the
heap. That is what makes a string in the small buffer sound wherever it came from: text copied over a
former text leaves a text (`CopiedOver`), though it may be the wrong one, which is what the provisos of
`CopiesAsAsked` are about. About blocks the invariant says no more than their types, because
nothing in the code keeps their counters right; what the properties assume of a block is in
`Readable` and `Sane`. `Holds(mem, t, cap)` (the bytes begin with the text `t` and are zero from there to
byte `cap`) is the relation all lemmas speak of: `HeapSays` and `HeapSound` get it from an object,
`Copied`, `FromHolds`, `BlockHolds` and `ZerosHold` follow it through the operations on bytes, and
`SmallIs` and `HeapIs` make a string of it again. `TrimStrips` is the longest: the first and
the last byte that the loops of `trim` keep are those of the stripped text. `TrimOfBlanks` is about
the text they keep nothing of, and `TrimClaims` adds up the counters `trim` leaves.

Before each of these proofs TLC checked the inductive invariant on the instances of the
runs.

Left to TLC is liveness (`SomeoneGetsIn`, `EveryCallReturns`, `Returns`), which the installed
provers do not reach. It is what is left of the properties of the passing runs: every safety
invariant, action property and refinement they check has its theorem.

## 6. What the checks found

1. `UnlocksLive` (1562, also 399): C++ destroys locals in reverse order, so the
   `HazardPointerUnsetter` declared after the `AllUnlocker` runs first. For a moment
   an expansion clears locks of a table that is protected by nothing.
   If the table is deleted in that moment and another is made at its address, the
   flags cleared are those of the new table. With two inserting threads, 3 addresses
   and hashpowers up to 5, TLC shows where this leads: two threads hold all locks of
   one table and both replace it. That is why `ReplacesCurrent` and `Accounted` stop at
   `astray`; without that proviso they are violated in this larger instance. (The
   instance of `reclaim_safe` reaches states with `astray`, but not the second
   expansion.)
2. `OneExpansion` (1596): after the new table is published, the old locks exclude
   nobody from expanding it; `old_table_infos`, a plain `std::list`, is then pushed to
   by two threads, or pushed to while `remove_if` walks it.
3. `SafeDelete` (761): the hazard pointer needs a sequentially consistent store.
   `SafeWhenLocked` shows that operations that look at `table_info` again after
   locking are safe all the same: the lock is an atomic read-modify-write, which on x86 puts the
   hazard pointer in memory before the second look, and there it stays until the
   operation ends, also while `run_cuckoo` has given the locks back. `size` and its kin take no
   lock and are not safe.
4. `RefusesOnlyPresent` (`continuum.cc` 152): `add_server` reads `*end()` and takes the
   server that was erased last for one that is present.

5. `CopiesAsAsked` and `EditsAsAsked` hold under provisos each of which the code needs, or state
   what goes wrong (lines of `simple_string.h`):
   * a copy of a small string follows the null `mp_srep` (80);
   * assigning a heap string copies `free_` but not the space (322-329), so a later
     append may write outside the block, and an object in its small buffer ignores the
     new text, since `m_sso` stays set;
   * moving a small string into one that is on the heap but was small before leaves the
     end of its former text (118: `clear` zeroes the buffer in use, not `sso_buf_`); if the
     target was itself moved from, `clear` follows a null pointer;
   * `trim` and `substr` of a small string follow the null `mp_srep` (457, 391), and
     `trim_mem_eff` builds a block that is not used (427-434);
   * `trim` of a heap string that is empty or all blank takes the terminator for a blank
     (454-456: `strchr` finds '\0' in any set) and moves `buf_` one byte past it (458); it
     is a string still only if another '\0' follows in the block, and in a block that just holds
     the text `buf_` points outside;
   * `trim` counts the terminator as free space (466), so that the next `append` may write one
     byte past the block, which `shrink_to_fit` puts right;
     `substr` with an end inside the text makes `len_` one too small (392); the block
     `trim_mem_eff` builds has no terminator (427).

6. `Unfindable` and `Overwritten` (`bloom_filter.h` 112): `insert` assigns the byte where
   it means to set a bit of it, so inserting a key may make the filter forget others,
   and some keys are never found, although `can_have` (130) promises to return "true if
   already seen".
7. `HalfBuilt` (`logger.cc` 17): the first look takes no lock, so a thread may use the
   logger before its constructor has ended.
8. `TotalsExact` and `ServesListed` hold until a server is removed that was removed before and
   still lies at `end()` (`continuum.cc` 191, 213): `remove_server` erases at `end()`, which may crash or drop
   another server from the list and leaves `total_memory_` wrong.
9. Shares are rounded down in `float` (`continuum.cc` 89-91): with one point per server, 41 (or 47) equal
   servers get no points, and `get_server` dereferences the `begin()` of an empty ring (133).

Three more behaviours are in the models but not runs of their own. The comment at
`cuckoohash_map.hh` 123, "This must be less than or equal to
SLOT_PER_BUCKET^(MAX_BFS_DEPTH+1)", allows too large a queue: with 2 slots, depth 3 and a
queue of 9, which is below 2^4, the instance of `map_full` violates `NeverDrained`, since
no more than 8 nodes can be in the queue at once. What the code needs is 2 *
SLOT_PER_BUCKET^(MAX_BFS_DEPTH-1), and its own constants satisfy it. Assigning to an
iterator that holds the locks of a map leaves them taken for ever (`leaked`, allowed
for in `HeldOnce`). And a server that shares its host with another may be added
twice, since only the first server of the host is compared with it.

## 7. Not modelled

* `size`, `empty` and `load_factor` while other threads change the map. They add counters
  up one after the other; `SizeExact` says what the counters are at one instant, and
  `TableReclaim` follows the table these readers use.
* Exceptions thrown by the copy of a key or a value, or by an allocation.
* The separation of configuration lines into names and values, a value that is not a
  number, and the reserve factor.
* How the bloom filter computes its sizes, and its allocation.
* For good: third-party hashing, the unfinished draft, declarations without behaviour
  (`thread.h`, `system.h`, `hash_map.h`, `abstract_object.h`, `string.h`), aligned
  storage, the common spin lock (the same loop as the bucket locks', used by nothing),
  and the `reference` of `operator[]`, which forwards.

`PROJECT.json` lists each with its reason, and under `hazards` what each is exposed to.
