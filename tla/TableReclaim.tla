---------------------------- MODULE TableReclaim ----------------------------
(***************************************************************************)
(* The life of the TableInfos of cuckoohash_map.hh: how an operation gets  *)
(* hold of the current one and protects it with its hazard pointer, how an *)
(* expansion replaces it and deletes the old ones nobody protects.  What   *)
(* the operations do to the table's contents is CuckooMap's subject.       *)
(*                                                                         *)
(* Tables are named by their address, and an address that was freed may be *)
(* allocated again.  *hazard_pointer is a plain pointer, written by one    *)
(* thread and read by another without synchronization.  In a behaviour     *)
(* with `late` such a write waits in the writer's store buffer, as it may  *)
(* on x86, until it is flushed or the thread executes an atomic            *)
(* read-modify-write; in one without it is in memory at once.              *)
(***************************************************************************)
EXTENDS Integers, Sequences, FiniteSets

CONSTANTS
    Threads,        \* the threads calling the map
    Addrs,          \* the addresses TableInfos are allocated at
    NoAddr,         \* nullptr
    NoThread,       \* no owner of a lock
    LockIds,        \* the indexes of locks_
    Orders,         \* the values of `late` considered
    MaxPower,       \* bound: no table is larger than this hashpower
    Requests(_),    \* the operations a thread may call
    MaxCalls,       \* bound: how many calls a thread makes
    MaxSections     \* bound: how often run_cuckoo gives its locks back

Ops == {"size", "find", "insert", "clear", "rehash"}

ASSUME ReclaimAssumption ==
    /\ Addrs # {} /\ NoAddr \notin Addrs /\ NoThread \notin Threads
    /\ LockIds \subseteq Nat /\ LockIds # {} /\ IsFiniteSet(LockIds)
    /\ Orders \subseteq BOOLEAN /\ Orders # {}
    /\ MaxPower \in Nat \ {0} /\ MaxCalls \in Nat /\ MaxSections \in Nat \ {0}
    /\ \A t \in Threads : Requests(t) \subseteq Ops

VARIABLES
    late,              \* whether hazard pointers are written late
    table_info,        \* the current table
    live,              \* live[a]: a TableInfo is allocated at a
    power,             \* power[a]: its hashpower_
    owner,             \* owner[a][i]: who holds locks_[i] of the table at a
    old_table_infos,   \* the replaced tables that are not deleted yet
    nodes,             \* the threads with a node in the hazard pointer list
    astray,            \* history: a lock was taken in a deleted table, or was
                       \* held in a table that was deleted
    hazard,            \* hazard[t]: what t's node holds in memory
    buffer,            \* buffer[t]: its writes to the node not yet in memory
    mutex,             \* who is in delete_unused, holding the list's mutex
    cur, unread, kept, \* there: the table looked at, the nodes it was not yet
                       \* compared with, the tables found to be protected
    pc,                \* where each thread is
    op,                \* the operation it is in
    calls,             \* how many calls it has made
    mode,              \* the locks it takes next: "none", "two", "all"
    want,              \* the hashpower it wants to expand to
    ti,                \* its snapshot of table_info
    sections,          \* how often its run_cuckoo gave its locks back
    new,               \* new_map's table while it is not published
    left               \* the locks its AllUnlocker has still to clear

scanning == <<mutex, cur, unread, kept>>
local == <<op, calls, mode, want, left, sections>>
memory == <<live, power, old_table_infos, nodes, astray>>
hazards == <<hazard, buffer>>
vars == <<late, table_info, memory, owner, hazards, scanning, pc, local, ti, new>>
-----------------------------------------------------------------------------
NoOwner == [i \in LockIds |-> NoThread]

\* The constructor's table; which address it gets makes no difference.
Init ==
    /\ late \in Orders
    /\ table_info = CHOOSE a \in Addrs : TRUE
    /\ live = [a \in Addrs |-> a = table_info]
    /\ power = [a \in Addrs |-> IF a = table_info THEN 1 ELSE 0]
    /\ owner = [a \in Addrs |-> NoOwner]
    /\ old_table_infos = {}
    /\ nodes = {}
    /\ astray = FALSE
    /\ hazard = [t \in Threads |-> NoAddr]
    /\ buffer = [t \in Threads |-> <<>>]
    /\ mutex = NoThread /\ cur = NoAddr /\ unread = {} /\ kept = {}
    /\ pc = [t \in Threads |-> "idle"]
    /\ op = [t \in Threads |-> "size"]
    /\ calls = [t \in Threads |-> 0]
    /\ mode = [t \in Threads |-> "none"]
    /\ want = [t \in Threads |-> 0]
    /\ ti = [t \in Threads |-> NoAddr]
    /\ sections = [t \in Threads |-> 0]
    /\ new = [t \in Threads |-> NoAddr]
    /\ left = [t \in Threads |-> {}]

At(t, label) == pc[t] = label
Goto(t, label) == pc' = [pc EXCEPT ![t] = label]

\* The thread's writes to its node are all in memory: what an atomic
\* read-modify-write (a spin lock, the mutex, table_info.store) makes sure of.
Fenced(t) == buffer[t] = <<>>

\* *hazard_pointer = a
SetNode(t, a) ==
    IF late
    THEN buffer' = [buffer EXCEPT ![t] = Append(@, a)] /\ UNCHANGED hazard
    ELSE hazard' = [hazard EXCEPT ![t] = a] /\ UNCHANGED buffer

\* The processor writes the oldest buffered value to memory.
Flush(t) ==
    /\ ~Fenced(t)
    /\ hazard' = [hazard EXCEPT ![t] = Head(buffer[t])]
    /\ buffer' = [buffer EXCEPT ![t] = Tail(@)]
    /\ UNCHANGED <<table_info, memory, owner, scanning, pc, local, ti, new>>

Mine(t) == {i \in LockIds : owner[ti[t]][i] = t}

Unlock(t, locks) ==
    owner' = [owner EXCEPT ![ti[t]] = [i \in LockIds |->
                  IF i \in locks THEN NoThread ELSE @[i]]]

\* Set the flags of these locks of the table at ti, when all are clear.
TakeLocks(t, locks) ==
    /\ Fenced(t)
    /\ \A i \in locks : owner[ti[t]][i] = NoThread
    /\ owner' = [owner EXCEPT ![ti[t]] = [i \in LockIds |->
                    IF i \in locks THEN t ELSE @[i]]]
    /\ astray' = (astray \/ ~live[ti[t]])
-----------------------------------------------------------------------------
FirstMode(o) == CASE o \in {"size", "rehash"} -> "none"
                  [] o \in {"find", "insert"} -> "two"
                  [] o = "clear" -> "all"

\* mutant: reserve_calc rounds up once too often
AskedForMore(o, n) == IF o = "rehash" THEN n + 1 ELSE 0

\* The hashpower rehash is called with, or reserve computes.
AskedFor(o, n) == IF o = "rehash" THEN n ELSE 0

\* A public operation; check_hazard_pointer sends a new thread to the list.
Call(t) ==
    /\ At(t, "idle")
    /\ calls[t] < MaxCalls
    /\ \E o \in Requests(t), n \in 1 .. MaxPower :
          /\ op' = [op EXCEPT ![t] = o]
          /\ mode' = [mode EXCEPT ![t] = FirstMode(o)]
          /\ want' = [want EXCEPT ![t] = AskedFor(o, n)]
    /\ calls' = [calls EXCEPT ![t] = @ + 1]
    /\ Goto(t, IF t \in nodes THEN "load" ELSE "register")
    /\ UNCHANGED <<table_info, memory, owner, hazards, scanning, left, sections, ti, new>>

\* new_hazard_pointer, under the list's mutex.
Register(t) ==
    /\ At(t, "register")
    /\ mutex = NoThread
    /\ nodes' = nodes \cup {t}
    /\ Goto(t, "load")
    /\ UNCHANGED <<table_info, live, power, old_table_infos, astray, owner, hazards,
                   scanning, local, ti, new>>

\* mutant: table_info is not loaded again
NotReloaded(t) == TRUE

\* ti == table_info.load(), after the hazard pointer was written.
Unchanged(t) == ti[t] = table_info

\* mutant: table_info is not loaded again once the locks are held
NotReloadedLocked(t) == TRUE

\* ti == table_info.load(), after the locks were taken.
StillCurrent(t) == ti[t] = table_info

(***************************************************************************)
(* snapshot_table_nolock, and the same steps in snapshot_and_lock_two and  *)
(* snapshot_and_lock_all: load, write the hazard pointer, load again.      *)
(***************************************************************************)
Load(t) ==
    /\ At(t, "load")
    /\ ti' = [ti EXCEPT ![t] = table_info]
    /\ Goto(t, "protect")
    /\ UNCHANGED <<table_info, memory, owner, hazards, scanning, local, new>>

Protect(t) ==
    /\ At(t, "protect")
    /\ SetNode(t, ti[t])
    /\ Goto(t, "check")
    /\ UNCHANGED <<table_info, memory, owner, scanning, local, ti, new>>

Check(t) ==
    /\ At(t, "check")
    /\ Goto(t, IF ~Unchanged(t) THEN "load"
               ELSE IF mode[t] = "none" THEN "using" ELSE "lock")
    /\ UNCHANGED <<table_info, memory, owner, hazards, scanning, local, ti, new>>

\* The locks of two buckets, or all of them, of the table at ti.
Lock(t) ==
    /\ At(t, "lock")
    /\ \E locks \in SUBSET LockIds :
          /\ IF mode[t] = "all" THEN locks = LockIds ELSE Cardinality(locks) \in {1, 2}
          /\ TakeLocks(t, locks)
    /\ Goto(t, "recheck")
    /\ UNCHANGED <<table_info, live, power, old_table_infos, nodes, hazards, scanning,
                   local, ti, new>>

\* With the locks held, look whether the table is still the current one.
Recheck(t) ==
    /\ At(t, "recheck")
    /\ IF ~StillCurrent(t)
       THEN Unlock(t, Mine(t)) /\ Goto(t, "load")
       ELSE Goto(t, "using") /\ UNCHANGED owner
    /\ UNCHANGED <<table_info, memory, hazards, scanning, local, ti, new>>
-----------------------------------------------------------------------------
\* find, erase, update and inserts: use the table, unlock_two; size and a
\* rehash that asks for too little never took a lock.
Done(t) ==
    /\ \/ At(t, "using") /\ mode[t] = "two"
       \/ At(t, "using") /\ mode[t] = "none" /\ op[t] = "size"
       \/ At(t, "using") /\ mode[t] = "none" /\ op[t] = "rehash" /\ want[t] <= power[ti[t]]
       \/ At(t, "adding")
    /\ Unlock(t, Mine(t))
    /\ Goto(t, "unset")
    /\ UNCHANGED <<table_info, memory, hazards, scanning, local, ti, new>>

\* mutant: an insert asks for the hashpower the table has
SamePower(t) == power[ti[t]]

\* What cuckoo_insert_loop asks for when the table is full.
NextPower(t) == power[ti[t]] + 1

(***************************************************************************)
(* run_cuckoo: cuckoo_insert found both buckets full and unlocks them.     *)
(* Then the search for a path and the moves along it lock and unlock other *)
(* buckets of the same table, up to three at a time, with nothing but the  *)
(* hazard pointer to keep the table there between two such sections.       *)
(***************************************************************************)
Full(t) ==
    /\ At(t, "using")
    /\ op[t] = "insert" /\ mode[t] = "two"
    /\ Unlock(t, Mine(t))
    /\ sections' = [sections EXCEPT ![t] = 0]
    /\ Goto(t, "cuckoo")
    /\ UNCHANGED <<table_info, memory, hazards, scanning, op, calls, mode, want, left, ti, new>>

LockBuckets(t) ==
    /\ At(t, "cuckoo")
    /\ \E locks \in SUBSET LockIds :
          Cardinality(locks) \in {1, 2, 3} /\ TakeLocks(t, locks)
    /\ Goto(t, "moving")
    /\ UNCHANGED <<table_info, live, power, old_table_infos, nodes, hazards, scanning,
                   local, ti, new>>

\* Looked at a bucket, made a move that is not the last, or could not make it.
UnlockBuckets(t) ==
    /\ At(t, "moving")
    /\ sections[t] < MaxSections
    /\ Unlock(t, Mine(t))
    /\ sections' = [sections EXCEPT ![t] = @ + 1]
    /\ Goto(t, "cuckoo")
    /\ UNCHANGED <<table_info, memory, hazards, scanning, op, calls, mode, want, left, ti, new>>

\* The last move: the locks of the two insert buckets are kept.
SlotFreed(t) ==
    /\ At(t, "moving")
    /\ sections[t] > 0
    /\ \E two \in SUBSET Mine(t) :
          /\ Cardinality(two) \in {1, 2} \/ Mine(t) = {}
          /\ Unlock(t, Mine(t) \ two)
    /\ Goto(t, "moved")
    /\ UNCHANGED <<table_info, memory, hazards, scanning, local, ti, new>>

\* failure_under_expansion: cuckoo_insert_loop goes round with a new snapshot.
CompareTable(t) ==
    /\ At(t, "moved")
    /\ IF ~StillCurrent(t)
       THEN Unlock(t, Mine(t)) /\ Goto(t, "load")
       ELSE Goto(t, "adding") /\ UNCHANGED owner
    /\ UNCHANGED <<table_info, memory, hazards, scanning, local, ti, new>>

\* The search found no path: no lock is held, but the hazard pointer still is
\* set when cuckoo_insert_loop reads ti->hashpower_.
TableFull(t) ==
    /\ At(t, "cuckoo")
    /\ sections[t] > 0
    /\ power[ti[t]] < MaxPower
    /\ want' = [want EXCEPT ![t] = NextPower(t)]
    /\ mode' = [mode EXCEPT ![t] = "all"]
    /\ Goto(t, "load")
    /\ UNCHANGED <<table_info, memory, owner, hazards, scanning, op, calls, left, sections,
                   ti, new>>

\* rehash and reserve go on to cuckoo_expand_simple.
Rehash(t) ==
    /\ At(t, "using")
    /\ op[t] = "rehash" /\ mode[t] = "none"
    /\ want[t] > power[ti[t]]
    /\ mode' = [mode EXCEPT ![t] = "all"]
    /\ Goto(t, "load")
    /\ UNCHANGED <<table_info, memory, owner, hazards, scanning, op, calls, want, left, sections,
                   ti, new>>

\* clear, and an expansion that finds the table large enough already.
NoExpansion(t) ==
    /\ At(t, "using")
    /\ mode[t] = "all"
    /\ op[t] = "clear" \/ want[t] <= power[ti[t]]
    /\ Goto(t, "unprotect")
    /\ UNCHANGED <<table_info, memory, owner, hazards, scanning, local, ti, new>>

\* new_map: allocate a table and fill it, with all the old locks held.
Build(t) ==
    /\ At(t, "using")
    /\ mode[t] = "all"
    /\ op[t] # "clear" /\ want[t] > power[ti[t]]
    /\ \E a \in Addrs :
          /\ ~live[a]
          /\ live' = [live EXCEPT ![a] = TRUE]
          /\ power' = [power EXCEPT ![a] = want[t]]
          /\ owner' = [owner EXCEPT ![a] = NoOwner]
          /\ new' = [new EXCEPT ![t] = a]
    /\ Goto(t, "publish")
    /\ UNCHANGED <<table_info, old_table_infos, nodes, astray, hazards, scanning, local, ti>>

\* table_info.store; new_map gives its table away.
Publish(t) ==
    /\ At(t, "publish")
    /\ Fenced(t)
    /\ table_info' = new[t]
    /\ new' = [new EXCEPT ![t] = NoAddr]
    /\ Goto(t, "push")
    /\ UNCHANGED <<memory, owner, hazards, scanning, local, ti>>

\* old_table_infos.push_back, with no lock on the list.  (The list is a set
\* here: only if a lock went astray is a table pushed by two expansions.)
Push(t) ==
    /\ At(t, "push")
    /\ old_table_infos' = old_table_infos \cup {ti[t]}
    /\ Goto(t, "delete")
    /\ UNCHANGED <<table_info, live, power, nodes, astray, owner, hazards, scanning, local,
                   ti, new>>

(***************************************************************************)
(* delete_unused: under the mutex, compare each old table with each node   *)
(* of the hazard pointer list, one at a time, and delete it if none holds  *)
(* it.  A table pushed meanwhile is seen too.                              *)
(***************************************************************************)
DeleteUnused(t) ==
    /\ At(t, "delete")
    /\ mutex = NoThread
    /\ Fenced(t)
    /\ mutex' = t
    /\ kept' = {}
    /\ Goto(t, "scan")
    /\ UNCHANGED <<table_info, memory, owner, hazards, cur, unread, local, ti, new>>

\* mutant: an expansion looks at its own hazard pointer only
OwnNode(t) == {t}

\* The nodes of the hazard pointer list that std::find goes through.
ListedNodes(t) == nodes

NextOld(t) ==
    /\ At(t, "scan")
    /\ cur = NoAddr
    /\ cur' \in old_table_infos \ kept
    /\ unread' = ListedNodes(t)
    /\ UNCHANGED <<table_info, memory, owner, hazards, mutex, kept, pc, local, ti, new>>

Compare(t) ==
    /\ At(t, "scan")
    /\ cur # NoAddr
    /\ \E u \in unread :
          IF hazard[u] = cur
          THEN kept' = kept \cup {cur} /\ cur' = NoAddr /\ unread' = {}
          ELSE unread' = unread \ {u} /\ UNCHANGED <<cur, kept>>
    /\ UNCHANGED <<table_info, memory, owner, hazards, mutex, pc, local, ti, new>>

\* mutant: the list keeps the pointer to what was deleted
Kept(a) == old_table_infos

\* remove_if takes the deleted table off the list.
Removed(a) == old_table_infos \ {a}

Delete(t) ==
    /\ At(t, "scan")
    /\ cur # NoAddr
    /\ unread = {}
    /\ live' = [live EXCEPT ![cur] = FALSE]
    /\ old_table_infos' = Removed(cur)
    /\ astray' = (astray \/ owner[cur] # NoOwner)
    /\ cur' = NoAddr
    /\ UNCHANGED <<table_info, power, nodes, owner, hazards, mutex, unread, kept, pc,
                   local, ti, new>>

EndScan(t) ==
    /\ At(t, "scan")
    /\ cur = NoAddr
    /\ old_table_infos \subseteq kept
    /\ mutex' = NoThread
    /\ Goto(t, "unprotect")
    /\ UNCHANGED <<table_info, memory, owner, hazards, cur, unread, kept, local, ti, new>>
-----------------------------------------------------------------------------
(***************************************************************************)
(* The end of a scope with an AllUnlocker and, declared after it, a        *)
(* HazardPointerUnsetter: the latter is destroyed first, the former then   *)
(* clears the lock flags one by one.                                       *)
(***************************************************************************)
Unprotect(t) ==
    /\ At(t, "unprotect")
    /\ SetNode(t, NoAddr)
    /\ left' = [left EXCEPT ![t] = LockIds]
    /\ Goto(t, "unlock_all")
    /\ UNCHANGED <<table_info, memory, owner, scanning, op, calls, mode, want, sections, ti, new>>

\* The next flag at ti[t], whoever set it, or whatever that memory now is.
UnlockAll(t) ==
    LET i == CHOOSE i \in left[t] : \A j \in left[t] : i <= j IN
    /\ At(t, "unlock_all")
    /\ left[t] # {}
    /\ Unlock(t, {i})
    /\ left' = [left EXCEPT ![t] = @ \ {i}]
    /\ UNCHANGED <<table_info, memory, hazards, scanning, pc, op, calls, mode, want, sections,
                   ti, new>>

\* An insert takes a new snapshot; rehash has one more unsetter of its own.
AllUnlocked(t) ==
    /\ At(t, "unlock_all")
    /\ left[t] = {}
    /\ Goto(t, CASE op[t] = "insert" -> "load"
                 [] op[t] = "rehash" -> "unset"
                 [] op[t] = "clear" -> "idle")
    /\ mode' = [mode EXCEPT ![t] = FirstMode(op[t])]
    /\ want' = [want EXCEPT ![t] = 0]
    /\ UNCHANGED <<table_info, memory, owner, hazards, scanning, op, calls, left, sections,
                   ti, new>>

\* The HazardPointerUnsetter of an operation that holds no lock any more.
Unset(t) ==
    /\ At(t, "unset")
    /\ SetNode(t, NoAddr)
    /\ Goto(t, "idle")
    /\ UNCHANGED <<table_info, memory, owner, scanning, local, ti, new>>

Step(t) ==
    \/ Register(t) \/ Load(t) \/ Protect(t) \/ Check(t) \/ Lock(t) \/ Recheck(t)
    \/ Done(t) \/ Rehash(t) \/ NoExpansion(t)
    \/ Full(t) \/ LockBuckets(t) \/ UnlockBuckets(t) \/ SlotFreed(t)
    \/ CompareTable(t) \/ TableFull(t)
    \/ Build(t) \/ Publish(t) \/ Push(t)
    \/ DeleteUnused(t) \/ NextOld(t) \/ Compare(t) \/ Delete(t) \/ EndScan(t)
    \/ Unprotect(t) \/ UnlockAll(t) \/ AllUnlocked(t) \/ Unset(t)

\* All calls made and returned, all writes in memory.
Finished ==
    /\ \A t \in Threads : At(t, "idle") /\ calls[t] = MaxCalls /\ Fenced(t)
    /\ UNCHANGED vars

Next ==
    \/ late' = late /\ \E t \in Threads : Call(t) \/ Step(t) \/ Flush(t)
    \/ Finished

Spec == Init /\ [][Next]_vars

\* Every thread is scheduled, and store buffers drain.
FairSpec == Spec /\ \A t \in Threads : WF_vars(late' = late /\ Step(t)) /\ WF_vars(late' = late /\ Flush(t))
-----------------------------------------------------------------------------
Labels == {"idle", "register", "load", "protect", "check", "lock", "recheck", "using",
           "cuckoo", "moving", "moved", "adding", "publish", "push", "delete", "scan",
           "unprotect", "unlock_all", "unset"}

\* The types of the variables.
TypeOK ==
    /\ late \in BOOLEAN /\ table_info \in Addrs
    /\ live \in [Addrs -> BOOLEAN]
    /\ power \in [Addrs -> 0 .. MaxPower]
    /\ owner \in [Addrs -> [LockIds -> Threads \cup {NoThread}]]
    /\ old_table_infos \subseteq Addrs
    /\ nodes \subseteq Threads /\ astray \in BOOLEAN
    /\ hazard \in [Threads -> Addrs \cup {NoAddr}]
    /\ buffer \in [Threads -> Seq(Addrs \cup {NoAddr})]
    /\ mutex \in Threads \cup {NoThread}
    /\ cur \in Addrs \cup {NoAddr} /\ unread \subseteq Threads /\ kept \subseteq Addrs
    /\ pc \in [Threads -> Labels]
    /\ op \in [Threads -> Ops]
    /\ calls \in [Threads -> 0 .. MaxCalls]
    /\ mode \in [Threads -> {"none", "two", "all"}]
    /\ want \in [Threads -> 0 .. MaxPower]
    /\ ti \in [Threads -> Addrs \cup {NoAddr}]
    /\ new \in [Threads -> Addrs \cup {NoAddr}]
    /\ left \in [Threads -> SUBSET LockIds]
    /\ sections \in [Threads -> 0 .. MaxSections]

\* Between the check of its snapshot and the reset of its hazard pointer a
\* thread reads, writes, locks and unlocks the table.
Displacing == {"cuckoo", "moving", "moved", "adding"}
Locked == {"publish", "push", "delete", "scan", "unprotect"}
Protected == {"lock", "recheck", "using"} \cup Displacing \cup Locked

Uses(t, a, labels) == pc[t] \in labels /\ ti[t] = a

Deleted(a) == live[a] /\ ~live'[a]

(***************************************************************************)
(* What the hazard pointers are for: delete_unused never deletes a table   *)
(* that a thread looks at after having checked its snapshot, however the   *)
(* scan of the nodes, later expansions and the reuse of the address fall   *)
(* between the thread's steps.  Here: if hazard pointers are written in    *)
(* program order.                                                          *)
(***************************************************************************)
SafeIfOrdered ==
    [][~late => \A a \in Addrs, t \in Threads :
           Deleted(a) => ~Uses(t, a, Protected)]_vars

(***************************************************************************)
(* "If the table info has changed in the time we set the hazard pointer,   *)
(* ti could have been deleted, so try again": if it has not changed, the   *)
(* hazard pointer protects ti from then on, whatever the store order.      *)
(***************************************************************************)
SafeDelete ==
    [][\A a \in Addrs, t \in Threads : Deleted(a) => ~Uses(t, a, Protected)]_vars

(***************************************************************************)
(* The second check, made with the locks held, needs no store order: who   *)
(* passed it is never left with a deleted table, not even while run_cuckoo *)
(* has given the locks back and other threads replace the table and scan   *)
(* the nodes.  The spin lock taken before the check is an atomic           *)
(* read-modify-write and puts the hazard pointer in memory; from then on   *)
(* every delete_unused that looks for this table finds it.  (size, which   *)
(* takes no lock, makes no such check.)                                    *)
(***************************************************************************)
SafeWhenLocked ==
    [][\A a \in Addrs, t \in Threads :
          Deleted(a) /\ mode[t] # "none" =>
              ~Uses(t, a, {"using"} \cup Displacing \cup Locked)]_vars

(***************************************************************************)
(* UnlocksLive, below, does not hold: a lock may be cleared after its      *)
(* table was deleted, and is then a lock of the next table at that address *)
(* or of none; and with late hazard pointers one may be taken there.  Two  *)
(* threads may so hold all locks of a table, and both replace it.          *)
(* Accounted and ReplacesCurrent are what the code promises until a lock   *)
(* has gone astray.                                                        *)
(***************************************************************************)

(***************************************************************************)
(* Every allocated table has exactly one owner at any moment: it is the    *)
(* current one, or being built, or on its way to old_table_infos or there. *)
(* So none is leaked, and none deleted twice, when expansions overlap.     *)
(***************************************************************************)
Accounted ==
    ~astray => \A a \in Addrs :
        LET building == {t \in Threads : new[t] = a}
            pushing  == {t \in Threads : pc[t] = "push" /\ ti[t] = a}
            current  == {x \in {table_info} : x = a}
            old      == old_table_infos \cap {a}
        IN Cardinality(building) + Cardinality(pushing) + Cardinality(current)
               + Cardinality(old) = IF live[a] THEN 1 ELSE 0

(***************************************************************************)
(* An expansion replaces the table it copied and no other, by a larger     *)
(* one, while it holds every lock of the one it replaces.                  *)
(***************************************************************************)
ReplacesCurrent ==
    [][~astray /\ table_info' # table_info =>
          /\ power[table_info'] > power[table_info]
          /\ \E t \in Threads : \A i \in LockIds : owner[table_info][i] = t]_vars

\* Every call returns: the retries end with the expansions that cause them,
\* and the mutex and the locks never wait for each other.
EveryCallReturns == \A t \in Threads : pc[t] # "idle" ~> pc[t] = "idle"

(***************************************************************************)
(* "This keeps the memory alive for any leftover operations": the locks an *)
(* AllUnlocker has still to clear are in a table that exists.              *)
(***************************************************************************)
UnlocksLive ==
    \A t \in Threads : pc[t] = "unlock_all" /\ left[t] # {} => live[ti[t]]

(***************************************************************************)
(* "no other operations can change the table during expansion. If some     *)
(* other thread is holding the expansion thread at the time, then it will  *)
(* return failure_under_expansion": no two threads are in the part of      *)
(* cuckoo_expand_simple that changes old_table_infos.                      *)
(***************************************************************************)
OneExpansion ==
    \A t, u \in Threads :
        {pc[t], pc[u]} \subseteq {"push", "delete", "scan"} => t = u
=============================================================================
