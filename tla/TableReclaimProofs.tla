-------------------------- MODULE TableReclaimProofs --------------------------
(***************************************************************************)
(* Proofs about TableReclaim for any threads, addresses, locks and bounds. *)
(*                                                                         *)
(* The argument has two layers.  Base says how the hazard pointers protect *)
(* tables, and needs nothing of the locks: whatever happens to them,       *)
(* delete_unused spares the table of a thread that is Safe.  WellLocked    *)
(* says what the locks protect, and holds until one has gone astray.       *)
(***************************************************************************)
EXTENDS TableReclaim, FiniteSetTheorems, SequenceTheorems, WellFoundedInduction, TLAPS

\* A thread that has found its table to be current after its hazard pointer
\* was surely in memory.
Safe(t) ==
    \/ pc[t] \in Locked
    \/ pc[t] = "using" /\ mode[t] # "none"
    \/ pc[t] \in Displacing
    \/ ~late /\ pc[t] \in Protected

\* How a thread's variables go with its place in the code.
Control ==
    /\ \A t \in Threads :
          /\ pc[t] \notin {"idle", "register"} => t \in nodes
          /\ pc[t] \notin {"idle", "register", "load"} => ti[t] \in Addrs
          /\ mode[t] = "all" => op[t] \in {"insert", "clear", "rehash"}
          /\ pc[t] \in {"lock", "recheck"} => mode[t] # "none"
          /\ pc[t] \in Locked \cup {"unlock_all"} => mode[t] = "all"
          /\ pc[t] \in Displacing => op[t] = "insert"
          /\ pc[t] = "scan" <=> mutex = t
          /\ pc[t] = "publish" <=> new[t] # NoAddr
    /\ cur # NoAddr => cur \in old_table_infos

\* The value the thread's node has or will have when its writes are done.
LastWritten(t) == IF Fenced(t) THEN hazard[t] ELSE buffer[t][Len(buffer[t])]

\* What is known of the hazard pointers.
Written ==
    \A t \in Threads :
        /\ ~late => Fenced(t)
        /\ pc[t] \in {"check", "lock"} \/ Safe(t) => LastWritten(t) = ti[t]
        /\ pc[t] = "recheck" \/ Safe(t) => Fenced(t) /\ hazard[t] = ti[t]

\* The table of such a thread is there, and a scan of the nodes for it has
\* not got past the thread's.
Guarded ==
    \A t \in Threads :
        Safe(t) => live[ti[t]] /\ (cur = ti[t] => t \in unread)

\* The current table, the old ones, those being built and those in use.
Places ==
    /\ live[table_info] /\ table_info \notin old_table_infos
    /\ \A a \in old_table_infos : live[a]
    /\ \A t \in Threads : pc[t] = "push" => ti[t] # table_info
    /\ \A t \in Threads : pc[t] = "publish" =>
          /\ live[new[t]] /\ new[t] # table_info /\ new[t] \notin old_table_infos
          /\ power[new[t]] > power[ti[t]]
          /\ \A u \in Threads : new[u] = new[t] => u = t
          /\ \A u \in Threads : Safe(u) => ti[u] # new[t]

\* What holds whatever became of the locks.
Base == TypeOK /\ Control /\ Written /\ Guarded /\ Places
-----------------------------------------------------------------------------
\* As long as no lock went astray: no lock is held in a deleted table,
LocksLive == \A a \in Addrs : ~live[a] => \A i \in LockIds : owner[a][i] = NoThread

\* the locks a thread believes to hold are its own,
Holds ==
    \A t \in Threads :
        /\ pc[t] \in {"recheck", "using"} \cup Locked /\ mode[t] # "none" =>
              \E i \in LockIds : owner[ti[t]][i] = t
        /\ pc[t] \in {"recheck", "using"} \cup Locked /\ mode[t] = "all" =>
              \A i \in LockIds : owner[ti[t]][i] = t
        /\ pc[t] = "unlock_all" => \A i \in left[t] : owner[ti[t]][i] = t

\* who holds one uses the current table until it replaces it,
UsesCurrent ==
    \A t \in Threads :
        pc[t] = "publish" \/ (pc[t] = "using" /\ mode[t] # "none") => ti[t] = table_info

\* and each table has an owner, and a replaced one not two.
Owned ==
    /\ \A t \in Threads : pc[t] = "push" => ti[t] \notin old_table_infos
    /\ \A a \in Addrs : live[a] =>
          \/ a = table_info
          \/ a \in old_table_infos
          \/ \E t \in Threads : new[t] = a
          \/ \E t \in Threads : pc[t] = "push" /\ ti[t] = a

WellLocked == LocksLive /\ Holds /\ UsesCurrent /\ Owned

\* The inductive invariant.
IInv == Base /\ (~astray => WellLocked)

-----------------------------------------------------------------------------
\* The helpers keep the types of what they change.
LEMMA UnlockType ==
    ASSUME TypeOK, NEW t \in Threads, NEW locks, Unlock(t, locks)
    PROVE  owner' \in [Addrs -> [LockIds -> Threads \cup {NoThread}]]
<1> USE DEF TypeOK
<1>1. ASSUME NEW a \in Addrs PROVE owner'[a] \in [LockIds -> Threads \cup {NoThread}]
  <2>1. CASE a = ti[t]
    <3>1. owner'[a] = [i \in LockIds |-> IF i \in locks THEN NoThread ELSE owner[a][i]]
      BY <2>1 DEF Unlock
    <3>2. QED
      BY <3>1
  <2>2. CASE a # ti[t]
    BY <2>2 DEF Unlock
  <2>3. QED
    BY <2>1, <2>2
<1>2. owner' = [a \in Addrs |-> owner'[a]]
  BY DEF Unlock
<1>3. QED
  BY <1>1, <1>2

LEMMA TakeType ==
    ASSUME TypeOK, NEW t \in Threads, ti[t] \in Addrs, NEW locks, TakeLocks(t, locks)
    PROVE  owner' \in [Addrs -> [LockIds -> Threads \cup {NoThread}]]
<1>1. [i \in LockIds |-> IF i \in locks THEN t ELSE owner[ti[t]][i]]
          \in [LockIds -> Threads \cup {NoThread}]
  <2>1. \A i \in LockIds : owner[ti[t]][i] \in Threads \cup {NoThread}
    BY DEF TypeOK
  <2>2. QED
    BY <2>1
<1>2. QED
  BY <1>1 DEF TypeOK, TakeLocks

\* The newest value in a store buffer stays the newest when the oldest leaves.
LEMMA TailLast ==
    ASSUME NEW S, NEW s \in Seq(S), s # <<>>
    PROVE  /\ Tail(s) = <<>> => Head(s) = s[Len(s)]
           /\ Tail(s) # <<>> => Tail(s)[Len(Tail(s))] = s[Len(s)]
<1>1. /\ Len(s) \in Nat /\ Len(s) > 0 /\ Len(Tail(s)) = Len(s) - 1
      /\ \A i \in 1 .. (Len(s) - 1) : Tail(s)[i] = s[i + 1]
      /\ Tail(s) \in Seq(S) /\ Head(s) = s[1]
  OBVIOUS
<1>0. Tail(s) = <<>> <=> Len(s) = 1
  <2>1. Tail(s) = <<>> <=> Len(Tail(s)) = 0
    BY <1>1, EmptySeq, Zenon
  <2>2. QED
    BY <1>1, <2>1
<1>2. CASE Len(s) = 1
  BY <1>0, <1>1, <1>2
<1>3. CASE Len(s) > 1
  <2>1. Len(s) - 1 \in 1 .. (Len(s) - 1)
    BY <1>1, <1>3
  <2>2. Tail(s)[Len(s) - 1] = s[Len(s)]
    BY <1>1, <2>1
  <2>3. Tail(s) # <<>>
    BY <1>0, <1>3
  <2>4. QED
    BY <1>1, <2>2, <2>3
<1>4. QED
  BY <1>1, <1>2, <1>3

LEMMA SetNodeType ==
    ASSUME TypeOK, NEW t \in Threads, NEW a \in Addrs \cup {NoAddr}, SetNode(t, a)
    PROVE  /\ hazard' \in [Threads -> Addrs \cup {NoAddr}]
           /\ buffer' \in [Threads -> Seq(Addrs \cup {NoAddr})]
<1>1. Append(buffer[t], a) \in Seq(Addrs \cup {NoAddr})
  BY DEF TypeOK
<1>2. QED
  BY <1>1 DEF TypeOK, SetNode

LEMMA TypeStep ==
    ASSUME TypeOK, Control, NEW t \in Threads, late' = late, Call(t) \/ Step(t) \/ Flush(t)
    PROVE  TypeOK'
<1> USE ReclaimAssumption DEF TypeOK, Control, Labels, Ops, Locked, At, Goto, memory,
    local, scanning, hazards
<1>1. CASE Call(t)
  <2>1. PICK o \in Requests(t), n \in 1 .. MaxPower :
            /\ op' = [op EXCEPT ![t] = o]
            /\ mode' = [mode EXCEPT ![t] = FirstMode(o)]
            /\ want' = [want EXCEPT ![t] = AskedFor(o, n)]
    BY <1>1, Zenon DEF Call
  <2>2. o \in Ops
    BY Zenon
  <2>3. FirstMode(o) \in {"none", "two", "all"} /\ AskedFor(o, n) \in 0 .. MaxPower
    BY <2>2, <2>1 DEF FirstMode, AskedFor
  <2>4. /\ op' \in [Threads -> Ops] /\ mode' \in [Threads -> {"none", "two", "all"}]
        /\ want' \in [Threads -> 0 .. MaxPower]
    BY <2>2, <2>1, <2>3
  <2>5. calls' \in [Threads -> 0 .. MaxCalls] /\ pc' \in [Threads -> Labels]
    <3>1. calls[t] + 1 \in 0 .. MaxCalls
      BY <1>1 DEF Call
    <3>2. QED
      BY <1>1, <3>1 DEF Call
  <2>6. QED
    BY <1>1, <2>4, <2>5 DEF Call
<1>2. CASE Flush(t)
  <2>1. buffer[t] \in Seq(Addrs \cup {NoAddr}) /\ buffer[t] # <<>>
    BY <1>2 DEF Flush, Fenced
  <2>2. Head(buffer[t]) \in Addrs \cup {NoAddr} /\ Tail(buffer[t]) \in Seq(Addrs \cup {NoAddr})
    BY <2>1
  <2>3. /\ hazard' \in [Threads -> Addrs \cup {NoAddr}]
        /\ buffer' \in [Threads -> Seq(Addrs \cup {NoAddr})]
    BY <1>2, <2>2 DEF Flush
  <2>4. QED
    BY <1>2, <2>3 DEF Flush
<1>3. CASE Register(t)
  BY <1>3 DEF Register
<1>4. CASE Load(t)
  BY <1>4 DEF Load
<1>5. CASE Protect(t)
  <2>1. ti[t] \in Addrs \cup {NoAddr} /\ SetNode(t, ti[t])
    BY <1>5 DEF Protect
  <2>2. /\ hazard' \in [Threads -> Addrs \cup {NoAddr}]
        /\ buffer' \in [Threads -> Seq(Addrs \cup {NoAddr})]
    BY <2>1, SetNodeType
  <2>3. QED
    BY <1>5, <2>2 DEF Protect
<1>6. CASE Check(t)
  BY <1>6 DEF Check, Unchanged
<1>7. CASE Lock(t)
  <2>1. owner' \in [Addrs -> [LockIds -> Threads \cup {NoThread}]]
    <3>1. PICK locks \in SUBSET LockIds : TakeLocks(t, locks)
      BY <1>7 DEF Lock
    <3>2. ti[t] \in Addrs
      BY <1>7 DEF Lock
    <3>3. QED
      BY <3>1, <3>2, TakeType
  <2>2. QED
    BY <1>7, <2>1 DEF Lock, TakeLocks
<1>8. CASE Recheck(t)
  <2>1. owner' \in [Addrs -> [LockIds -> Threads \cup {NoThread}]]
    BY <1>8, UnlockType DEF Recheck
  <2>2. QED
    BY <1>8, <2>1 DEF Recheck, StillCurrent
<1>9. CASE Done(t)
  <2>1. owner' \in [Addrs -> [LockIds -> Threads \cup {NoThread}]]
    BY <1>9, UnlockType DEF Done
  <2>2. QED
    BY <1>9, <2>1 DEF Done
<1>10. CASE Full(t)
  <2>1. owner' \in [Addrs -> [LockIds -> Threads \cup {NoThread}]]
    BY <1>10, UnlockType DEF Full
  <2>2. sections' \in [Threads -> 0 .. MaxSections]
    BY <1>10 DEF Full
  <2>3. QED
    BY <1>10, <2>1, <2>2 DEF Full
<1>11. CASE Rehash(t)
  BY <1>11 DEF Rehash
<1>12. CASE NoExpansion(t)
  BY <1>12 DEF NoExpansion
<1>13. CASE Build(t)
  <2>1. PICK a \in Addrs :
            /\ live' = [live EXCEPT ![a] = TRUE]
            /\ power' = [power EXCEPT ![a] = want[t]]
            /\ owner' = [owner EXCEPT ![a] = NoOwner]
            /\ new' = [new EXCEPT ![t] = a]
    BY <1>13 DEF Build
  <2>2. NoOwner \in [LockIds -> Threads \cup {NoThread}] /\ want[t] \in 0 .. MaxPower
    BY DEF NoOwner
  <2>3. /\ live' \in [Addrs -> BOOLEAN] /\ power' \in [Addrs -> 0 .. MaxPower]
        /\ owner' \in [Addrs -> [LockIds -> Threads \cup {NoThread}]]
        /\ new' \in [Threads -> Addrs \cup {NoAddr}]
    BY <2>1, <2>2
  <2>4. QED
    BY <1>13, <2>3 DEF Build
<1>14. CASE Publish(t)
  BY <1>14 DEF Publish
<1>15. CASE Push(t)
  BY <1>15 DEF Push
<1>16. CASE DeleteUnused(t)
  BY <1>16 DEF DeleteUnused
<1>17. CASE NextOld(t)
  BY <1>17 DEF NextOld, ListedNodes
<1>18. CASE Compare(t)
  BY <1>18 DEF Compare
<1>19. CASE Delete(t)
  BY <1>19 DEF Delete, Removed
<1>20. CASE EndScan(t)
  BY <1>20 DEF EndScan
<1>21. CASE Unprotect(t)
  <2>1. NoAddr \in Addrs \cup {NoAddr} /\ SetNode(t, NoAddr)
    BY <1>21 DEF Unprotect
  <2>2. /\ hazard' \in [Threads -> Addrs \cup {NoAddr}]
        /\ buffer' \in [Threads -> Seq(Addrs \cup {NoAddr})]
    BY <2>1, SetNodeType
  <2>3. QED
    BY <1>21, <2>2 DEF Unprotect
<1>22. CASE UnlockAll(t)
  <2>1. owner' \in [Addrs -> [LockIds -> Threads \cup {NoThread}]]
    BY <1>22, UnlockType DEF UnlockAll
  <2>2. QED
    BY <1>22, <2>1 DEF UnlockAll
<1>23. CASE AllUnlocked(t)
  BY <1>23 DEF AllUnlocked, FirstMode
<1>24. CASE Unset(t)
  <2>1. NoAddr \in Addrs \cup {NoAddr} /\ SetNode(t, NoAddr)
    BY <1>24 DEF Unset
  <2>2. /\ hazard' \in [Threads -> Addrs \cup {NoAddr}]
        /\ buffer' \in [Threads -> Seq(Addrs \cup {NoAddr})]
    BY <2>1, SetNodeType
  <2>3. QED
    BY <1>24, <2>2 DEF Unset
<1>25. CASE LockBuckets(t)
  <2>1. owner' \in [Addrs -> [LockIds -> Threads \cup {NoThread}]]
    <3>1. PICK locks \in SUBSET LockIds : TakeLocks(t, locks)
      BY <1>25 DEF LockBuckets
    <3>2. ti[t] \in Addrs
      BY <1>25 DEF LockBuckets, Displacing
    <3>3. QED
      BY <3>1, <3>2, TakeType
  <2>2. QED
    BY <1>25, <2>1 DEF LockBuckets, TakeLocks
<1>26. CASE UnlockBuckets(t)
  <2>1. owner' \in [Addrs -> [LockIds -> Threads \cup {NoThread}]]
    BY <1>26, UnlockType DEF UnlockBuckets
  <2>2. sections[t] + 1 \in 0 .. MaxSections
    <3>1. sections[t] \in 0 .. MaxSections /\ sections[t] < MaxSections
      BY <1>26 DEF UnlockBuckets
    <3>2. QED
      BY <3>1
  <2>3. sections' \in [Threads -> 0 .. MaxSections]
    BY <1>26, <2>2 DEF UnlockBuckets
  <2>4. QED
    BY <1>26, <2>1, <2>3 DEF UnlockBuckets
<1>27. CASE SlotFreed(t)
  <2>1. owner' \in [Addrs -> [LockIds -> Threads \cup {NoThread}]]
    BY <1>27, UnlockType DEF SlotFreed
  <2>2. QED
    BY <1>27, <2>1 DEF SlotFreed
<1>28. CASE CompareTable(t)
  <2>1. owner' \in [Addrs -> [LockIds -> Threads \cup {NoThread}]]
    BY <1>28, UnlockType DEF CompareTable
  <2>2. QED
    BY <1>28, <2>1 DEF CompareTable
<1>29. CASE TableFull(t)
  <2>1. power[ti[t]] + 1 \in 0 .. MaxPower
    <3>1. power[ti[t]] \in 0 .. MaxPower /\ power[ti[t]] < MaxPower
      BY <1>29 DEF TableFull
    <3>2. QED
      BY <3>1
  <2>2. want' \in [Threads -> 0 .. MaxPower]
    BY <1>29, <2>1 DEF TableFull, NextPower
  <2>3. QED
    BY <1>29, <2>2 DEF TableFull
<1>30. QED
  BY <1>1, <1>2, <1>3, <1>4, <1>5, <1>6, <1>7, <1>8, <1>9, <1>10, <1>11, <1>12, <1>13,
      <1>14, <1>15, <1>16, <1>17, <1>18, <1>19, <1>20, <1>21, <1>22, <1>23, <1>24,
      <1>25, <1>26, <1>27, <1>28, <1>29 DEF Step

LEMMA WrittenStep ==
    ASSUME Base, NEW t \in Threads, late' = late, Call(t) \/ Step(t) \/ Flush(t)
    PROVE  Written'
<1> USE ReclaimAssumption DEF Base, TypeOK, Control, Written, Safe, LastWritten, Fenced,
    Locked, Displacing, Protected, At, Goto, memory, local, scanning, hazards
<1>1. CASE Call(t)
  BY <1>1 DEF Call, FirstMode, AskedFor
<1>2. CASE Flush(t)
  <2>1. /\ buffer[t] \in Seq(Addrs \cup {NoAddr}) /\ buffer[t] # <<>>
        /\ hazard'[t] = Head(buffer[t]) /\ buffer'[t] = Tail(buffer[t])
        /\ \A u \in Threads : u # t => hazard'[u] = hazard[u] /\ buffer'[u] = buffer[u]
        /\ late /\ late' /\ pc' = pc /\ mode' = mode /\ ti' = ti
    BY <1>2 DEF Flush
  <2>2. LastWritten(t)' = LastWritten(t)
    BY <2>1, TailLast
  <2>3. \A u \in Threads : u # t => LastWritten(u)' = LastWritten(u)
    BY <2>1
  <2>4. \A u \in Threads : Safe(u)' <=> Safe(u)
    BY <2>1
  <2> HIDE DEF LastWritten, Safe
  <2>5. QED
    BY <2>1, <2>2, <2>3, <2>4
<1>3. CASE Register(t)
  BY <1>3 DEF Register
<1>4. CASE Load(t)
  BY <1>4 DEF Load
<1>5. CASE Protect(t)
  <2>1. /\ UNCHANGED <<ti, mode, late>> /\ pc' = [pc EXCEPT ![t] = "check"]
        /\ pc[t] \notin Locked \cup Displacing
        /\ ti[t] \in Addrs \cup {NoAddr} /\ SetNode(t, ti[t])
    BY <1>5 DEF Protect
  <2>2. /\ ~late => hazard'[t] = ti[t] /\ buffer' = buffer
        /\ late => hazard' = hazard /\ buffer'[t] = Append(buffer[t], ti[t])
        /\ \A u \in Threads \ {t} : hazard'[u] = hazard[u] /\ buffer'[u] = buffer[u]
    BY <2>1 DEF SetNode
  <2>3. LastWritten(t)' = ti[t]
    BY <2>1, <2>2
  <2>4. ~Safe(t)' /\ \A u \in Threads \ {t} : Safe(u)' <=> Safe(u)
    BY <2>1
  <2>5. \A u \in Threads \ {t} : LastWritten(u)' = LastWritten(u)
    BY <2>2
  <2> HIDE DEF LastWritten, Safe
  <2>6. QED
    BY <2>1, <2>2, <2>3, <2>4, <2>5
<1>6. CASE Check(t)
  BY <1>6 DEF Check, Unchanged
<1>7. CASE Lock(t)
  BY <1>7 DEF Lock, TakeLocks
<1>8. CASE Recheck(t)
  BY <1>8 DEF Recheck, Unlock, StillCurrent
<1>9. CASE Done(t)
  BY <1>9 DEF Done, Unlock
<1>10. CASE Full(t)
  BY <1>10 DEF Full, Unlock
<1>11. CASE Rehash(t)
  BY <1>11 DEF Rehash
<1>12. CASE NoExpansion(t)
  BY <1>12 DEF NoExpansion
<1>13. CASE Build(t)
  BY <1>13 DEF Build, NoOwner
<1>14. CASE Publish(t)
  BY <1>14 DEF Publish
<1>15. CASE Push(t)
  BY <1>15 DEF Push
<1>16. CASE DeleteUnused(t)
  BY <1>16 DEF DeleteUnused
<1>17. CASE NextOld(t)
  BY <1>17 DEF NextOld, ListedNodes
<1>18. CASE Compare(t)
  BY <1>18 DEF Compare
<1>19. CASE Delete(t)
  BY <1>19 DEF Delete, Removed
<1>20. CASE EndScan(t)
  BY <1>20 DEF EndScan
<1>21. CASE Unprotect(t)
  BY <1>21 DEF Unprotect, SetNode
<1>22. CASE UnlockAll(t)
  BY <1>22 DEF UnlockAll, Unlock
<1>23. CASE AllUnlocked(t)
  BY <1>23 DEF AllUnlocked, FirstMode
<1>24. CASE Unset(t)
  <2>1. /\ UNCHANGED <<ti, mode, late>> /\ pc' = [pc EXCEPT ![t] = "idle"]
        /\ pc[t] \notin Locked \cup Displacing
        /\ NoAddr \in Addrs \cup {NoAddr} /\ SetNode(t, NoAddr)
    BY <1>24 DEF Unset
  <2>2. /\ ~late => hazard'[t] = NoAddr /\ buffer' = buffer
        /\ late => hazard' = hazard /\ buffer'[t] = Append(buffer[t], NoAddr)
        /\ \A u \in Threads \ {t} : hazard'[u] = hazard[u] /\ buffer'[u] = buffer[u]
    BY <2>1 DEF SetNode
  <2>3. LastWritten(t)' = NoAddr
    BY <2>1, <2>2
  <2>4. ~Safe(t)' /\ \A u \in Threads \ {t} : Safe(u)' <=> Safe(u)
    BY <2>1
  <2>5. \A u \in Threads \ {t} : LastWritten(u)' = LastWritten(u)
    BY <2>2
  <2> HIDE DEF LastWritten, Safe
  <2>6. QED
    BY <2>1, <2>2, <2>3, <2>4, <2>5
<1>25. CASE LockBuckets(t)
  BY <1>25 DEF LockBuckets, TakeLocks
<1>26. CASE UnlockBuckets(t)
  BY <1>26 DEF UnlockBuckets, Unlock
<1>27. CASE SlotFreed(t)
  BY <1>27 DEF SlotFreed, Unlock
<1>28. CASE CompareTable(t)
  BY <1>28 DEF CompareTable, Unlock, StillCurrent
<1>29. CASE TableFull(t)
  BY <1>29 DEF TableFull, NextPower
<1>30. QED
  BY <1>1, <1>2, <1>3, <1>4, <1>5, <1>6, <1>7, <1>8, <1>9, <1>10, <1>11, <1>12, <1>13,
      <1>14, <1>15, <1>16, <1>17, <1>18, <1>19, <1>20, <1>21, <1>22, <1>23, <1>24,
      <1>25, <1>26, <1>27, <1>28, <1>29 DEF Step

LEMMA GuardedStep ==
    ASSUME Base, NEW t \in Threads, late' = late, Call(t) \/ Step(t) \/ Flush(t)
    PROVE  Guarded'
<1> USE ReclaimAssumption DEF Base, TypeOK, Control, Written, Guarded, Places, Safe,
    Fenced, LastWritten, Locked, Displacing, Protected, At, Goto, memory, local, scanning, hazards
<1>1. CASE Call(t)
  BY <1>1 DEF Call, FirstMode, AskedFor
<1>2. CASE Flush(t)
  BY <1>2 DEF Flush, Fenced
<1>3. CASE Register(t)
  BY <1>3 DEF Register
<1>4. CASE Load(t)
  BY <1>4 DEF Load
<1>5. CASE Protect(t)
  BY <1>5 DEF Protect, SetNode
<1>6. CASE Check(t)
  BY <1>6 DEF Check, Unchanged
<1>7. CASE Lock(t)
  BY <1>7 DEF Lock, TakeLocks
<1>8. CASE Recheck(t)
  BY <1>8 DEF Recheck, Unlock, StillCurrent
<1>9. CASE Done(t)
  BY <1>9 DEF Done, Unlock
<1>10. CASE Full(t)
  <2>1. UNCHANGED <<live, cur, unread, ti, late>>
    BY <1>10 DEF Full
  <2>2. \A u \in Threads : Safe(u)' => Safe(u)
    BY <1>10 DEF Full
  <2> HIDE DEF Safe
  <2>3. QED
    BY <2>1, <2>2
<1>11. CASE Rehash(t)
  BY <1>11 DEF Rehash
<1>12. CASE NoExpansion(t)
  BY <1>12 DEF NoExpansion
<1>13. CASE Build(t)
  BY <1>13 DEF Build, NoOwner
<1>14. CASE Publish(t)
  BY <1>14 DEF Publish
<1>15. CASE Push(t)
  BY <1>15 DEF Push
<1>16. CASE DeleteUnused(t)
  BY <1>16 DEF DeleteUnused
<1>17. CASE NextOld(t)
  BY <1>17 DEF NextOld, ListedNodes
<1>18. CASE Compare(t)
  <2>1. PICK v \in unread :
           IF hazard[v] = cur
           THEN kept' = kept \cup {cur} /\ cur' = NoAddr /\ unread' = {}
           ELSE unread' = unread \ {v} /\ UNCHANGED <<cur, kept>>
    BY <1>18 DEF Compare
  <2>2. live' = live /\ pc' = pc /\ mode' = mode /\ ti' = ti
    BY <1>18 DEF Compare
  <2>3. ASSUME NEW u \in Threads, Safe(u)'
        PROVE  live'[ti'[u]] /\ (cur' = ti'[u] => u \in unread')
    <3>1. /\ Safe(u) /\ ti[u] \in Addrs /\ live[ti[u]] /\ hazard[u] = ti[u]
          /\ (cur = ti[u] => u \in unread)
      BY <2>2, <2>3
    <3>2. QED
      BY <2>1, <2>2, <3>1
  <2>4. QED
    BY <2>3
<1>19. CASE Delete(t)
  <2>1. /\ cur \in Addrs /\ unread = {} /\ cur' = NoAddr
        /\ live' = [live EXCEPT ![cur] = FALSE]
        /\ pc' = pc /\ mode' = mode /\ ti' = ti
    BY <1>19 DEF Delete
  <2>2. ASSUME NEW u \in Threads, Safe(u)' PROVE live'[ti'[u]] /\ ti'[u] # NoAddr
    <3>1. Safe(u)
      BY <2>1, <2>2
    <3>2. ti[u] \in Addrs /\ live[ti[u]] /\ cur # ti[u]
      BY <2>1, <3>1
    <3>3. QED
      BY <2>1, <3>2
  <2>3. QED
    BY <2>1, <2>2
<1>20. CASE EndScan(t)
  BY <1>20 DEF EndScan
<1>21. CASE Unprotect(t)
  BY <1>21 DEF Unprotect, SetNode
<1>22. CASE UnlockAll(t)
  BY <1>22 DEF UnlockAll, Unlock
<1>23. CASE AllUnlocked(t)
  BY <1>23 DEF AllUnlocked, FirstMode
<1>24. CASE Unset(t)
  BY <1>24 DEF Unset, SetNode
<1>25. CASE LockBuckets(t)
  BY <1>25 DEF LockBuckets, TakeLocks
<1>26. CASE UnlockBuckets(t)
  BY <1>26 DEF UnlockBuckets, Unlock
<1>27. CASE SlotFreed(t)
  BY <1>27 DEF SlotFreed, Unlock
<1>28. CASE CompareTable(t)
  BY <1>28 DEF CompareTable, Unlock, StillCurrent
<1>29. CASE TableFull(t)
  BY <1>29 DEF TableFull, NextPower
<1>30. QED
  BY <1>1, <1>2, <1>3, <1>4, <1>5, <1>6, <1>7, <1>8, <1>9, <1>10, <1>11, <1>12, <1>13,
      <1>14, <1>15, <1>16, <1>17, <1>18, <1>19, <1>20, <1>21, <1>22, <1>23, <1>24,
      <1>25, <1>26, <1>27, <1>28, <1>29 DEF Step

LEMMA ControlStep ==
    ASSUME Base, NEW t \in Threads, late' = late, Call(t) \/ Step(t) \/ Flush(t)
    PROVE  Control'
<1> USE ReclaimAssumption DEF Base, TypeOK, Control, Labels, Ops, Locked, Displacing, At, Goto,
    memory, local, scanning, hazards
<1>1. CASE Call(t)
  BY <1>1 DEF Call, FirstMode, AskedFor
<1>2. CASE Flush(t)
  BY <1>2 DEF Flush, Fenced
<1>3. CASE Register(t)
  BY <1>3 DEF Register
<1>4. CASE Load(t)
  BY <1>4 DEF Load
<1>5. CASE Protect(t)
  BY <1>5 DEF Protect, SetNode
<1>6. CASE Check(t)
  BY <1>6 DEF Check, Unchanged
<1>7. CASE Lock(t)
  BY <1>7 DEF Lock, TakeLocks
<1>8. CASE Recheck(t)
  BY <1>8 DEF Recheck, Unlock, StillCurrent
<1>9. CASE Done(t)
  BY <1>9 DEF Done, Unlock
<1>10. CASE Full(t)
  BY <1>10 DEF Full, Unlock
<1>11. CASE Rehash(t)
  BY <1>11 DEF Rehash
<1>12. CASE NoExpansion(t)
  BY <1>12 DEF NoExpansion
<1>13. CASE Build(t)
  BY <1>13 DEF Build, NoOwner
<1>14. CASE Publish(t)
  BY <1>14 DEF Publish
<1>15. CASE Push(t)
  BY <1>15 DEF Push
<1>16. CASE DeleteUnused(t)
  BY <1>16 DEF DeleteUnused
<1>17. CASE NextOld(t)
  BY <1>17 DEF NextOld, ListedNodes
<1>18. CASE Compare(t)
  BY <1>18 DEF Compare
<1>19. CASE Delete(t)
  BY <1>19 DEF Delete, Removed
<1>20. CASE EndScan(t)
  BY <1>20 DEF EndScan
<1>21. CASE Unprotect(t)
  BY <1>21 DEF Unprotect, SetNode
<1>22. CASE UnlockAll(t)
  BY <1>22 DEF UnlockAll, Unlock
<1>23. CASE AllUnlocked(t)
  BY <1>23 DEF AllUnlocked, FirstMode
<1>24. CASE Unset(t)
  BY <1>24 DEF Unset, SetNode
<1>25. CASE LockBuckets(t)
  BY <1>25 DEF LockBuckets, TakeLocks
<1>26. CASE UnlockBuckets(t)
  BY <1>26 DEF UnlockBuckets, Unlock
<1>27. CASE SlotFreed(t)
  BY <1>27 DEF SlotFreed, Unlock
<1>28. CASE CompareTable(t)
  BY <1>28 DEF CompareTable, Unlock, StillCurrent
<1>29. CASE TableFull(t)
  BY <1>29 DEF TableFull, NextPower
<1>30. QED
  BY <1>1, <1>2, <1>3, <1>4, <1>5, <1>6, <1>7, <1>8, <1>9, <1>10, <1>11, <1>12, <1>13,
      <1>14, <1>15, <1>16, <1>17, <1>18, <1>19, <1>20, <1>21, <1>22, <1>23, <1>24,
      <1>25, <1>26, <1>27, <1>28, <1>29 DEF Step

\* A step that neither makes, publishes, pushes nor deletes a table.
LEMMA PlacesFrame ==
    ASSUME Places, UNCHANGED <<live, power, table_info, old_table_infos, new>>,
           \A u \in Threads : pc'[u] \in {"publish", "push"} =>
               pc[u] = pc'[u] /\ ti'[u] = ti[u],
           \A u \in Threads : Safe(u)' =>
               ti'[u] = table_info \/ (Safe(u) /\ ti'[u] = ti[u])
    PROVE  Places'
BY DEF Places

LEMMA PlacesStep ==
    ASSUME Base, NEW t \in Threads, late' = late, Call(t) \/ Step(t) \/ Flush(t)
    PROVE  Places'
<1> USE ReclaimAssumption DEF Base, TypeOK, Control, Guarded, Places, Safe, Locked, Displacing,
    Protected, At, Goto, memory, local, scanning, hazards
<1>1. CASE Call(t)
  <2>1. /\ UNCHANGED <<live, power, table_info, old_table_infos, new>>
        /\ \A u \in Threads : pc'[u] \in {"publish", "push"} =>
               pc[u] = pc'[u] /\ ti'[u] = ti[u]
    BY <1>1 DEF Call
  <2>2. \A u \in Threads : Safe(u)' => ti'[u] = table_info \/ (Safe(u) /\ ti'[u] = ti[u])
    BY <1>1 DEF Call
  <2>3. QED
    BY <2>1, <2>2, PlacesFrame
<1>2. CASE Flush(t)
  BY <1>2 DEF Flush, Fenced
<1>3. CASE Register(t)
  BY <1>3 DEF Register
<1>4. CASE Load(t)
  <2>1. /\ UNCHANGED <<live, power, table_info, old_table_infos, new>>
        /\ \A u \in Threads : pc'[u] \in {"publish", "push"} =>
               pc[u] = pc'[u] /\ ti'[u] = ti[u]
    BY <1>4 DEF Load
  <2>2. \A u \in Threads : Safe(u)' => ti'[u] = table_info \/ (Safe(u) /\ ti'[u] = ti[u])
    BY <1>4 DEF Load
  <2>3. QED
    BY <2>1, <2>2, PlacesFrame
<1>5. CASE Protect(t)
  <2>1. /\ UNCHANGED <<live, power, table_info, old_table_infos, new>>
        /\ \A u \in Threads : pc'[u] \in {"publish", "push"} =>
               pc[u] = pc'[u] /\ ti'[u] = ti[u]
    BY <1>5 DEF Protect
  <2>2. \A u \in Threads : Safe(u)' => ti'[u] = table_info \/ (Safe(u) /\ ti'[u] = ti[u])
    BY <1>5 DEF Protect
  <2>3. QED
    BY <2>1, <2>2, PlacesFrame
<1>6. CASE Check(t)
  <2>1. /\ UNCHANGED <<live, power, table_info, old_table_infos, new>>
        /\ \A u \in Threads : pc'[u] \in {"publish", "push"} =>
               pc[u] = pc'[u] /\ ti'[u] = ti[u]
    BY <1>6 DEF Check, Unchanged
  <2>2. \A u \in Threads : Safe(u)' => ti'[u] = table_info \/ (Safe(u) /\ ti'[u] = ti[u])
    BY <1>6 DEF Check, Unchanged
  <2>3. QED
    BY <2>1, <2>2, PlacesFrame
<1>7. CASE Lock(t)
  <2>1. /\ UNCHANGED <<live, power, table_info, old_table_infos, new>>
        /\ \A u \in Threads : pc'[u] \in {"publish", "push"} =>
               pc[u] = pc'[u] /\ ti'[u] = ti[u]
    BY <1>7 DEF Lock
  <2>2. \A u \in Threads : Safe(u)' => ti'[u] = table_info \/ (Safe(u) /\ ti'[u] = ti[u])
    BY <1>7 DEF Lock
  <2>3. QED
    BY <2>1, <2>2, PlacesFrame
<1>8. CASE Recheck(t)
  <2>1. /\ UNCHANGED <<live, power, table_info, old_table_infos, new>>
        /\ \A u \in Threads : pc'[u] \in {"publish", "push"} =>
               pc[u] = pc'[u] /\ ti'[u] = ti[u]
    BY <1>8 DEF Recheck, StillCurrent
  <2>2. \A u \in Threads : Safe(u)' => ti'[u] = table_info \/ (Safe(u) /\ ti'[u] = ti[u])
    BY <1>8 DEF Recheck, StillCurrent
  <2>3. QED
    BY <2>1, <2>2, PlacesFrame
<1>9. CASE Done(t)
  <2>1. /\ UNCHANGED <<live, power, table_info, old_table_infos, new>>
        /\ \A u \in Threads : pc'[u] \in {"publish", "push"} =>
               pc[u] = pc'[u] /\ ti'[u] = ti[u]
    BY <1>9 DEF Done
  <2>2. \A u \in Threads : Safe(u)' => ti'[u] = table_info \/ (Safe(u) /\ ti'[u] = ti[u])
    BY <1>9 DEF Done
  <2>3. QED
    BY <2>1, <2>2, PlacesFrame
<1>10. CASE Full(t)
  <2>1. /\ UNCHANGED <<live, power, table_info, old_table_infos, new>>
        /\ \A u \in Threads : pc'[u] \in {"publish", "push"} =>
               pc[u] = pc'[u] /\ ti'[u] = ti[u]
    BY <1>10 DEF Full
  <2>2. \A u \in Threads : Safe(u)' => ti'[u] = table_info \/ (Safe(u) /\ ti'[u] = ti[u])
    BY <1>10 DEF Full
  <2>3. QED
    BY <2>1, <2>2, PlacesFrame
<1>11. CASE Rehash(t)
  BY <1>11 DEF Rehash
<1>12. CASE NoExpansion(t)
  <2>1. /\ UNCHANGED <<live, power, table_info, old_table_infos, new>>
        /\ \A u \in Threads : pc'[u] \in {"publish", "push"} =>
               pc[u] = pc'[u] /\ ti'[u] = ti[u]
    BY <1>12 DEF NoExpansion
  <2>2. \A u \in Threads : Safe(u)' => ti'[u] = table_info \/ (Safe(u) /\ ti'[u] = ti[u])
    BY <1>12 DEF NoExpansion
  <2>3. QED
    BY <2>1, <2>2, PlacesFrame
<1>13. CASE Build(t)
  <2>1. PICK a \in Addrs :
           /\ ~live[a]
           /\ live' = [live EXCEPT ![a] = TRUE]
           /\ power' = [power EXCEPT ![a] = want[t]]
           /\ new' = [new EXCEPT ![t] = a]
    BY <1>13 DEF Build
  <2>2. /\ pc[t] = "using" /\ mode[t] = "all" /\ want[t] > power[ti[t]]
        /\ pc' = [pc EXCEPT ![t] = "publish"] /\ table_info' = table_info
        /\ old_table_infos' = old_table_infos /\ mode' = mode /\ ti' = ti
    BY <1>13 DEF Build
  <2>3. /\ a # table_info /\ a \notin old_table_infos
        /\ \A u \in Threads : Safe(u) => ti[u] # a /\ ti[u] \in Addrs
        /\ \A u \in Threads : new[u] # a
        /\ Safe(t)
    <3>1. a # table_info /\ a \notin old_table_infos /\ Safe(t)
      BY <2>1, <2>2
    <3>2. ASSUME NEW u \in Threads, Safe(u) PROVE ti[u] # a /\ ti[u] \in Addrs
      <4>1. live[ti[u]] /\ pc[u] \in Protected
        BY <3>2
      <4>2. ti[u] \in Addrs
        BY <4>1
      <4>3. QED
        BY <2>1, <4>1, <4>2
    <3>3. ASSUME NEW u \in Threads PROVE new[u] # a
      BY <2>1
    <3>4. QED
      BY <3>1, <3>2, <3>3
  <2>4. \A u \in Threads : Safe(u)' => Safe(u)
    BY <2>2
  <2>5. ASSUME NEW u \in Threads, pc'[u] = "publish", u # t
        PROVE  /\ live'[new'[u]] /\ new'[u] # table_info /\ new'[u] \notin old_table_infos
               /\ power'[new'[u]] > power'[ti'[u]]
               /\ \A v \in Threads : new'[v] = new'[u] => v = u
               /\ \A v \in Threads : Safe(v)' => ti'[v] # new'[u]
    <3>1. pc[u] = "publish" /\ Safe(u) /\ new'[u] = new[u] /\ new[u] \in Addrs /\ new[u] # a
      BY <2>1, <2>2, <2>3, <2>5
    <3>2. power'[new[u]] = power[new[u]] /\ power'[ti[u]] = power[ti[u]]
      BY <2>1, <2>3, <3>1
    <3>3. \A v \in Threads : new'[v] = new[u] => v = u
      BY <2>1, <3>1
    <3> HIDE DEF Safe
    <3>4. QED
      BY <2>1, <2>2, <2>4, <3>1, <3>2, <3>3
  <2>6. /\ live'[new'[t]] /\ new'[t] # table_info /\ new'[t] \notin old_table_infos
        /\ power'[new'[t]] > power'[ti'[t]]
        /\ \A v \in Threads : new'[v] = new'[t] => v = t
        /\ \A v \in Threads : Safe(v)' => ti'[v] # new'[t]
    <3>1. power'[a] = want[t] /\ power'[ti[t]] = power[ti[t]] /\ new'[t] = a
      BY <2>1, <2>3
    <3>2. \A v \in Threads : v # t => new'[v] = new[v]
      BY <2>1
    <3> HIDE DEF Safe
    <3>3. QED
      BY <2>1, <2>2, <2>3, <2>4, <3>1, <3>2
  <2> HIDE DEF Safe
  <2>7. live'[table_info'] /\ \A b \in old_table_infos' : live'[b]
    BY <2>1, <2>2
  <2>8. \A u \in Threads : pc'[u] = "push" => ti'[u] # table_info'
    BY <2>2
  <2>9. QED
    BY <2>2, <2>5, <2>6, <2>7, <2>8
<1>14. CASE Publish(t)
  <2>1. /\ pc[t] = "publish" /\ pc' = [pc EXCEPT ![t] = "push"]
        /\ UNCHANGED <<live, power, old_table_infos, ti, mode, late>>
        /\ table_info' = new[t] /\ new' = [new EXCEPT ![t] = NoAddr]
    BY <1>14 DEF Publish
  <2>2. /\ live[new[t]] /\ new[t] # table_info /\ new[t] \notin old_table_infos
        /\ \A u \in Threads : new[u] = new[t] => u = t
        /\ \A u \in Threads : Safe(u) => ti[u] # new[t]
    BY <2>1
  <2>3. \A u \in Threads : Safe(u)' => Safe(u)
    BY <2>1
  <2>4. \A u \in Threads : pc[u] = "push" \/ u = t => Safe(u)
    BY <2>1
  <2>5. \A u \in Threads : pc'[u] = "publish" => pc[u] = "publish" /\ u # t /\ new'[u] = new[u]
    BY <2>1
  <2>6. \A u \in Threads : pc'[u] = "push" => pc[u] = "push" \/ u = t
    BY <2>1
  <2>7. new[t] # NoAddr
    BY <2>1
  <2> HIDE DEF Safe
  <2>8. QED
    BY <2>1, <2>2, <2>3, <2>4, <2>5, <2>6, <2>7
<1>15. CASE Push(t)
  BY <1>15 DEF Push
<1>16. CASE DeleteUnused(t)
  BY <1>16 DEF DeleteUnused
<1>17. CASE NextOld(t)
  BY <1>17 DEF NextOld, ListedNodes
<1>18. CASE Compare(t)
  BY <1>18 DEF Compare
<1>19. CASE Delete(t)
  BY <1>19 DEF Delete, Removed
<1>20. CASE EndScan(t)
  BY <1>20 DEF EndScan
<1>21. CASE Unprotect(t)
  <2>1. /\ UNCHANGED <<live, power, table_info, old_table_infos, new>>
        /\ \A u \in Threads : pc'[u] \in {"publish", "push"} =>
               pc[u] = pc'[u] /\ ti'[u] = ti[u]
    BY <1>21 DEF Unprotect
  <2>2. \A u \in Threads : Safe(u)' => ti'[u] = table_info \/ (Safe(u) /\ ti'[u] = ti[u])
    BY <1>21 DEF Unprotect
  <2>3. QED
    BY <2>1, <2>2, PlacesFrame
<1>22. CASE UnlockAll(t)
  BY <1>22 DEF UnlockAll, Unlock
<1>23. CASE AllUnlocked(t)
  <2>1. /\ UNCHANGED <<live, power, table_info, old_table_infos, new, ti>>
        /\ \A u \in Threads : u # t => pc'[u] = pc[u] /\ mode'[u] = mode[u]
        /\ pc'[t] \in {"load", "unset", "idle"}
    BY <1>23 DEF AllUnlocked
  <2>2. \A u \in Threads : pc'[u] \in {"publish", "push"} =>
           pc[u] = pc'[u] /\ ti'[u] = ti[u]
    BY <2>1
  <2>3. \A u \in Threads : Safe(u)' => ti'[u] = table_info \/ (Safe(u) /\ ti'[u] = ti[u])
    BY <2>1
  <2>4. QED
    BY <2>1, <2>2, <2>3, PlacesFrame
<1>24. CASE Unset(t)
  <2>1. /\ UNCHANGED <<live, power, table_info, old_table_infos, new>>
        /\ \A u \in Threads : pc'[u] \in {"publish", "push"} =>
               pc[u] = pc'[u] /\ ti'[u] = ti[u]
    BY <1>24 DEF Unset
  <2>2. \A u \in Threads : Safe(u)' => ti'[u] = table_info \/ (Safe(u) /\ ti'[u] = ti[u])
    BY <1>24 DEF Unset
  <2>3. QED
    BY <2>1, <2>2, PlacesFrame
<1>25. CASE LockBuckets(t)
  <2>1. /\ UNCHANGED <<live, power, table_info, old_table_infos, new>>
        /\ \A u \in Threads : pc'[u] \in {"publish", "push"} =>
               pc[u] = pc'[u] /\ ti'[u] = ti[u]
    BY <1>25 DEF LockBuckets
  <2>2. \A u \in Threads : Safe(u)' => ti'[u] = table_info \/ (Safe(u) /\ ti'[u] = ti[u])
    BY <1>25 DEF LockBuckets
  <2>3. QED
    BY <2>1, <2>2, PlacesFrame
<1>26. CASE UnlockBuckets(t)
  <2>1. /\ UNCHANGED <<live, power, table_info, old_table_infos, new>>
        /\ \A u \in Threads : pc'[u] \in {"publish", "push"} =>
               pc[u] = pc'[u] /\ ti'[u] = ti[u]
    BY <1>26 DEF UnlockBuckets
  <2>2. \A u \in Threads : Safe(u)' => ti'[u] = table_info \/ (Safe(u) /\ ti'[u] = ti[u])
    BY <1>26 DEF UnlockBuckets
  <2>3. QED
    BY <2>1, <2>2, PlacesFrame
<1>27. CASE SlotFreed(t)
  <2>1. /\ UNCHANGED <<live, power, table_info, old_table_infos, new>>
        /\ \A u \in Threads : pc'[u] \in {"publish", "push"} =>
               pc[u] = pc'[u] /\ ti'[u] = ti[u]
    BY <1>27 DEF SlotFreed
  <2>2. \A u \in Threads : Safe(u)' => ti'[u] = table_info \/ (Safe(u) /\ ti'[u] = ti[u])
    BY <1>27 DEF SlotFreed
  <2>3. QED
    BY <2>1, <2>2, PlacesFrame
<1>28. CASE CompareTable(t)
  <2>1. /\ UNCHANGED <<live, power, table_info, old_table_infos, new>>
        /\ \A u \in Threads : pc'[u] \in {"publish", "push"} =>
               pc[u] = pc'[u] /\ ti'[u] = ti[u]
    BY <1>28 DEF CompareTable
  <2>2. \A u \in Threads : Safe(u)' => ti'[u] = table_info \/ (Safe(u) /\ ti'[u] = ti[u])
    BY <1>28 DEF CompareTable
  <2>3. QED
    BY <2>1, <2>2, PlacesFrame
<1>29. CASE TableFull(t)
  <2>1. /\ UNCHANGED <<live, power, table_info, old_table_infos, new>>
        /\ \A u \in Threads : pc'[u] \in {"publish", "push"} =>
               pc[u] = pc'[u] /\ ti'[u] = ti[u]
    BY <1>29 DEF TableFull
  <2>2. \A u \in Threads : Safe(u)' => ti'[u] = table_info \/ (Safe(u) /\ ti'[u] = ti[u])
    BY <1>29 DEF TableFull
  <2>3. QED
    BY <2>1, <2>2, PlacesFrame
<1>30. QED
  BY <1>1, <1>2, <1>3, <1>4, <1>5, <1>6, <1>7, <1>8, <1>9, <1>10, <1>11, <1>12, <1>13,
      <1>14, <1>15, <1>16, <1>17, <1>18, <1>19, <1>20, <1>21, <1>22, <1>23, <1>24,
      <1>25, <1>26, <1>27, <1>28, <1>29 DEF Step

-----------------------------------------------------------------------------
\* UnlockAll's next lock is one it has still to clear.
LEMMA NextLeft ==
    ASSUME NEW S, S \subseteq LockIds, S # {}
    PROVE  (CHOOSE i \in S : \A j \in S : i <= j) \in S
<1>1. S \subseteq Nat
  BY ReclaimAssumption
<1>2. PICK i \in S : \A j \in S : <<j, i>> \notin OpToRel(<, Nat)
  BY <1>1, WFMin, NatLessThanWellFounded, Zenon
<1>3. \A j \in S : ~(j < i)
  BY <1>1, <1>2, Zenon DEF OpToRel
<1>4. \A j \in S : i <= j
  BY <1>1, <1>3
<1>5. QED
  BY <1>4

\* Lock takes a lock at least.
LEMMA LockTakes ==
    ASSUME NEW t \in Threads, NEW locks \in SUBSET LockIds,
           IF mode[t] = "all" THEN locks = LockIds ELSE Cardinality(locks) \in {1, 2}
    PROVE  locks # {}
BY ReclaimAssumption, FS_EmptySet

\* What went astray stays so.
LEMMA AstrayStays ==
    ASSUME TypeOK, NEW t \in Threads, Call(t) \/ Step(t) \/ Flush(t), astray PROVE astray'
BY DEF TypeOK, Step, memory, Call, Flush, Register, Load, Protect, Check, Lock, TakeLocks, Recheck,
       Done, Full, LockBuckets, UnlockBuckets, SlotFreed, CompareTable, TableFull, Rehash, NoExpansion, Build, Publish, Push, DeleteUnused, NextOld, Compare,
       Delete, EndScan, Unprotect, UnlockAll, AllUnlocked, Unset


\* What Unlock and Lock do to the locks.
LEMMA UnlockEffect ==
    ASSUME TypeOK, NEW t \in Threads, NEW locks, Unlock(t, locks)
    PROVE  \A a \in Addrs, i \in LockIds :
               owner'[a][i] = IF a = ti[t] /\ i \in locks THEN NoThread ELSE owner[a][i]
<1> SUFFICES ASSUME NEW a \in Addrs, NEW i \in LockIds
             PROVE  owner'[a][i] = IF a = ti[t] /\ i \in locks THEN NoThread ELSE owner[a][i]
  OBVIOUS
<1>1. CASE a = ti[t]
  <2>1. owner'[a] = [j \in LockIds |-> IF j \in locks THEN NoThread ELSE owner[a][j]]
    BY <1>1 DEF Unlock, TypeOK
  <2>2. QED
    BY <1>1, <2>1
<1>2. CASE a # ti[t]
  BY <1>2 DEF Unlock, TypeOK
<1>3. QED
  BY <1>1, <1>2

LEMMA TakeEffect ==
    ASSUME TypeOK, NEW t \in Threads, NEW locks, TakeLocks(t, locks)
    PROVE  /\ \A i \in locks : owner[ti[t]][i] = NoThread
           /\ \A a \in Addrs, i \in LockIds :
                  owner'[a][i] = IF a = ti[t] /\ i \in locks THEN t ELSE owner[a][i]
<1>1. ASSUME NEW a \in Addrs, NEW i \in LockIds
      PROVE  owner'[a][i] = IF a = ti[t] /\ i \in locks THEN t ELSE owner[a][i]
  <2>1. CASE a = ti[t]
    <3>1. owner'[a] = [j \in LockIds |-> IF j \in locks THEN t ELSE owner[a][j]]
      BY <2>1 DEF TypeOK, TakeLocks
    <3>2. QED
      BY <2>1, <3>1
  <2>2. CASE a # ti[t]
    BY <2>2 DEF TypeOK, TakeLocks
  <2>3. QED
    BY <2>1, <2>2
<1>2. QED
  BY <1>1 DEF TakeLocks

LEMMA LockEffect ==
    ASSUME TypeOK, NEW t \in Threads, Lock(t)
    PROVE  \E locks \in SUBSET LockIds :
               /\ locks # {} /\ (mode[t] = "all" => locks = LockIds)
               /\ \A i \in locks : owner[ti[t]][i] = NoThread
               /\ \A a \in Addrs, i \in LockIds :
                      owner'[a][i] = IF a = ti[t] /\ i \in locks THEN t ELSE owner[a][i]
<1>1. PICK locks \in SUBSET LockIds :
          /\ IF mode[t] = "all" THEN locks = LockIds ELSE Cardinality(locks) \in {1, 2}
          /\ TakeLocks(t, locks)
  BY DEF Lock
<1>2. locks # {}
  BY <1>1, LockTakes
<1>3. QED
  BY <1>1, <1>2, TakeEffect

\* A step of one thread leaves the variables of the others alone,
LEMMA OthersStay ==
    ASSUME TypeOK, NEW t \in Threads, Call(t) \/ Step(t) \/ Flush(t),
           NEW u \in Threads, u # t
    PROVE  /\ pc'[u] = pc[u] /\ mode'[u] = mode[u] /\ left'[u] = left[u]
           /\ ti'[u] = ti[u] /\ new'[u] = new[u] /\ op'[u] = op[u] /\ want'[u] = want[u]
<1> USE DEF TypeOK, Goto, local
<1>1. CASE Call(t)
  BY <1>1 DEF Call, FirstMode, AskedFor
<1>2. CASE Flush(t)
  BY <1>2 DEF Flush, Fenced
<1>3. CASE Register(t)
  BY <1>3 DEF Register
<1>4. CASE Load(t)
  BY <1>4 DEF Load
<1>5. CASE Protect(t)
  BY <1>5 DEF Protect, SetNode
<1>6. CASE Check(t)
  BY <1>6 DEF Check, Unchanged
<1>7. CASE Lock(t)
  BY <1>7 DEF Lock, TakeLocks
<1>8. CASE Recheck(t)
  BY <1>8 DEF Recheck, Unlock, StillCurrent
<1>9. CASE Done(t)
  BY <1>9 DEF Done, Unlock
<1>10. CASE Full(t)
  BY <1>10 DEF Full, Unlock
<1>11. CASE Rehash(t)
  BY <1>11 DEF Rehash
<1>12. CASE NoExpansion(t)
  BY <1>12 DEF NoExpansion
<1>13. CASE Build(t)
  BY <1>13 DEF Build, NoOwner
<1>14. CASE Publish(t)
  BY <1>14 DEF Publish
<1>15. CASE Push(t)
  BY <1>15 DEF Push
<1>16. CASE DeleteUnused(t)
  BY <1>16 DEF DeleteUnused
<1>17. CASE NextOld(t)
  BY <1>17 DEF NextOld, ListedNodes
<1>18. CASE Compare(t)
  BY <1>18 DEF Compare
<1>19. CASE Delete(t)
  BY <1>19 DEF Delete, Removed
<1>20. CASE EndScan(t)
  BY <1>20 DEF EndScan
<1>21. CASE Unprotect(t)
  BY <1>21 DEF Unprotect, SetNode
<1>22. CASE UnlockAll(t)
  BY <1>22 DEF UnlockAll, Unlock
<1>23. CASE AllUnlocked(t)
  BY <1>23 DEF AllUnlocked, FirstMode
<1>24. CASE Unset(t)
  BY <1>24 DEF Unset, SetNode
<1>25. CASE LockBuckets(t)
  BY <1>25 DEF LockBuckets, TakeLocks
<1>26. CASE UnlockBuckets(t)
  BY <1>26 DEF UnlockBuckets, Unlock
<1>27. CASE SlotFreed(t)
  BY <1>27 DEF SlotFreed, Unlock
<1>28. CASE CompareTable(t)
  BY <1>28 DEF CompareTable, Unlock, StillCurrent
<1>29. CASE TableFull(t)
  BY <1>29 DEF TableFull, NextPower
<1>30. QED
  BY <1>1, <1>2, <1>3, <1>4, <1>5, <1>6, <1>7, <1>8, <1>9, <1>10, <1>11, <1>12, <1>13,
      <1>14, <1>15, <1>16, <1>17, <1>18, <1>19, <1>20, <1>21, <1>22, <1>23, <1>24,
      <1>25, <1>26, <1>27, <1>28, <1>29 DEF Step

\* and the locks they hold, as long as none went astray.
LEMMA OthersKeep ==
    ASSUME Base, WellLocked, ~astray', NEW t \in Threads, late' = late,
           Call(t) \/ Step(t) \/ Flush(t)
    PROVE  \A u \in Threads \ {t}, a \in Addrs, i \in LockIds :
               owner[a][i] = u => owner'[a][i] = u
<1> USE ReclaimAssumption DEF Base, WellLocked
<1>1. CASE Call(t)
  BY <1>1 DEF Call, FirstMode, AskedFor
<1>2. CASE Flush(t)
  BY <1>2 DEF Flush, Fenced
<1>3. CASE Register(t)
  BY <1>3 DEF Register
<1>4. CASE Load(t)
  BY <1>4 DEF Load
<1>5. CASE Protect(t)
  BY <1>5 DEF Protect, SetNode
<1>6. CASE Check(t)
  BY <1>6 DEF Check, Unchanged
<1>7. CASE Lock(t)
  BY <1>7, LockEffect
<1>8. CASE Recheck(t)
  <2>1. owner' = owner \/ Unlock(t, Mine(t))
    BY <1>8 DEF Recheck
  <2>2. QED
    BY <2>1, UnlockEffect DEF Mine
<1>9. CASE Done(t)
  <2>1. owner' = owner \/ Unlock(t, Mine(t))
    BY <1>9 DEF Done
  <2>2. QED
    BY <2>1, UnlockEffect DEF Mine
<1>10. CASE Full(t)
  <2>1. owner' = owner \/ Unlock(t, Mine(t))
    BY <1>10 DEF Full
  <2>2. QED
    BY <2>1, UnlockEffect DEF Mine
<1>11. CASE Rehash(t)
  BY <1>11 DEF Rehash
<1>12. CASE NoExpansion(t)
  BY <1>12 DEF NoExpansion
<1>13. CASE Build(t)
  <2>1. PICK b \in Addrs : ~live[b] /\ owner' = [owner EXCEPT ![b] = NoOwner]
    BY <1>13 DEF Build
  <2>2. QED
    BY <2>1 DEF LocksLive, TypeOK
<1>14. CASE Publish(t)
  BY <1>14 DEF Publish
<1>15. CASE Push(t)
  BY <1>15 DEF Push
<1>16. CASE DeleteUnused(t)
  BY <1>16 DEF DeleteUnused
<1>17. CASE NextOld(t)
  BY <1>17 DEF NextOld, ListedNodes
<1>18. CASE Compare(t)
  BY <1>18 DEF Compare
<1>19. CASE Delete(t)
  BY <1>19 DEF Delete, Removed
<1>20. CASE EndScan(t)
  BY <1>20 DEF EndScan
<1>21. CASE Unprotect(t)
  BY <1>21 DEF Unprotect, SetNode
<1>22. CASE UnlockAll(t)
  <2>1. PICK l \in left[t] : owner[ti[t]][l] = t /\ Unlock(t, {l})
    BY <1>22, NextLeft DEF UnlockAll, At, Holds, TypeOK
  <2>2. QED
    BY <2>1, UnlockEffect
<1>23. CASE AllUnlocked(t)
  BY <1>23 DEF AllUnlocked, FirstMode
<1>24. CASE Unset(t)
  BY <1>24 DEF Unset, SetNode
<1>25. CASE LockBuckets(t)
  <2>1. PICK locks \in SUBSET LockIds : TakeLocks(t, locks)
    BY <1>25 DEF LockBuckets
  <2>2. QED
    BY <2>1, TakeEffect
<1>26. CASE UnlockBuckets(t)
  <2>1. owner' = owner \/ Unlock(t, Mine(t))
    BY <1>26 DEF UnlockBuckets
  <2>2. QED
    BY <2>1, UnlockEffect DEF Mine
<1>27. CASE SlotFreed(t)
  <2>1. PICK two \in SUBSET Mine(t) : Unlock(t, Mine(t) \ two)
    BY <1>27 DEF SlotFreed
  <2>2. QED
    BY <2>1, UnlockEffect DEF Mine
<1>28. CASE CompareTable(t)
  <2>1. owner' = owner \/ Unlock(t, Mine(t))
    BY <1>28 DEF CompareTable
  <2>2. QED
    BY <2>1, UnlockEffect DEF Mine
<1>29. CASE TableFull(t)
  BY <1>29 DEF TableFull
<1>30. QED
  BY <1>1, <1>2, <1>3, <1>4, <1>5, <1>6, <1>7, <1>8, <1>9, <1>10, <1>11, <1>12, <1>13,
      <1>14, <1>15, <1>16, <1>17, <1>18, <1>19, <1>20, <1>21, <1>22, <1>23, <1>24,
      <1>25, <1>26, <1>27, <1>28, <1>29 DEF Step

LEMMA LocksLiveStep ==
    ASSUME Base, WellLocked, ~astray', NEW t \in Threads, late' = late,
           Call(t) \/ Step(t) \/ Flush(t)
    PROVE  LocksLive'
<1> USE ReclaimAssumption DEF Base, WellLocked, LocksLive, memory
<1>1. CASE Call(t)
  BY <1>1 DEF Call, FirstMode, AskedFor
<1>2. CASE Flush(t)
  BY <1>2 DEF Flush, Fenced
<1>3. CASE Register(t)
  BY <1>3 DEF Register
<1>4. CASE Load(t)
  BY <1>4 DEF Load
<1>5. CASE Protect(t)
  BY <1>5 DEF Protect, SetNode
<1>6. CASE Check(t)
  BY <1>6 DEF Check, Unchanged
<1>7. CASE Lock(t)
  <2>1. live[ti[t]] /\ live' = live
    BY <1>7 DEF Lock, TakeLocks
  <2>2. QED
    BY <1>7, <2>1, LockEffect
<1>8. CASE Recheck(t)
  <2>1. live' = live /\ (owner' = owner \/ Unlock(t, Mine(t)))
    BY <1>8 DEF Recheck
  <2>2. \A a \in Addrs, i \in LockIds : owner'[a][i] \in {owner[a][i], NoThread}
    BY <2>1, UnlockEffect
  <2>3. QED
    BY <2>1, <2>2
<1>9. CASE Done(t)
  <2>1. live' = live /\ (owner' = owner \/ Unlock(t, Mine(t)))
    BY <1>9 DEF Done
  <2>2. \A a \in Addrs, i \in LockIds : owner'[a][i] \in {owner[a][i], NoThread}
    BY <2>1, UnlockEffect
  <2>3. QED
    BY <2>1, <2>2
<1>10. CASE Full(t)
  <2>1. live' = live /\ (owner' = owner \/ Unlock(t, Mine(t)))
    BY <1>10 DEF Full
  <2>2. \A a \in Addrs, i \in LockIds : owner'[a][i] \in {owner[a][i], NoThread}
    BY <2>1, UnlockEffect
  <2>3. QED
    BY <2>1, <2>2
<1>11. CASE Rehash(t)
  BY <1>11 DEF Rehash
<1>12. CASE NoExpansion(t)
  BY <1>12 DEF NoExpansion
<1>13. CASE Build(t)
  <2>1. PICK b \in Addrs :
            live' = [live EXCEPT ![b] = TRUE] /\ owner' = [owner EXCEPT ![b] = NoOwner]
    BY <1>13 DEF Build
  <2>2. QED
    BY <2>1 DEF TypeOK
<1>14. CASE Publish(t)
  BY <1>14 DEF Publish
<1>15. CASE Push(t)
  BY <1>15 DEF Push
<1>16. CASE DeleteUnused(t)
  BY <1>16 DEF DeleteUnused
<1>17. CASE NextOld(t)
  BY <1>17 DEF NextOld, ListedNodes
<1>18. CASE Compare(t)
  BY <1>18 DEF Compare
<1>19. CASE Delete(t)
  <2>1. /\ live' = [live EXCEPT ![cur] = FALSE] /\ owner' = owner
        /\ owner[cur] = NoOwner
    BY <1>19 DEF Delete
  <2>2. \A i \in LockIds : owner[cur][i] = NoThread
    BY <2>1 DEF NoOwner
  <2>3. QED
    BY <2>1, <2>2 DEF TypeOK
<1>20. CASE EndScan(t)
  BY <1>20 DEF EndScan
<1>21. CASE Unprotect(t)
  BY <1>21 DEF Unprotect, SetNode
<1>22. CASE UnlockAll(t)
  <2>1. PICK l : live' = live /\ Unlock(t, {l})
    BY <1>22 DEF UnlockAll
  <2>2. \A a \in Addrs, i \in LockIds : owner'[a][i] \in {owner[a][i], NoThread}
    BY <2>1, UnlockEffect
  <2>3. QED
    BY <2>1, <2>2
<1>23. CASE AllUnlocked(t)
  BY <1>23 DEF AllUnlocked, FirstMode
<1>24. CASE Unset(t)
  BY <1>24 DEF Unset, SetNode
<1>25. CASE LockBuckets(t)
  <2>1. PICK locks \in SUBSET LockIds : TakeLocks(t, locks)
    BY <1>25 DEF LockBuckets
  <2>2. live[ti[t]] /\ live' = live
    BY <1>25, <2>1 DEF LockBuckets, TakeLocks
  <2>3. QED
    BY <2>1, <2>2, TakeEffect
<1>26. CASE UnlockBuckets(t)
  <2>1. live' = live /\ (owner' = owner \/ Unlock(t, Mine(t)))
    BY <1>26 DEF UnlockBuckets
  <2>2. \A a \in Addrs, i \in LockIds : owner'[a][i] \in {owner[a][i], NoThread}
    BY <2>1, UnlockEffect
  <2>3. QED
    BY <2>1, <2>2
<1>27. CASE SlotFreed(t)
  <2>1. PICK locks : live' = live /\ Unlock(t, locks)
    BY <1>27 DEF SlotFreed
  <2>2. \A a \in Addrs, i \in LockIds : owner'[a][i] \in {owner[a][i], NoThread}
    BY <2>1, UnlockEffect
  <2>3. QED
    BY <2>1, <2>2
<1>28. CASE CompareTable(t)
  <2>1. live' = live /\ (owner' = owner \/ Unlock(t, Mine(t)))
    BY <1>28 DEF CompareTable
  <2>2. \A a \in Addrs, i \in LockIds : owner'[a][i] \in {owner[a][i], NoThread}
    BY <2>1, UnlockEffect
  <2>3. QED
    BY <2>1, <2>2
<1>29. CASE TableFull(t)
  BY <1>29 DEF TableFull
<1>30. QED
  BY <1>1, <1>2, <1>3, <1>4, <1>5, <1>6, <1>7, <1>8, <1>9, <1>10, <1>11, <1>12, <1>13,
      <1>14, <1>15, <1>16, <1>17, <1>18, <1>19, <1>20, <1>21, <1>22, <1>23, <1>24,
      <1>25, <1>26, <1>27, <1>28, <1>29 DEF Step

LEMMA HoldsStep ==
    ASSUME Base, WellLocked, ~astray', NEW t \in Threads, late' = late,
           Call(t) \/ Step(t) \/ Flush(t)
    PROVE  Holds'
<1>1. ASSUME NEW u \in Threads, u # t
      PROVE  /\ pc'[u] \in {"recheck", "using"} \cup Locked /\ mode'[u] # "none" =>
                    \E i \in LockIds : owner'[ti'[u]][i] = u
             /\ pc'[u] \in {"recheck", "using"} \cup Locked /\ mode'[u] = "all" =>
                    \A i \in LockIds : owner'[ti'[u]][i] = u
             /\ pc'[u] = "unlock_all" => \A i \in left'[u] : owner'[ti'[u]][i] = u
  <2>1. /\ pc'[u] = pc[u] /\ mode'[u] = mode[u] /\ left'[u] = left[u] /\ ti'[u] = ti[u]
        /\ left[u] \subseteq LockIds
        /\ pc[u] \in {"recheck", "using", "unlock_all"} \cup Locked => ti[u] \in Addrs
    BY <1>1, OthersStay DEF Base, TypeOK, Control, Locked
  <2>2. \A a \in Addrs, i \in LockIds : owner[a][i] = u => owner'[a][i] = u
    BY <1>1, OthersKeep
  <2>3. QED
    BY <2>1, <2>2 DEF WellLocked, Holds
<1>2. /\ pc'[t] \in {"recheck", "using"} \cup Locked /\ mode'[t] # "none" =>
             \E i \in LockIds : owner'[ti'[t]][i] = t
      /\ pc'[t] \in {"recheck", "using"} \cup Locked /\ mode'[t] = "all" =>
             \A i \in LockIds : owner'[ti'[t]][i] = t
      /\ pc'[t] = "unlock_all" => \A i \in left'[t] : owner'[ti'[t]][i] = t
  <2>0. /\ pc \in [Threads -> Labels] /\ ti[t] \in Addrs \cup {NoAddr}
        /\ pc[t] \notin {"idle", "register", "load"} => ti[t] \in Addrs
        /\ pc[t] \in Locked \cup {"unlock_all"} => mode[t] = "all"
        /\ left[t] \subseteq LockIds /\ LockIds # {}
        /\ mode \in [Threads -> {"none", "two", "all"}]
        /\ ti \in [Threads -> Addrs \cup {NoAddr}]
        /\ left \in [Threads -> SUBSET LockIds]
    BY ReclaimAssumption DEF Base, TypeOK, Control
  <2>h. /\ pc[t] \in {"recheck", "using"} \cup Locked /\ mode[t] # "none" =>
              \E i \in LockIds : owner[ti[t]][i] = t
        /\ pc[t] \in {"recheck", "using"} \cup Locked /\ mode[t] = "all" =>
              \A i \in LockIds : owner[ti[t]][i] = t
        /\ pc[t] = "unlock_all" => \A i \in left[t] : owner[ti[t]][i] = t
    BY DEF WellLocked, Holds
  <2>1. CASE Call(t)
    <3>1. pc'[t] \notin {"recheck", "using", "unlock_all"} \cup Locked
      BY <2>0, <2>1 DEF Call, At, Goto, local, Locked
    <3>2. QED
      BY <3>1
  <2>2. CASE Flush(t)
    <3>1. /\ mode'[t] = mode[t] /\ ti'[t] = ti[t] /\ left'[t] = left[t] /\ owner' = owner
          /\ (pc'[t] = "unlock_all" => pc[t] = "unlock_all")
          /\ pc'[t] \in {"recheck", "using"} \cup Locked =>
                pc[t] \in {"recheck", "using"} \cup Locked
      BY <2>0, <2>2 DEF Flush, At, Goto, local, hazards, Locked
    <3>2. QED
      BY <2>h, <3>1
  <2>3. CASE Register(t)
    <3>1. pc'[t] \notin {"recheck", "using", "unlock_all"} \cup Locked
      BY <2>0, <2>3 DEF Register, At, Goto, local, Locked
    <3>2. QED
      BY <3>1
  <2>4. CASE Load(t)
    <3>1. pc'[t] \notin {"recheck", "using", "unlock_all"} \cup Locked
      BY <2>0, <2>4 DEF Load, At, Goto, local, Locked
    <3>2. QED
      BY <3>1
  <2>5. CASE Protect(t)
    <3>1. pc'[t] \notin {"recheck", "using", "unlock_all"} \cup Locked
      BY <2>0, <2>5 DEF Protect, At, Goto, local, Locked
    <3>2. QED
      BY <3>1
  <2>6. CASE Check(t)
    <3>1. /\ pc'[t] \in {"load", "using", "lock"} /\ mode'[t] = mode[t]
          /\ pc'[t] = "using" => mode[t] = "none"
      BY <2>0, <2>6 DEF Check, Goto, local
    <3>2. QED
      BY <3>1 DEF Locked
  <2>7. CASE Lock(t)
    <3>1. PICK locks \in SUBSET LockIds :
              /\ locks # {} /\ (mode[t] = "all" => locks = LockIds)
              /\ \A a \in Addrs, i \in LockIds :
                     owner'[a][i] = IF a = ti[t] /\ i \in locks THEN t ELSE owner[a][i]
      BY <2>7, LockEffect DEF Base
    <3>2. /\ pc'[t] = "recheck" /\ mode'[t] = mode[t] /\ ti'[t] = ti[t] /\ ti[t] \in Addrs
      BY <2>0, <2>7 DEF Lock, At, Goto, local
    <3>3. /\ \E i \in LockIds : owner'[ti'[t]][i] = t
          /\ mode'[t] = "all" => \A i \in LockIds : owner'[ti'[t]][i] = t
      BY <3>1, <3>2
    <3>4. QED
      BY <3>2, <3>3
  <2>8. CASE Recheck(t)
    <3>1. /\ pc[t] = "recheck" /\ mode'[t] = mode[t] /\ ti'[t] = ti[t]
          /\ pc'[t] = "load" \/ (pc'[t] = "using" /\ owner' = owner)
      BY <2>0, <2>8 DEF Recheck, At, Goto, local
    <3>2. QED
      BY <2>h, <3>1 DEF Locked
  <2>9. CASE Done(t)
    <3>1. pc'[t] \notin {"recheck", "using", "unlock_all"} \cup Locked
      BY <2>0, <2>9 DEF Done, At, Goto, local, Locked
    <3>2. QED
      BY <3>1
  <2>10. CASE Full(t)
    <3>1. pc'[t] \notin {"recheck", "using", "unlock_all"} \cup Locked
      BY <2>0, <2>10 DEF Full, At, Goto, local, Locked
    <3>2. QED
      BY <3>1
  <2>11. CASE Rehash(t)
    <3>1. pc'[t] \notin {"recheck", "using", "unlock_all"} \cup Locked
      BY <2>0, <2>11 DEF Rehash, At, Goto, local, Locked
    <3>2. QED
      BY <3>1
  <2>12. CASE NoExpansion(t)
    <3>1. /\ mode'[t] = mode[t] /\ ti'[t] = ti[t] /\ left'[t] = left[t] /\ owner' = owner
          /\ (pc'[t] = "unlock_all" => pc[t] = "unlock_all")
          /\ pc'[t] \in {"recheck", "using"} \cup Locked =>
                pc[t] \in {"recheck", "using"} \cup Locked
      BY <2>0, <2>12 DEF NoExpansion, At, Goto, local, hazards, Locked
    <3>2. QED
      BY <2>h, <3>1
  <2>13. CASE Build(t)
    <3>1. PICK b \in Addrs : ~live[b] /\ owner' = [owner EXCEPT ![b] = NoOwner]
      BY <2>13 DEF Build
    <3>2. /\ pc[t] = "using" /\ pc'[t] = "publish" /\ mode[t] = "all"
          /\ mode'[t] = "all" /\ ti'[t] = ti[t]
      BY <2>0, <2>13 DEF Build, At, Goto, local
    <3>3. \A i \in LockIds : owner[ti[t]][i] = t
      BY <2>h, <3>2
    <3>4. ti[t] \in Addrs /\ ti[t] # b
      <4>1. \A i \in LockIds : owner[b][i] = NoThread
        BY <3>1 DEF WellLocked, LocksLive
      <4>2. QED
        BY <2>0, <3>2, <3>3, <4>1, ReclaimAssumption
    <3>5. owner'[ti'[t]] = owner[ti[t]]
      BY <3>1, <3>2, <3>4 DEF Base, TypeOK
    <3>6. QED
      BY <2>0, <3>2, <3>3, <3>5
  <2>14. CASE Publish(t)
    <3>1. /\ mode'[t] = mode[t] /\ ti'[t] = ti[t] /\ left'[t] = left[t] /\ owner' = owner
          /\ (pc'[t] = "unlock_all" => pc[t] = "unlock_all")
          /\ pc'[t] \in {"recheck", "using"} \cup Locked =>
                pc[t] \in {"recheck", "using"} \cup Locked
      BY <2>0, <2>14 DEF Publish, At, Goto, local, hazards, Locked
    <3>2. QED
      BY <2>h, <3>1
  <2>15. CASE Push(t)
    <3>1. /\ mode'[t] = mode[t] /\ ti'[t] = ti[t] /\ left'[t] = left[t] /\ owner' = owner
          /\ (pc'[t] = "unlock_all" => pc[t] = "unlock_all")
          /\ pc'[t] \in {"recheck", "using"} \cup Locked =>
                pc[t] \in {"recheck", "using"} \cup Locked
      BY <2>0, <2>15 DEF Push, At, Goto, local, hazards, Locked
    <3>2. QED
      BY <2>h, <3>1
  <2>16. CASE DeleteUnused(t)
    <3>1. /\ mode'[t] = mode[t] /\ ti'[t] = ti[t] /\ left'[t] = left[t] /\ owner' = owner
          /\ (pc'[t] = "unlock_all" => pc[t] = "unlock_all")
          /\ pc'[t] \in {"recheck", "using"} \cup Locked =>
                pc[t] \in {"recheck", "using"} \cup Locked
      BY <2>0, <2>16 DEF DeleteUnused, At, Goto, local, hazards, Locked
    <3>2. QED
      BY <2>h, <3>1
  <2>17. CASE NextOld(t)
    <3>1. /\ mode'[t] = mode[t] /\ ti'[t] = ti[t] /\ left'[t] = left[t] /\ owner' = owner
          /\ (pc'[t] = "unlock_all" => pc[t] = "unlock_all")
          /\ pc'[t] \in {"recheck", "using"} \cup Locked =>
                pc[t] \in {"recheck", "using"} \cup Locked
      BY <2>0, <2>17 DEF NextOld, At, Goto, local, hazards, Locked
    <3>2. QED
      BY <2>h, <3>1
  <2>18. CASE Compare(t)
    <3>1. /\ mode'[t] = mode[t] /\ ti'[t] = ti[t] /\ left'[t] = left[t] /\ owner' = owner
          /\ (pc'[t] = "unlock_all" => pc[t] = "unlock_all")
          /\ pc'[t] \in {"recheck", "using"} \cup Locked =>
                pc[t] \in {"recheck", "using"} \cup Locked
      BY <2>0, <2>18 DEF Compare, At, Goto, local, hazards, Locked
    <3>2. QED
      BY <2>h, <3>1
  <2>19. CASE Delete(t)
    <3>1. /\ mode'[t] = mode[t] /\ ti'[t] = ti[t] /\ left'[t] = left[t] /\ owner' = owner
          /\ (pc'[t] = "unlock_all" => pc[t] = "unlock_all")
          /\ pc'[t] \in {"recheck", "using"} \cup Locked =>
                pc[t] \in {"recheck", "using"} \cup Locked
      BY <2>0, <2>19 DEF Delete, At, Goto, local, hazards, Locked
    <3>2. QED
      BY <2>h, <3>1
  <2>20. CASE EndScan(t)
    <3>1. /\ mode'[t] = mode[t] /\ ti'[t] = ti[t] /\ left'[t] = left[t] /\ owner' = owner
          /\ (pc'[t] = "unlock_all" => pc[t] = "unlock_all")
          /\ pc'[t] \in {"recheck", "using"} \cup Locked =>
                pc[t] \in {"recheck", "using"} \cup Locked
      BY <2>0, <2>20 DEF EndScan, At, Goto, local, hazards, Locked
    <3>2. QED
      BY <2>h, <3>1
  <2>21. CASE Unprotect(t)
    <3>1. /\ pc[t] = "unprotect" /\ pc'[t] = "unlock_all" /\ mode[t] = "all"
          /\ ti'[t] = ti[t] /\ left'[t] = LockIds /\ owner' = owner
      BY <2>0, <2>21 DEF Unprotect, At, Goto, Locked
    <3>2. QED
      BY <2>h, <3>1 DEF Locked
  <2>22. CASE UnlockAll(t)
    <3>1. PICK l \in left[t] : Unlock(t, {l}) /\ left'[t] = left[t] \ {l}
      <4>1. left[t] # {} /\ left[t] \subseteq LockIds
        BY <2>0, <2>22 DEF UnlockAll
      <4>2. QED
        BY <2>0, <2>22, <4>1, NextLeft DEF UnlockAll
    <3>2. /\ pc[t] = "unlock_all" /\ pc'[t] = "unlock_all" /\ ti'[t] = ti[t]
          /\ ti[t] \in Addrs
      BY <2>0, <2>22 DEF UnlockAll, At
    <3>3. \A i \in left[t] : owner[ti[t]][i] = t
      BY <2>h, <3>2
    <3>4. \A i \in LockIds : owner'[ti[t]][i] = IF i \in {l} THEN NoThread ELSE owner[ti[t]][i]
      BY <3>1, <3>2, UnlockEffect DEF Base
    <3>5. \A i \in left'[t] : owner'[ti'[t]][i] = t
      BY <2>0, <3>1, <3>2, <3>3, <3>4
    <3>6. QED
      BY <3>2, <3>5 DEF Locked
  <2>23. CASE AllUnlocked(t)
    <3>1. op[t] \in {"insert", "clear", "rehash"}
      BY <2>23 DEF AllUnlocked, At, Base, Control
    <3>2. pc'[t] \in {"load", "unset", "idle"}
      BY <2>0, <2>23, <3>1 DEF AllUnlocked, Goto
    <3>3. QED
      BY <3>2 DEF Locked
  <2>24. CASE Unset(t)
    <3>1. pc'[t] \notin {"recheck", "using", "unlock_all"} \cup Locked
      BY <2>0, <2>24 DEF Unset, At, Goto, local, Locked
    <3>2. QED
      BY <3>1
  <2>25. CASE LockBuckets(t)
    <3>1. pc'[t] \notin {"recheck", "using", "unlock_all"} \cup Locked
      BY <2>0, <2>25 DEF LockBuckets, At, Goto, local, Locked
    <3>2. QED
      BY <3>1
  <2>26. CASE UnlockBuckets(t)
    <3>1. pc'[t] \notin {"recheck", "using", "unlock_all"} \cup Locked
      BY <2>0, <2>26 DEF UnlockBuckets, At, Goto, local, Locked
    <3>2. QED
      BY <3>1
  <2>27. CASE SlotFreed(t)
    <3>1. pc'[t] \notin {"recheck", "using", "unlock_all"} \cup Locked
      BY <2>0, <2>27 DEF SlotFreed, At, Goto, local, Locked
    <3>2. QED
      BY <3>1
  <2>28. CASE CompareTable(t)
    <3>1. pc'[t] \notin {"recheck", "using", "unlock_all"} \cup Locked
      BY <2>0, <2>28 DEF CompareTable, At, Goto, local, Locked
    <3>2. QED
      BY <3>1
  <2>29. CASE TableFull(t)
    <3>1. pc'[t] \notin {"recheck", "using", "unlock_all"} \cup Locked
      BY <2>0, <2>29 DEF TableFull, At, Goto, local, Locked
    <3>2. QED
      BY <3>1
  <2>30. QED
    BY <2>1, <2>2, <2>3, <2>4, <2>5, <2>6, <2>7, <2>8, <2>9, <2>10, <2>11, <2>12, <2>13,
        <2>14, <2>15, <2>16, <2>17, <2>18, <2>19, <2>20, <2>21, <2>22, <2>23, <2>24,
        <2>25, <2>26, <2>27, <2>28, <2>29 DEF
        Step
<1>3. QED
  BY <1>1, <1>2 DEF Holds

LEMMA UsesCurrentStep ==
    ASSUME Base, WellLocked, ~astray', NEW t \in Threads, late' = late,
           Call(t) \/ Step(t) \/ Flush(t)
    PROVE  UsesCurrent'
<1> USE ReclaimAssumption
        DEF Base, TypeOK, Control, WellLocked, Labels, Locked, Holds, UsesCurrent,
            At, Goto, memory, local, scanning, hazards
<1>1. CASE Call(t)
  BY <1>1 DEF Call, FirstMode, AskedFor
<1>2. CASE Flush(t)
  BY <1>2 DEF Flush, Fenced
<1>3. CASE Register(t)
  BY <1>3 DEF Register
<1>4. CASE Load(t)
  BY <1>4 DEF Load
<1>5. CASE Protect(t)
  BY <1>5 DEF Protect, SetNode
<1>6. CASE Check(t)
  BY <1>6 DEF Check, Unchanged
<1>7. CASE Lock(t)
  BY <1>7 DEF Lock, TakeLocks
<1>8. CASE Recheck(t)
  BY <1>8 DEF Recheck, Unlock, StillCurrent
<1>9. CASE Done(t)
  BY <1>9 DEF Done, Unlock
<1>10. CASE Full(t)
  BY <1>10 DEF Full, Unlock
<1>11. CASE Rehash(t)
  BY <1>11 DEF Rehash
<1>12. CASE NoExpansion(t)
  BY <1>12 DEF NoExpansion
<1>13. CASE Build(t)
  BY <1>13 DEF Build, NoOwner
<1>14. CASE Publish(t)
  BY <1>14 DEF Publish
<1>15. CASE Push(t)
  BY <1>15 DEF Push
<1>16. CASE DeleteUnused(t)
  BY <1>16 DEF DeleteUnused
<1>17. CASE NextOld(t)
  BY <1>17 DEF NextOld, ListedNodes
<1>18. CASE Compare(t)
  BY <1>18 DEF Compare
<1>19. CASE Delete(t)
  BY <1>19 DEF Delete, Removed
<1>20. CASE EndScan(t)
  BY <1>20 DEF EndScan
<1>21. CASE Unprotect(t)
  BY <1>21 DEF Unprotect, SetNode
<1>22. CASE UnlockAll(t)
  BY <1>22 DEF UnlockAll, Unlock
<1>23. CASE AllUnlocked(t)
  BY <1>23 DEF AllUnlocked, FirstMode
<1>24. CASE Unset(t)
  BY <1>24 DEF Unset, SetNode
<1>25. CASE LockBuckets(t)
  BY <1>25 DEF LockBuckets, TakeLocks
<1>26. CASE UnlockBuckets(t)
  BY <1>26 DEF UnlockBuckets, Unlock
<1>27. CASE SlotFreed(t)
  BY <1>27 DEF SlotFreed, Unlock
<1>28. CASE CompareTable(t)
  BY <1>28 DEF CompareTable, Unlock, StillCurrent
<1>29. CASE TableFull(t)
  BY <1>29 DEF TableFull, NextPower
<1>30. QED
  BY <1>1, <1>2, <1>3, <1>4, <1>5, <1>6, <1>7, <1>8, <1>9, <1>10, <1>11, <1>12, <1>13,
      <1>14, <1>15, <1>16, <1>17, <1>18, <1>19, <1>20, <1>21, <1>22, <1>23, <1>24,
      <1>25, <1>26, <1>27, <1>28, <1>29 DEF Step

\* What neither makes, moves nor deletes a table keeps every table's owner.
LEMMA OwnedFrame ==
    ASSUME Owned, UNCHANGED <<table_info, live, old_table_infos, new>>,
           \A u \in Threads : pc'[u] = "push" <=> pc[u] = "push",
           \A u \in Threads : pc[u] = "push" => ti'[u] = ti[u]
    PROVE  Owned'
BY DEF Owned

LEMMA OwnedStep ==
    ASSUME Base, WellLocked, ~astray', NEW t \in Threads, late' = late,
           Call(t) \/ Step(t) \/ Flush(t)
    PROVE  Owned'
<1>0. /\ \A u \in Threads \ {t} : pc'[u] = pc[u] /\ ti'[u] = ti[u] /\ new'[u] = new[u]
      /\ TypeOK /\ Owned
  BY OthersStay DEF Base, WellLocked
<1>1. CASE Call(t)
  <2>1. /\ UNCHANGED <<table_info, live, old_table_infos, new>>
        /\ pc[t] # "push" /\ pc'[t] # "push"
    BY <1>0, <1>1 DEF Call, At, Goto, memory, local, TypeOK
  <2>2. QED
    BY <1>0, <2>1, OwnedFrame
<1>2. CASE Flush(t)
  <2>1. UNCHANGED <<table_info, live, old_table_infos, new, pc, ti>>
    BY <1>2 DEF Flush, memory
  <2>2. QED
    BY <2>1, OwnedFrame, <1>0
<1>3. CASE Register(t)
  <2>1. /\ UNCHANGED <<table_info, live, old_table_infos, new>>
        /\ pc[t] # "push" /\ pc'[t] # "push"
    BY <1>0, <1>3 DEF Register, At, Goto, memory, local, TypeOK
  <2>2. QED
    BY <1>0, <2>1, OwnedFrame
<1>4. CASE Load(t)
  <2>1. /\ UNCHANGED <<table_info, live, old_table_infos, new>>
        /\ pc[t] # "push" /\ pc'[t] # "push"
    BY <1>0, <1>4 DEF Load, At, Goto, memory, local, TypeOK
  <2>2. QED
    BY <1>0, <2>1, OwnedFrame
<1>5. CASE Protect(t)
  <2>1. /\ UNCHANGED <<table_info, live, old_table_infos, new>>
        /\ pc[t] # "push" /\ pc'[t] # "push"
    BY <1>0, <1>5 DEF Protect, At, Goto, memory, local, TypeOK
  <2>2. QED
    BY <1>0, <2>1, OwnedFrame
<1>6. CASE Check(t)
  <2>1. /\ UNCHANGED <<table_info, live, old_table_infos, new>>
        /\ pc[t] # "push" /\ pc'[t] # "push"
    BY <1>0, <1>6 DEF Check, At, Goto, memory, local, TypeOK
  <2>2. QED
    BY <1>0, <2>1, OwnedFrame
<1>7. CASE Lock(t)
  <2>1. /\ UNCHANGED <<table_info, live, old_table_infos, new>>
        /\ pc[t] # "push" /\ pc'[t] # "push"
    BY <1>0, <1>7 DEF Lock, At, Goto, memory, local, TypeOK
  <2>2. QED
    BY <1>0, <2>1, OwnedFrame
<1>8. CASE Recheck(t)
  <2>1. /\ UNCHANGED <<table_info, live, old_table_infos, new>>
        /\ pc[t] # "push" /\ pc'[t] # "push"
    BY <1>0, <1>8 DEF Recheck, At, Goto, memory, local, TypeOK
  <2>2. QED
    BY <1>0, <2>1, OwnedFrame
<1>9. CASE Done(t)
  <2>1. /\ UNCHANGED <<table_info, live, old_table_infos, new>>
        /\ pc[t] # "push" /\ pc'[t] # "push"
    BY <1>0, <1>9 DEF Done, At, Goto, memory, local, TypeOK
  <2>2. QED
    BY <1>0, <2>1, OwnedFrame
<1>10. CASE Full(t)
  <2>1. /\ UNCHANGED <<table_info, live, old_table_infos, new>>
        /\ pc[t] # "push" /\ pc'[t] # "push"
    BY <1>0, <1>10 DEF Full, At, Goto, memory, local, TypeOK
  <2>2. QED
    BY <1>0, <2>1, OwnedFrame
<1>11. CASE Rehash(t)
  <2>1. /\ UNCHANGED <<table_info, live, old_table_infos, new>>
        /\ pc[t] # "push" /\ pc'[t] # "push"
    BY <1>0, <1>11 DEF Rehash, At, Goto, memory, local, TypeOK
  <2>2. QED
    BY <1>0, <2>1, OwnedFrame
<1>12. CASE NoExpansion(t)
  <2>1. /\ UNCHANGED <<table_info, live, old_table_infos, new>>
        /\ pc[t] # "push" /\ pc'[t] # "push"
    BY <1>0, <1>12 DEF NoExpansion, At, Goto, memory, local, TypeOK
  <2>2. QED
    BY <1>0, <2>1, OwnedFrame
<1>13. CASE Build(t)
  <2>1. PICK b \in Addrs : live' = [live EXCEPT ![b] = TRUE] /\ new' = [new EXCEPT ![t] = b]
    BY <1>13 DEF Build
  <2>2. /\ pc[t] = "using" /\ pc'[t] = "publish" /\ new[t] = NoAddr /\ new'[t] = b
        /\ UNCHANGED <<table_info, old_table_infos, ti>>
        /\ \A a \in Addrs : live'[a] => a = b \/ live[a]
    BY <1>0, <1>13, <2>1 DEF Build, At, Goto, Base, Control, TypeOK
  <2>3. \A a \in Addrs : a # NoAddr
    BY ReclaimAssumption
  <2>4. QED
    BY <1>0, <2>2, <2>3 DEF Owned
<1>14. CASE Publish(t)
  <2>1. /\ pc[t] = "publish" /\ pc'[t] = "push" /\ ti' = ti
        /\ table_info' = new[t] /\ new'[t] = NoAddr
        /\ UNCHANGED <<live, old_table_infos>>
    BY <1>0, <1>14 DEF Publish, At, Goto, TypeOK, memory
  <2>2. ti[t] = table_info /\ table_info \notin old_table_infos
    BY <2>1 DEF Base, Places, WellLocked, UsesCurrent
  <2>3. \A a \in Addrs : a # NoAddr
    BY ReclaimAssumption
  <2>4. QED
    BY <1>0, <2>1, <2>2, <2>3 DEF Owned
<1>15. CASE Push(t)
  <2>1. /\ pc[t] = "push" /\ pc'[t] = "delete"
        /\ UNCHANGED <<table_info, live, new, ti>>
        /\ old_table_infos' = old_table_infos \cup {ti[t]}
    BY <1>0, <1>15 DEF Push, At, Goto, TypeOK
  <2>2. ASSUME NEW u \in Threads \ {t}, pc[u] = "push" PROVE ti[u] # ti[t]
    <3>1. \A i \in LockIds : owner[ti[u]][i] = u /\ owner[ti[t]][i] = t
      BY <2>1, <2>2 DEF Base, Control, WellLocked, Holds, Locked
    <3>2. QED
      BY <3>1, ReclaimAssumption
  <2>3. QED
    BY <1>0, <2>1, <2>2 DEF Owned
<1>16. CASE DeleteUnused(t)
  <2>1. /\ UNCHANGED <<table_info, live, old_table_infos, new>>
        /\ pc[t] # "push" /\ pc'[t] # "push"
    BY <1>0, <1>16 DEF DeleteUnused, At, Goto, memory, local, TypeOK
  <2>2. QED
    BY <1>0, <2>1, OwnedFrame
<1>17. CASE NextOld(t)
  <2>1. /\ UNCHANGED <<table_info, live, old_table_infos, new>>
        /\ pc[t] # "push" /\ pc'[t] # "push"
    BY <1>0, <1>17 DEF NextOld, At, Goto, memory, local, TypeOK
  <2>2. QED
    BY <1>0, <2>1, OwnedFrame
<1>18. CASE Compare(t)
  <2>1. /\ UNCHANGED <<table_info, live, old_table_infos, new>>
        /\ pc[t] # "push" /\ pc'[t] # "push"
    BY <1>0, <1>18 DEF Compare, At, Goto, memory, local, TypeOK
  <2>2. QED
    BY <1>0, <2>1, OwnedFrame
<1>19. CASE Delete(t)
  <2>1. /\ live' = [live EXCEPT ![cur] = FALSE] /\ old_table_infos' = old_table_infos \ {cur}
        /\ UNCHANGED <<table_info, new, ti, pc>>
    BY <1>19 DEF Delete, Removed, local
  <2>2. \A a \in Addrs : live'[a] => live[a] /\ a # cur
    BY <1>0, <2>1 DEF TypeOK
  <2>3. QED
    BY <1>0, <2>1, <2>2 DEF Owned
<1>20. CASE EndScan(t)
  <2>1. /\ UNCHANGED <<table_info, live, old_table_infos, new>>
        /\ pc[t] # "push" /\ pc'[t] # "push"
    BY <1>0, <1>20 DEF EndScan, At, Goto, memory, local, TypeOK
  <2>2. QED
    BY <1>0, <2>1, OwnedFrame
<1>21. CASE Unprotect(t)
  <2>1. /\ UNCHANGED <<table_info, live, old_table_infos, new>>
        /\ pc[t] # "push" /\ pc'[t] # "push"
    BY <1>0, <1>21 DEF Unprotect, At, Goto, memory, local, TypeOK
  <2>2. QED
    BY <1>0, <2>1, OwnedFrame
<1>22. CASE UnlockAll(t)
  <2>1. /\ UNCHANGED <<table_info, live, old_table_infos, new>>
        /\ pc[t] # "push" /\ pc'[t] # "push"
    BY <1>0, <1>22 DEF UnlockAll, At, Goto, memory, local, TypeOK
  <2>2. QED
    BY <1>0, <2>1, OwnedFrame
<1>23. CASE AllUnlocked(t)
  <2>1. /\ UNCHANGED <<table_info, live, old_table_infos, new>>
        /\ pc[t] = "unlock_all" /\ pc'[t] # "push"
    <3>1. op[t] \in {"insert", "clear", "rehash"} /\ pc \in [Threads -> Labels]
      BY <1>23 DEF AllUnlocked, At, Base, Control, TypeOK
    <3>2. QED
      BY <3>1, <1>23 DEF AllUnlocked, At, Goto, memory
  <2>2. QED
    BY <1>0, <2>1, OwnedFrame
<1>24. CASE Unset(t)
  <2>1. /\ UNCHANGED <<table_info, live, old_table_infos, new>>
        /\ pc[t] # "push" /\ pc'[t] # "push"
    BY <1>0, <1>24 DEF Unset, At, Goto, memory, local, TypeOK
  <2>2. QED
    BY <1>0, <2>1, OwnedFrame
<1>25. CASE LockBuckets(t)
  <2>1. /\ UNCHANGED <<table_info, live, old_table_infos, new>>
        /\ pc[t] # "push" /\ pc'[t] # "push"
    BY <1>0, <1>25 DEF LockBuckets, At, Goto, memory, local, TypeOK
  <2>2. QED
    BY <1>0, <2>1, OwnedFrame
<1>26. CASE UnlockBuckets(t)
  <2>1. /\ UNCHANGED <<table_info, live, old_table_infos, new>>
        /\ pc[t] # "push" /\ pc'[t] # "push"
    BY <1>0, <1>26 DEF UnlockBuckets, At, Goto, memory, local, TypeOK
  <2>2. QED
    BY <1>0, <2>1, OwnedFrame
<1>27. CASE SlotFreed(t)
  <2>1. /\ UNCHANGED <<table_info, live, old_table_infos, new>>
        /\ pc[t] # "push" /\ pc'[t] # "push"
    BY <1>0, <1>27 DEF SlotFreed, At, Goto, memory, local, TypeOK
  <2>2. QED
    BY <1>0, <2>1, OwnedFrame
<1>28. CASE CompareTable(t)
  <2>1. /\ UNCHANGED <<table_info, live, old_table_infos, new>>
        /\ pc[t] # "push" /\ pc'[t] # "push"
    BY <1>0, <1>28 DEF CompareTable, At, Goto, memory, local, TypeOK
  <2>2. QED
    BY <1>0, <2>1, OwnedFrame
<1>29. CASE TableFull(t)
  <2>1. /\ UNCHANGED <<table_info, live, old_table_infos, new>>
        /\ pc[t] # "push" /\ pc'[t] # "push"
    BY <1>0, <1>29 DEF TableFull, At, Goto, memory, local, TypeOK
  <2>2. QED
    BY <1>0, <2>1, OwnedFrame
<1>30. QED
  BY <1>1, <1>2, <1>3, <1>4, <1>5, <1>6, <1>7, <1>8, <1>9, <1>10, <1>11, <1>12, <1>13,
      <1>14, <1>15, <1>16, <1>17, <1>18, <1>19, <1>20, <1>21, <1>22, <1>23, <1>24,
      <1>25, <1>26, <1>27, <1>28, <1>29 DEF Step

LEMMA WellLockedStep ==
    ASSUME Base, WellLocked, ~astray', NEW t \in Threads, late' = late,
           Call(t) \/ Step(t) \/ Flush(t)
    PROVE  WellLocked'
BY LocksLiveStep, HoldsStep, UsesCurrentStep, OwnedStep DEF WellLocked

-----------------------------------------------------------------------------
LEMMA InitInv == Init => IInv
<1> SUFFICES ASSUME Init PROVE IInv
  OBVIOUS
<1>1. table_info \in Addrs
  BY ReclaimAssumption DEF Init
<1>2. TypeOK
  <2>1. 0 \in 0 .. MaxPower /\ 1 \in 0 .. MaxPower /\ 0 \in 0 .. MaxCalls
          /\ 0 \in 0 .. MaxSections
    BY ReclaimAssumption
  <2>2. /\ late \in BOOLEAN /\ live \in [Addrs -> BOOLEAN]
        /\ power \in [Addrs -> 0 .. MaxPower]
        /\ owner \in [Addrs -> [LockIds -> Threads \cup {NoThread}]]
        /\ old_table_infos \subseteq Addrs /\ nodes \subseteq Threads
        /\ astray \in BOOLEAN
    BY <2>1, ReclaimAssumption DEF Init, NoOwner
  <2>3. /\ hazard \in [Threads -> Addrs \cup {NoAddr}]
        /\ buffer \in [Threads -> Seq(Addrs \cup {NoAddr})]
        /\ mutex \in Threads \cup {NoThread} /\ cur \in Addrs \cup {NoAddr}
        /\ unread \subseteq Threads /\ kept \subseteq Addrs
    BY DEF Init
  <2>4. /\ pc \in [Threads -> Labels] /\ op \in [Threads -> Ops]
        /\ calls \in [Threads -> 0 .. MaxCalls]
        /\ mode \in [Threads -> {"none", "two", "all"}]
        /\ want \in [Threads -> 0 .. MaxPower]
    BY <2>1 DEF Init, Labels, Ops
  <2>5. /\ ti \in [Threads -> Addrs \cup {NoAddr}]
        /\ new \in [Threads -> Addrs \cup {NoAddr}]
        /\ left \in [Threads -> SUBSET LockIds]
        /\ sections \in [Threads -> 0 .. MaxSections]
    BY <2>1 DEF Init
  <2>6. QED
    BY <1>1, <2>2, <2>3, <2>4, <2>5 DEF TypeOK
<1>3. \A t \in Threads : pc[t] = "idle" /\ mode[t] = "none" /\ new[t] = NoAddr
  BY DEF Init
<1>4. Control
  BY <1>3, ReclaimAssumption DEF Init, Control, Locked, Displacing
<1>5. \A t \in Threads : ~Safe(t)
  BY <1>3 DEF Safe, Locked, Protected, Displacing
<1>6. Written
  BY <1>3, <1>5 DEF Init, Written, Fenced
<1>7. Guarded
  BY <1>5 DEF Guarded
<1>8. Places
  <2>1. live[table_info] /\ old_table_infos = {}
    BY <1>1 DEF Init
  <2>2. QED
    BY <1>3, <2>1 DEF Places
<1>9. WellLocked
  <2>1. LocksLive
    BY DEF Init, LocksLive, NoOwner
  <2>2. Holds /\ UsesCurrent
    BY <1>3 DEF Holds, UsesCurrent, Locked
  <2>3. Owned
    BY <1>3 DEF Init, Owned
  <2>4. QED
    BY <2>1, <2>2, <2>3 DEF WellLocked
<1>10. QED
  BY <1>2, <1>4, <1>6, <1>7, <1>8, <1>9 DEF IInv, Base

LEMMA StepInv == IInv /\ [Next]_vars => IInv'
<1> SUFFICES ASSUME IInv, [Next]_vars PROVE IInv'
  OBVIOUS
<1>1. ASSUME late' = late, NEW t \in Threads, Call(t) \/ Step(t) \/ Flush(t)
      PROVE  IInv'
  <2>1. Base'
    BY <1>1, TypeStep, ControlStep, WrittenStep, GuardedStep, PlacesStep DEF IInv, Base
  <2>2. ASSUME ~astray' PROVE WellLocked'
    <3>1. ~astray
      BY <1>1, <2>2, AstrayStays DEF IInv, Base
    <3>2. QED
      BY <1>1, <2>2, <3>1, WellLockedStep DEF IInv
  <2>3. QED
    BY <2>1, <2>2 DEF IInv
<1>2. CASE UNCHANGED vars
  <2>1. /\ UNCHANGED <<late, table_info, live, power, owner, old_table_infos>>
        /\ UNCHANGED <<nodes, astray, hazard, buffer, mutex, cur, unread, kept>>
        /\ UNCHANGED <<pc, op, calls, mode, want, left, sections, ti, new>>
    BY <1>2 DEF vars, memory, hazards, scanning, local
  <2>2. TypeOK' = TypeOK /\ Control' = Control
    BY <2>1 DEF TypeOK, Control
  <2>3. Written' = Written /\ Guarded' = Guarded
    BY <2>1 DEF Written, Guarded, Safe, LastWritten, Fenced
  <2>4. Places' = Places
    BY <2>1 DEF Places, Safe
  <2>5. WellLocked' = WellLocked
    BY <2>1 DEF WellLocked, LocksLive, Holds, UsesCurrent, Owned
  <2>6. QED
    BY <2>1, <2>2, <2>3, <2>4, <2>5 DEF IInv, Base
<1>3. QED
  BY <1>1, <1>2 DEF Next, Finished

(***************************************************************************)
(* In every reachable state the hazard pointers and scans are as Base      *)
(* says, and the locks as WellLocked says until one has gone astray.       *)
(***************************************************************************)
THEOREM Invariance == Spec => []IInv
BY InitInv, StepInv, PTL DEF Spec

\* The variables keep their types, whatever store order and schedule.
THEOREM Typing == Spec => []TypeOK
<1>1. IInv => TypeOK
  BY DEF IInv, Base
<1>2. QED
  BY <1>1, Invariance, PTL
-----------------------------------------------------------------------------
\* Only Delete frees a table, and only the one whose scan is complete.
LEMMA DeletesCur ==
    ASSUME IInv, [Next]_vars, NEW a \in Addrs, Deleted(a)
    PROVE  cur = a /\ unread = {}
<1>1. ~UNCHANGED live
  BY DEF Deleted
<1>2. PICK t \in Threads : Call(t) \/ Step(t) \/ Flush(t)
  BY <1>1 DEF Next, Finished, vars, memory
<1>3. Build(t) \/ Delete(t)
  BY <1>1, <1>2 DEF Step, memory, Call, Flush, Register, Load, Protect, Check, Lock, TakeLocks, Recheck,
       Done, Full, LockBuckets, UnlockBuckets, SlotFreed, CompareTable, TableFull, Rehash, NoExpansion, Publish, Push, DeleteUnused, NextOld, Compare,
       EndScan, Unprotect, UnlockAll, AllUnlocked, Unset
<1>4. ~Build(t)
  <2>1. ASSUME NEW b \in Addrs, live' = [live EXCEPT ![b] = TRUE] PROVE FALSE
    BY <2>1 DEF Deleted, IInv, Base, TypeOK
  <2>2. QED
    BY <2>1 DEF Build
<1>5. QED
  BY <1>3, <1>4 DEF Delete, Deleted, IInv, Base, TypeOK

\* So never the table of a thread that is Safe.
LEMMA SparesSafe ==
    ASSUME IInv, [Next]_vars, NEW a \in Addrs, Deleted(a), NEW t \in Threads, ti[t] = a
    PROVE  ~Safe(t)
<1>1. cur = a /\ unread = {}
  BY DeletesCur
<1>2. QED
  BY <1>1 DEF IInv, Base, Guarded

(***************************************************************************)
(* delete_unused spares every table that a thread uses after having        *)
(* checked its snapshot, if hazard pointers are written in program order:  *)
(* for any number of threads, expansions and reuses of an address.         *)
(***************************************************************************)
THEOREM SafeIfOrderedHolds == Spec => SafeIfOrdered
<1>1. ASSUME IInv, [Next]_vars, ~late, NEW a \in Addrs, NEW t \in Threads, Deleted(a)
      PROVE  ~Uses(t, a, Protected)
  BY <1>1, SparesSafe DEF Uses, Safe
<1>2. IInv /\ [Next]_vars =>
          (~late => \A a \in Addrs, t \in Threads : Deleted(a) => ~Uses(t, a, Protected))
  BY <1>1
<1>3. QED
  BY <1>2, Invariance, PTL DEF Spec, SafeIfOrdered

(***************************************************************************)
(* And in either store order it spares the table of a thread that checked  *)
(* again with its locks held.                                              *)
(***************************************************************************)
THEOREM SafeWhenLockedHolds == Spec => SafeWhenLocked
<1>1. ASSUME IInv, [Next]_vars, NEW a \in Addrs, NEW t \in Threads,
             Deleted(a), mode[t] # "none"
      PROVE  ~Uses(t, a, {"using"} \cup Displacing \cup Locked)
  BY <1>1, SparesSafe DEF Uses, Safe
<1>2. IInv /\ [Next]_vars =>
          \A a \in Addrs, t \in Threads :
              Deleted(a) /\ mode[t] # "none" => ~Uses(t, a, {"using"} \cup Displacing \cup Locked)
  BY <1>1
<1>3. QED
  BY <1>2, Invariance, PTL DEF Spec, SafeWhenLocked

(***************************************************************************)
(* An expansion replaces the table it copied, by a larger one, holding all *)
(* its locks, as long as no lock went astray.                              *)
(***************************************************************************)
THEOREM ReplacesCurrentHolds == Spec => ReplacesCurrent
<1>1. ASSUME IInv, [Next]_vars, ~astray, table_info' # table_info
      PROVE  /\ power[table_info'] > power[table_info]
             /\ \E t \in Threads : \A i \in LockIds : owner[table_info][i] = t
  <2>1. PICK t \in Threads : Call(t) \/ Step(t) \/ Flush(t)
    BY <1>1 DEF Next, Finished, vars
  <2>2. Publish(t)
    BY <1>1, <2>1 DEF Step, Call, Flush, Register, Load, Protect, Check, Lock, Recheck,
         Done, Full, LockBuckets, UnlockBuckets, SlotFreed, CompareTable, TableFull, Rehash, NoExpansion, Build, Push, DeleteUnused, NextOld, Compare,
         Delete, EndScan, Unprotect, UnlockAll, AllUnlocked, Unset
  <2>3. pc[t] = "publish" /\ table_info' = new[t]
    BY <2>2 DEF Publish, At
  <2>4. ti[t] = table_info /\ mode[t] = "all"
    BY <1>1, <2>3 DEF IInv, Base, Control, WellLocked, UsesCurrent, Locked
  <2>5. \A i \in LockIds : owner[table_info][i] = t
    BY <1>1, <2>3, <2>4 DEF IInv, WellLocked, Holds, Locked
  <2>6. power[new[t]] > power[ti[t]]
    BY <2>3 , <1>1 DEF IInv, Base, Places
  <2>7. QED
    BY <2>3, <2>4, <2>5, <2>6
<1>2. QED
  BY <1>1, Invariance, PTL DEF Spec, ReplacesCurrent
-----------------------------------------------------------------------------
\* The size of a set that has no two elements.
LEMMA Count ==
    ASSUME NEW S, \A x, y \in S : x = y
    PROVE  Cardinality(S) = IF S = {} THEN 0 ELSE 1
<1>1. CASE S = {}
  BY <1>1, FS_EmptySet
<1>2. CASE S # {}
  <2>1. PICK x : x \in S
    BY <1>2
  <2>2. S = {x}
    BY <2>1
  <2>3. QED
    BY <1>2, <2>2, FS_Singleton
<1>3. QED
  BY <1>1, <1>2

(***************************************************************************)
(* No table is leaked and none deleted twice when expansions overlap: each *)
(* is current, being built, on its way to old_table_infos or there, and in *)
(* one such place only, as long as no lock went astray.                    *)
(***************************************************************************)
THEOREM AccountedHolds == Spec => []Accounted
<1>1. ASSUME IInv, ~astray, NEW a \in Addrs
      PROVE  LET building == {t \in Threads : new[t] = a}
                 pushing  == {t \in Threads : pc[t] = "push" /\ ti[t] = a}
                 current  == {x \in {table_info} : x = a}
                 old      == old_table_infos \cap {a}
             IN  Cardinality(building) + Cardinality(pushing) + Cardinality(current)
                     + Cardinality(old) = IF live[a] THEN 1 ELSE 0
  <2> DEFINE building == {t \in Threads : new[t] = a}
             pushing  == {t \in Threads : pc[t] = "push" /\ ti[t] = a}
             current  == {x \in {table_info} : x = a}
             old      == old_table_infos \cap {a}
  <2>1. \A t \in building : pc[t] = "publish"
    BY ReclaimAssumption, <1>1 DEF IInv, Base, Control
  <2>2. \A t, u \in building : t = u
    BY <1>1, <2>1 DEF IInv, Base, Places
  <2>3. \A t, u \in pushing : t = u
    <3>1. \A t \in pushing, i \in LockIds : owner[a][i] = t
      BY <1>1 DEF IInv, Base, Control, WellLocked, Holds, Locked
    <3>2. QED
      BY <3>1, ReclaimAssumption
  <2>4. \A t \in pushing : Safe(t)
    BY DEF Safe, Locked
  <2>5. ~live[a] => building = {} /\ pushing = {} /\ current = {} /\ old = {}
    BY <1>1, <2>1, <2>4 DEF IInv, Base, Places, Guarded
  <2>6. live[a] => building # {} \/ pushing # {} \/ current # {} \/ old # {}
    <3>1. live[a] => a = table_info \/ a \in old_table_infos
                     \/ (\E t \in Threads : new[t] = a)
                     \/ (\E t \in Threads : pc[t] = "push" /\ ti[t] = a)
      BY <1>1 DEF IInv, WellLocked, Owned
    <3>2. QED
      BY <3>1
  <2>7. building # {} => pushing = {} /\ current = {} /\ old = {}
    BY <1>1, <2>1, <2>4 DEF IInv, Base, Places
  <2>8. pushing # {} => current = {} /\ old = {}
    BY <1>1 DEF IInv, Base, Places, WellLocked, Owned
  <2>9. current # {} => old = {}
    BY <1>1 DEF IInv, Base, Places
  <2>10. /\ Cardinality(building) = IF building = {} THEN 0 ELSE 1
         /\ Cardinality(pushing) = IF pushing = {} THEN 0 ELSE 1
         /\ Cardinality(current) = IF current = {} THEN 0 ELSE 1
         /\ Cardinality(old) = IF old = {} THEN 0 ELSE 1
    <3>1. \A x, y \in current : x = y
      OBVIOUS
    <3>2. \A x, y \in old : x = y
      OBVIOUS
    <3>3. QED
      BY <2>2, <2>3, <3>1, <3>2, Count
  <2>11. live[a] \in BOOLEAN
    BY <1>1 DEF IInv, Base, TypeOK
  <2> HIDE DEF building, pushing, current, old
  <2>12. Cardinality(building) + Cardinality(pushing) + Cardinality(current)
             + Cardinality(old) = IF live[a] THEN 1 ELSE 0
    BY <2>5, <2>6, <2>7, <2>8, <2>9, <2>10, <2>11
  <2>13. QED
    BY <2>12 DEF building, pushing, current, old
<1>2. IInv => Accounted
  BY <1>1 DEF Accounted
<1>3. QED
  BY <1>2, Invariance, PTL
=============================================================================
