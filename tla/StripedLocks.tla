---------------------------- MODULE StripedLocks ----------------------------
(***************************************************************************)
(* The spin locks of one TableInfo of cuckoohash_map.hh and the helpers    *)
(* that take and release them: lock, lock_two, lock_three, the lock-all    *)
(* loop of snapshot_and_lock_all, and their unlock counterparts.  Every    *)
(* test_and_set and every clear is a step of its own.                      *)
(*                                                                         *)
(* A spinlock is an atomic_flag with no owner: clearing a flag one time    *)
(* too many silently lets a second thread in.  `held` is what each thread  *)
(* believes it holds, `flag` is what the memory says.                      *)
(***************************************************************************)
EXTENDS Integers, Sequences

CONSTANTS Threads,     \* the threads using the table
          Buckets,     \* the bucket indexes they ask for
          NumLocks     \* kNumLocks; buckets share locks modulo NumLocks

ASSUME LocksAssumption ==
    /\ NumLocks \in Nat \ {0}
    /\ Buckets \subseteq Nat

LockIds == 0 .. (NumLocks - 1)

VARIABLES flag,   \* flag[i]: the atomic_flag of locks_[i]
          pc,     \* where each thread is in its lock / work / unlock cycle
          todo,   \* the locks the helper it is in has still to take or clear
          held,   \* the locks it has taken and not cleared
          args    \* the buckets it asked for; <<>> stands for all of them

vars == <<flag, pc, todo, held, args>>

(***************************************************************************)
(* kNumLocks is a power of two, so `bucket_ind & (kNumLocks - 1)` is the   *)
(* remainder.                                                              *)
(***************************************************************************)
LockInd(b) == b % NumLocks

\* mutant: the locks taken in the order of the arguments
LockTwoAsGiven(i1, i2) == IF i1 = i2 THEN <<i1>> ELSE <<i1, i2>>

\* lock_two: the order in which it takes the locks of two buckets.
LockTwoOrder(i1, i2) ==
    IF i1 < i2 THEN <<i1, i2>> ELSE IF i2 < i1 THEN <<i2, i1>> ELSE <<i1>>

\* mutant: two branches of the nested comparison exchanged
LockThreeSwapped(i1, i2, i3) ==
    IF i1 = i2 \/ i2 = i3 THEN LockTwoOrder(i1, i3)
    ELSE IF i1 = i3 THEN LockTwoOrder(i1, i2)
    ELSE IF i1 < i2
         THEN IF i2 < i3 THEN <<i1, i2, i3>>
              ELSE IF i1 < i3 THEN <<i3, i1, i2>> ELSE <<i1, i3, i2>>
         ELSE IF i2 < i3
              THEN IF i1 < i3 THEN <<i2, i1, i3>> ELSE <<i2, i3, i1>>
              ELSE <<i3, i2, i1>>

\* mutant: the third index forgotten where the first two are equal
LockThreeShort(i1, i2, i3) ==
    IF i1 = i2 THEN <<i1>> ELSE LockTwoOrder(i1, i3)

\* lock_three: equal indexes reduce to lock_two, else a nested comparison.
LockThreeOrder(i1, i2, i3) ==
    IF i1 = i2 THEN LockTwoOrder(i1, i3)
    ELSE IF i2 = i3 THEN LockTwoOrder(i1, i3)
    ELSE IF i1 = i3 THEN LockTwoOrder(i1, i2)
    ELSE IF i1 < i2
         THEN IF i2 < i3 THEN <<i1, i2, i3>>
              ELSE IF i1 < i3 THEN <<i1, i3, i2>> ELSE <<i3, i1, i2>>
         ELSE IF i2 < i3
              THEN IF i1 < i3 THEN <<i2, i1, i3>> ELSE <<i2, i3, i1>>
              ELSE <<i3, i2, i1>>

\* mutant: the loop runs from 1 to kNumLocks
AllOrderShifted == [i \in 1..NumLocks |-> i]

\* The loop `for (i = 0; i < kNumLocks; ++i)`, locking and in AllUnlocker.
AllOrder == [i \in 1..NumLocks |-> i - 1]

\* mutant: a shared flag is cleared twice
UnlockTwoAlways(i1, i2) == <<i1, i2>>

\* unlock_two clears the second flag only if it is a different one.
UnlockTwoOrder(i1, i2) == IF i1 # i2 THEN <<i1, i2>> ELSE <<i1>>

\* mutant: the third flag is cleared only if all three differ
UnlockThreeShort(i1, i2, i3) ==
    IF i1 # i2 /\ i2 # i3 /\ i1 # i3 THEN <<i1, i2, i3>> ELSE UnlockTwoOrder(i1, i2)

\* unlock_three clears each different flag once.
UnlockThreeOrder(i1, i2, i3) ==
    IF i3 = i1 \/ i3 = i2 THEN UnlockTwoOrder(i1, i2)
    ELSE IF i1 # i2 THEN <<i1, i2, i3>> ELSE <<i1, i3>>

\* The unlock helper that goes with what the thread asked for.
UnlockOrder(a) ==
    CASE Len(a) = 0 -> AllOrder
      [] Len(a) = 1 -> <<LockInd(a[1])>>
      [] Len(a) = 2 -> UnlockTwoOrder(LockInd(a[1]), LockInd(a[2]))
      [] Len(a) = 3 -> UnlockThreeOrder(LockInd(a[1]), LockInd(a[2]), LockInd(a[3]))
-----------------------------------------------------------------------------
\* The spinlock constructor clears every flag.
Init ==
    /\ flag = [i \in LockIds |-> FALSE]
    /\ pc = [t \in Threads |-> "idle"]
    /\ todo = [t \in Threads |-> <<>>]
    /\ held = [t \in Threads |-> {}]
    /\ args = [t \in Threads |-> <<>>]

\* A thread calls a lock helper, which will take the locks in `order`.
Request(t, a, order) ==
    /\ pc[t] = "idle"
    /\ pc' = [pc EXCEPT ![t] = "locking"]
    /\ todo' = [todo EXCEPT ![t] = order]
    /\ args' = [args EXCEPT ![t] = a]
    /\ UNCHANGED <<flag, held>>

Lock(t) ==
    \E b \in Buckets : Request(t, <<b>>, <<LockInd(b)>>)

LockTwo(t) ==
    \E b1, b2 \in Buckets :
        Request(t, <<b1, b2>>, LockTwoOrder(LockInd(b1), LockInd(b2)))

LockThree(t) ==
    \E b1, b2, b3 \in Buckets :
        Request(t, <<b1, b2, b3>>,
                LockThreeOrder(LockInd(b1), LockInd(b2), LockInd(b3)))

LockAll(t) == Request(t, <<>>, AllOrder)

\* A test_and_set that finds the flag clear; one that does not just spins.
Acquire(t) ==
    LET i == Head(todo[t]) IN
    /\ pc[t] = "locking"
    /\ ~flag[i]
    /\ flag' = [flag EXCEPT ![i] = TRUE]
    /\ held' = [held EXCEPT ![t] = held[t] \cup {i}]
    /\ todo' = [todo EXCEPT ![t] = Tail(todo[t])]
    /\ pc' = [pc EXCEPT ![t] = IF Tail(todo[t]) = <<>> THEN "critical" ELSE "locking"]
    /\ UNCHANGED args

(***************************************************************************)
(* The last move of cuckoopath_move, made under lock_three(fb, tb, ob):    *)
(* the target bucket is unlocked unless it shares its lock with one of the *)
(* two insert buckets, which stay locked for the caller's unlock_two.      *)
(***************************************************************************)
UnlockTarget(t) ==
    /\ pc[t] = "critical"
    /\ Len(args[t]) = 3
    /\ LET fb == args[t][1]
           tb == args[t][2]
           ob == args[t][3]
           free == IF LockInd(tb) # LockInd(fb) /\ LockInd(tb) # LockInd(ob)
                   THEN {LockInd(tb)} ELSE {}
       IN /\ flag' = [i \in LockIds |-> IF i \in free THEN FALSE ELSE flag[i]]
          /\ held' = [held EXCEPT ![t] = held[t] \ free]
          /\ args' = [args EXCEPT ![t] = <<fb, ob>>]
    /\ UNCHANGED <<pc, todo>>

\* The thread is done with the buckets and calls the unlock helper.
BeginUnlock(t) ==
    /\ pc[t] = "critical"
    /\ pc' = [pc EXCEPT ![t] = "unlocking"]
    /\ todo' = [todo EXCEPT ![t] = UnlockOrder(args[t])]
    /\ UNCHANGED <<flag, held, args>>

\* One clear of the unlock helper.
Unlock(t) ==
    LET i == Head(todo[t]) IN
    /\ pc[t] = "unlocking"
    /\ flag' = [flag EXCEPT ![i] = FALSE]
    /\ held' = [held EXCEPT ![t] = held[t] \ {i}]
    /\ todo' = [todo EXCEPT ![t] = Tail(todo[t])]
    /\ pc' = [pc EXCEPT ![t] = IF Tail(todo[t]) = <<>> THEN "idle" ELSE "unlocking"]
    /\ args' = [args EXCEPT ![t] = IF Tail(todo[t]) = <<>> THEN <<>> ELSE args[t]]

Step(t) == Acquire(t) \/ UnlockTarget(t) \/ BeginUnlock(t) \/ Unlock(t)

Next ==
    \E t \in Threads :
        Lock(t) \/ LockTwo(t) \/ LockThree(t) \/ LockAll(t) \/ Step(t)

Spec == Init /\ [][Next]_vars

(***************************************************************************)
(* Every thread that can go on eventually does: the operating system       *)
(* schedules all threads, critical sections are finite.  Nothing makes a   *)
(* thread start an operation, and a spin lock promises a waiter no turn.   *)
(***************************************************************************)
FairSpec ==
    Spec /\ \A t \in Threads :
                WF_vars(Acquire(t)) /\ WF_vars(BeginUnlock(t)) /\ WF_vars(Unlock(t))
-----------------------------------------------------------------------------
States == {"idle", "locking", "critical", "unlocking"}

\* The types of the variables.
TypeOK ==
    /\ flag \in [LockIds -> BOOLEAN]
    /\ pc \in [Threads -> States]
    /\ todo \in [Threads -> Seq(LockIds)]
    /\ held \in [Threads -> SUBSET LockIds]
    /\ args \in [Threads -> Seq(Buckets)]

(***************************************************************************)
(* No two threads ever hold the same lock, although buckets alias and a    *)
(* flag has no owner: no unlock helper clears a flag once too often.       *)
(***************************************************************************)
MutualExclusion ==
    \A t, u \in Threads : t # u => held[t] \cap held[u] = {}

(***************************************************************************)
(* What the asserts `!locks_[lock_ind(i)].try_lock()` of run_cuckoo and    *)
(* cuckoo_insert demand: while a thread works on its buckets it holds the  *)
(* lock of each, also after the target bucket was unlocked early.          *)
(***************************************************************************)
WorksLocked ==
    \A t \in Threads : pc[t] = "critical" =>
        LET need == IF args[t] = <<>> THEN LockIds
                    ELSE {LockInd(args[t][n]) : n \in DOMAIN args[t]}
        IN need \subseteq held[t] /\ \A i \in need : flag[i]

\* When nobody is inside a helper or a critical section, every flag is clear.
NoLeak ==
    (\A t \in Threads : pc[t] = "idle") => \A i \in LockIds : ~flag[i]

(***************************************************************************)
(* "always locking the earlier index first to avoid deadlock": a thread    *)
(* never waits for a lock below one it holds.                              *)
(***************************************************************************)
AscendingOrder ==
    \A t \in Threads : pc[t] = "locking" =>
        \A i \in held[t] : i < Head(todo[t])

\* A thread that needs no other thread to go on.
Runnable(t) ==
    \/ pc[t] \in {"critical", "unlocking"}
    \/ pc[t] = "locking" /\ ~flag[Head(todo[t])]

(***************************************************************************)
(* The helpers cannot deadlock: whenever a thread is inside one, some      *)
(* thread can take a step that no other thread has to make possible.       *)
(***************************************************************************)
DeadlockFree ==
    (\E t \in Threads : pc[t] # "idle") => \E t \in Threads : Runnable(t)

(***************************************************************************)
(* Whoever waits, some thread gets into its critical section: mixing one,  *)
(* two, three and all-lock requests cannot make everybody spin forever.    *)
(***************************************************************************)
SomeoneGetsIn ==
    (\E t \in Threads : pc[t] = "locking") ~> (\E t \in Threads : pc[t] = "critical")

(***************************************************************************)
(* The helpers implement the atomic lock sets their callers rely on: a     *)
(* set is taken when its last flag is, and given up when the unlock helper *)
(* is entered.                                                             *)
(***************************************************************************)
Sets == INSTANCE LockSet WITH
    owned <- [t \in Threads |-> IF pc[t] = "critical" THEN held[t] ELSE {}]

TakesLockSets == Sets!Spec
=============================================================================
