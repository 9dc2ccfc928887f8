----------------------------- MODULE LoggerInit -----------------------------
(***************************************************************************)
(* logger.cc: the one Log of the program, created by the first thread that *)
(* logs, and the mutex that guards its creation and every line written.    *)
(* LOG calls get() for the level and, if the message is severe enough,     *)
(* again to log it.                                                        *)
(*                                                                         *)
(* The first look at log_instance takes no lock and the pointer is plain:  *)
(* between the allocation and the end of the constructor it may or may not *)
(* be set already.                                                         *)
(***************************************************************************)
EXTENDS Integers

CONSTANTS
    Threads,
    None         \* no thread; not one of Threads

VARIABLES
    log_instance,    \* the number of the Log it points to, 0 for NULL
    created,         \* how many Logs were allocated
    built,           \* the numbers of those whose constructor has ended
    log_mutex,       \* the owner
    pc,
    got              \* what the last get() of each thread returned

vars == <<log_instance, created, built, log_mutex, pc, got>>
-----------------------------------------------------------------------------
Init ==
    /\ log_instance = 0 /\ created = 0 /\ built = {}
    /\ log_mutex = None
    /\ pc = [t \in Threads |-> "idle"]
    /\ got = [t \in Threads |-> 0]

Goto(t, from, to) ==
    /\ pc[t] = from
    /\ pc' = [pc EXCEPT ![t] = to]

\* LOG calls get().
Call(t) ==
    /\ Goto(t, "idle", "look")
    /\ UNCHANGED <<log_instance, created, built, log_mutex, got>>

\* if (log_instance) return log_instance
LookFound(t) ==
    /\ log_instance # 0
    /\ Goto(t, "look", "have")
    /\ got' = [got EXCEPT ![t] = log_instance]
    /\ UNCHANGED <<log_instance, created, built, log_mutex>>

LookNull(t) ==
    /\ log_instance = 0
    /\ Goto(t, "look", "lock")
    /\ UNCHANGED <<log_instance, created, built, log_mutex, got>>

\* l.lock()
Lock(t) ==
    /\ log_mutex = None
    /\ log_mutex' = t
    /\ Goto(t, "lock", "look_again")
    /\ UNCHANGED <<log_instance, created, built, got>>

LookAgainFound(t) ==
    /\ log_instance # 0
    /\ Goto(t, "look_again", "unlock")
    /\ UNCHANGED <<log_instance, created, built, log_mutex, got>>

\* new Log()
Allocate(t) ==
    /\ log_instance = 0
    /\ Goto(t, "look_again", "create")
    /\ created' = created + 1
    /\ UNCHANGED <<log_instance, built, log_mutex, got>>

Construct(t) ==
    /\ pc[t] = "create"
    /\ built' = built \cup {created}
    /\ UNCHANGED <<log_instance, created, log_mutex, pc, got>>

SetInstance(t) ==
    /\ pc[t] = "create"
    /\ log_instance' = created
    /\ UNCHANGED <<created, built, log_mutex, pc, got>>

\* The constructor has ended and the pointer is set.
Created(t) ==
    /\ created \in built /\ log_instance = created
    /\ Goto(t, "create", "unlock")
    /\ UNCHANGED <<log_instance, created, built, log_mutex, got>>

\* l.unlock()
Unlock(t) ==
    /\ Goto(t, "unlock", "return")
    /\ log_mutex' = None
    /\ UNCHANGED <<log_instance, created, built, got>>

\* return log_instance
Return(t) ==
    /\ Goto(t, "return", "have")
    /\ got' = [got EXCEPT ![t] = log_instance]
    /\ UNCHANGED <<log_instance, created, built, log_mutex>>

\* The level of got[t] is read: the message is too low, or get() is called
\* again, which returns the same.
TooLow(t) ==
    /\ Goto(t, "have", "idle")
    /\ UNCHANGED <<log_instance, created, built, log_mutex, got>>

Log(t) ==
    /\ Goto(t, "have", "log")
    /\ got' = [got EXCEPT ![t] = log_instance]
    /\ UNCHANGED <<log_instance, created, built, log_mutex>>

\* log_msg
LockOutput(t) ==
    /\ log_mutex = None
    /\ log_mutex' = t
    /\ Goto(t, "log", "write")
    /\ UNCHANGED <<log_instance, created, built, got>>

Written(t) ==
    /\ Goto(t, "write", "idle")
    /\ log_mutex' = None
    /\ UNCHANGED <<log_instance, created, built, got>>

Next ==
    \E t \in Threads :
        \/ Call(t) \/ LookFound(t) \/ LookNull(t) \/ Lock(t) \/ LookAgainFound(t)
        \/ Allocate(t) \/ Construct(t) \/ SetInstance(t) \/ Created(t) \/ Unlock(t)
        \/ Return(t) \/ TooLow(t) \/ Log(t) \/ LockOutput(t) \/ Written(t)

Spec == Init /\ [][Next]_vars
-----------------------------------------------------------------------------
(***************************************************************************)
(* Whatever the order in which threads first log, all of them log to one   *)
(* Log, and none dereferences NULL.                                        *)
(***************************************************************************)
OneLog ==
    /\ created <= 1
    /\ \A t \in Threads : pc[t] \in {"have", "log", "write"} => got[t] = 1

\* One thread at a time creates the Log or writes a line.
WritesAlone ==
    \A t, u \in Threads :
        pc[t] \in {"create", "write"} /\ pc[u] \in {"create", "write"} => t = u

(***************************************************************************)
(* A thread can only find a Log that is not built while another is in      *)
(* `new Log()`: the lock, and all that is done after it, sees it built.    *)
(***************************************************************************)
BuiltUnlessCreating ==
    log_instance # 0 /\ log_instance \notin built => \E t \in Threads : pc[t] = "create"

\* get() and log_msg use one mutex, but not one inside the other.
NeverStuck ==
    \A t \in Threads :
        pc[t] \in {"lock", "log"} /\ log_mutex # None =>
            /\ log_mutex \in Threads /\ log_mutex # t
            /\ pc[log_mutex] \in {"look_again", "create", "unlock", "write"}
=============================================================================
