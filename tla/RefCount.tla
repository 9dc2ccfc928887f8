------------------------------ MODULE RefCount ------------------------------
(***************************************************************************)
(* ReferenceCounted of reference_count.h: an object that counts the        *)
(* intrusive_ptrs to it.  With AtomicRefCounter each count is one atomic   *)
(* step, and threads may do these steps in any order.  With                *)
(* SimpleRefCounter the same holds as long as one thread has all the       *)
(* pointers.                                                               *)
(*                                                                         *)
(* A pointer is made from the raw one when the object is created, and from *)
(* other pointers, which their owners keep meanwhile.                      *)
(***************************************************************************)
EXTENDS Integers, FiniteSets

CONSTANT Ptrs    \* the intrusive_ptr variables of the program

VARIABLES
    m_cnt,
    exists,      \* the object is there
    ptr          \* "null", "set", or "last": it must delete the object

vars == <<m_cnt, exists, ptr>>

Init ==
    /\ m_cnt = 0 /\ exists = FALSE
    /\ ptr = [p \in Ptrs |-> "null"]

\* p = new ...: m_cnt(0), then intrusive_ptr_add_ref.
New(p) ==
    /\ ~exists /\ ptr[p] = "null"
    /\ exists' = TRUE /\ m_cnt' = 1
    /\ ptr' = [ptr EXCEPT ![p] = "set"]

\* p = q: intrusive_ptr_add_ref.
AddRef(p, q) ==
    /\ ptr[q] = "set" /\ ptr[p] = "null"
    /\ m_cnt' = m_cnt + 1
    /\ ptr' = [ptr EXCEPT ![p] = "set"]
    /\ UNCHANGED exists

\* The end of p: --m_cnt == 0 in intrusive_ptr_release.
Release(p) ==
    /\ ptr[p] = "set"
    /\ m_cnt' = m_cnt - 1
    /\ ptr' = [ptr EXCEPT ![p] = IF m_cnt - 1 = 0 THEN "last" ELSE "null"]
    /\ UNCHANGED exists

\* delete rc
Delete(p) ==
    /\ ptr[p] = "last"
    /\ exists' = FALSE
    /\ ptr' = [ptr EXCEPT ![p] = "null"]
    /\ UNCHANGED m_cnt

Next ==
    \E p \in Ptrs : New(p) \/ Release(p) \/ Delete(p) \/ \E q \in Ptrs : AddRef(p, q)

Spec == Init /\ [][Next]_vars
-----------------------------------------------------------------------------
Set == {p \in Ptrs : ptr[p] = "set"}

(***************************************************************************)
(* No pointer refers to an object that was deleted, and whoever deletes    *)
(* the object is the only one to, with no pointer left.                    *)
(***************************************************************************)
NoDangling == \A p \in Ptrs : ptr[p] # "null" => exists

DeletedOnce ==
    \A p, q \in Ptrs : ptr[p] = "last" /\ ptr[q] # "null" => p = q

(***************************************************************************)
(* An object without pointers is deleted or about to be.                   *)
(***************************************************************************)
NotLeaked == exists => \E p \in Ptrs : ptr[p] # "null"
=============================================================================
