------------------------------ MODULE SkipList ------------------------------
(***************************************************************************)
(* SkipListImpl of skip_list.h: nodes with a forward pointer on each of    *)
(* their levels, searched from the highest level in use down.  The list is *)
(* for one thread; each step of a search, each iteration of find_nearest's *)
(* loops, is a step here, so that what it tracks can be stated.            *)
(*                                                                         *)
(* A node is named by its key; mp_head and mp_tail have names of their     *)
(* own.  Entries come in descending order: a search passes the keys that   *)
(* are larger than the one it looks for.                                   *)
(***************************************************************************)
EXTENDS Integers

CONSTANTS
    Keys,          \* the keys clients use
    MaxKey,        \* the max_key given to the constructor, kept by the tail
    Vals,          \* the values
    NoVal,         \* Value_T(), what find returns for an absent key
    Head, Tail,    \* the nodes mp_head and mp_tail
    None,          \* nullptr, no call, nothing returned
    MaxHeight      \* m_max_height

\* A key equal to the tail's would be found there.
ASSUME KeysAssumption ==
    /\ Keys \subseteq Int /\ MaxKey \in Int \ Keys
    /\ Head \notin Int /\ Tail \notin Int /\ None \notin Int
    /\ Head # Tail /\ Head # None /\ Tail # None
    /\ NoVal \notin Vals

ASSUME HeightAssumption == MaxHeight \in Nat \ {0}

Nodes == Keys \cup {Head, Tail}
Levels == 0 .. (MaxHeight - 1)

VARIABLES
    fwd,            \* fwd[n][i]: mp_fwd_nodes[i] of node n; None where it has none
    val,            \* val[k]: the value of key k's node; NoVal if there is none
    m_curr_height,  \* the highest level in use
    pc, call,       \* where the operation is, its arguments
    tmp,            \* the node a search has come to
    level,          \* the level it is on
    tracker,        \* tracker[i]: the node where it left level i
    first,          \* find_range: the result of its first search
    ret             \* what the last operation returned

list == <<fwd, val, m_curr_height>>
vars == <<fwd, val, m_curr_height, pc, call, tmp, level, tracker, first, ret>>
-----------------------------------------------------------------------------
NoLinks == [i \in Levels |-> None]

\* The constructor: the head points to the tail on all levels.
Init ==
    /\ fwd = [n \in Nodes |-> IF n = Head THEN [i \in Levels |-> Tail] ELSE NoLinks]
    /\ val = [k \in Keys |-> NoVal]
    /\ m_curr_height = 0
    /\ pc = "idle" /\ call = None
    /\ tmp = Head /\ level = 0 /\ tracker = NoLinks
    /\ first = None
    /\ ret = None

KeyOf(n) == IF n = Tail THEN MaxKey ELSE n

\* The start of find_nearest.
Search ==
    /\ tmp' = Head
    /\ level' = m_curr_height
    /\ tracker' = NoLinks
    /\ pc' = "search"

Requests ==
    [op : {"insert"}, key : Keys, val : Vals]
        \cup [op : {"remove", "find"}, key : Keys]
        \cup [op : {"find_range"}, key : Keys, key2 : Keys]

\* "No call" is none of them.
ASSUME CallAssumption == None \notin Requests

Call ==
    /\ pc = "idle"
    /\ call' \in Requests
    /\ ret' = None
    /\ Search
    /\ UNCHANGED <<list, first>>

\* mutant: find_range searches key_1 twice
WantedAgain == call.key

\* The key looked for: find_range does its second search with key_2.
Wanted == IF first = None THEN call.key ELSE call.key2

\* mutant: a search passes the key it looks for
PassesEqual(next, k) == next # Tail /\ k <= KeyOf(next)

\* The condition of find_nearest's inner loop.
Passes(next, k) == next # Tail /\ k < KeyOf(next)

Right ==
    /\ pc = "search"
    /\ Passes(fwd[tmp][level], Wanted)
    /\ tmp' = fwd[tmp][level]
    /\ UNCHANGED <<list, pc, call, level, tracker, first, ret>>

\* mutant: the outer loop stays on its level
SameLevel == level

\* i-- of the outer loop.
NextLevel == level - 1

\* The end of the inner loop; after level 0, one step to the candidate node.
Down ==
    /\ pc = "search"
    /\ ~Passes(fwd[tmp][level], Wanted)
    /\ tracker' = [tracker EXCEPT ![level] = tmp]
    /\ IF level > 0
       THEN level' = NextLevel /\ UNCHANGED <<tmp, pc>>
       ELSE tmp' = fwd[tmp][0] /\ pc' = "nearest" /\ UNCHANGED level
    /\ UNCHANGED <<list, call, first, ret>>

Return(r) ==
    /\ pc' = "idle" /\ ret' = r
    /\ call' = None /\ first' = None
    /\ tmp' = Head /\ level' = 0 /\ tracker' = NoLinks

At(op) == pc = "nearest" /\ call.op = op

Found == KeyOf(tmp) = Wanted

InsertDuplicate ==
    /\ At("insert")
    /\ Found
    /\ Return(FALSE)
    /\ UNCHANGED list

\* The node after which a new node is linked on level i: on levels above
\* m_curr_height it is the head.
Before(i) == IF i > m_curr_height THEN Head ELSE tracker[i]

\* mutant: a height too many
OneTooHigh == 0 .. MaxHeight

\* What new_height returns.
NewHeights == 0 .. (MaxHeight - 1)

\* mutant: the linking loop ends one level early
LinksBelow(i, lvl) == i < lvl

\* insert's loop links the node on level i.
Links(i, lvl) == i <= lvl

Insert ==
    /\ At("insert")
    /\ ~Found
    /\ \E lvl \in NewHeights :
          /\ fwd' = [n \in Nodes |-> [i \in Levels |->
                        IF Links(i, lvl) /\ n = call.key THEN fwd[Before(i)][i]
                        ELSE IF Links(i, lvl) /\ n = Before(i) THEN call.key
                        ELSE fwd[n][i]]]
          /\ m_curr_height' = IF lvl > m_curr_height THEN lvl ELSE m_curr_height
    /\ val' = [val EXCEPT ![call.key] = call.val]
    /\ Return(TRUE)

\* mutant: remove unlinks the node from the lowest level only
UnlinksLowest(i) == i = 0 /\ fwd[tracker[0]][0] = tmp

\* remove's loop gets to level i and unlinks tmp from it: it breaks off at
\* the first level where the tracked node does not lead to tmp.
Unlinks(i) ==
    i <= m_curr_height /\ \A j \in 0 .. i : fwd[tracker[j]][j] = tmp

\* mutant: the height is not lowered
SameHeight(links) == m_curr_height

\* Levels on which the head leads to the tail are not in use any more.
Lowered(links) ==
    CHOOSE h \in 0 .. m_curr_height :
        /\ h = 0 \/ links[h] # Tail
        /\ \A i \in (h + 1) .. m_curr_height : links[i] = Tail

Remove ==
    /\ At("remove")
    /\ Found
    /\ fwd' = [n \in Nodes |->
                  IF n = tmp THEN NoLinks   \* delete tmp
                  ELSE [i \in Levels |-> IF Unlinks(i) /\ n = tracker[i]
                                         THEN fwd[tmp][i] ELSE fwd[n][i]]]
    /\ m_curr_height' = Lowered(fwd'[Head])
    /\ val' = [val EXCEPT ![tmp] = NoVal]
    /\ Return(TRUE)

RemoveAbsent ==
    /\ At("remove")
    /\ ~Found
    /\ Return(FALSE)
    /\ UNCHANGED list

Find ==
    /\ At("find")
    /\ Return(IF Found THEN val[tmp] ELSE NoVal)
    /\ UNCHANGED list

\* The first search of find_range is over; search for key_2.
FindFirst ==
    /\ At("find_range")
    /\ first = None
    /\ first' = tmp
    /\ Search
    /\ UNCHANGED <<list, call, ret>>

FindRange ==
    /\ At("find_range")
    /\ first # None
    /\ Return(<<first, tmp>>)
    /\ UNCHANGED list

Next ==
    \/ Call \/ Right \/ Down
    \/ InsertDuplicate \/ Insert \/ Remove \/ RemoveAbsent \/ Find
    \/ FindFirst \/ FindRange

Spec == Init /\ [][Next]_vars

\* A call that was made is carried out.
FairSpec == Spec /\ WF_vars(pc # "idle" /\ Next)
-----------------------------------------------------------------------------
\* The types of the variables.
TypeOK ==
    /\ fwd \in [Nodes -> [Levels -> Nodes \cup {None}]]
    /\ val \in [Keys -> Vals \cup {NoVal}]
    /\ m_curr_height \in Levels
    /\ pc \in {"idle", "search", "nearest"}
    /\ call \in Requests \cup {None}
    /\ tmp \in Nodes
    /\ level \in Levels
    /\ tracker \in [Levels -> Nodes \cup {None}]
    /\ first \in Nodes \cup {None}

\* The nodes on level i that come after n (and the tail after all of them).
OnLevel(i) == {k \in Keys : fwd[k][i] # None}
After(n, i) == {k \in OnLevel(i) : n = Head \/ k < n}

(***************************************************************************)
(* Every level is the list, from the largest key down, of exactly the      *)
(* nodes that have that level: each node leads to the nearest smaller key  *)
(* on its level, none is skipped and none leads to a deleted node.         *)
(***************************************************************************)
Linked ==
    \A i \in Levels : \A n \in OnLevel(i) \cup {Head} :
        IF After(n, i) = {} THEN fwd[n][i] = Tail
        ELSE /\ fwd[n][i] \in After(n, i)
             /\ \A k \in After(n, i) : k <= fwd[n][i]

\* Exactly the keys with a value are on level 0, and who is on a level is on
\* all levels below.
Towers ==
    /\ \A k \in Keys : k \in OnLevel(0) <=> val[k] # NoVal
    /\ \A i \in Levels \ {0} : OnLevel(i) \subseteq OnLevel(i - 1)

\* m_curr_height is the highest level with a node on it: searches neither
\* miss nodes nor start on empty levels.
HeightExact ==
    /\ \A i \in Levels : i > m_curr_height => OnLevel(i) = {}
    /\ m_curr_height > 0 => OnLevel(m_curr_height) # {}

(***************************************************************************)
(* What insert and remove rely on when a search is over: on every level it *)
(* visited it left the last node before the key, and tmp is the first node *)
(* that is not before it.                                                  *)
(***************************************************************************)
Precedes(n, k) == n = Head \/ (n \in Keys /\ k < n)

Tracked ==
    /\ pc = "search" => Precedes(tmp, Wanted) /\ level <= m_curr_height
    /\ pc \in {"search", "nearest"} =>
          \A i \in 0 .. m_curr_height :
              (pc = "nearest" \/ i > level) =>
                  /\ tracker[i] \in OnLevel(i) \cup {Head}
                  /\ Precedes(tracker[i], Wanted)
                  /\ ~Precedes(fwd[tracker[i]][i], Wanted)
    /\ pc = "nearest" => tmp = fwd[tracker[0]][0]

\* The list is a sorted map.
Map == INSTANCE SortedMap WITH dict <- val

IsSortedMap == Map!Spec

\* Every operation ends.
Returns == pc # "idle" ~> pc = "idle"
=============================================================================
