---------------------------- MODULE SkipListProofs ----------------------------
(***************************************************************************)
(* Proofs about SkipList for any keys, values and number of levels.        *)
(***************************************************************************)
EXTENDS SkipList, WellFoundedInduction, TLAPS

\* Towers without the induction over levels: who is on a level is on every
\* lower one.
Stacked ==
    \A i, j \in Levels : j <= i => OnLevel(i) \subseteq OnLevel(j)

\* The node a search has come to is on the level it is on.
Searching == pc = "search" => tmp \in OnLevel(level) \cup {Head}

\* What is known of the call in progress: the result of find_range's first
\* search is the entry it was to find.
Calling ==
    /\ pc = "idle" => call = None /\ first = None
    /\ pc # "idle" => call \in Requests
    /\ first # None => call.op = "find_range" /\ first = Map!From(call.key)

\* The part of the invariant that is about the list alone.
ListInv == Linked /\ Towers /\ HeightExact /\ Stacked

\* The inductive invariant.
IInv == TypeOK /\ ListInv /\ Tracked /\ Searching /\ Calling
-----------------------------------------------------------------------------
\* Of the constants, what the steps need.
LEMMA Constants ==
    /\ \A k \in Keys : k \in Int
    /\ MaxKey \in Int /\ MaxKey \notin Keys
    /\ Head \notin Keys /\ Tail \notin Keys /\ None \notin Keys
    /\ Head # Tail /\ Head # None /\ Tail # None
    /\ 0 \in Levels
    /\ \A i \in Levels : i \in Int /\ i >= 0 /\ (i > 0 => i - 1 \in Levels)
    /\ \A i \in Levels : \A j \in 0 .. i : j \in Levels /\ j \in Int
<1>1. /\ 0 \in Levels
      /\ \A i \in Levels : i \in Int /\ i >= 0 /\ (i > 0 => i - 1 \in Levels)
      /\ \A i \in Levels : \A j \in 0 .. i : j \in Levels /\ j \in Int
  BY HeightAssumption DEF Levels
<1>2. QED
  BY <1>1, KeysAssumption

\* A request has a key; find_range's has two.
LEMMA RequestFields ==
    ASSUME NEW r \in Requests
    PROVE  /\ r.op \in {"insert", "remove", "find", "find_range"}
           /\ r.key \in Keys
           /\ r.op = "insert" => r.val \in Vals
           /\ r.op = "find_range" => r.key2 \in Keys
BY DEF Requests

\* While a call is carried out, the key it looks for is one.
LEMMA WantedType ==
    ASSUME Calling, pc # "idle" PROVE Wanted \in Keys
BY RequestFields DEF Calling, Wanted

(***************************************************************************)
(* A link leads to the next node of its level, and to the tail only from   *)
(* the last one.                                                           *)
(***************************************************************************)
LEMMA Link ==
    ASSUME TypeOK, Linked, NEW i \in Levels, NEW p \in OnLevel(i) \cup {Head}
    PROVE  /\ fwd[p][i] \in OnLevel(i) \cup {Tail}
           /\ fwd[p][i] # Tail => p = Head \/ fwd[p][i] < p
           /\ \A j \in OnLevel(i) : p = Head \/ j < p => fwd[p][i] # Tail /\ j <= fwd[p][i]
BY Constants DEF Linked, After, OnLevel

(***************************************************************************)
(* Between a node before k and its successor that is not before k, there   *)
(* is no node of the level.                                                *)
(***************************************************************************)
LEMMA Gap ==
    ASSUME TypeOK, Linked, NEW i \in Levels, NEW k \in Keys,
           NEW p \in OnLevel(i) \cup {Head},
           Precedes(p, k), ~Precedes(fwd[p][i], k)
    PROVE  /\ fwd[p][i] # Tail => fwd[p][i] <= k
           /\ \A j \in OnLevel(i) : j > k => p # Head /\ p <= j
           /\ \A j \in OnLevel(i) : j <= k => fwd[p][i] # Tail /\ j <= fwd[p][i]
           /\ k \in OnLevel(i) <=> fwd[p][i] = k
<1> DEFINE f == fwd[p][i]
<1>1. /\ f \in OnLevel(i) \cup {Tail}
      /\ \A j \in OnLevel(i) : p = Head \/ j < p => f # Tail /\ j <= f
  BY Link
<1>2. /\ \A j \in OnLevel(i) : j \in Keys /\ j \in Int
      /\ k \in Int /\ Head \notin Keys /\ Tail \notin Keys
  BY Constants DEF OnLevel
<1>3. f # Tail => f \in Int /\ f <= k
  BY <1>1, <1>2 DEF Precedes
<1>4. p = Head \/ (p \in Int /\ k < p)
  BY <1>2 DEF Precedes
<1> HIDE DEF f
<1>5. ASSUME NEW j \in OnLevel(i), j > k PROVE p # Head /\ p <= j
  BY <1>1, <1>2, <1>3, <1>4, <1>5
<1>6. ASSUME NEW j \in OnLevel(i), j <= k PROVE f # Tail /\ j <= f
  BY <1>1, <1>2, <1>4, <1>6
<1>7. k \in OnLevel(i) <=> f = k
  BY <1>1, <1>2, <1>3, <1>6
<1>8. QED
  BY <1>3, <1>5, <1>6, <1>7 DEF f
-----------------------------------------------------------------------------
LEMMA InitInv == Init => IInv
<1> SUFFICES ASSUME Init PROVE IInv
  OBVIOUS
<1> USE Constants DEF Init, NoLinks
<1>1. TypeOK
  BY DEF TypeOK, Nodes
<1>2. \A i \in Levels : OnLevel(i) = {}
  BY DEF OnLevel, Nodes
<1>3. ListInv
  <2>1. Linked
    BY <1>2 DEF Linked, After, Nodes
  <2>2. Towers
    BY <1>2 DEF Towers
  <2>3. HeightExact /\ Stacked
    BY <1>2 DEF HeightExact, Stacked
  <2>4. QED
    BY <2>1, <2>2, <2>3 DEF ListInv
<1>4. Tracked /\ Searching /\ Calling
  BY DEF Tracked, Searching, Calling
<1>5. QED
  BY <1>1, <1>3, <1>4 DEF IInv

\* What is said of the list alone holds as long as the list is left alone.
LEMMA SameList ==
    ASSUME ListInv, UNCHANGED list PROVE ListInv'
BY DEF ListInv, Linked, Towers, HeightExact, Stacked, list, OnLevel, After

\* While the list is left alone, what a call looks for stays the same.
LEMMA SameCall ==
    ASSUME Calling, UNCHANGED <<val, call, first>>, pc # "idle", pc' # "idle"
    PROVE  Calling' /\ Wanted' = Wanted
BY DEF Calling, Wanted, Map!From, Map!Present

\* An operation that returns leaves a call-free state.
LEMMA Returned ==
    ASSUME TypeOK, NEW r, Return(r), ListInv', TypeOK'
    PROVE  IInv'
BY DEF Return, IInv, Tracked, Searching, Calling

LEMMA CallStep ==
    ASSUME IInv, Call PROVE IInv'
<1> USE Constants DEF IInv, Call, Search
<1>1. ListInv'
  BY SameList
<1>2. TypeOK'
  BY DEF TypeOK, Nodes, list, NoLinks
<1>3. Calling'
  BY DEF Calling, list
<1>4. Wanted' \in Keys
  BY <1>3, RequestFields DEF Calling, Wanted
<1>5. Searching'
  BY DEF Searching
<1>6. Tracked'
  <2>1. m_curr_height' = m_curr_height /\ m_curr_height \in Int
    BY DEF list, TypeOK
  <2>2. level' <= m_curr_height' /\ \A i \in 0 .. m_curr_height' : ~(i > level')
    BY <2>1
  <2>3. Precedes(tmp, Wanted)'
    BY DEF Precedes
  <2>4. QED
    BY <2>2, <2>3 DEF Tracked
<1>7. QED
  BY <1>1, <1>2, <1>3, <1>5, <1>6

LEMMA RightStep ==
    ASSUME IInv, Right PROVE IInv'
<1> USE DEF IInv, Right
<1>1. ListInv'
  BY SameList
<1>2. /\ fwd[tmp][level] \in OnLevel(level) \cup {Tail}
      /\ level \in Levels
  BY Link DEF TypeOK, Searching, ListInv
<1>3. Wanted \in Keys /\ Wanted' = Wanted
  BY WantedType DEF Wanted
<1>4. tmp' \in OnLevel(level) /\ tmp' \in Keys /\ Wanted < tmp'
  BY <1>2 DEF Passes, KeyOf, OnLevel
<1>5. TypeOK'
  BY <1>4 DEF TypeOK, Nodes, list
<1>6. Searching'
  BY <1>4 DEF Searching, OnLevel, list
<1>7. Calling'
  BY SameCall DEF list
<1>8. Tracked'
  BY <1>3, <1>4 DEF Tracked, OnLevel, Precedes, list
<1>9. QED
  BY <1>1, <1>5, <1>6, <1>7, <1>8

LEMMA DownStep ==
    ASSUME IInv, Down PROVE IInv'
<1> USE DEF IInv, Down
<1>1. ListInv' /\ \A i \in Levels : OnLevel(i)' = OnLevel(i)
  BY SameList DEF list, OnLevel
<1>2. /\ fwd[tmp][level] \in OnLevel(level) \cup {Tail}
      /\ tmp \in OnLevel(level) \cup {Head}
      /\ level \in Levels
  BY Link DEF TypeOK, Searching, ListInv
<1>3. Wanted \in Keys /\ Wanted' = Wanted /\ Calling'
  BY WantedType, SameCall DEF list
<1>4. Precedes(tmp, Wanted) /\ ~Precedes(fwd[tmp][level], Wanted)
  BY <1>2, Constants DEF Passes, KeyOf, Precedes, OnLevel, Tracked
<1>5. /\ tracker' \in [Levels -> Nodes \cup {None}]
      /\ tracker'[level] = tmp
      /\ \A i \in Levels : i # level => tracker'[i] = tracker[i]
  BY <1>2 DEF TypeOK
<1>6. m_curr_height \in Levels /\ m_curr_height \in Int /\ m_curr_height' = m_curr_height
      /\ fwd' = fwd /\ level <= m_curr_height /\ level \in Int /\ level >= 0
      /\ \A i \in 0 .. m_curr_height : i \in Levels /\ i \in Int
  BY <1>2, Constants DEF list, TypeOK, Tracked
<1>7. \A i \in 0 .. m_curr_height : i >= level =>
          /\ tracker'[i] \in OnLevel(i) \cup {Head}
          /\ Precedes(tracker'[i], Wanted)
          /\ ~Precedes(fwd[tracker'[i]][i], Wanted)
  <2>1. TAKE i \in 0 .. m_curr_height
  <2>2. CASE i = level
    BY <1>2, <1>4, <1>5, <2>2
  <2>3. CASE i # level /\ i >= level
    BY <1>5, <1>6, <2>3 DEF Tracked
  <2>4. QED
    BY <2>2, <2>3
<1>8. CASE level > 0
  <2>1. /\ level' = level - 1 /\ level - 1 \in Levels /\ tmp' = tmp /\ pc' = pc
        /\ level' <= m_curr_height'
    BY <1>2, <1>6, <1>8, Constants DEF NextLevel
  <2>2. tmp \in OnLevel(level - 1) \cup {Head}
    BY <1>2, <1>6, <2>1 DEF ListInv, Stacked
  <2>3. TypeOK'
    BY <1>5, <2>1 DEF TypeOK, list
  <2>4. Searching'
    BY <1>1, <2>1, <2>2 DEF Searching
  <2>5. \A i \in 0 .. m_curr_height : i > level' => i >= level
    BY <1>6, <2>1
  <2>6. Precedes(tmp, Wanted)'
    BY <1>3, <1>4, <2>1 DEF Precedes
  <2>7. Tracked'
    BY <1>1, <1>3, <1>6, <1>7, <2>1, <2>5, <2>6 DEF Tracked, Precedes
  <2>8. QED
    BY <1>1, <1>3, <2>3, <2>4, <2>7
<1>9. CASE level = 0
  <2>1. /\ tmp' = fwd[tmp][0] /\ pc' = "nearest" /\ level' = 0
    BY <1>6, <1>9
  <2>2. TypeOK'
    BY <1>2, <1>5, <1>9, <2>1 DEF TypeOK, list, OnLevel, Nodes
  <2>3. tmp' = fwd'[tracker'[0]][0]
    BY <1>5, <1>6, <1>9, <2>1
  <2>4. \A i \in 0 .. m_curr_height : i >= level
    BY <1>6, <1>9
  <2>5. Tracked'
    BY <1>1, <1>3, <1>6, <1>7, <2>1, <2>3, <2>4 DEF Tracked, Precedes
  <2>6. QED
    BY <1>1, <1>3, <2>1, <2>2, <2>5 DEF Searching
<1>10. QED
  BY <1>6, <1>8, <1>9

(***************************************************************************)
(* When a search is over, tmp is the first node of the lowest level that   *)
(* does not come before the key; it is the key's own if there is one.      *)
(***************************************************************************)
LEMMA Candidate ==
    ASSUME IInv, pc = "nearest"
    PROVE  /\ Wanted \in Keys
           /\ tmp \in OnLevel(0) \cup {Tail}
           /\ tmp # Tail => tmp <= Wanted
           /\ \A j \in OnLevel(0) : j <= Wanted => tmp # Tail /\ j <= tmp
           /\ Found <=> tmp = Wanted
           /\ Found <=> val[Wanted] # NoVal
<1> DEFINE p == tracker[0]
<1>1. Wanted \in Keys
  BY WantedType DEF IInv
<1>2. m_curr_height \in Int /\ m_curr_height >= 0 /\ 0 \in Levels
  BY Constants DEF IInv, TypeOK
<1>3. /\ p \in OnLevel(0) \cup {Head} /\ Precedes(p, Wanted)
      /\ ~Precedes(fwd[p][0], Wanted) /\ tmp = fwd[p][0]
  BY <1>2 DEF IInv, Tracked
<1>4. TypeOK /\ Linked /\ Towers
  BY DEF IInv, ListInv
<1> HIDE DEF p
<1>5. /\ tmp \in OnLevel(0) \cup {Tail}
      /\ tmp # Tail => tmp <= Wanted
      /\ \A j \in OnLevel(0) : j <= Wanted => tmp # Tail /\ j <= tmp
      /\ Wanted \in OnLevel(0) <=> tmp = Wanted
  BY <1>1, <1>2, <1>3, <1>4, Link, Gap
<1>6. Found <=> tmp = Wanted
  BY <1>1, <1>5, Constants DEF Found, KeyOf
<1>7. QED
  BY <1>1, <1>4, <1>5, <1>6 DEF Towers

\* It is the entry that the sorted map's find_range would return.
LEMMA CandidateIsFrom ==
    ASSUME IInv, pc = "nearest" PROVE tmp = Map!From(Wanted)
<1> DEFINE rest == {j \in Map!Present : j <= Wanted}
<1>1. Map!Present = OnLevel(0)
  BY DEF IInv, ListInv, Towers, Map!Present, OnLevel
<1>2. \A j \in OnLevel(0) : j \in Int /\ j # Tail
  BY Constants DEF OnLevel
<1>3. CASE rest = {}
  BY <1>1, <1>2, <1>3, Candidate DEF Map!From
<1>4. CASE rest # {}
  <2>1. tmp \in rest /\ \A j \in rest : j <= tmp
    BY <1>1, <1>2, <1>4, Candidate
  <2>2. \A m \in rest : (\A j \in rest : j <= m) => m = tmp
    BY <1>1, <1>2, <2>1
  <2>3. tmp = CHOOSE m \in rest : \A j \in rest : j <= m
    BY <2>1, <2>2
  <2>4. QED
    BY <1>4, <2>3 DEF Map!From
<1>5. QED
  BY <1>3, <1>4

LEMMA FindFirstStep ==
    ASSUME IInv, FindFirst PROVE IInv'
<1> USE DEF FindFirst, Search
<1>1. pc = "nearest" /\ call.op = "find_range" /\ call \in Requests
      /\ call' = call /\ fwd' = fwd /\ val' = val /\ m_curr_height' = m_curr_height
  BY DEF At, IInv, Calling, list
<1>2. ListInv'
  BY SameList DEF IInv
<1>3. tmp \in Nodes /\ m_curr_height \in Levels
  BY DEF IInv, TypeOK
<1>4. TypeOK'
  BY <1>1, <1>3, Constants DEF IInv, TypeOK, Nodes, NoLinks
<1>5. Calling'
  <2>1. tmp = Map!From(call.key)
    BY <1>1, CandidateIsFrom DEF Wanted
  <2>2. Map!From(call.key)' = Map!From(call.key)
    BY <1>1 DEF Map!From, Map!Present
  <2>3. QED
    BY <1>1, <2>1, <2>2 DEF Calling
<1>6. Searching' /\ Tracked'
  <2>1. m_curr_height \in Int
    BY <1>3, Constants
  <2>2. level' <= m_curr_height' /\ \A i \in 0 .. m_curr_height' : ~(i > level')
    BY <1>1, <2>1
  <2>3. QED
    BY <2>2 DEF Searching, Tracked, Precedes
<1>7. QED
  BY <1>2, <1>4, <1>5, <1>6 DEF IInv

\* The operations that return and leave the list alone.
LEMMA ReturnStep ==
    ASSUME IInv, InsertDuplicate \/ RemoveAbsent \/ Find \/ FindRange PROVE IInv'
<1>1. PICK r : Return(r)
  BY DEF InsertDuplicate, RemoveAbsent, Find, FindRange
<1>2. UNCHANGED list
  BY DEF InsertDuplicate, RemoveAbsent, Find, FindRange
<1>3. ListInv'
  BY <1>2, SameList DEF IInv
<1>4. TypeOK'
  BY <1>1, <1>2, Constants DEF IInv, TypeOK, Return, list, Nodes, NoLinks
<1>5. QED
  BY <1>1, <1>3, <1>4, Returned DEF IInv
-----------------------------------------------------------------------------
\* The nodes insert links the new one after: the last ones before the key.
LEMMA BeforeFacts ==
    ASSUME IInv, pc = "nearest", NEW i \in Levels
    PROVE  /\ Before(i) \in OnLevel(i) \cup {Head}
           /\ Precedes(Before(i), Wanted)
           /\ ~Precedes(fwd[Before(i)][i], Wanted)
<1> USE DEF IInv, ListInv
<1>1. i \in Int /\ i >= 0 /\ m_curr_height \in Int
  BY Constants DEF TypeOK
<1>2. CASE i > m_curr_height
  <2>1. OnLevel(i) = {} /\ Before(i) = Head
    BY <1>2 DEF HeightExact, Before
  <2>2. fwd[Head][i] = Tail
    BY <2>1, Link
  <2>3. QED
    BY <2>1, <2>2, Constants DEF Precedes
<1>3. CASE ~(i > m_curr_height)
  <2>1. i \in 0 .. m_curr_height /\ Before(i) = tracker[i]
    BY <1>1, <1>3 DEF Before
  <2>2. QED
    BY <2>1 DEF Tracked
<1>4. QED
  BY <1>2, <1>3

LEMMA InsertStep ==
    ASSUME IInv, Insert PROVE IInv'
<1> DEFINE k == call.key
           h == m_curr_height
<1>1. PICK lvl \in NewHeights :
         /\ fwd' = [n \in Nodes |-> [i \in Levels |->
                       IF Links(i, lvl) /\ n = k THEN fwd[Before(i)][i]
                       ELSE IF Links(i, lvl) /\ n = Before(i) THEN k
                       ELSE fwd[n][i]]]
         /\ m_curr_height' = IF lvl > h THEN lvl ELSE h
  BY DEF Insert
<1>2. /\ pc = "nearest" /\ call \in Requests /\ call.op = "insert" /\ first = None
      /\ k \in Keys /\ k = Wanted /\ call.val \in Vals
  BY RequestFields DEF Insert, At, IInv, Calling, Wanted
<1>3. /\ val[k] = NoVal /\ \A i \in Levels : k \notin OnLevel(i)
  <2>1. val[k] = NoVal /\ k \notin OnLevel(0)
    BY <1>2, Candidate DEF Insert, IInv, ListInv, Towers
  <2>2. QED
    BY <2>1, Constants DEF IInv, ListInv, Stacked
<1>4. /\ lvl \in Levels /\ lvl \in Int /\ lvl >= 0
      /\ h \in Levels /\ h \in Int /\ h >= 0 /\ k \in Int
      /\ m_curr_height' \in Levels
      /\ m_curr_height' \in Int /\ m_curr_height' >= lvl /\ m_curr_height' >= h
  BY <1>1, <1>2, Constants DEF NewHeights, Levels, IInv, TypeOK
<1>5. ASSUME NEW i \in Levels
      PROVE  /\ Before(i) \in OnLevel(i) \cup {Head} /\ Before(i) \in Nodes
             /\ Before(i) # k
             /\ fwd[Before(i)][i] \in OnLevel(i) \cup {Tail}
             /\ fwd[Before(i)][i] # Tail => fwd[Before(i)][i] < k
             /\ \A j \in OnLevel(i) : j > k => Before(i) # Head /\ Before(i) <= j
             /\ \A j \in OnLevel(i) : j < k =>
                    fwd[Before(i)][i] # Tail /\ j <= fwd[Before(i)][i]
             /\ Before(i) # Head => k < Before(i)
  <2>1. /\ Before(i) \in OnLevel(i) \cup {Head}
        /\ Precedes(Before(i), k) /\ ~Precedes(fwd[Before(i)][i], k)
    BY <1>2, BeforeFacts
  <2>2. /\ fwd[Before(i)][i] \in OnLevel(i) \cup {Tail}
        /\ fwd[Before(i)][i] # Tail => fwd[Before(i)][i] <= k
        /\ \A j \in OnLevel(i) : j > k => Before(i) # Head /\ Before(i) <= j
        /\ \A j \in OnLevel(i) : j <= k =>
                    fwd[Before(i)][i] # Tail /\ j <= fwd[Before(i)][i]
    BY <1>2, <2>1, Link, Gap DEF IInv, ListInv
  <2>3. /\ Before(i) \in Nodes /\ Before(i) # k
        /\ Before(i) # Head => k < Before(i)
    BY <1>2, <2>1, Constants DEF OnLevel, Nodes, Precedes
  <2>4. \A j \in OnLevel(i) : j \in Int
    BY Constants DEF OnLevel
  <2>5. k \notin OnLevel(i)
    BY <1>3
  <2>6. fwd[Before(i)][i] # Tail => fwd[Before(i)][i] < k
    BY <1>4, <2>2, <2>4, <2>5
  <2>7. ASSUME NEW j \in OnLevel(i), j < k
        PROVE  fwd[Before(i)][i] # Tail /\ j <= fwd[Before(i)][i]
    <3>1. j <= k
      BY <1>4, <2>4, <2>7
    <3>2. QED
      BY <2>2, <3>1
  <2>8. QED
    BY <2>1, <2>2, <2>3, <2>6, <2>7
<1>6. ASSUME NEW i \in Levels
      PROVE  /\ i <= lvl => fwd'[k][i] = fwd[Before(i)][i] /\ fwd'[Before(i)][i] = k
             /\ \A n \in Nodes : n # k /\ ~(i <= lvl /\ n = Before(i)) => fwd'[n][i] = fwd[n][i]
             /\ i > lvl => fwd'[k][i] = fwd[k][i]
  BY <1>1, <1>2, <1>4, <1>5, Constants DEF Links, Nodes
<1>7. ASSUME NEW i \in Levels
      PROVE  OnLevel(i)' = IF i <= lvl THEN OnLevel(i) \cup {k} ELSE OnLevel(i)
  <2>1. \A n \in Keys : n \in Nodes /\ n # None
    BY Constants DEF Nodes
  <2>2. i \in Int
    BY Constants
  <2>3. ASSUME NEW n \in Keys, n # k PROVE fwd'[n][i] # None <=> fwd[n][i] # None
    <3>1. CASE i <= lvl /\ n = Before(i)
      BY <1>2, <1>5, <1>6, <2>1, <3>1, Constants DEF OnLevel
    <3>2. CASE ~(i <= lvl /\ n = Before(i))
      BY <1>6, <2>1, <2>3, <3>2
    <3>3. QED
      BY <3>1, <3>2
  <2>4. i <= lvl => fwd'[k][i] # None
    BY <1>5, <1>6, <2>1, Constants DEF OnLevel
  <2>5. QED
    BY <1>2, <1>4, <1>6, <2>2, <2>3, <2>4 DEF OnLevel
<1>8. ASSUME NEW i \in Levels, NEW n \in OnLevel(i)' \cup {Head}
      PROVE  /\ fwd'[n][i] \in OnLevel(i)' \cup {Tail}
             /\ fwd'[n][i] # Tail => n = Head \/ fwd'[n][i] < n
             /\ \A j \in OnLevel(i)' : n = Head \/ j < n =>
                    fwd'[n][i] # Tail /\ j <= fwd'[n][i]
  <2>1. /\ \A j \in OnLevel(i) : j \in Int /\ j \in Nodes /\ j # Head /\ j # k /\ j # Tail
        /\ i \in Int /\ k # Head /\ k # Tail /\ Head \in Nodes
    BY <1>2, <1>3, Constants DEF OnLevel, Nodes
  <2>2. ASSUME NEW p \in OnLevel(i) \cup {Head}
        PROVE  /\ fwd[p][i] \in OnLevel(i) \cup {Tail}
               /\ fwd[p][i] # Tail => p = Head \/ fwd[p][i] < p
               /\ \A j \in OnLevel(i) : p = Head \/ j < p =>
                      fwd[p][i] # Tail /\ j <= fwd[p][i]
    BY Link DEF IInv, ListInv
  <2>3. CASE ~(i <= lvl)
    <3>1. OnLevel(i)' = OnLevel(i) /\ fwd'[n][i] = fwd[n][i]
      BY <1>4, <1>6, <1>7, <2>1, <2>3
    <3>2. QED
      BY <2>2, <3>1
  <2>4. CASE i <= lvl /\ n = k
    <3>1. OnLevel(i)' = OnLevel(i) \cup {k} /\ fwd'[k][i] = fwd[Before(i)][i]
      BY <1>6, <1>7, <2>4
    <3>2. QED
      BY <1>4, <1>5, <2>1, <2>4, <3>1
  <2>5. CASE i <= lvl /\ n = Before(i)
    <3>1. OnLevel(i)' = OnLevel(i) \cup {k} /\ fwd'[n][i] = k
      BY <1>6, <1>7, <2>5
    <3>2. QED
      BY <1>4, <1>5, <2>1, <2>5, <3>1
  <2>6. CASE i <= lvl /\ n # k /\ n # Before(i)
    <3>1. OnLevel(i)' = OnLevel(i) \cup {k} /\ n \in OnLevel(i) \cup {Head}
      BY <1>7, <2>6
    <3>2. fwd'[n][i] = fwd[n][i]
      BY <1>6, <2>1, <2>6, <3>1
    <3>3. n = Head \/ k < n => fwd[n][i] # Tail /\ k <= fwd[n][i]
      <4>1. n = Head \/ k < n => Before(i) \in OnLevel(i) /\ (n = Head \/ Before(i) < n)
        BY <1>4, <1>5, <2>1, <2>6, <3>1
      <4>2. n = Head \/ k < n => /\ fwd[n][i] # Tail /\ Before(i) <= fwd[n][i]
                                 /\ k < Before(i) /\ Before(i) \in Int
                                 /\ fwd[n][i] \in Int
        BY <1>5, <2>1, <2>2, <3>1, <4>1
      <4>3. QED
        BY <1>4, <4>2
    <3>4. QED
      BY <2>2, <3>1, <3>2, <3>3
  <2>7. QED
    BY <2>3, <2>4, <2>5, <2>6
<1>9. Linked'
  BY <1>8, Constants DEF Linked, After, OnLevel
<1>10. \A i, j \in Levels : i \in Int /\ j \in Int /\ (i > 0 => i - 1 \in Levels)
  BY Constants
<1>11. Stacked'
  BY <1>4, <1>7, <1>10 DEF IInv, ListInv, Stacked
<1>12. Towers'
  <2>1. val' = [val EXCEPT ![k] = call.val] /\ val \in [Keys -> Vals \cup {NoVal}]
    BY DEF Insert, IInv, TypeOK
  <2>2. call.val # NoVal
    BY <1>2, KeysAssumption
  <2>3. OnLevel(0)' = OnLevel(0) \cup {k}
    BY <1>4, <1>7, Constants
  <2>4. \A j \in Keys : j \in OnLevel(0)' <=> val'[j] # NoVal
    BY <1>2, <2>1, <2>2, <2>3 DEF IInv, ListInv, Towers
  <2>5. \A i \in Levels \ {0} : i - 1 \in Levels /\ i - 1 <= i
    BY Constants
  <2>6. QED
    BY <1>11, <2>4, <2>5 DEF Towers, Stacked
<1>13. HeightExact'
  <2>1. \A i \in Levels : i > m_curr_height' => i > lvl /\ i > h
    BY <1>4, <1>10
  <2>2. \A i \in Levels : i > m_curr_height' => OnLevel(i)' = {}
    BY <1>4, <1>7, <1>10, <2>1 DEF IInv, ListInv, HeightExact
  <2>3. CASE lvl > h
    BY <1>1, <1>4, <1>7, <2>2, <2>3 DEF HeightExact
  <2>4. CASE ~(lvl > h)
    BY <1>1, <1>4, <1>7, <2>2, <2>4 DEF IInv, ListInv, HeightExact
  <2>5. QED
    BY <2>3, <2>4
<1>14. TypeOK'
  <2>1. fwd' \in [Nodes -> [Levels -> Nodes \cup {None}]]
    <3>1. \A n \in Nodes, i \in Levels : fwd[n][i] \in Nodes \cup {None}
      BY DEF IInv, TypeOK
    <3>2. k \in Nodes /\ \A i \in Levels : fwd[Before(i)][i] \in Nodes \cup {None}
      BY <1>2, <1>5, <3>1 DEF Nodes
    <3>3. QED
      BY <1>1, <3>1, <3>2
  <2>2. val' \in [Keys -> Vals \cup {NoVal}]
    BY <1>2 DEF Insert, IInv, TypeOK
  <2>3. QED
    BY <1>4, <2>1, <2>2, Constants DEF TypeOK, Insert, Return, Nodes, NoLinks
<1>15. QED
  <2>1. Return(TRUE)
    BY DEF Insert
  <2>2. ListInv'
    BY <1>9, <1>11, <1>12, <1>13 DEF ListInv
  <2>3. QED
    BY <1>14, <2>1, <2>2, Returned DEF IInv
-----------------------------------------------------------------------------
\* The while loop at the end of remove has a level to stop at.
LEMMA LoweredExists ==
    ASSUME NEW links, m_curr_height \in Levels
    PROVE  /\ Lowered(links) \in 0 .. m_curr_height
           /\ Lowered(links) = 0 \/ links[Lowered(links)] # Tail
           /\ \A i \in 0 .. m_curr_height : i > Lowered(links) => links[i] = Tail
<1> DEFINE h == m_curr_height
           U == {n \in 0 .. h : h - n = 0 \/ links[h - n] # Tail}
           Stop(m) == /\ m = 0 \/ links[m] # Tail
                      /\ \A i \in (m + 1) .. h : links[i] = Tail
<1>1. h \in Nat
  BY Constants DEF Levels
<1>2. U \subseteq Nat /\ h \in U
  BY <1>1
<1> HIDE DEF U
<1>3. PICK n \in U : \A y \in U : <<y, n>> \notin OpToRel(<, Nat)
  BY <1>2, WFMin, NatLessThanWellFounded, Zenon
<1>4. \A y \in U : ~(y < n)
  BY <1>2, <1>3, Zenon DEF OpToRel
<1>5. n \in 0 .. h /\ h - n \in 0 .. h /\ (h - n = 0 \/ links[h - n] # Tail)
  BY <1>1 DEF U
<1>6. ASSUME NEW i \in (h - n + 1) .. h PROVE links[i] = Tail
  <2>1. i \in Int /\ h - i \in 0 .. h /\ h - i < n /\ h - (h - i) = i
    BY <1>1, <1>5
  <2>2. h - i \notin U
    BY <1>4, <2>1
  <2>3. QED
    BY <2>1, <2>2 DEF U
<1> HIDE DEF h
<1>7. h - n \in 0 .. h /\ Stop(h - n)
  BY <1>5, <1>6
<1>8. Lowered(links) = CHOOSE m \in 0 .. h : Stop(m)
  BY DEF Lowered, h
<1> HIDE DEF Stop
<1>9. Lowered(links) \in 0 .. h /\ Stop(Lowered(links))
  BY <1>7, <1>8
<1>10. \A i \in 0 .. h : i > Lowered(links) => links[i] = Tail
  BY <1>1, <1>9 DEF h, Stop
<1>11. QED
  BY <1>9, <1>10 DEF h, Stop

(***************************************************************************)
(* remove unlinks the node from exactly the levels it is on: below its     *)
(* height each tracked node leads to it, above none does.                  *)
(***************************************************************************)
LEMMA UnlinksExact ==
    ASSUME IInv, pc = "nearest", Found, NEW i \in Levels
    PROVE  Unlinks(i) <=> tmp \in OnLevel(i)
<1> USE DEF IInv, ListInv
<1>1. tmp = Wanted /\ Wanted \in Keys /\ m_curr_height \in Int /\ i \in Int /\ i >= 0
  BY Candidate, Constants DEF TypeOK
<1>2. ASSUME NEW j \in 0 .. m_curr_height
      PROVE  tmp \in OnLevel(j) <=> fwd[tracker[j]][j] = tmp
  <2>1. j \in Levels
    BY Constants DEF TypeOK
  <2>2. QED
    BY <1>1, <2>1, Gap DEF Tracked
<1>3. ASSUME tmp \in OnLevel(i) PROVE Unlinks(i)
  <2>1. i <= m_curr_height
    BY <1>1, <1>3 DEF HeightExact
  <2>2. ASSUME NEW j \in 0 .. i PROVE fwd[tracker[j]][j] = tmp
    <3>1. j \in Levels /\ j \in Int /\ j <= i /\ j \in 0 .. m_curr_height
      BY <1>1, <2>1, Constants
    <3>2. tmp \in OnLevel(j)
      BY <1>3, <3>1 DEF Stacked
    <3>3. QED
      BY <1>2, <3>1, <3>2
  <2>3. QED
    BY <2>1, <2>2 DEF Unlinks
<1>4. ASSUME Unlinks(i) PROVE tmp \in OnLevel(i)
  <2>1. i \in 0 .. m_curr_height /\ i \in 0 .. i
    BY <1>1, <1>4 DEF Unlinks
  <2>2. QED
    BY <1>2, <1>4, <2>1 DEF Unlinks
<1>5. QED
  BY <1>3, <1>4

LEMMA RemoveStep ==
    ASSUME IInv, Remove PROVE IInv'
<1> DEFINE h == m_curr_height
<1>1. /\ pc = "nearest" /\ Found /\ tmp = Wanted /\ tmp \in Keys /\ tmp \in Nodes
      /\ tmp \in Int /\ tmp # Head /\ tmp # Tail /\ Head \in Nodes
  BY Candidate, Constants DEF Remove, At, Nodes
<1>2. /\ TypeOK /\ Linked /\ Towers /\ HeightExact /\ Stacked
      /\ h \in Levels /\ h \in Int /\ h >= 0
      /\ \A i \in Levels : i \in Int /\ i >= 0 /\ (i > 0 => i - 1 \in Levels)
      /\ \A i \in 0 .. h : i \in Levels
      /\ 0 \in Levels
  BY Constants DEF IInv, ListInv, TypeOK
<1>3. fwd' = [n \in Nodes |->
                  IF n = tmp THEN NoLinks
                  ELSE [i \in Levels |-> IF Unlinks(i) /\ n = tracker[i]
                                         THEN fwd[tmp][i] ELSE fwd[n][i]]]
  BY DEF Remove
<1>4. ASSUME NEW i \in Levels, tmp \in OnLevel(i)
      PROVE  /\ tracker[i] \in OnLevel(i) \cup {Head} /\ tracker[i] # tmp
             /\ tracker[i] # Head => tmp < tracker[i]
             /\ fwd[tracker[i]][i] = tmp
             /\ \A j \in OnLevel(i) : j > tmp => tracker[i] # Head /\ tracker[i] <= j
  <2>1. i \in 0 .. h
    BY <1>2, <1>4 DEF HeightExact
  <2>2. /\ tracker[i] \in OnLevel(i) \cup {Head}
        /\ Precedes(tracker[i], tmp) /\ ~Precedes(fwd[tracker[i]][i], tmp)
    BY <1>1, <2>1 DEF IInv, Tracked
  <2>3. tracker[i] # tmp /\ (tracker[i] # Head => tmp < tracker[i])
    BY <1>1, <2>2 DEF Precedes
  <2>4. /\ \A j \in OnLevel(i) : j > tmp => tracker[i] # Head /\ tracker[i] <= j
        /\ tmp \in OnLevel(i) <=> fwd[tracker[i]][i] = tmp
    <3>1. TypeOK /\ Linked /\ tmp \in Keys
      BY <1>1, <1>2
    <3>2. QED
      BY <2>2, <3>1, Gap
  <2>5. QED
    BY <1>4, <2>2, <2>3, <2>4
<1>5. ASSUME NEW i \in Levels
      PROVE  /\ fwd'[tmp][i] = None
             /\ \A n \in Nodes \ {tmp} :
                    fwd'[n][i] = IF tmp \in OnLevel(i) /\ n = tracker[i]
                                 THEN fwd[tmp][i] ELSE fwd[n][i]
  BY <1>1, <1>3, UnlinksExact DEF NoLinks
<1>6. ASSUME NEW i \in Levels PROVE OnLevel(i)' = OnLevel(i) \ {tmp}
  <2>1. ASSUME NEW n \in Keys, n # tmp PROVE fwd'[n][i] # None <=> fwd[n][i] # None
    <3>1. n \in Nodes \ {tmp} /\ n # Head
      BY <2>1, Constants DEF Nodes
    <3>2. CASE tmp \in OnLevel(i) /\ n = tracker[i]
      BY <1>4, <1>5, <3>1, <3>2 DEF OnLevel
    <3>3. CASE ~(tmp \in OnLevel(i) /\ n = tracker[i])
      BY <1>5, <3>1, <3>3
    <3>4. QED
      BY <3>2, <3>3
  <2>2. QED
    BY <1>5, <2>1 DEF OnLevel
<1>7. ASSUME NEW i \in Levels, NEW n \in OnLevel(i)' \cup {Head}
      PROVE  /\ fwd'[n][i] \in OnLevel(i)' \cup {Tail}
             /\ fwd'[n][i] # Tail => n = Head \/ fwd'[n][i] < n
             /\ \A j \in OnLevel(i)' : n = Head \/ j < n =>
                    fwd'[n][i] # Tail /\ j <= fwd'[n][i]
  <2>1. \A j \in OnLevel(i) : j \in Int /\ j \in Nodes /\ j # Head /\ j # Tail
    BY Constants DEF OnLevel, Nodes
  <2>2. ASSUME NEW p \in OnLevel(i) \cup {Head}
        PROVE  /\ fwd[p][i] \in OnLevel(i) \cup {Tail}
               /\ fwd[p][i] # Tail => p = Head \/ fwd[p][i] < p
               /\ \A j \in OnLevel(i) : p = Head \/ j < p =>
                      fwd[p][i] # Tail /\ j <= fwd[p][i]
    BY <1>2, Link
  <2>3. /\ n \in OnLevel(i) \cup {Head} /\ n # tmp /\ n \in Nodes
        /\ OnLevel(i)' = OnLevel(i) \ {tmp}
    BY <1>1, <1>6, <2>1
  <2>4. CASE tmp \notin OnLevel(i)
    BY <1>5, <2>2, <2>3, <2>4
  <2>5. CASE tmp \in OnLevel(i) /\ n = tracker[i]
    <3>1. fwd'[n][i] = fwd[tmp][i]
      BY <1>5, <2>3, <2>5
    <3>2. /\ fwd[tmp][i] \in OnLevel(i) \cup {Tail}
          /\ fwd[tmp][i] # Tail => fwd[tmp][i] < tmp
          /\ \A j \in OnLevel(i) : j < tmp => fwd[tmp][i] # Tail /\ j <= fwd[tmp][i]
      BY <1>1, <2>2, <2>5
    <3>3. fwd[tmp][i] # Tail => n = Head \/ fwd[tmp][i] < n
      <4>1. n # Head => tmp < n /\ n \in Int
        BY <1>4, <2>1, <2>3, <2>5
      <4>2. fwd[tmp][i] # Tail => fwd[tmp][i] \in Int /\ fwd[tmp][i] < tmp
        BY <2>1, <3>2
      <4>3. QED
        BY <1>1, <4>1, <4>2
    <3>4. \A j \in OnLevel(i)' : n = Head \/ j < n => j < tmp
      BY <1>1, <1>4, <2>1, <2>2, <2>3, <2>5
    <3>5. QED
      BY <1>1, <2>1, <2>3, <3>1, <3>2, <3>3, <3>4
  <2>6. CASE tmp \in OnLevel(i) /\ n # tracker[i]
    <3>1. fwd'[n][i] = fwd[n][i]
      BY <1>5, <2>3, <2>6
    <3>2. fwd[n][i] # tmp
      <4>1. SUFFICES ASSUME fwd[n][i] = tmp PROVE FALSE
        OBVIOUS
      <4>2. n = Head \/ tmp < n
        BY <1>1, <2>2, <2>3, <4>1
      <4>3. tracker[i] \in OnLevel(i) /\ (n = Head \/ tracker[i] < n)
        <5>1. /\ tracker[i] \in OnLevel(i) \cup {Head}
              /\ fwd[tracker[i]][i] = tmp
              /\ \A j \in OnLevel(i) : j > tmp => tracker[i] # Head /\ tracker[i] <= j
          BY <1>4, <2>6
        <5>2. CASE n = Head
          BY <2>6, <5>1, <5>2
        <5>3. CASE n # Head
          <6>1. n \in OnLevel(i) /\ n > tmp /\ n \in Int
            BY <1>1, <2>1, <2>3, <4>2, <5>3
          <6>2. tracker[i] \in OnLevel(i) /\ tracker[i] <= n /\ tracker[i] \in Int
            BY <2>1, <5>1, <6>1
          <6>3. QED
            BY <2>6, <6>1, <6>2
        <5>4. QED
          BY <5>2, <5>3
      <4>4. tracker[i] <= tmp /\ tmp < tracker[i]
        BY <1>4, <2>1, <2>2, <2>3, <2>6, <4>1, <4>3
      <4>5. QED
        BY <1>1, <2>1, <4>3, <4>4
    <3>3. QED
      BY <2>2, <2>3, <3>1, <3>2
  <2>7. QED
    BY <2>4, <2>5, <2>6
<1>8. Linked'
  BY <1>7, Constants DEF Linked, After, OnLevel
<1>9. Stacked'
  BY <1>2, <1>6 DEF Stacked
<1>10. Towers'
  <2>1. val' = [val EXCEPT ![tmp] = NoVal] /\ val \in [Keys -> Vals \cup {NoVal}]
    BY <1>2 DEF Remove, TypeOK
  <2>2. \A j \in Keys : j \in OnLevel(0)' <=> val'[j] # NoVal
    BY <1>2, <1>6, <2>1 DEF Towers
  <2>3. \A i \in Levels \ {0} : i - 1 \in Levels /\ i - 1 <= i
    BY <1>2
  <2>4. QED
    BY <1>9, <2>2, <2>3 DEF Towers, Stacked
<1>11. /\ m_curr_height' \in 0 .. h /\ m_curr_height' \in Levels
       /\ m_curr_height' = 0 \/ fwd'[Head][m_curr_height'] # Tail
       /\ \A i \in 0 .. h : i > m_curr_height' => fwd'[Head][i] = Tail
  <2>1. m_curr_height' = Lowered(fwd'[Head])
    BY DEF Remove
  <2>2. QED
    BY <1>2, <2>1, LoweredExists
<1>12. HeightExact'
  <2>1. \A i \in Levels : fwd'[Head][i] = Tail <=> OnLevel(i)' = {}
    <3>1. \A i \in Levels : OnLevel(i)' \subseteq Keys
      BY DEF OnLevel
    <3>2. QED
      BY <1>7, <3>1, Constants
  <2>2. ASSUME NEW i \in Levels, i > m_curr_height' PROVE OnLevel(i)' = {}
    <3>1. CASE i > h
      BY <1>2, <1>6, <3>1 DEF HeightExact
    <3>2. CASE ~(i > h)
      <4>1. i \in 0 .. h
        BY <1>2, <3>2
      <4>2. QED
        BY <1>11, <2>1, <2>2, <4>1
    <3>3. QED
      BY <3>1, <3>2
  <2>3. (m_curr_height > 0 => OnLevel(m_curr_height) # {})'
    <3>1. m_curr_height' > 0 => fwd'[Head][m_curr_height'] # Tail
      BY <1>2, <1>11
    <3>2. QED
      BY <1>11, <2>1, <3>1 DEF OnLevel
  <2>4. QED
    BY <2>2, <2>3 DEF HeightExact
<1>13. TypeOK'
  <2>1. fwd' \in [Nodes -> [Levels -> Nodes \cup {None}]]
    <3>1. \A n \in Nodes, i \in Levels : fwd[n][i] \in Nodes \cup {None}
      BY <1>2 DEF TypeOK
    <3>2. QED
      BY <1>1, <1>3, <3>1 DEF NoLinks
  <2>2. val' \in [Keys -> Vals \cup {NoVal}]
    BY <1>2 DEF Remove, TypeOK
  <2>3. QED
    BY <1>2, <1>11, <2>1, <2>2, Constants DEF TypeOK, Remove, Return, Nodes, NoLinks
<1>14. QED
  <2>1. Return(TRUE)
    BY DEF Remove
  <2>2. ListInv'
    BY <1>8, <1>9, <1>10, <1>12 DEF ListInv
  <2>3. QED
    BY <1>2, <1>13, <2>1, <2>2, Returned
-----------------------------------------------------------------------------
LEMMA StepInv == IInv /\ [Next]_vars => IInv'
<1> SUFFICES ASSUME IInv, [Next]_vars PROVE IInv'
  OBVIOUS
<1>1. CASE Call
  BY <1>1, CallStep
<1>2. CASE Right
  BY <1>2, RightStep
<1>3. CASE Down
  BY <1>3, DownStep
<1>4. CASE InsertDuplicate \/ RemoveAbsent \/ Find \/ FindRange
  BY <1>4, ReturnStep
<1>5. CASE Insert
  BY <1>5, InsertStep
<1>6. CASE Remove
  BY <1>6, RemoveStep
<1>7. CASE FindFirst
  BY <1>7, FindFirstStep
<1>8. CASE UNCHANGED vars
  <2>1. ListInv'
    BY <1>8, SameList DEF IInv, vars, list
  <2>2. Calling' /\ Wanted' = Wanted
    BY <1>8 DEF IInv, vars, Calling, Wanted, Map!From, Map!Present
  <2>3. TypeOK' /\ Searching'
    BY <1>8 DEF IInv, vars, TypeOK, Searching, OnLevel
  <2>4. Tracked'
    BY <1>8, <2>2 DEF IInv, vars, Tracked, Precedes, OnLevel
  <2>5. QED
    BY <2>1, <2>2, <2>3, <2>4 DEF IInv
<1>9. QED
  BY <1>1, <1>2, <1>3, <1>4, <1>5, <1>6, <1>7, <1>8 DEF Next

(***************************************************************************)
(* The inductive invariant: the levels are complete sorted lists, each a   *)
(* part of the one below, and a search knows the gap its key belongs in.   *)
(***************************************************************************)
THEOREM Invariance == Spec => []IInv
BY InitInv, StepInv, PTL DEF Spec

\* The variables have their types: no search follows a null link.
THEOREM Typing == Spec => []TypeOK
<1>1. IInv => TypeOK
  BY DEF IInv
<1>2. QED
  BY <1>1, Invariance, PTL

\* After any inserts and removals, every level leads from each node to the
\* next smaller one on that level, and from none to a deleted node.
THEOREM LinkedHolds == Spec => []Linked
<1>1. IInv => Linked
  BY DEF IInv, ListInv
<1>2. QED
  BY <1>1, Invariance, PTL

\* Exactly the keys with a value are in the list, each on a run of levels
\* from the lowest up.
THEOREM TowersHold == Spec => []Towers
<1>1. IInv => Towers
  BY DEF IInv, ListInv
<1>2. QED
  BY <1>1, Invariance, PTL

\* m_curr_height is the highest level with a node, after inserts that raise
\* it and removals that lower it by any number of levels.
THEOREM HeightHolds == Spec => []HeightExact
<1>1. IInv => HeightExact
  BY DEF IInv, ListInv
<1>2. QED
  BY <1>1, Invariance, PTL

\* What a search hands to insert and remove is the exact gap on each level.
THEOREM TrackedHolds == Spec => []Tracked
<1>1. IInv => Tracked
  BY DEF IInv
<1>2. QED
  BY <1>1, Invariance, PTL
-----------------------------------------------------------------------------
\* The steps of a search are invisible to the caller; the step in which an
\* operation returns is the map's.
LEMMA StepRefines ==
    ASSUME IInv, [Next]_vars PROVE [Map!Next]_(Map!vars)
<1> USE DEF Map!vars
<1>1. CASE Call
  BY <1>1 DEF Call, IInv, Calling, list, Map!Next, Map!Invoke, Map!Requests, Requests
<1>2. CASE Right \/ Down \/ FindFirst
  BY <1>2 DEF Right, Down, FindFirst, list
<1>3. CASE InsertDuplicate \/ Insert \/ Remove \/ RemoveAbsent \/ Find \/ FindRange
  <2>1. /\ pc = "nearest" /\ call \in Requests /\ call # None /\ call.key \in Keys
    BY <1>3, RequestFields, CallAssumption
       DEF InsertDuplicate, Insert, Remove, RemoveAbsent, Find, FindRange, At, IInv, Calling
  <2>2. /\ Found <=> tmp = Wanted
        /\ Found <=> val[Wanted] # NoVal
        /\ val \in [Keys -> Vals \cup {NoVal}]
    BY <2>1, Candidate DEF IInv, TypeOK
  <2>3. call.op # "find_range" => Wanted = call.key
    BY DEF IInv, Calling, Wanted
  <2>4. Found => call.key \in Map!Present \/ call.op = "find_range"
    BY <2>1, <2>2, <2>3 DEF Map!Present
  <2>5. ~Found => call.key \notin Map!Present \/ call.op = "find_range"
    BY <2>1, <2>2, <2>3 DEF Map!Present
  <2> USE DEF At, Return, Map!Respond, list
  <2>6. CASE InsertDuplicate
    BY <2>1, <2>4, <2>6 DEF InsertDuplicate, Map!Next, Map!Apply, Map!Insert
  <2>7. CASE Insert
    BY <2>1, <2>5, <2>7 DEF Insert, Map!Next, Map!Apply, Map!Insert
  <2>8. CASE Remove
    BY <2>1, <2>2, <2>3, <2>4, <2>8 DEF Remove, Map!Next, Map!Apply, Map!Remove
  <2>9. CASE RemoveAbsent
    <3>1. call.key \notin Map!Present /\ val[call.key] = NoVal
      BY <2>1, <2>2, <2>3, <2>5, <2>9 DEF RemoveAbsent
    <3>2. val' = [val EXCEPT ![call.key] = NoVal]
      BY <2>1, <2>2, <2>9, <3>1 DEF RemoveAbsent
    <3>3. (call.key \in Map!Present) = FALSE
      BY <3>1
    <3>4. call.op = "remove" /\ call' = None /\ ret' = FALSE /\ val' = val
      BY <2>9 DEF RemoveAbsent
    <3>5. Map!Remove
      BY <3>2, <3>3, <3>4 DEF Map!Remove
    <3>6. QED
      BY <2>1, <3>5 DEF Map!Next, Map!Apply
  <2>10. CASE Find
    BY <2>1, <2>2, <2>3, <2>10 DEF Find, Map!Next, Map!Apply, Map!Find
  <2>11. CASE FindRange
    <3>1. first = Map!From(call.key)
      BY <2>11 DEF FindRange, IInv, Calling
    <3>2. tmp = Map!From(call.key2)
      BY <2>1, <2>11, CandidateIsFrom DEF FindRange, Wanted
    <3>3. QED
      BY <2>1, <2>11, <3>1, <3>2 DEF FindRange, Map!Next, Map!Apply, Map!FindRange
  <2>12. QED
    BY <1>3, <2>6, <2>7, <2>8, <2>9, <2>10, <2>11
<1>4. CASE UNCHANGED vars
  BY <1>4 DEF vars
<1>5. QED
  BY <1>1, <1>2, <1>3, <1>4 DEF Next

(***************************************************************************)
(* The skip list is a sorted map: whatever heights the nodes get, what the *)
(* operations return is what a map sorted by descending keys returns.      *)
(***************************************************************************)
THEOREM Refines == Spec => IsSortedMap
<1>1. Init => Map!Init
  BY DEF Init, Map!Init
<1>2. IInv /\ [Next]_vars => [Map!Next]_(Map!vars)
  BY StepRefines
<1>3. QED
  BY <1>1, <1>2, Invariance, PTL DEF Spec, IsSortedMap, Map!Spec
=============================================================================
