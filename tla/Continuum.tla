----------------------------- MODULE Continuum -----------------------------
(***************************************************************************)
(* The consistent-hash ring of continuum.cc: servers with a share of       *)
(* points each, added and removed while keys are looked up on the ring.    *)
(*                                                                         *)
(* add_server and remove_server compare *it with the address without       *)
(* asking whether lower_bound returned end().  servers_ has spare capacity *)
(* (reserve), so that reads whatever the memory after the last element     *)
(* holds: an element that was erased, or nothing ever written.             *)
(* remove_server may then take another server off the list than it was     *)
(* asked for; `stray` counts how often this has happened.                  *)
(***************************************************************************)
EXTENDS Floats, Sequences, FiniteSets

CONSTANTS
    Addrs,           \* the host:port addresses, as InetAddr's == tells them apart
    Ip(_),           \* the order of InetAddr's <, which looks at the host only
    Memories,        \* the memory sizes servers may have
    Points,          \* the values of the hash function: 0 .. n
    Hash(_, _),      \* the hash of "<address>-<i>"
    Configs,         \* the server files: [addr, mem] in the order of ConfigLoader's map
    PropertyFiles,   \* the properties files: [servers, points], numbers or Missing
    Missing,         \* of a property that is not in the file
    Garbage,         \* what was never written to; not a server
    MemoryValues,    \* the number of values of total_memory_: 2^64 in the code
    CountValues,     \* and of total_servers_: 2^32
    Saturates,       \* whether a float too large for an int becomes the largest int
                     \* (TRUE) or the smallest one (FALSE, on x86)
    MaxServers,      \* bound: no server is added to as many as this
    MaxStray         \* bound: remove_server erases at end() no more often than this

-----------------------------------------------------------------------------
(***************************************************************************)
(* Config: the numbers are read into a uint16_t, where one that is too     *)
(* large becomes the largest; the points are returned as a uint8_t.        *)
(***************************************************************************)
Read(old, value) ==
    IF value = Missing THEN old ELSE IF value > 65535 THEN 65535 ELSE value

PointsPerServer(read) == read % 256

\* No two points fall together: std::sort leaves their order open.
ASSUME HashAssumption ==
    \A f \in PropertyFiles : \A a, b \in Addrs :
        \A i, j \in 0 .. (PointsPerServer(Read(0, f.points)) - 1) :
            /\ Hash(a, i) \in Points
            /\ Hash(a, i) = Hash(b, j) => a = b /\ i = j

Servers == [addr : Addrs, mem : 0 .. (MemoryValues - 1)]

ASSUME ContinuumAssumption ==
    /\ \A a \in Addrs : Ip(a) \in Int
    /\ Points \subseteq Nat
    /\ MemoryValues \in Nat \ {0} /\ CountValues \in Nat \ {0}
    /\ Memories \subseteq 0 .. (MemoryValues - 1) /\ MaxServers \in Nat /\ MaxStray \in Nat
    /\ Configs \subseteq Seq(Servers)
    /\ PropertyFiles \subseteq [servers : Nat \cup {Missing}, points : Nat \cup {Missing}]
    /\ Saturates \in BOOLEAN

VARIABLES
    servers_,        \* sequence of [addr, mem]
    spare,           \* the contents of its capacity after the last element
    reserved,        \* whether it has a block at all, as far as it was reserved
    points_,         \* sequence of [addr, point]
    total_servers_, total_memory_, total_points_,
    m_num_servers, m_points_per_server,
    phase,           \* "new", "loaded", "ready", or "crashed"
    last,            \* the last add_server or remove_server, and its outcome
    stray            \* how often remove_server has erased at end()

config == <<m_num_servers, m_points_per_server>>
list   == <<servers_, spare, reserved, stray>>
totals == <<total_servers_, total_memory_, total_points_>>

vars == <<servers_, spare, reserved, points_, total_servers_, total_memory_, total_points_,
          config, phase, last, stray>>
-----------------------------------------------------------------------------
NoCall == [op |-> "none", addr |-> Garbage, ok |-> TRUE]

Init ==
    /\ servers_ = <<>> /\ spare = <<>> /\ points_ = <<>>
    /\ total_servers_ = 0 /\ total_memory_ = 0 /\ total_points_ = 0
    /\ m_num_servers = 0 /\ m_points_per_server = 0
    /\ phase = "new"
    /\ last = NoCall
    /\ reserved = FALSE /\ stray = 0

\* load_config, and reload at any later time.
LoadConfig ==
    /\ phase # "crashed"
    /\ \E f \in PropertyFiles :
          /\ m_num_servers' = Read(m_num_servers, f.servers)
          /\ m_points_per_server' = Read(m_points_per_server, f.points)
    /\ UNCHANGED <<list, points_, totals, phase, last>>

Elements(s) == {s[i] : i \in DOMAIN s}

Listed == {s.addr : s \in Elements(servers_)}

\* The results std::sort may have on a vector of servers: equal hosts stay in
\* any order.
Orders(n) == {p \in [1 .. n -> 1 .. n] : \A i, j \in 1 .. n : p[i] = p[j] => i = j}

SortedServers(s) ==
    {r \in {[i \in 1 .. Len(s) |-> s[p[i]]] : p \in Orders(Len(s))} :
        \A i, j \in 1 .. Len(s) : i < j => Ip(r[i].addr) <= Ip(r[j].addr)}

\* What it does to the points: the place of each is the number of those that
\* are not after it.
NotAfter(ps, i) ==
    {j \in 1 .. Len(ps) :
        ps[j].point < ps[i].point \/ (ps[j].point = ps[i].point /\ j <= i)}

Places(ps) == [i \in 1 .. Len(ps) |-> Cardinality(NotAfter(ps, i))]

SortedPoints(ps) ==
    LET place == Places(ps)
    IN  [k \in 1 .. Len(ps) |-> ps[CHOOSE i \in 1 .. Len(ps) : place[i] = k]]

\* total_memory_ added up server by server.
MemoryUpTo(s) ==
    LET sum[i \in 0 .. Len(s)] == IF i = 0 THEN 0 ELSE sum[i - 1] + s[i].mem
    IN sum

TotalMemory(s) == MemoryUpTo(s)[Len(s)]

(***************************************************************************)
(* add_points_to_continuum: the points of server s when n servers share    *)
(* `memory`, in proportion to its part of it but never more than the       *)
(* configured number, computed in float.  It comes out below its value     *)
(* where a product was rounded down: each of 41 equal servers with a point *)
(* per server gets none.  Dividing by no memory gives no number an int has. *)
(***************************************************************************)
Shared(s, n, memory, most) ==
    Floor(Times(Times(Over(Float(s.mem), Float(memory)), Float(most)), Float(n)))

NumHashes(s, n, memory) ==
    LET most == PointsPerServer(m_points_per_server)
    IN IF memory = 0 \/ Shared(s, n, memory, most) > 2147483647
       THEN IF Saturates THEN most ELSE 0
       ELSE Cardinality({h \in 1 .. most : h <= Shared(s, n, memory, most)})

PointsOf(s, n, memory) ==
    [i \in 1 .. NumHashes(s, n, memory) |-> [addr |-> s.addr, point |-> Hash(s.addr, i - 1)]]

\* it->serv_addr_ == addr
IsServer(s, a) == s # Garbage /\ s.addr = a

(***************************************************************************)
(* initialize_continuum: the servers of a configuration file.  The check   *)
(* against TOTAL_SERVERS comes before a server is counted, so one more is  *)
(* let in; then the call fails, which its caller ignores.  Before, the     *)
(* vector is given room for m_num_servers times a factor, which is none if *)
(* either is small.                                                        *)
(***************************************************************************)
Accepted(cfg) ==
    SubSeq(cfg, 1, IF Len(cfg) > m_num_servers THEN m_num_servers + 1 ELSE Len(cfg))

Initialize ==
    /\ phase = "new"
    /\ \E cfg \in Configs :
          LET accepted == Accepted(cfg) IN
          /\ servers_' = accepted
          /\ total_servers_' = Len(accepted)
          /\ total_memory_' = TotalMemory(accepted)
          /\ reserved' \in {accepted # <<>>, accepted # <<>> \/ m_num_servers > 0}
    /\ phase' = "loaded"
    /\ UNCHANGED <<spare, points_, total_points_, config, last, stray>>

\* for_each over the servers.
PointsUpTo ==
    LET made[i \in 0 .. Len(servers_)] ==
            IF i = 0 THEN <<>>
            ELSE made[i - 1] \o PointsOf(servers_[i], total_servers_, total_memory_)
    IN made

AllPoints == PointsUpTo[Len(servers_)]

\* create_continuum: the points of all servers, then both vectors sorted.
Create ==
    /\ phase = "loaded"
    /\ LET all == AllPoints
       IN /\ points_' = SortedPoints(all)
          /\ total_points_' = Len(all)
    /\ servers_' \in SortedServers(servers_)
    /\ phase' = "ready"
    /\ UNCHANGED <<spare, reserved, total_servers_, total_memory_, config, last, stray>>

\* std::lower_bound: the first server not before address a; Len + 1 is end().
LowerBound(a) ==
    CHOOSE i \in 1 .. (Len(servers_) + 1) :
        /\ \A j \in 1 .. (i - 1) : Ip(servers_[j].addr) < Ip(a)
        /\ i <= Len(servers_) => Ip(servers_[i].addr) >= Ip(a)

\* *it, also if `it` is end().
At(i) == IF i <= Len(servers_) THEN servers_[i]
         ELSE IF spare # <<>> THEN spare[1] ELSE Garbage

Done(op, a, ok) == last' = [op |-> op, addr |-> a, ok |-> ok]

\* Unsigned sums and differences.
Plus(x, m, values)  == IF x + m < values THEN x + m ELSE (x + m) - values
Minus(x, m, values) == IF x >= m THEN x - m ELSE (x - m) + values

\* A server was erased at the end() of an empty list: now end() is before begin().
Backwards == total_servers_ # Len(servers_)

\* add_server and remove_server of a vector without a block: *end() is *NULL.
NullEnd(a) ==
    /\ phase = "ready"
    /\ ~reserved
    /\ phase' = "crashed"
    /\ UNCHANGED <<list, points_, totals, config, last>>

\* add_server then constructs the new element before the block of the vector.
AddOutside(a) ==
    /\ phase = "ready"
    /\ Backwards
    /\ ~IsServer(At(LowerBound(a)), a)
    /\ phase' = "crashed"
    /\ UNCHANGED <<list, points_, totals, config, last>>

AddDuplicate(a) ==
    /\ phase = "ready" /\ reserved
    /\ IsServer(At(LowerBound(a)), a)
    /\ Done("add", a, FALSE)
    /\ UNCHANGED <<list, points_, totals, config, phase>>

\* add_server: the others keep the points they have.  (Bounds: MaxServers, and
\* servers have less than MemoryValues together.)
AddServer(a) ==
    /\ phase = "ready" /\ reserved /\ ~Backwards
    /\ Len(servers_) < MaxServers
    /\ ~IsServer(At(LowerBound(a)), a)
    /\ \E m \in Memories :
          LET s      == [addr |-> a, mem |-> m]
              memory == Plus(total_memory_, m, MemoryValues)
              mine   == PointsOf(s, total_servers_ + 1, memory)
          IN /\ TotalMemory(servers_) + m < MemoryValues
             /\ servers_' \in SortedServers(Append(servers_, s))
             /\ total_memory_' = memory
             /\ points_' = SortedPoints(points_ \o mine)
             /\ total_points_' = total_points_ + Len(mine)
    /\ spare' = IF spare = <<>> THEN <<>> ELSE Tail(spare)
    /\ total_servers_' = total_servers_ + 1
    /\ Done("add", a, TRUE)
    /\ UNCHANGED <<reserved, config, phase, stray>>

\* erase(it): the elements after it move down.
Without(s, i) == [k \in 1 .. (Len(s) - 1) |-> s[IF k < i THEN k ELSE k + 1]]

\* mutant: the loop over find_if ends after the first point
FirstErased(a) ==
    IF \A i \in 1 .. Len(points_) : points_[i].addr # a THEN points_
    ELSE Without(points_, CHOOSE i \in 1 .. Len(points_) :
                              /\ points_[i].addr = a
                              /\ \A j \in 1 .. (i - 1) : points_[j].addr # a)

\* mutant: find_if compares hosts, as operator< does
PointsOffHost(a) == SelectSeq(points_, LAMBDA p : Ip(p.addr) # Ip(a))

\* The loop over find_if: every point of the server is erased.
KeptUpTo(a) ==
    LET kept[i \in 0 .. Len(points_)] ==
            IF i = 0 THEN <<>>
            ELSE IF points_[i].addr = a THEN kept[i - 1] ELSE Append(kept[i - 1], points_[i])
    IN kept

PointsWithout(a) == KeptUpTo(a)[Len(points_)]

\* mutant: the total is lowered after the loop instead of in it
CountedOnce(a) == 1

\* total_points_-- for each of them.
Erased(a) == Len(points_) - Len(PointsWithout(a))

(***************************************************************************)
(* remove_server.  Erasing at end() moves the elements from beyond it to   *)
(* end(), of which there are fewer than none: a memmove of that length     *)
(* crashes, and where nothing is moved (the library's loops, and its newer *)
(* memmove) the vector is one element shorter: the last server is gone,    *)
(* or, if there is none, end() is before begin().                          *)
(***************************************************************************)
Removed(a) ==
    LET i == LowerBound(a) IN
    /\ phase = "ready" /\ reserved
    /\ IsServer(At(i), a)
    /\ points_' = PointsWithout(a)
    /\ total_points_' = total_points_ - Erased(a)
    /\ total_servers_' = Minus(total_servers_, 1, CountValues)
    /\ total_memory_' = Minus(total_memory_, At(i).mem, MemoryValues)
    /\ Done("remove", a, TRUE)
    /\ UNCHANGED <<reserved, config>>

RemoveServer(a) ==
    /\ LowerBound(a) <= Len(servers_)
    /\ Removed(a)
    /\ servers_' = Without(servers_, LowerBound(a))
    /\ spare' = <<servers_[Len(servers_)]>> \o spare
    /\ UNCHANGED <<phase, stray>>

RemoveAtEnd(a) ==
    /\ stray < MaxStray
    /\ LowerBound(a) > Len(servers_)
    /\ Removed(a)
    /\ \/ /\ servers_ # <<>>
          /\ servers_' = Without(servers_, Len(servers_))
          /\ spare' = <<servers_[Len(servers_)]>> \o spare
          /\ UNCHANGED phase
       \/ /\ servers_ = <<>>
          /\ UNCHANGED <<servers_, spare, phase>>
       \/ /\ phase' = "crashed"
          /\ UNCHANGED <<servers_, spare>>
    /\ stray' = stray + 1

RemoveNothing(a) ==
    /\ phase = "ready" /\ reserved
    /\ ~IsServer(At(LowerBound(a)), a)
    /\ Done("remove", a, FALSE)
    /\ UNCHANGED <<list, points_, totals, config, phase>>

Crashed == phase = "crashed" /\ UNCHANGED vars

Next ==
    \/ LoadConfig \/ Initialize \/ Create \/ Crashed
    \/ \E a \in Addrs : \/ AddDuplicate(a) \/ AddServer(a) \/ AddOutside(a)
                        \/ RemoveServer(a) \/ RemoveAtEnd(a) \/ RemoveNothing(a) \/ NullEnd(a)

Spec == Init /\ [][Next]_vars
-----------------------------------------------------------------------------
\* get_server: the first point from hash h on, else the first one of the ring.
ServerFor(ps, h) ==
    LET from == {i \in 1 .. Len(ps) : ps[i].point >= h}
    IN ps[IF from = {} THEN 1 ELSE CHOOSE i \in from : \A j \in from : i <= j].addr

(***************************************************************************)
(* What consistent hashing is for: when a server is added, a key keeps its *)
(* server or moves to the new one; when one is removed, only keys of that  *)
(* server move.                                                            *)
(***************************************************************************)
MovesOnlyItsKeys ==
    [][phase = "ready" /\ points_ # <<>> /\ points_' # <<>> =>
          \A h \in Points :
              LET old == ServerFor(points_, h)
                  new == ServerFor(points_', h)
              IN old # new => /\ last'.op = "add" => new = last'.addr
                              /\ last'.op = "remove" => old = last'.addr]_vars

(***************************************************************************)
(* The totals from which the shares of later servers are computed are      *)
(* those of the vectors, whatever is refused or removed, until a server is *)
(* removed again whose element still lies at end().  That call takes its   *)
(* memory off the total once more and another server off the list          *)
(* (continuum.cc 191, 213: a defect); the points are counted even then.    *)
(***************************************************************************)
TotalsExact ==
    phase = "ready" =>
        /\ total_points_ = Len(points_)
        /\ stray > 0 \/ (total_servers_ = Len(servers_) /\ total_memory_ = TotalMemory(servers_))

(***************************************************************************)
(* No key is sent to a server that is not listed, until remove_server      *)
(* takes one off the list that it was not asked for, whose points stay.    *)
(* (get_server also assumes that the ring is not empty, which nothing in   *)
(* the code ensures: there may be no servers, no points for them, or the   *)
(* rounding of the shares may leave none.)                                 *)
(***************************************************************************)
ServesListed ==
    phase = "ready" /\ stray = 0 => \A p \in Elements(points_) : p.addr \in Listed

(***************************************************************************)
(* "Duplicate data. Server %s is already present in the continuum":        *)
(* add_server refuses only a server that is.                               *)
(***************************************************************************)
RefusesOnlyPresent ==
    phase = "ready" /\ last.op = "add" /\ ~last.ok => last.addr \in Listed
=============================================================================
