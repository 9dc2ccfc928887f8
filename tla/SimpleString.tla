---------------------------- MODULE SimpleString ----------------------------
(***************************************************************************)
(* sstring of simple_string.h: a string kept either in a small buffer      *)
(* inside the object (m_sso) or in a heap block behind mp_srep.            *)
(*                                                                         *)
(* A heap block is [mem, len, free]: its bytes from buf_ to the end (those *)
(* before buf_ are never used again), len_ and free_.  Nothing in the code *)
(* keeps len_ and free_ in step with the block, so the methods are         *)
(* modelled on the bytes themselves.  A method that follows a null pointer *)
(* or touches a byte outside a block leaves the object Undefined.  A block *)
(* may stay behind when a string moves to the small buffer.  It is None    *)
(* here, and methods that take it for the string's leave the object        *)
(* Undefined as well.                                                      *)
(***************************************************************************)
EXTENDS Integers, Sequences

CONSTANTS
    Objects,    \* the sstring variables of a program
    Literals,   \* the const char* arguments: sequences of Chars
    Sizes,      \* the size_t arguments of the third constructor
    Positions,  \* the arguments of substr
    Chars,      \* the characters but '\0'
    Blank,      \* the one in the set trim removes
    Nul,        \* '\0'
    SSO_SIZE,
    UintValues, \* bound: the number of uint32_t values
    MaxLen,     \* bound: no string is longer
    MaxFree,    \* bound: a string whose free_ is larger is not worked with
    None,       \* nullptr
    Undefined   \* after undefined behaviour

Blocks == [mem : Seq(Chars \cup {Nul}), len : Nat, free : Nat]

Strings == [m_sso : BOOLEAN, sso_buf : Seq(Chars \cup {Nul}), srep : Blocks \cup {None}]

ASSUME StringAssumption ==
    /\ Blank \in Chars /\ Nul \notin Chars
    /\ None \notin Blocks /\ Undefined \notin Strings
    /\ SSO_SIZE \in Nat \ {0} /\ MaxLen \in Nat /\ MaxFree \in Nat
    /\ UintValues \in Nat /\ UintValues > 2 * (MaxLen + SSO_SIZE + MaxFree)
    /\ Literals \subseteq Seq(Chars) /\ \A text \in Literals : Len(text) <= MaxLen
    /\ Sizes \subseteq 0 .. (UintValues - 1) /\ Positions \subseteq Int

VARIABLE str    \* [m_sso, sso_buf, srep] of each object

vars == <<str>>
-----------------------------------------------------------------------------
Uint(n) == n % UintValues

Zeros(n) == [i \in 1 .. n |-> Nul]

\* mem with the bytes of s from byte `at` on (counted from 0).
Copy(mem, at, s) ==
    [i \in DOMAIN mem |-> IF i - at \in DOMAIN s THEN s[i - at] ELSE mem[i]]

Least(S) == CHOOSE n \in S : \A m \in S : n <= m
Greatest(S) == CHOOSE n \in S : \A m \in S : m <= n

Terminated(mem) == \E i \in DOMAIN mem : mem[i] = Nul

strlen(mem) == Least({i \in DOMAIN mem : mem[i] = Nul}) - 1

CString(mem) == SubSeq(mem, 1, strlen(mem))

\* A new block with room for `size` bytes and '\0' that holds `text`.
Block(size, text) ==
    [mem |-> text \o Zeros(size + 1 - Len(text)), len |-> Len(text), free |-> size - Len(text)]

\* n bytes can be touched behind buf_.
Inside(srep, n) == IF srep = None THEN FALSE ELSE n <= Len(srep.mem)

Bytes(srep) == SubSeq(srep.mem, 1, srep.len)

length(s) == IF s.m_sso THEN strlen(s.sso_buf) ELSE s.srep.len

free_space(s) == IF s.m_sso THEN SSO_SIZE - length(s) ELSE s.srep.free

capacity(s) == length(s) + free_space(s)

\* sstring_copy to byte `at` of the buffer in use; a block's counters follow.
Put(s, at, text) ==
    IF s.m_sso THEN [s EXCEPT !.sso_buf = Copy(@, at, text)]
    ELSE IF ~Inside(s.srep, at + Len(text)) THEN Undefined
    ELSE [s EXCEPT !.srep.mem = Copy(@, at, text),
                   !.srep.len = Uint(@ + Len(text)), !.srep.free = Uint(@ - Len(text))]
-----------------------------------------------------------------------------
(***************************************************************************)
(* The constructors.                                                       *)
(***************************************************************************)
Blanked == [m_sso |-> FALSE, sso_buf |-> Zeros(SSO_SIZE + 1), srep |-> None]

init_new_srep_struct(s, size, do_sso) ==
    IF do_sso /\ size <= SSO_SIZE THEN [s EXCEPT !.m_sso = TRUE]
    ELSE [s EXCEPT !.srep = Block(size, <<>>)]

FromSize(size, do_sso) == init_new_srep_struct(Blanked, size, do_sso)

FromLiteral(text, do_sso) == Put(FromSize(Len(text), do_sso), 0, text)

\* The copy constructor, and clone: both read mp_srep whatever m_sso says.
CopyOf(other) ==
    IF other.m_sso \/ ~Inside(other.srep, other.srep.len) THEN Undefined
    ELSE Put(FromSize(other.srep.len, TRUE), 0, Bytes(other.srep))

\* The move constructor.  What is left of `other` is Left(other).
MovedFrom(other) ==
    IF other.m_sso THEN [Blanked EXCEPT !.m_sso = TRUE, !.sso_buf = Copy(@, 0, CString(other.sso_buf))]
    ELSE [Blanked EXCEPT !.srep = other.srep]

Left(other) == IF other.m_sso THEN other ELSE [other EXCEPT !.srep = None]
-----------------------------------------------------------------------------
(***************************************************************************)
(* The methods, as functions from the object before to the one after.      *)
(***************************************************************************)
clear(s) ==
    IF s.m_sso THEN [s EXCEPT !.sso_buf = Zeros(SSO_SIZE + 1)]
    ELSE IF s.srep = None \/ ~Inside(s.srep, capacity(s)) THEN Undefined
    ELSE [s EXCEPT !.srep.mem = Copy(@, 0, Zeros(capacity(s))),
                   !.srep.free = Uint(capacity(s)), !.srep.len = 0]

\* operator=(const sstring&).  m_sso keeps its value if the other is on the
\* heap, and free_ is the other's although the new block has no free byte.
CopyAssigned(s, other) ==
    IF other.m_sso
    THEN Put([s EXCEPT !.srep = None, !.m_sso = TRUE, !.sso_buf = Zeros(SSO_SIZE + 1)],
             0, CString(other.sso_buf))
    ELSE IF ~Inside(other.srep, other.srep.len) THEN Undefined
    ELSE IF s.m_sso THEN s
    ELSE [s EXCEPT !.srep = [Block(other.srep.len, Bytes(other.srep)) EXCEPT !.free = other.srep.free]]

\* The same with the object itself as the other: its length is read when the
\* buffer has been cleared or replaced.
SelfAssigned(s) ==
    IF s.m_sso THEN [s EXCEPT !.srep = None, !.sso_buf = Zeros(SSO_SIZE + 1)]
    ELSE IF ~Inside(s.srep, s.srep.len) THEN Undefined
    ELSE [s EXCEPT !.srep = [Block(s.srep.len, Bytes(s.srep)) EXCEPT !.len = 0, !.free = 0]]

\* mutant: the buffer is not cleared first
MoveAssignedOver(s, other) ==
    IF other.m_sso THEN Put([s EXCEPT !.m_sso = TRUE, !.srep = None], 0, CString(other.sso_buf))
    ELSE [s EXCEPT !.srep = other.srep, !.m_sso = FALSE]

\* operator=(sstring&&): clear() zeroes the buffer that was in use, which may
\* not be the small one that is written then.
MoveAssigned(s, other) ==
    IF other.m_sso
    THEN IF clear(s) = Undefined THEN Undefined
         ELSE Put([clear(s) EXCEPT !.m_sso = TRUE, !.srep = None], 0, CString(other.sso_buf))
    ELSE [s EXCEPT !.srep = other.srep, !.m_sso = FALSE]

SelfMoved(s) == IF s.m_sso THEN clear(s) ELSE [s EXCEPT !.srep = None]

\* (length() + slen) * GROWTH_FACTOR
NewSize(len, slen) == ((len + slen) * 3) \div 2

\* append, with __expand__.
Appended(s, text) ==
    LET old == IF s.m_sso THEN CString(s.sso_buf) ELSE Bytes(s.srep)
        wide == [s EXCEPT !.m_sso = FALSE, !.srep = Block(NewSize(length(s), Len(text)), old)]
    IN IF ~s.m_sso /\ s.srep = None THEN Undefined
       ELSE IF Len(text) <= free_space(s) THEN Put(s, length(s), text)
       ELSE IF ~s.m_sso /\ ~Inside(s.srep, s.srep.len) THEN Undefined
       ELSE Put(wide, length(s), text)

\* The bytes from the start of the string to its '\0', counted from 0, that
\* strchr does not find in the set to trim; '\0' is always found.
Kept(r) == {i \in 0 .. r.len : r.mem[i + 1] \notin {Blank, Nul}}

\* Where the loops of trim and trim_mem_eff leave c and e.
TrimStart(r) == IF Kept(r) = {} THEN r.len + 1 ELSE Least(Kept(r))
TrimEnd(r)   == IF Kept(r) = {} THEN r.len ELSE Greatest(Kept(r))

\* buf_ moves n bytes on.
From(mem, n) == SubSeq(mem, n + 1, Len(mem))

\* trim: it subtracts mp_srep->buf_ from a pointer into the buffer in use.
Trimmed(s) ==
    IF s.m_sso \/ ~Inside(s.srep, s.srep.len + 1) THEN Undefined
    ELSE LET r == s.srep
             c == TrimStart(r)
             e == TrimEnd(r)
         IN [s EXCEPT !.srep.mem = From(Copy(@, e + 1, Zeros(r.len - e)), c),
                      !.srep.len = Uint(@ - c - (r.len - e - 1)),
                      !.srep.free = Uint(@ + r.len - e)]

\* trim_mem_eff: the result is a block, whatever m_sso says.  `junk` is its
\* last byte, which is not written.
TrimmedMemEff(s, junk) ==
    IF s.m_sso THEN s
    ELSE IF ~Inside(s.srep, s.srep.len + 1) THEN Undefined
    ELSE LET kept == SubSeq(s.srep.mem, TrimStart(s.srep) + 1, TrimEnd(s.srep) + 1)
         IN [s EXCEPT !.srep = [mem |-> Append(kept, junk), len |-> Len(kept), free |-> 0]]

\* substr: `cut` bytes are zeroed, from the '\0' downwards.  len_, free_ and
\* buf_ are the block's, whatever m_sso says.
Substring(s, s_pos, e_pos) ==
    IF ~s.m_sso /\ s.srep = None THEN Undefined
    ELSE IF length(s) = 0 THEN s
    ELSE LET from == IF s_pos < 0 THEN 0 ELSE s_pos
             to   == IF e_pos < 0 THEN 0 ELSE e_pos
             n    == length(s) - from - to + 1
             cut  == IF n > 0 THEN n ELSE 0
         IN IF s.m_sso \/ ~Inside(s.srep, s.srep.len + 1) \/ ~Inside(s.srep, from) THEN Undefined
            ELSE [s EXCEPT !.srep.mem = From(Copy(@, s.srep.len + 1 - cut, Zeros(cut)), from),
                           !.srep.len = Uint(@ - from - cut),
                           !.srep.free = Uint(@ + cut)]

\* mutant: the length is taken for the capacity
IsFull(s) == strlen(s.srep.mem) = length(s)

\* strlen(data) == capacity()
IsExact(s) == strlen(s.srep.mem) = capacity(s)

shrink_to_fit(s) ==
    IF s.m_sso THEN s
    ELSE IF s.srep = None \/ ~Terminated(s.srep.mem) THEN Undefined
    ELSE IF IsExact(s) THEN s
    ELSE IF ~Inside(s.srep, s.srep.len) THEN Undefined
    ELSE [s EXCEPT !.srep = Block(s.srep.len, Bytes(s.srep))]

\* operator==: len_ bytes of both, if their lengths agree.
Equal(s, t) ==
    LET first(x) == IF x.m_sso THEN CString(x.sso_buf) ELSE Bytes(x.srep)
    IN length(s) = length(t) /\ first(s) = first(t)
TextOf(s) == CString(IF s.m_sso THEN s.sso_buf ELSE s.srep.mem)

\* len_ is the length of the C string behind buf_.
Readable(s) ==
    /\ s # Undefined
    /\ ~s.m_sso => /\ Inside(s.srep, s.srep.len + 1)
                   /\ Terminated(s.srep.mem)
                   /\ strlen(s.srep.mem) = s.srep.len

(***************************************************************************)
(* The bounds.  A program is followed until one of its strings makes no    *)
(* sense any more; one that was moved from still may be called.            *)
(***************************************************************************)
InBounds(s) ==
    /\ s # Undefined
    /\ ~s.m_sso /\ s.srep # None =>
           Readable(s) /\ s.srep.len <= MaxLen /\ s.srep.free <= MaxFree

Running == \A o \in Objects : InBounds(str[o])

MayAppend(s, text) == s.m_sso \/ s.srep # None => length(s) + Len(text) <= MaxLen
-----------------------------------------------------------------------------
(***************************************************************************)
(* A program: it constructs its strings anew and calls their methods in    *)
(* any order, until one of them has undefined behaviour.                   *)
(***************************************************************************)
Init == str = [o \in Objects |-> FromSize(0, TRUE)]

Becomes(o, s) == str' = [str EXCEPT ![o] = s]

ConstructSize(o, size, do_sso) == Becomes(o, FromSize(size, do_sso))

ConstructLiteral(o, text, do_sso) == Becomes(o, FromLiteral(text, do_sso))

CopyConstruct(o, p) == o # p /\ Becomes(o, CopyOf(str[p]))

MoveConstruct(o, p) ==
    o # p /\ str' = [str EXCEPT ![o] = MovedFrom(str[p]), ![p] = Left(str[p])]

CopyAssign(o, p) ==
    Becomes(o, IF o = p THEN SelfAssigned(str[o]) ELSE CopyAssigned(str[o], str[p]))

MoveAssign(o, p) ==
    \/ o # p /\ str' = [str EXCEPT ![o] = MoveAssigned(str[o], str[p]), ![p] = Left(str[p])]
    \/ o = p /\ Becomes(o, SelfMoved(str[o]))

\* o = "...": a string is made from the literal and moved from.
AssignLiteral(o, text) == Becomes(o, MoveAssigned(str[o], FromLiteral(text, TRUE)))

AppendText(o, text) == Becomes(o, Appended(str[o], text))

Clear(o) == Becomes(o, clear(str[o]))

Trim(o) == Becomes(o, Trimmed(str[o]))

TrimMemEff(o) == \E junk \in Chars \cup {Nul} : Becomes(o, TrimmedMemEff(str[o], junk))

Substr(o, s_pos, e_pos) == Becomes(o, Substring(str[o], s_pos, e_pos))

Shrink(o) == Becomes(o, shrink_to_fit(str[o]))

Stopped == ~Running /\ UNCHANGED vars

Construct(o) ==
    \/ \E n \in Sizes, do_sso \in BOOLEAN : ConstructSize(o, n, do_sso)
    \/ \E text \in Literals, do_sso \in BOOLEAN : ConstructLiteral(o, text, do_sso)
    \/ \E p \in Objects : CopyConstruct(o, p) \/ MoveConstruct(o, p)

Assign(o) ==
    \/ \E p \in Objects : CopyAssign(o, p) \/ MoveAssign(o, p)
    \/ \E text \in Literals : AssignLiteral(o, text)

Edit(o) ==
    \/ \E text \in Literals : MayAppend(str[o], text) /\ AppendText(o, text)
    \/ Clear(o) \/ Trim(o) \/ TrimMemEff(o) \/ Shrink(o)
    \/ \E s_pos, e_pos \in Positions : Substr(o, s_pos, e_pos)

Next ==
    \/ Stopped
    \/ Running /\ \E o \in Objects : Construct(o) \/ Assign(o) \/ Edit(o)

Spec == Init /\ [][Next]_vars
-----------------------------------------------------------------------------
\* And the free space is there, zeroed, with a '\0' to spare: append writes none.
Sane(s) ==
    /\ Readable(s)
    /\ LET mem == IF s.m_sso THEN s.sso_buf ELSE s.srep.mem
       IN /\ capacity(s) < Len(mem)
          /\ \A i \in (length(s) + 1) .. (capacity(s) + 1) : mem[i] = Nul

\* What a call makes of a string is a sound string with this text.
IsString(s, text) == Sane(s) /\ TextOf(s) = text

(***************************************************************************)
(* In any state a program gets to, the methods that work on one string do  *)
(* what is asked of them, with these provisos.  append and clear need the  *)
(* free space that free_ claims; trim and substr need a heap string, and   *)
(* substr a range up to the end.                                           *)
(*                                                                         *)
(* Two defects of trim are stated as such.  If every character is blank,   *)
(* or there is none, its first loop takes the '\0' for one to trim and     *)
(* buf_ goes one byte past it: the result is a string only if the block    *)
(* has another '\0' there, and in a block that just holds the text buf_    *)
(* points outside.  And free_ gets a byte too much, the '\0': where        *)
(* len_ + free_ was what the block holds, the next append can write past   *)
(* its end.  shrink_to_fit puts the latter right.                          *)
(***************************************************************************)
Stripped(text) ==
    LET kept == {i \in DOMAIN text : text[i] # Blank} IN SubSeq(text, Least(kept), Greatest(kept))

EditsAsAsked ==
    Running => \A o \in Objects :
        LET s == str[o]
            exact == Len(s.srep.mem) = capacity(s) + 1
        IN
        /\ Sane(s) =>
            /\ \A text \in Literals : IsString(Appended(s, text), TextOf(s) \o text)
            /\ IsString(clear(s), <<>>)
        /\ Readable(s) => IsString(shrink_to_fit(s), TextOf(s))
        /\ ~s.m_sso /\ Readable(s) =>
            /\ IF \E i \in DOMAIN TextOf(s) : TextOf(s)[i] # Blank
               THEN Readable(Trimmed(s)) /\ TextOf(Trimmed(s)) = Stripped(TextOf(s))
               ELSE Readable(Trimmed(s)) <=>
                        Inside(s.srep, length(s) + 2) /\ s.srep.mem[length(s) + 2] = Nul
            /\ Sane(s) /\ exact => ~Sane(Trimmed(s))
            /\ \A p, n \in Positions \cap Nat :
                    Sane(s) /\ p <= length(s) /\ n > length(s) - p =>
                        IsString(Substring(s, p, n), From(TextOf(s), p))

(***************************************************************************)
(* And constructors and assignments make the string they are given, with   *)
(* these provisos.  A string on the heap can be copied, not one in the     *)
(* small buffer.  A target that has been in its small buffer before and is *)
(* on the heap now must not get a small string by move, nor must one that  *)
(* was itself moved from.                                                  *)
(*                                                                         *)
(* Two defects of copy assignment are stated as such.  A copy on the heap  *)
(* takes over free_ with a block that has no free byte, so it is good for  *)
(* append exactly if the original had no free space.  And a target in its  *)
(* small buffer keeps its own text when the original is on the heap.       *)
(***************************************************************************)
Assignable(s) == Sane(s) /\ (s.m_sso \/ s.sso_buf = Zeros(SSO_SIZE + 1))

CopiesAsAsked ==
    Running => \A o \in Objects :
        LET s == str[o] IN
        /\ \A text \in Literals, do_sso \in BOOLEAN :
                LET literal == FromLiteral(text, do_sso)
                IN /\ IsString(literal, text)
                   /\ Assignable(s) \/ ~literal.m_sso => IsString(MoveAssigned(s, literal), text)
        /\ \A p \in Objects \ {o} :
            LET t == str[p]
                copy == CopyAssigned(s, t)
            IN
            Readable(t) =>
                /\ ~t.m_sso => IsString(CopyOf(t), TextOf(t))
                /\ IF t.m_sso THEN IsString(copy, TextOf(t))
                   ELSE IF s.m_sso THEN TextOf(copy) = TextOf(s)
                   ELSE Readable(copy) /\ TextOf(copy) = TextOf(t) /\ (Sane(copy) <=> t.srep.free = 0)
                /\ Sane(t) => IsString(MovedFrom(t), TextOf(t))
                /\ Sane(t) /\ (Assignable(s) \/ ~t.m_sso) =>
                        IsString(MoveAssigned(s, t), TextOf(t))
                /\ Readable(s) => (Equal(s, t) <=> TextOf(s) = TextOf(t))
=============================================================================
