------------------------------ MODULE Floats ------------------------------
(***************************************************************************)
(* Numbers of type float that are not negative, as add_points_to_continuum *)
(* computes with them: IEEE single precision, every result rounded to the  *)
(* nearest number of 24 bits, and to the even one of two that are as near. *)
(* [man, exp] is man / 2^exp.  Exponents have no limits: what is computed  *)
(* here stays far from those of the type.                                  *)
(***************************************************************************)
EXTENDS Integers

\* The integer nearest to n / d.
NearestInt(n, d) ==
    LET q == n \div d
        r == n % d
    IN IF 2 * r > d \/ (2 * r = d /\ q % 2 = 1) THEN q + 1 ELSE q

\* The place of the highest bit of n.
HighBit(n) == CHOOSE b \in 0 .. 127 : n \div 2 ^ b = 1

\* n / 2^e, rounded.
Rounded(n, e) ==
    LET s == HighBit(n) - 23
    IN IF n < 2 ^ 24 THEN [man |-> n, exp |-> e]
       ELSE [man |-> NearestInt(n, 2 ^ s), exp |-> e - s]

\* (float) n
Float(n) == Rounded(n, 0)

Times(x, y) == Rounded(x.man * y.man, x.exp + y.exp)

\* x / y: shifted until there are 24 bits.
Over(x, y) ==
    LET Quotient(k) == (x.man * 2 ^ k) \div y.man
        shift == CHOOSE k \in 0 .. 47 : /\ Quotient(k) >= 2 ^ 23
                                        /\ k > 0 => Quotient(k - 1) < 2 ^ 23
    IN IF x.man = 0 THEN x
       ELSE [man |-> NearestInt(x.man * 2 ^ shift, y.man), exp |-> x.exp - y.exp + shift]

\* floorf
Floor(x) == IF x.exp >= 0 THEN x.man \div 2 ^ x.exp ELSE x.man * 2 ^ (0 - x.exp)
=============================================================================
