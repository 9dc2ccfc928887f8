---------------------------- MODULE MCContinuum ----------------------------
(* Four addresses, b1 and b2 on one host, on a ring of 16 points.           *)
EXTENDS Continuum

CONSTANTS a, b1, b2, c

FourAddrs == {a, b1, b2, c}
MCIp(x) == CASE x = a -> 1 [] x \in {b1, b2} -> 2 [] x = c -> 3

Ring == 0 .. 15
Place == [x \in FourAddrs |-> CASE x = a -> <<1, 14, 9>> [] x = b1 -> <<6, 3, 11>>
                                [] x = b2 -> <<12, 5, 0>> [] x = c -> <<8, 2, 13>>]
MCHash(x, i) == Place[x][i + 1]

S(x, m) == [addr |-> x, mem |-> m]
Files == {<<>>, <<S(c, 1), S(a, 3)>>, <<S(b2, 2), S(b1, 2), S(a, 1)>>}
Sizes == {2}

\* Three points and no limit to the servers, for 70000; one point, for 257.
Properties == {[servers |-> 70000, points |-> 3], [servers |-> Missing, points |-> 257]}

\* Which floats lose a point: 41 servers are the fewest for which all shares
\* are rounded to less than one.
ASSUME FortyOne ==
    {n \in 1 .. 50 : Floor(Times(Over(Float(1), Float(n)), Float(n))) = 0} = {41, 47}
=============================================================================
