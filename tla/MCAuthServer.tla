---------------------------- MODULE MCAuthServer ----------------------------
(***************************************************************************)
(* AuthServer for TLC: up to two connections and two names, each name with *)
(* a right and a wrong password, and the lengths that numbers may have.    *)
(***************************************************************************)
EXTENDS AuthServer, TLC

CONSTANTS c1, c2, n1, n2, p1, p2

MCPasswordOf == [n \in Names |-> IF n = n1 THEN p1 ELSE p2]

\* The lengths of the arrays, and those of arrays one byte short.
MCLengths == {FieldBytes - 1, FieldBytes, KeyBytes - 1, KeyBytes}

\* No number is short; or none or one of them is, by a byte; or K alone.
MCFull == {FullSizes}
MCShort ==
  MCFull \cup {[FullSizes EXCEPT ![x] = FullSizes[x] - 1] : x \in {"B", "S", "K", "M"}}
MCShortKey == MCFull \cup {[FullSizes EXCEPT !.K = KeyBytes - 1]}
MCShortClient == {FieldBytes - 1, FieldBytes}

\* Connections are interchangeable.
Symmetry == Permutations(Conns)
=============================================================================
