---------------------------- MODULE MCController ----------------------------
(* Instances of Controller for TLC. *)
EXTENDS Controller, TLC

CONSTANTS f1, n1, n2, n3, h1, h2, g1, g2, short, long

\* The two sums of a name: their sum passes the modulus of the instance, and
\* the first alone the length of its filter.
Sums == [f \in Name |-> 3]
Strides == [f \in Name |-> 1]

\* Two lines of different length, for as many chunks or not.
ManyTotals == [i \in Info |-> IF i = long THEN 2 ELSE 1]
Totals == [i \in Info |-> 1]
Lengths == [i \in Info |-> IF i = long THEN 2 ELSE 1]

Permute == Permutations(Node) \cup Permutations(Conn)
             \cup Permutations(Repairer)
=============================================================================
