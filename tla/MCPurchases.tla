------------------------------ MODULE MCPurchases -----------------------------
(* Small instances of Purchases for TLC. *)
EXTENDS Purchases, TLC

CONSTANTS s1, s2, s3, b1, b2, n1, n2

OneUnit == [s \in Sales |-> 1]

\* Two windows that only overlap in part; a window that the clock of a run never reaches.
EarlyOrLate == {[startsAt |-> 0, endsAt |-> 2], [startsAt |-> 1, endsAt |-> 3]}
Upcoming == {[startsAt |-> 1, endsAt |-> 2]}

Symmetric == Permutations(Nodes) \cup Permutations(Buyers) \cup Permutations(Calls)
             \cup Permutations(Sales)
===============================================================================
