----------------------------- MODULE MCRedisLoss ------------------------------
(* Small instances of RedisLoss for TLC. *)
EXTENDS RedisLoss, TLC

CONSTANTS s1, s2, b1, b2, b3, c1, c2

OneSale == [c \in Callers |-> s1]
StockOfOne == [s \in Sales |-> 1]
StockOfTwo == [s \in Sales |-> 2]
NoRows == {}
OneRow == {EntryOf(s1, b1, 1)}
\* The buyer of OneRow is not like the others.
Symmetric == Permutations(Callers) \cup Permutations(Workers) \cup Permutations(Buyers \ {b1})
\* What buyers were told guards no step and, its type aside, no property of these runs: states
\* that differ in nothing else are one.
WithoutReceipts == <<gateVars, ledgerVars, seedingVars, drainVars, aof, losses, outlived,
                     forgotten>>
===============================================================================
