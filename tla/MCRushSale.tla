------------------------------ MODULE MCRushSale ------------------------------
(* Small instances of RushSale for TLC. *)
EXTENDS RushSale, TLC

CONSTANTS s1, s2, b1, b2, b3, c1, c2

\* Every caller seeds the first sale, or each its own.
OneSale == [c \in Callers |-> s1]
SaleEach == [c \in Callers |-> IF c = c1 THEN s1 ELSE s2]

StockOfOne == [s \in Sales |-> 1]
StockOfTwo == [s \in Sales |-> 2]

\* Nothing on record, or one buyer's reservation from an earlier life.
NoRows == {}
OneRow == {EntryOf(s1, b1, 1)}

\* Buyers may be exchanged only where no row names one.
Symmetric == Permutations(Callers) \cup Permutations(Workers) \cup Permutations(Buyers)

-------------------------------------------------------------------------------
\* The sale is open and seeded and nothing is sold: a system whose seeding is over.
LiveInit ==
    /\ stock = InitialStock
    /\ buyers = [s \in Sales |-> [b \in Buyers |-> NoId]]
    /\ stream = {}
    /\ lastId = [s \in Sales |-> 0]
    /\ clock = PriorClock
    /\ created = Sales
    /\ ledger = {}
    /\ pgUp = TRUE
    /\ SeedingInit
    /\ DrainInit
    /\ receipts = {}

LiveSpec == LiveInit /\ [][Next]_vars /\ Fairness

\* Nobody kills a worker; what a process does to itself stays.
Unkilled == \A w \in Workers : Alive(w) => Alive(w)' \/ RefreshThrows(w)

OutageSpec == LiveInit /\ [][Next /\ Unkilled]_vars /\ Fairness
===============================================================================
