------------------------------ MODULE MCRecovery ------------------------------
(* A small instance of Recovery for TLC. *)
EXTENDS Recovery, TLC

CONSTANTS s1, s2, b1, n1, n2, p1, p2, q1

AllCallers == (Passes \cup Posts) \X Sales
SaleOfCaller == [c \in AllCallers |-> c[2]]
\* A pass for each node, and a post on the first.
JobNode == [j \in Passes \cup Posts |-> IF j \in {p1, q1} THEN n1 ELSE n2]
StockOfTwo == [s \in Sales |-> 2]
OneRow == {EntryOf(s1, b1, 1)}
===============================================================================
