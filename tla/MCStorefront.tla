----------------------------- MODULE MCStorefront -----------------------------
(* A small instance of Storefront for TLC. *)
EXTENDS Storefront, TLC

CONSTANTS s1, b1, b2

StockOfTwo == [s \in Sales |-> 2]
===============================================================================
