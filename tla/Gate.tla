--------------------------------- MODULE Gate ---------------------------------
(***************************************************************************)
(* The Gate: the live Redis state of every sale, and the Lua script that   *)
(* decides a purchase in one indivisible step (redis/gate-lua.ts).         *)
(*                                                                         *)
(* Each sale owns the keys of saleKeys: a stock counter, the buyers hash   *)
(* and a reservation stream (the init lock belongs to module Seeding).     *)
(* The stream is only ever appended to, so it is the set of its entries,   *)
(* ordered by id.                                                          *)
(***************************************************************************)
EXTENDS Naturals, FiniteSets

CONSTANTS
    Sales,         \* sale ids
    Buyers,        \* buyer ids
    InitialStock,  \* InitialStock[s]: units the sale s starts with
    NotSeeded,     \* the stock key is absent
    DistinctMs     \* no two streams are appended to within one millisecond

ASSUME GateAssumption ==
    /\ IsFiniteSet(Buyers)
    /\ InitialStock \in [Sales -> Nat \ {0}]
    /\ NotSeeded \notin Nat
    /\ DistinctMs \in BOOLEAN

VARIABLES
    stock,   \* stock[s]: the stock counter of s, or NotSeeded
    buyers,  \* buyers[s][b]: the reservation id the hash holds for b, or NoId
    stream,  \* entries of all reservation streams
    lastId,  \* lastId[s]: the last id the stream of s generated
    clock    \* the greatest id any stream generated: Redis' clock never goes back

gateVars == <<stock, buyers, stream, lastId, clock>>

-------------------------------------------------------------------------------
(* Ids "ms-seq" are ordered, hence numbers; 0 stands for no id at all.     *)

NoId == 0

Entry == [sale : Sales, buyer : Buyers, id : Nat \ {NoId}]

EntryOf(s, b, i) == [sale |-> s, buyer |-> b, id |-> i]

\* The ids XADD '*' may generate on the stream of s: later than every id so far, or,
\* within one millisecond, an id that an entry of another stream already carries.
NewIds(s) ==
    {clock + 1} \cup
    {i \in {e.id : e \in {f \in stream : f.sale # s}} : ~DistinctMs /\ i > lastId[s]}

\* Who holds a reservation, as the Gate sees it.
Holders(s) == {b \in Buyers : buyers[s][b] # NoId}

\* The n entries of S with the smallest ids, for S within one stream.
Earliest(S, n) == {e \in S : Cardinality({f \in S : f.id < e.id}) < n}

-------------------------------------------------------------------------------
\* Slips of the script: no test of the stock, no test of the buyer, the two swapped.
GateCodeWithoutStock(s, b) ==
    IF stock[s] = NotSeeded THEN "NOT_READY"
    ELSE IF buyers[s][b] # NoId THEN "ALREADY_PURCHASED"
    ELSE "SUCCESS"

GateCodeWithoutBuyer(s, b) ==
    IF stock[s] = NotSeeded THEN "NOT_READY"
    ELSE IF stock[s] = 0 THEN "SOLD_OUT"
    ELSE "SUCCESS"

GateCodeStockFirst(s, b) ==
    IF stock[s] = NotSeeded THEN "NOT_READY"
    ELSE IF stock[s] = 0 THEN "SOLD_OUT"
    ELSE IF buyers[s][b] # NoId THEN "ALREADY_PURCHASED"
    ELSE "SUCCESS"

\* What the script answers, in the order it tests.
GateCode(s, b) ==
    IF stock[s] = NotSeeded THEN "NOT_READY"
    ELSE IF buyers[s][b] # NoId THEN "ALREADY_PURCHASED"
    ELSE IF stock[s] = 0 THEN "SOLD_OUT"
    ELSE "SUCCESS"

\* Slips: DECR missing, HSET missing.
ReserveWithoutDecr(s, b, i) ==
    /\ i \in NewIds(s)
    /\ stream' = stream \cup {EntryOf(s, b, i)}
    /\ lastId' = [lastId EXCEPT ![s] = i]
    /\ clock' = IF i > clock THEN i ELSE clock
    /\ buyers' = [buyers EXCEPT ![s][b] = i]
    /\ UNCHANGED stock

ReserveWithoutHset(s, b, i) ==
    /\ i \in NewIds(s)
    /\ stock' = [stock EXCEPT ![s] = @ - 1]
    /\ stream' = stream \cup {EntryOf(s, b, i)}
    /\ lastId' = [lastId EXCEPT ![s] = i]
    /\ clock' = IF i > clock THEN i ELSE clock
    /\ UNCHANGED buyers

\* DECR, XADD and HSET of a successful script run.
Reserve(s, b, i) ==
    /\ i \in NewIds(s)
    /\ stock' = [stock EXCEPT ![s] = @ - 1]
    /\ stream' = stream \cup {EntryOf(s, b, i)}
    /\ lastId' = [lastId EXCEPT ![s] = i]
    /\ clock' = IF i > clock THEN i ELSE clock
    /\ buyers' = [buyers EXCEPT ![s][b] = i]

\* The first command of the seed pipeline.
SetStock(s, n) == stock' = [stock EXCEPT ![s] = n]

\* A slip: the buyers' hash is not restored.
SetNoBuyers(s, rows) == UNCHANGED buyers

\* The second command of the seed pipeline: one hash field per row.
SetBuyers(s, rows) ==
    buyers' = [buyers EXCEPT ![s] =
        [b \in Buyers |-> IF \E r \in rows : r.buyer = b
                          THEN (CHOOSE r \in rows : r.buyer = b).id
                          ELSE @[b]]]

\* Redis without the keys of any sale.
GateInit ==
    /\ stock = [s \in Sales |-> NotSeeded]
    /\ buyers = [s \in Sales |-> [b \in Buyers |-> NoId]]
    /\ stream = {}
    /\ lastId = [s \in Sales |-> 0]

GateTypeOK ==
    /\ stock \in [Sales -> Nat \cup {NotSeeded}]
    /\ buyers \in [Sales -> [Buyers -> Nat]]
    /\ stream \subseteq Entry
    /\ lastId \in [Sales -> Nat]
    /\ clock \in Nat
===============================================================================
