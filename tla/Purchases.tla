------------------------------- MODULE Purchases -------------------------------
(***************************************************************************)
(* The purchase path of the API nodes: POST /sales/:id/purchases from the  *)
(* look-up of the sale in the node's caches (sales.service.ts), past the   *)
(* check of the sale window (purchases.service.ts), to the Gate and back   *)
(* (gate.ts). Every await separates two actions.                           *)
(*                                                                         *)
(* Each node caches the config of the sales it knows for good, and for a   *)
(* while the ids it did not find. The Gate is seeded in one step here;     *)
(* how that comes about is the subject of module Seeding.                  *)
(***************************************************************************)
EXTENDS Gate, BoundedTtlSet

CONSTANTS
    Nodes,     \* API processes
    Calls,     \* slots for purchase requests being served
    Created,   \* the ids sales are created under; the others are only asked for
    Windows,   \* the windows [startsAt, endsAt] a sale may be created with
    NoSale,    \* no such row, no such cache entry
    NoCall,    \* a free slot
    Horizon,   \* bound: the clock stops here
    MaxDeaths  \* bound on restarts of nodes

ASSUME PurchasesAssumption ==
    /\ \A x \in Windows : x.startsAt \in Nat /\ x.endsAt \in Nat
    /\ NoSale \notin Windows
    /\ Created \subseteq Sales
    /\ Horizon \in Nat /\ MaxDeaths \in Nat

VARIABLES
    now,       \* the time, the same for all nodes
    table,     \* table[s]: the window in the sales table, or NoSale
    cache,     \* cache[n][s]: the window node n has cached (_cache), or NoSale
    unknown,   \* unknown[n]: the ids node n did not find (_unknownSales)
    creating,  \* <<n, s>>: node n has inserted s and not read it back
    call,      \* call[c]: the request in slot c
    answer,    \* the answer the last step gave, or NoCall
    made,      \* for each reservation, when its request was let in and when it was made
    deaths     \* restarts so far

tableVars == <<table, creating>>
nodeVars == <<cache, unknown>>
purchaseVars == <<now, tableVars, nodeVars, call, answer, made, deaths, gateVars>>

-------------------------------------------------------------------------------
Status(window, t) ==
    IF t < window.startsAt THEN "UPCOMING"
    ELSE IF t >= window.endsAt THEN "ENDED"
    ELSE "ACTIVE"

\* An answer names the request, what it was told and, where it has one, its reservation.
Answer(n, s, b, code, id) == [node |-> n, sale |-> s, buyer |-> b, code |-> code, id |-> id]

\* A request at an await: for the row of its sale (`found'), for the script to run (let in
\* at `checked'), or for the script's reply (`code', `id').
Request(at, n, s, b, found, checked) ==
    [at |-> at, node |-> n, sale |-> s, buyer |-> b,
     found |-> found, checked |-> checked, code |-> "NOT_FOUND", id |-> NoId]

\* A step that answers no request.
Silent == answer' = NoCall

Frees(c) == call' = [call EXCEPT ![c] = NoCall]

\* Past getSale: a sale outside of its window is answered here, any other goes to the Gate.
CheckWindow(c, n, s, b, window) ==
    IF Status(window, now) = "ACTIVE"
    THEN /\ call' = [call EXCEPT ![c] = Request("gate", n, s, b, NoSale, now)]
         /\ Silent
    ELSE /\ Frees(c)
         /\ answer' = Answer(n, s, b, Status(window, now), NoId)

\* A slip: the unknown ids are consulted ahead of the cache.
LookUpUnknownFirst(c, n, s, b) ==
    /\ call[c] = NoCall
    /\ \/ /\ ~Has(unknown[n], s) /\ cache[n][s] # NoSale
          /\ CheckWindow(c, n, s, b, cache[n][s])
          /\ UNCHANGED unknown
       \/ /\ Has(unknown[n], s)
          /\ answer' = Answer(n, s, b, "NOT_FOUND", NoId)
          /\ UNCHANGED <<call, unknown>>
       \/ /\ cache[n][s] = NoSale /\ ~Has(unknown[n], s)
          /\ unknown' = [unknown EXCEPT ![n] = AfterHas(@, s)]
          /\ call' = [call EXCEPT ![c] = Request("row", n, s, b, table[s], 0)]
          /\ Silent
    /\ UNCHANGED <<now, tableVars, cache, made, deaths, gateVars>>

\* A slip: a request that hits an unknown id keeps the id unknown for longer.
LookUpRenews(c, n, s, b) ==
    /\ call[c] = NoCall
    /\ \/ /\ cache[n][s] # NoSale
          /\ CheckWindow(c, n, s, b, cache[n][s])
          /\ UNCHANGED unknown
       \/ /\ cache[n][s] = NoSale /\ Has(unknown[n], s)
          /\ unknown' = [unknown EXCEPT ![n] = Add(@, s)]
          /\ answer' = Answer(n, s, b, "NOT_FOUND", NoId)
          /\ UNCHANGED call
       \/ /\ cache[n][s] = NoSale /\ ~Has(unknown[n], s)
          /\ unknown' = [unknown EXCEPT ![n] = AfterHas(@, s)]
          /\ call' = [call EXCEPT ![c] = Request("row", n, s, b, table[s], 0)]
          /\ Silent
    /\ UNCHANGED <<now, tableVars, cache, made, deaths, gateVars>>

\* getSale: the cache, then the unknown ids, then a query, which reads the row as of now.
LookUp(c, n, s, b) ==
    /\ call[c] = NoCall
    /\ \/ /\ cache[n][s] # NoSale
          /\ CheckWindow(c, n, s, b, cache[n][s])
          /\ UNCHANGED unknown
       \/ /\ cache[n][s] = NoSale /\ Has(unknown[n], s)
          /\ answer' = Answer(n, s, b, "NOT_FOUND", NoId)
          /\ UNCHANGED <<call, unknown>>
       \/ /\ cache[n][s] = NoSale /\ ~Has(unknown[n], s)
          /\ unknown' = [unknown EXCEPT ![n] = AfterHas(@, s)]
          /\ call' = [call EXCEPT ![c] = Request("row", n, s, b, table[s], 0)]
          /\ Silent
    /\ UNCHANGED <<now, tableVars, cache, made, deaths, gateVars>>

\* The query's result reaches the node.
RowArrives(c) ==
    /\ call[c] # NoCall /\ call[c].at = "row"
    /\ LET n == call[c].node  s == call[c].sale  b == call[c].buyer
       IN  \/ /\ call[c].found = NoSale
              /\ unknown' = [unknown EXCEPT ![n] = Add(@, s)]
              /\ answer' = Answer(n, s, b, "NOT_FOUND", NoId)
              /\ Frees(c)
              /\ UNCHANGED cache
           \/ /\ call[c].found # NoSale
              /\ cache' = [cache EXCEPT ![n][s] = call[c].found]
              /\ CheckWindow(c, n, s, b, call[c].found)
              /\ UNCHANGED unknown
    /\ UNCHANGED <<now, tableVars, made, deaths, gateVars>>

\* The query fails, and with it the request, as a 500: nothing is cached, nor is the id
\* remembered as unknown.
QueryFails(c) ==
    /\ call[c] # NoCall /\ call[c].at = "row"
    /\ Frees(c)
    /\ Silent
    /\ UNCHANGED <<now, tableVars, nodeVars, made, deaths, gateVars>>

\* The script runs, and its reply is on the way.
RunsScript(c) ==
    /\ call[c] # NoCall /\ call[c].at = "gate"
    /\ LET s == call[c].sale  b == call[c].buyer
           reply(id) == call' = [call EXCEPT ![c] =
                          [@ EXCEPT !.at = "reply", !.code = GateCode(s, b), !.id = id]]
       IN  \/ /\ GateCode(s, b) = "SUCCESS"
              /\ \E i \in NewIds(s) : Reserve(s, b, i) /\ reply(i)
              /\ made' = made \cup
                   {[sale |-> s, buyer |-> b, checked |-> call[c].checked, at |-> now]}
           \/ /\ GateCode(s, b) # "SUCCESS"
              /\ reply(buyers[s][b])
              /\ UNCHANGED <<made, gateVars>>
    /\ Silent
    /\ UNCHANGED <<now, tableVars, nodeVars, deaths>>

\* The connection drops before the reply: the client reconnects and sends the command again.
Resends(c) ==
    /\ call[c] # NoCall /\ call[c].at = "reply"
    /\ call' = [call EXCEPT ![c] = [@ EXCEPT !.at = "gate", !.code = "NOT_FOUND", !.id = NoId]]
    /\ Silent
    /\ UNCHANGED <<now, tableVars, nodeVars, made, deaths, gateVars>>

Answers(c) ==
    /\ call[c] # NoCall /\ call[c].at = "reply"
    /\ answer' = Answer(call[c].node, call[c].sale, call[c].buyer, call[c].code, call[c].id)
    /\ Frees(c)
    /\ UNCHANGED <<now, tableVars, nodeVars, made, deaths, gateVars>>

-------------------------------------------------------------------------------
\* A slip: the insert overwrites the row of a sale that exists.
CreateSaleUpserts(n, s, window) ==
    /\ table' = [table EXCEPT ![s] = window]
    /\ creating' = creating \cup {<<n, s>>}
    /\ Silent
    /\ UNCHANGED <<now, nodeVars, call, made, deaths, gateVars>>

\* createSale: the insert does nothing when another node was first, ...
CreateSale(n, s, window) ==
    /\ table' = [table EXCEPT ![s] = IF @ = NoSale THEN window ELSE @]
    /\ creating' = creating \cup {<<n, s>>}
    /\ Silent
    /\ UNCHANGED <<now, nodeVars, call, made, deaths, gateVars>>

\* ... and the row read back, not the input, is cached.
SaleLoaded(n, s) ==
    /\ <<n, s>> \in creating
    /\ creating' = creating \ {<<n, s>>}
    /\ cache' = [cache EXCEPT ![n][s] = table[s]]
    /\ Silent
    /\ UNCHANGED <<now, table, unknown, call, made, deaths, gateVars>>

\* rehydrateAll, on boot or on a reconnect, caches each sale it seeds.
Rehydrated(n, s) ==
    /\ table[s] # NoSale
    /\ cache' = [cache EXCEPT ![n][s] = table[s]]
    /\ Silent
    /\ UNCHANGED <<now, tableVars, unknown, call, made, deaths, gateVars>>

\* Some node has seeded the sale.
Seeded(s) ==
    /\ table[s] # NoSale /\ stock[s] = NotSeeded
    /\ SetStock(s, InitialStock[s])
    /\ UNCHANGED <<buyers, stream, lastId, clock>>
    /\ Silent
    /\ UNCHANGED <<now, tableVars, nodeVars, call, made, deaths>>

\* A node dies and starts again: its caches and the requests it served are gone.
NodeRestarts(n) ==
    /\ deaths < MaxDeaths
    /\ deaths' = deaths + 1
    /\ cache' = [cache EXCEPT ![n] = [s \in Sales |-> NoSale]]
    /\ unknown' = [unknown EXCEPT ![n] = Empty]
    /\ creating' = {x \in creating : x[1] # n}
    /\ call' = [c \in Calls |-> IF call[c] # NoCall /\ call[c].node = n THEN NoCall ELSE call[c]]
    /\ Silent
    /\ UNCHANGED <<now, table, made, gateVars>>

Tick ==
    /\ now' = IF now < Horizon THEN now + 1 ELSE now
    /\ unknown' = [n \in Nodes |-> Aged(unknown[n])]
    /\ Silent
    /\ UNCHANGED <<tableVars, cache, call, made, deaths, gateVars>>

-------------------------------------------------------------------------------
PurchasesInit ==
    /\ GateInit
    /\ clock = 0
    /\ now = 0
    /\ table = [s \in Sales |-> NoSale]
    /\ cache = [n \in Nodes |-> [s \in Sales |-> NoSale]]
    /\ unknown = [n \in Nodes |-> Empty]
    /\ creating = {}
    /\ call = [c \in Calls |-> NoCall]
    /\ answer = NoCall
    /\ made = {}
    /\ deaths = 0

PurchasesNext ==
    \/ \E c \in Calls, n \in Nodes, s \in Sales, b \in Buyers : LookUp(c, n, s, b)
    \/ \E c \in Calls :
         RowArrives(c) \/ QueryFails(c) \/ RunsScript(c) \/ Resends(c) \/ Answers(c)
    \/ \E n \in Nodes, s \in Sales :
         SaleLoaded(n, s) \/ Rehydrated(n, s)
    \/ \E n \in Nodes, s \in Created, x \in Windows : CreateSale(n, s, x)
    \/ \E s \in Sales : Seeded(s)
    \/ \E n \in Nodes : NodeRestarts(n)
    \/ Tick

PurchasesSpec == PurchasesInit /\ [][PurchasesNext]_purchaseVars

\* A query of node n for sale s comes back with a result.
Answered(n, s) ==
    \E c \in Calls : /\ call[c] # NoCall /\ call[c].node = n /\ call[c].sale = s
                     /\ RowArrives(c)

\* Time passes, every query comes to an end, buyers keep asking every node for every sale,
\* and the queries this takes do not fail for ever.
PurchasesFairness ==
    /\ WF_purchaseVars(Tick)
    /\ \A c \in Calls :
         /\ WF_purchaseVars(RowArrives(c) \/ QueryFails(c) \/ RunsScript(c))
         /\ SF_purchaseVars(Answers(c))
    /\ \A n \in Nodes, s \in Sales :
         /\ SF_purchaseVars(\E c \in Calls, b \in Buyers : LookUp(c, n, s, b))
         /\ SF_purchaseVars(Answered(n, s))

FairPurchasesSpec == PurchasesSpec /\ PurchasesFairness

-------------------------------------------------------------------------------
Codes == {"NOT_FOUND", "UPCOMING", "ENDED", "NOT_READY", "ALREADY_PURCHASED", "SOLD_OUT", "SUCCESS"}

CallType ==
    [at : {"row", "gate", "reply"}, node : Nodes, sale : Sales, buyer : Buyers,
     found : Windows \cup {NoSale}, checked : 0 .. Horizon, code : Codes, id : Nat]

AnswerType == [node : Nodes, sale : Sales, buyer : Buyers, code : Codes, id : Nat]

PurchasesTypeOK ==
    /\ GateTypeOK
    /\ now \in 0 .. Horizon
    /\ table \in [Sales -> Windows \cup {NoSale}]
    /\ cache \in [Nodes -> [Sales -> Windows \cup {NoSale}]]
    /\ unknown \in [Nodes -> Seq(TtlEntry(Sales))]
    /\ creating \subseteq Nodes \X Sales
    /\ call \in [Calls -> CallType \cup {NoCall}]
    /\ answer \in AnswerType \cup {NoCall}
    /\ made \subseteq [sale : Sales, buyer : Buyers, checked : 0 .. Horizon, at : 0 .. Horizon]
    /\ deaths \in 0 .. MaxDeaths

\* Nothing is sold ahead of its sale's start by any node, nor after its end, but to a
\* request that was let in before the end and was still on its way to the Gate; although
\* each node goes by the config it has cached, and nodes may create a sale concurrently
\* with different windows.
SoldInWindow ==
    \A m \in made :
        /\ table[m.sale] # NoSale
        /\ Status(table[m.sale], m.checked) = "ACTIVE"
        /\ m.checked <= m.at

\* What r, an answer or a request on its way, says of its buyer's reservation is so.
Truly(r) ==
    /\ r.code = "SOLD_OUT" => buyers[r.sale][r.buyer] = NoId /\ stock[r.sale] = 0
    /\ r.code \in {"SUCCESS", "ALREADY_PURCHASED"} =>
         r.id # NoId /\ r.id = buyers[r.sale][r.buyer]

\* A buyer is never turned away from a sale in which they hold a reservation: not by a
\* SUCCESS whose reply was lost and whose command was sent again, and not by losing a race
\* with themselves. SOLD_OUT is final, ALREADY_PURCHASED comes with the one reservation id.
AnsweredTruly ==
    \A r \in {answer} \cup {call[c] : c \in Calls} : r # NoCall => Truly(r)

\* The memory a flood of unknown ids takes is bounded, and what it pushes out is what was
\* about to expire anyway (bounded-ttl-set.ts:4-9).
UnknownBounded == \A n \in Nodes : Sound(unknown[n])

\* A node that has a sale cached never answers a later request with 404
\* (sales.service.ts:21-26, "a local create wins immediately"): only one whose query read
\* the table before the sale was there still gets its 404.
LocalCreateWins ==
    [][\A n \in Nodes, s \in Sales :
          cache[n][s] # NoSale /\ answer' # NoCall
            /\ answer'.node = n /\ answer'.sale = s /\ answer'.code = "NOT_FOUND" =>
          \E c \in Calls : /\ call[c] # NoCall /\ call'[c] = NoCall
                           /\ call[c].at = "row" /\ call[c].found = NoSale]_purchaseVars

\* A row never changes: what a node caches, or a query has read, is what is there.
CachedIsOnRecord == \A n \in Nodes, s \in Sales : cache[n][s] \in {NoSale, table[s]}

\* A request was let in by the sale's own window, and only the Gate answers it from then on.
Backed(r) ==
    /\ r.found \in {NoSale, table[r.sale]}
    /\ r.at # "row" =>
         /\ table[r.sale] # NoSale
         /\ Status(table[r.sale], r.checked) = "ACTIVE"
         /\ r.checked <= now
    /\ IF r.at = "reply"
       THEN r.code \in {"NOT_READY", "ALREADY_PURCHASED", "SOLD_OUT", "SUCCESS"}
       ELSE r.code = "NOT_FOUND"

\* The inductive invariant behind the properties above.
PurchasesInv ==
    /\ PurchasesTypeOK
    /\ UnknownBounded
    /\ CachedIsOnRecord
    /\ \A c \in Calls : call[c] # NoCall => Backed(call[c])
    /\ SoldInWindow
    /\ AnsweredTruly

\* A sale created on one node becomes known to every node that is asked for it: a stale
\* "unknown" is not kept alive by the requests that hit it (sales.service.ts:22-25).
BecomesKnown ==
    \A n \in Nodes, s \in Sales : table[s] # NoSale ~> cache[n][s] # NoSale
===============================================================================
