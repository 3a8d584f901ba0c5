------------------------------- MODULE RushSale -------------------------------
(***************************************************************************)
(* The system: buyers at the Gate, API nodes that seed it, workers that    *)
(* drain it into the Ledger. Processes die, Postgres comes and goes, init  *)
(* locks expire; Redis keeps its data (module RedisLoss takes that away).  *)
(***************************************************************************)
EXTENDS Seeding, Drain

VARIABLE
    receipts  \* what buyers were told: the reservation id of a SUCCESS or ALREADY_PURCHASED

vars == <<gateVars, ledgerVars, seedingVars, drainVars, receipts>>

Receipt == [sale : Sales, buyer : Buyers, code : {"SUCCESS", "ALREADY_PURCHASED"}, id : Nat]

-------------------------------------------------------------------------------
\* A purchase of a known sale within its window reaches the Gate: the Lua script runs.
Buy(s, b) ==
    /\ s \in created
    /\ \/ /\ GateCode(s, b) = "SUCCESS"
          /\ \E i \in NewIds(s) :
               /\ Reserve(s, b, i)
               /\ receipts' = receipts \cup
                    {[sale |-> s, buyer |-> b, code |-> "SUCCESS", id |-> i]}
       \/ /\ GateCode(s, b) = "ALREADY_PURCHASED"
          /\ receipts' = receipts \cup
               {[sale |-> s, buyer |-> b, code |-> "ALREADY_PURCHASED", id |-> buyers[s][b]]}
          /\ UNCHANGED gateVars
       \/ /\ GateCode(s, b) \in {"NOT_READY", "SOLD_OUT"}
          /\ UNCHANGED <<gateVars, receipts>>
    /\ UNCHANGED <<ledgerVars, seedingVars, drainVars>>

Init ==
    /\ GateInit
    /\ LedgerInit
    /\ SeedingInit
    /\ DrainInit
    /\ receipts = {}

\* The steps of one component leave the others' state alone.
OfSeeding(A) == A /\ UNCHANGED <<drainVars, receipts>>
OfDrain(A) == A /\ UNCHANGED <<seedingVars, receipts>>
OfPostgres(A) == A /\ UNCHANGED <<gateVars, seedingVars, drainVars, receipts>>

Next ==
    \/ \E s \in Sales, b \in Buyers : Buy(s, b)
    \/ OfSeeding(SeedingNext)
    \/ OfDrain(DrainNext)
    \/ OfPostgres(PostgresStops \/ PostgresReturns)

Spec == Init /\ [][Next]_vars

\* A live worker's loop goes on; every REFRESH_MS it passes _refreshStreams, also when
\* there is always more to drain; and time passes for a pending entry.
Fairness ==
    /\ \A w \in Workers :
         /\ WF_vars(OfDrain(Drains(w)))
         /\ SF_vars(OfDrain(Refreshes(w)))
    /\ \A s \in Sales, b \in Buyers :
         WF_vars(OfDrain(\E e \in pel : e.sale = s /\ e.buyer = b /\ GoesStale(e)))

FairSpec == Spec /\ Fairness

-------------------------------------------------------------------------------
TypeOK ==
    /\ GateTypeOK /\ LedgerTypeOK /\ SeedingTypeOK /\ DrainTypeOK
    /\ receipts \subseteq Receipt

\* No Oversell: neither the Gate nor the Ledger ever counts more reservations of a sale
\* than its initial stock, whatever races with seeding or is delivered twice. It takes an init
\* lock that does its work: SeedWithinTTL, SeedHeard, ReleaseHeard.
NoOversell ==
    \A s \in Sales :
        /\ Cardinality(Holders(s)) <= InitialStock[s]
        /\ Cardinality(Rows(s)) <= InitialStock[s]

\* Units are neither lost nor made: what is left and what is held add up to the initial
\* stock from the moment the sale is seeded, whoever races to seed it. (Rows to rehydrate from
\* there are once Redis has lost something: module RedisLoss.)
StockConserved ==
    \A s \in Sales : stock[s] # NotSeeded =>
        stock[s] + Cardinality(Holders(s)) = InitialStock[s]

\* One-Per-User and idempotent retries: all a buyer is ever told about a sale, by a first
\* SUCCESS or by a retry's ALREADY_PURCHASED, is one and the same reservation id.
OneReservationPerBuyer ==
    \A q, r \in receipts : q.sale = r.sale /\ q.buyer = r.buyer => q.id = r.id

\* The Gate, the Ledger and the buyer agree: a live sale's hash knows every buyer with a
\* row or a receipt, under that row's or receipt's id.
GateKnowsEveryHolder ==
    \A r \in ledger \cup {[sale |-> q.sale, buyer |-> q.buyer, id |-> q.id] : q \in receipts} :
        stock[r.sale] # NotSeeded => buyers[r.sale][r.buyer] = r.id

\* XACK only after a successful Ledger write: an entry the group has delivered and no
\* longer holds as pending has its row.
AcknowledgedIsRecorded ==
    delivered \ pel \subseteq ledger

\* The lock does its work, as long as it neither expires under its holder nor is deleted by a
\* peer's DEL: two calls never seed one sale at the same time.
OneSeeder ==
    \A c, d \in Callers :
        SaleOf[c] = SaleOf[d] /\ at[c] \in UnderLock /\ at[d] \in UnderLock => c = d

\* An intact Gate is never clobbered: once seeded, a sale's stock counter only falls, by
\* one at a time and together with a new holder; a sold unit is never resurrected.
NeverClobbered ==
    [][\A s \in Sales : stock[s] # NotSeeded /\ stock'[s] # stock[s] =>
          /\ stock'[s] = stock[s] - 1
          /\ Cardinality(Holders(s)') = Cardinality(Holders(s)) + 1]_vars

-------------------------------------------------------------------------------
(* The inductive invariants behind the properties above. That buyers are   *)
(* told of one reservation takes a seed pipeline that runs whole; that     *)
(* stock is never exceeded takes a lock that outlives its holder, and a    *)
(* pipeline and a DEL that are sent once. Each part says no more than it   *)
(* needs.                                                                  *)

\* The rows a call has read are on record, and all there are as long as nobody has seeded
\* the sale; only a sale with stock is given buyers.
LoadedOnRecord ==
    \A c \in Callers :
        /\ loaded[c] \subseteq Rows(SaleOf[c])
        /\ at[c] = "seed" /\ stock[SaleOf[c]] = NotSeeded => loaded[c] = Rows(SaleOf[c])
        /\ at[c] = "hset" => stock[SaleOf[c]] # NotSeeded

\* Before it is seeded a sale has sold nothing but what an earlier life put on record.
NothingBeforeSeed ==
    \A s \in Sales : stock[s] = NotSeeded =>
        /\ \A b \in Buyers : buyers[s][b] = NoId
        /\ \A e \in stream : e.sale # s
        /\ Cardinality(Rows(s)) <= InitialStock[s]

\* Who is in the hash has a reservation, in the stream or on record.
HoldersReserved ==
    \A s \in Sales, b \in Buyers :
        buyers[s][b] # NoId => EntryOf(s, b, buyers[s][b]) \in stream \cup ledger

OneRowPerBuyer ==
    \A q, r \in ledger : q.sale = r.sale /\ q.buyer = r.buyer => q = r

\* What was delivered, and what a worker has in hand, came off a stream.
HandFromStream ==
    /\ delivered \subseteq stream
    /\ \A w \in Workers : hand[w] \subseteq stream /\ written[w] \subseteq stream

\* What holds whatever expires, gets lost or comes in between.
BaseInv ==
    /\ TypeOK
    /\ LoadedOnRecord
    /\ NothingBeforeSeed
    /\ HoldersReserved
    /\ OneRowPerBuyer
    /\ HandFromStream

\* Who has a reservation of a live sale is in its hash.
ReservedKnown ==
    \A e \in stream \cup ledger :
        stock[e.sale] # NotSeeded => buyers[e.sale][e.buyer] = e.id

\* PipelineWhole: the hash of a live sale is exactly the reservations there are.
HashInv ==
    /\ BaseInv
    /\ \A c \in Callers : at[c] # "hset"
    /\ ReservedKnown

ReceiptsHonoured ==
    \A q \in receipts : q.id # NoId /\ buyers[q.sale][q.buyer] = q.id

\* SeedWithinTTL, ReleaseHeard: a call past SET NX owns the lock.
LockHeld == \A c \in Callers : at[c] \in UnderLock => initLock[SaleOf[c]] = c

\* SeedHeard, too: until the call that owns the lock has seeded the sale, nobody has.
SeededOnce ==
    \A c \in Callers : at[c] \in {"load", "seed"} => stock[SaleOf[c]] = NotSeeded

Reserved(s) == {e \in stream \cup ledger : e.sale = s}

SoldWithinStock ==
    \A s \in Sales : stock[s] # NotSeeded =>
        stock[s] + Cardinality(Reserved(s)) <= InitialStock[s]

StockInv ==
    /\ BaseInv
    /\ LockHeld
    /\ SeededOnce
    /\ IsFiniteSet(stream)
    /\ SoldWithinStock

\* Without two streams sharing a millisecond, an id tells an entry from all others; then an
\* insert never mistakes one reservation for another, and what was acknowledged is on record.
IdsTellApart ==
    /\ \A e \in stream \cup ledger : e.id <= clock
    /\ \A e, f \in stream \cup ledger : e.id = f.id => e = f

WrittenIsRecorded == \A w \in Workers : written[w] \subseteq ledger

RecordInv ==
    /\ IdsTellApart
    /\ WrittenIsRecorded
    /\ AcknowledgedIsRecorded

\* On all four: Redis, Ledger and calls agree to the unit.
CoreInv == HashInv /\ LockHeld /\ SeededOnce /\ StockConserved

IndInv == CoreInv /\ StockInv /\ ReceiptsHonoured

-------------------------------------------------------------------------------
Alive(w) == wpc[w] # "down"

\* Workers come and go only for a while, at least one stays, and Postgres recovers.
Settles ==
    /\ <>[]pgUp
    /\ \A w \in Workers : <>[]Alive(w) \/ <>[]~Alive(w)
    /\ \E w \in Workers : <>[]Alive(w)

\* At least once, and no reservation is stranded: whatever crashed on the way, every
\* reservation the Gate granted reaches the Ledger under the id its buyer was given.
EveryReservationRecorded ==
    Settles => \A s \in Sales, b \in Buyers :
        buyers[s][b] # NoId ~> EntryOf(s, b, buyers[s][b]) \in ledger

\* A Postgres outage only stalls the drain (worker.service.ts:21-25): when it is over, a
\* worker that nobody killed goes on and records every reservation.
OutageOnlyStalls ==
    (<>[]pgUp /\ \E w \in Workers : <>Alive(w)) =>
        \A s \in Sales, b \in Buyers :
            buyers[s][b] # NoId ~> EntryOf(s, b, buyers[s][b]) \in ledger

\* The system keeps the promises of FlashSale: a reservation is handed out when it enters
\* the stream, and on record when its row is in the Ledger.
Promise == INSTANCE FlashSale WITH reserved <- stream \cup ledger, recorded <- ledger

KeepsPromise == Promise!Spec
===============================================================================
