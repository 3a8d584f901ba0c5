---------------------------- MODULE RushSaleProofs ----------------------------
(***************************************************************************)
(* Theorems about RushSale, for every set of sales, buyers, callers and    *)
(* workers and every initial stock.                                        *)
(***************************************************************************)
EXTENDS RushSale, SeedingProofs

-------------------------------------------------------------------------------
(* What a step of each component does to the state the others read.        *)

\* A successful run of the script leaves a reservation behind under a positive id that no
\* earlier entry of the stream can carry.
LEMMA SuccessfulBuy ==
    ASSUME TypeOK, NEW s \in Sales, NEW b \in Buyers, Buy(s, b), GateCode(s, b) = "SUCCESS"
    PROVE  /\ stock[s] \in Nat \ {0}
           /\ buyers[s][b] = NoId
           /\ \E i \in NewIds(s) :
                /\ i \in Nat \ {NoId}
                /\ Reserve(s, b, i)
                /\ receipts' = receipts \cup
                     {[sale |-> s, buyer |-> b, code |-> "SUCCESS", id |-> i]}
<1>1. stock[s] \in Nat \ {0} /\ buyers[s][b] = NoId
  BY DEF GateCode, TypeOK, GateTypeOK
<1>2. \A i \in NewIds(s) : i \in Nat \ {NoId}
  BY DEF NewIds, TypeOK, GateTypeOK, Entry, NoId
<1>. QED  BY <1>1, <1>2 DEF Buy

\* A purchase touches the Gate and the receipts; an unsuccessful one only the receipts.
LEMMA BuyFrame ==
    ASSUME NEW s \in Sales, NEW b \in Buyers, Buy(s, b)
    PROVE  /\ UNCHANGED <<ledgerVars, seedingVars, drainVars>>
           /\ GateCode(s, b) # "SUCCESS" => UNCHANGED gateVars
           /\ \A r \in receipts' \ receipts :
                GateCode(s, b) # "SUCCESS" =>
                  /\ GateCode(s, b) = "ALREADY_PURCHASED"
                  /\ r = [sale |-> s, buyer |-> b, code |-> "ALREADY_PURCHASED",
                          id |-> buyers[s][b]]
           /\ receipts \subseteq receipts'
BY DEF Buy, gateVars

\* A seeding call writes stock and hash with its pipeline only.
LEMMA SeedingFrame ==
    ASSUME OfSeeding(SeedingNext)
    PROVE  /\ UNCHANGED <<stream, lastId, clock, ledger, pgUp, drainVars, receipts>>
           /\ \/ UNCHANGED <<stock, buyers>>
              \/ \E c \in Callers : Seed(c) \/ SeedBuyers(c) \/ SeedUnheard(c)
BY DEF OfSeeding, SeedingNext, AsksRedis, GoesUnheard, InsertSale, Rehydrate,
       AcquireInitLock, AcquireUnheard, SkipSeed, IsSeeded, LoadReservationState, LoadFails,
       Seed, SeedUnheard, SeedBuyers, ReleaseInitLock, ReleaseUnheard, CallersDie,
       LockExpires, gateVars, ledgerVars

\* The worker never writes the Gate, and the Ledger only by inserting what it has in hand.
LEMMA DrainFrame ==
    ASSUME OfDrain(DrainNext)
    PROVE  /\ UNCHANGED <<gateVars, seedingVars, receipts, created, pgUp>>
           /\ UNCHANGED ledger \/ \E w \in Workers : \E e \in hand[w] : Persist(w, e)
BY DEF OfDrain, DrainNext, Drains, Refreshes, WorkerStarts, WorkerDies, RefreshStreams,
       RefreshThrows, StartDrain, ReadBatch, NoGroup, ReclaimStale, Persist, PersistThrows,
       Acknowledge, GoesStale, ledgerVars

-------------------------------------------------------------------------------
(* Type correctness.                                                       *)

LEMMA InitTypeOK == Init => TypeOK
<1>. SUFFICES ASSUME Init PROVE TypeOK
  OBVIOUS
<1>1. GateTypeOK
  BY LedgerAssumption DEF Init, GateInit, LedgerInit, GateTypeOK, NoId
<1>2. LedgerTypeOK
  BY LedgerAssumption DEF Init, LedgerInit, LedgerTypeOK, Entry
<1>3. SeedingTypeOK
  BY FS_EmptySet DEF Init, SeedingInit, SeedingTypeOK, Awaits
<1>4. DrainTypeOK
  BY DEF Init, DrainInit, DrainTypeOK, WorkerPoints
<1>. QED  BY <1>1, <1>2, <1>3, <1>4 DEF Init, TypeOK

LEMMA BuyTypeOK ==
    ASSUME TypeOK, NEW s \in Sales, NEW b \in Buyers, Buy(s, b)
    PROVE  TypeOK'
<1>1. LedgerTypeOK' /\ SeedingTypeOK' /\ DrainTypeOK'
  BY BuyFrame DEF TypeOK, LedgerTypeOK, SeedingTypeOK, DrainTypeOK, ledgerVars, seedingVars,
                  drainVars, groupVars, workerVars
<1>2. CASE GateCode(s, b) = "SUCCESS"
  <2>1. PICK i \in NewIds(s) :
             /\ i \in Nat \ {NoId}
             /\ Reserve(s, b, i)
             /\ receipts' = receipts \cup
                  {[sale |-> s, buyer |-> b, code |-> "SUCCESS", id |-> i]}
    BY <1>2, SuccessfulBuy
  <2>2. stock[s] - 1 \in Nat
    BY <1>2, SuccessfulBuy
  <2>3. GateTypeOK'
    BY <2>1, <2>2 DEF TypeOK, GateTypeOK, Reserve, EntryOf, Entry
  <2>4. receipts' \subseteq Receipt
    BY <2>1 DEF TypeOK, Receipt
  <2>. QED  BY <1>1, <2>3, <2>4 DEF TypeOK
<1>3. CASE GateCode(s, b) # "SUCCESS"
  <2>1. GateTypeOK'
    BY <1>3, BuyFrame DEF TypeOK, GateTypeOK, gateVars
  <2>2. receipts' \subseteq Receipt
    BY <1>3, BuyFrame DEF TypeOK, GateTypeOK, Receipt
  <2>. QED  BY <1>1, <2>1, <2>2 DEF TypeOK
<1>. QED  BY <1>2, <1>3

LEMMA SeedingTypeStep ==
    ASSUME TypeOK, OfSeeding(SeedingNext)
    PROVE  TypeOK'
<1>1. GateTypeOK' /\ LedgerTypeOK' /\ SeedingTypeOK'
  BY SeedingKeepsTypes DEF TypeOK, OfSeeding
<1>2. DrainTypeOK' /\ receipts' \subseteq Receipt
  BY SeedingFrame DEF TypeOK, DrainTypeOK, drainVars, groupVars, workerVars
<1>. QED  BY <1>1, <1>2 DEF TypeOK

LEMMA DrainTypeStep ==
    ASSUME TypeOK, OfDrain(DrainNext)
    PROVE  TypeOK'
<1>1. UNCHANGED <<gateVars, seedingVars, receipts, created, pgUp>>
  BY DrainFrame
<1>2. ledger' \subseteq Entry /\ IsFiniteSet(ledger')
  BY DrainFrame, FS_AddElement DEF TypeOK, LedgerTypeOK, DrainTypeOK, Persist, InsertRow
<1>3. DrainTypeOK'
  <2>. USE DEF TypeOK, GateTypeOK, LedgerTypeOK, DrainTypeOK, WorkerPoints
  <2>1. ASSUME NEW w \in Workers, WorkerStarts(w) \/ StartDrain(w)
        PROVE  DrainTypeOK'
    BY <2>1 DEF WorkerStarts, StartDrain, groupVars
  <2>2. ASSUME NEW w \in Workers, WorkerDies(w) \/ RefreshThrows(w)
        PROVE  DrainTypeOK'
    BY <2>2 DEF WorkerDies, RefreshThrows, Dies, groupVars
  <2>3. ASSUME NEW w \in Workers, RefreshStreams(w)
        PROVE  DrainTypeOK'
    BY <2>3 DEF RefreshStreams
  <2>4. ASSUME NEW w \in Workers, NoGroup(w) \/ PersistThrows(w)
        PROVE  DrainTypeOK'
    BY <2>4 DEF NoGroup, PersistThrows, BacksOff, groupVars
  <2>5. ASSUME NEW w \in Workers, NEW s \in Sales, ReclaimStale(w, s)
        PROVE  DrainTypeOK'
    BY <2>5 DEF ReclaimStale, Earliest
  <2>6. ASSUME NEW w \in Workers, ReadBatch(w)
        PROVE  DrainTypeOK'
    <3>. DEFINE got == UNION {Handed(s) : s \in streams[w]}
    <3>1. got \subseteq Entry
      BY DEF Handed, Earliest
    <3>. HIDE DEF got
    <3>. QED  BY <2>6, <3>1 DEF ReadBatch, got
  <2>7. ASSUME NEW w \in Workers, NEW e \in hand[w], Persist(w, e)
        PROVE  DrainTypeOK'
    BY <2>7 DEF Persist, groupVars
  <2>8. ASSUME NEW w \in Workers, Acknowledge(w)
        PROVE  DrainTypeOK'
    BY <2>8 DEF Acknowledge
  <2>9. ASSUME NEW e \in pel, GoesStale(e)
        PROVE  DrainTypeOK'
    BY <2>9 DEF GoesStale, workerVars
  <2>. QED
    BY <2>1, <2>2, <2>3, <2>4, <2>5, <2>6, <2>7, <2>8, <2>9
       DEF OfDrain, DrainNext, Drains, Refreshes
<1>. QED
  BY <1>1, <1>2, <1>3 DEF TypeOK, GateTypeOK, LedgerTypeOK, SeedingTypeOK, gateVars, seedingVars

LEMMA PostgresStep ==
    ASSUME OfPostgres(PostgresStops \/ PostgresReturns)
    PROVE  /\ UNCHANGED <<gateVars, created, ledger, seedingVars, drainVars, receipts>>
           /\ pgUp' \in BOOLEAN
BY DEF OfPostgres, PostgresStops, PostgresReturns

LEMMA TypeStep == TypeOK /\ [Next]_vars => TypeOK'
<1>. SUFFICES ASSUME TypeOK, [Next]_vars PROVE TypeOK'
  OBVIOUS
<1>1. CASE OfPostgres(PostgresStops \/ PostgresReturns)
  BY <1>1, PostgresStep DEF TypeOK, GateTypeOK, LedgerTypeOK, SeedingTypeOK, DrainTypeOK,
     gateVars, seedingVars, drainVars, groupVars, workerVars
<1>2. CASE UNCHANGED vars
  BY <1>2 DEF vars, TypeOK, GateTypeOK, LedgerTypeOK, SeedingTypeOK, DrainTypeOK,
     gateVars, ledgerVars, seedingVars, drainVars, groupVars, workerVars
<1>. QED  BY <1>1, <1>2, BuyTypeOK, SeedingTypeStep, DrainTypeStep DEF Next

\* Every variable keeps its type: in particular stock never falls below zero, and what is
\* stale is pending and what is pending was delivered, through all crashes and races.
THEOREM TypeCorrect == Spec => []TypeOK
<1>. QED  BY InitTypeOK, TypeStep, PTL DEF Spec

-------------------------------------------------------------------------------
(* Counting reservations.                                                  *)

\* Rows of one sale are as many as their buyers.
LEMMA RowsCount ==
    ASSUME NEW R, IsFiniteSet(R),
           \A q, r \in R : q.buyer = r.buyer => q = r
    PROVE  /\ IsFiniteSet({r.buyer : r \in R})
           /\ Cardinality({r.buyer : r \in R}) = Cardinality(R)
<1>. DEFINE T == {r.buyer : r \in R}
            f == [r \in R |-> r.buyer]
<1>1. f \in Bijection(R, T)
  BY DEF Bijection, Injection, Surjection, IsInjective
<1>. QED  BY <1>1, FS_Bijection DEF ExistsBijection

LEMMA HoldersFinite ==
    ASSUME NEW s \in Sales
    PROVE  IsFiniteSet(Holders(s)) /\ Cardinality(Holders(s)) \in Nat
BY GateAssumption, FS_Subset, FS_CardinalityType DEF Holders

-------------------------------------------------------------------------------
(* The base of all invariants: what no race, expiry or lost reply disturbs. *)

LEMMA InitBaseInv == Init => BaseInv
<1>. SUFFICES ASSUME Init PROVE BaseInv
  OBVIOUS
<1>1. LoadedOnRecord
  BY DEF Init, SeedingInit, LoadedOnRecord
<1>2. NothingBeforeSeed
  BY LedgerAssumption DEF Init, GateInit, LedgerInit, NothingBeforeSeed, Rows
<1>3. HoldersReserved
  BY DEF Init, GateInit, HoldersReserved
<1>4. OneRowPerBuyer
  BY LedgerAssumption DEF Init, LedgerInit, OneRowPerBuyer
<1>5. HandFromStream
  BY DEF Init, DrainInit, HandFromStream
<1>. QED  BY InitTypeOK, <1>1, <1>2, <1>3, <1>4, <1>5 DEF BaseInv

\* A successful purchase takes one unit and makes one holder.
LEMMA SuccessCounts ==
    ASSUME TypeOK, NEW s \in Sales, NEW b \in Buyers, NEW i \in Nat \ {NoId},
           Reserve(s, b, i), stock[s] \in Nat \ {0}, buyers[s][b] = NoId
    PROVE  /\ stock'[s] = stock[s] - 1
           /\ Holders(s)' = Holders(s) \cup {b}
           /\ Cardinality(Holders(s)') = Cardinality(Holders(s)) + 1
           /\ \A t \in Sales \ {s} : stock'[t] = stock[t] /\ buyers'[t] = buyers[t]
           /\ buyers'[s][b] = i
           /\ \A c \in Buyers \ {b} : buyers'[s][c] = buyers[s][c]
<1>1. Holders(s)' = Holders(s) \cup {b}
  BY DEF TypeOK, GateTypeOK, Reserve, Holders
<1>2. b \notin Holders(s)
  BY DEF Holders
<1>3. Cardinality(Holders(s)') = Cardinality(Holders(s)) + 1
  BY <1>1, <1>2, HoldersFinite, FS_AddElement
<1>. QED  BY <1>1, <1>3 DEF TypeOK, GateTypeOK, Reserve

\* What a purchase does to Gate and stream: nothing, or one reservation of a seeded sale.
LEMMA BuyEffect ==
    ASSUME TypeOK, NEW s \in Sales, NEW b \in Buyers, Buy(s, b)
    PROVE  /\ UNCHANGED <<created, ledger, initLock, at, loaded, delivered, hand, written>>
           /\ \/ UNCHANGED <<stock, buyers, stream>>
              \/ \E i \in Nat \ {NoId} :
                   /\ Reserve(s, b, i)
                   /\ receipts' = receipts \cup
                        {[sale |-> s, buyer |-> b, code |-> "SUCCESS", id |-> i]}
                   /\ stream' = stream \cup {EntryOf(s, b, i)}
                   /\ stock[s] \in Nat \ {0} /\ stock[s] # NotSeeded
                   /\ buyers[s][b] = NoId
                   /\ \A t \in Sales : stock'[t] = NotSeeded <=> stock[t] = NotSeeded
<1>1. UNCHANGED <<created, ledger, initLock, at, loaded, delivered, hand, written>>
  BY BuyFrame DEF ledgerVars, seedingVars, drainVars, groupVars, workerVars
<1>2. CASE GateCode(s, b) = "SUCCESS"
  <2>1. stock[s] \in Nat \ {0} /\ stock[s] # NotSeeded /\ buyers[s][b] = NoId
    BY <1>2, SuccessfulBuy, GateAssumption
  <2>2. PICK i \in Nat \ {NoId} :
             /\ Reserve(s, b, i)
             /\ receipts' = receipts \cup
                  {[sale |-> s, buyer |-> b, code |-> "SUCCESS", id |-> i]}
    BY <1>2, SuccessfulBuy
  <2>3. \A t \in Sales : stock'[t] = NotSeeded <=> stock[t] = NotSeeded
    BY <2>1, <2>2, SuccessCounts, GateAssumption
  <2>. QED  BY <1>1, <2>1, <2>2, <2>3 DEF Reserve
<1>3. CASE GateCode(s, b) # "SUCCESS"
  BY <1>1, <1>3, BuyFrame DEF gateVars
<1>. QED  BY <1>2, <1>3

LEMMA BuyBase ==
    ASSUME BaseInv, NEW s \in Sales, NEW b \in Buyers, Buy(s, b)
    PROVE  BaseInv'
<1>. USE DEF BaseInv
<1>1. TypeOK'
  BY BuyTypeOK
<1>2. UNCHANGED <<created, ledger, initLock, at, loaded, delivered, hand, written>>
  BY BuyEffect
<1>3. OneRowPerBuyer'
  BY <1>2 DEF OneRowPerBuyer
<1>4. CASE UNCHANGED <<stock, buyers, stream>>
  BY <1>1, <1>2, <1>3, <1>4
     DEF LoadedOnRecord, NothingBeforeSeed, HoldersReserved, HandFromStream, Rows
<1>5. ASSUME NEW i \in Nat \ {NoId},
             Reserve(s, b, i), stream' = stream \cup {EntryOf(s, b, i)},
             stock[s] \in Nat \ {0}, stock[s] # NotSeeded, buyers[s][b] = NoId,
             \A t \in Sales : stock'[t] = NotSeeded <=> stock[t] = NotSeeded
      PROVE  BaseInv'
  <2>1. LoadedOnRecord'
    BY <1>2, <1>5, SeedingAssumption DEF LoadedOnRecord, Rows
  <2>2. NothingBeforeSeed'
    <3>. SUFFICES ASSUME NEW t \in Sales, stock'[t] = NotSeeded
                  PROVE  /\ \A c \in Buyers : buyers'[t][c] = NoId
                         /\ \A e \in stream' : e.sale # t
                         /\ Cardinality(Rows(t)') <= InitialStock[t]
      BY DEF NothingBeforeSeed
    <3>1. t # s /\ stock[t] = NotSeeded
      BY <1>5
    <3>2. buyers'[t] = buyers[t]
      BY <1>5, <3>1, SuccessCounts
    <3>3. Rows(t)' = Rows(t)
      BY <1>2 DEF Rows
    <3>. QED  BY <1>5, <3>1, <3>2, <3>3 DEF NothingBeforeSeed, EntryOf
  <2>3. HoldersReserved'
    <3>. SUFFICES ASSUME NEW t \in Sales, NEW c \in Buyers, buyers'[t][c] # NoId
                  PROVE  EntryOf(t, c, buyers'[t][c]) \in stream' \cup ledger'
      BY DEF HoldersReserved
    <3>1. CASE t = s /\ c = b
      BY <1>5, <3>1, SuccessCounts
    <3>2. CASE ~(t = s /\ c = b)
      BY <1>2, <1>5, <3>2, SuccessCounts DEF HoldersReserved
    <3>. QED  BY <3>1, <3>2
  <2>4. HandFromStream'
    BY <1>2, <1>5 DEF HandFromStream
  <2>. QED  BY <1>1, <1>3, <2>1, <2>2, <2>3, <2>4
<1>. QED  BY <1>4, <1>5, BuyEffect

\* What the pipeline writes, in one step, in two, or once more: stock for a sale that has it
\* from then on, and under each buyer in the rows it has read the id of that row.
LEMMA PipelineEffect ==
    ASSUME TypeOK, OneRowPerBuyer, NEW c \in Callers, loaded[c] \subseteq Rows(SaleOf[c]),
           at[c] = "hset" => stock[SaleOf[c]] # NotSeeded,
           Seed(c) \/ SeedUnheard(c) \/ SeedBuyers(c)
    PROVE  LET s == SaleOf[c]
           IN  /\ s \in Sales /\ stock'[s] # NotSeeded
               /\ \/ SeedBuyers(c) /\ stock' = stock
                  \/ ~SeedBuyers(c) /\ stock'[s] = RemainingOf(c)
               /\ SetBuyers(s, loaded[c]) => \A r \in loaded[c] : buyers'[s][r.buyer] = r.id
               /\ \A b \in Buyers :
                    \/ buyers'[s][b] = buyers[s][b]
                    \/ \E r \in loaded[c] : r.buyer = b /\ buyers'[s][b] = r.id
               /\ \A t \in Sales \ {s} : stock'[t] = stock[t] /\ buyers'[t] = buyers[t]
<1>. DEFINE s == SaleOf[c]
<1>. USE DEF TypeOK
<1>1. s \in Sales
  BY SeedingAssumption
<1>2. /\ \/ SeedBuyers(c) /\ stock' = stock
         \/ ~SeedBuyers(c) /\ stock'[s] = RemainingOf(c)
      /\ \A t \in Sales \ {s} : stock'[t] = stock[t]
  BY <1>1 DEF Seed, SeedUnheard, SeedBuyers, SetStock, Go, GateTypeOK
<1>3. stock'[s] # NotSeeded
  BY <1>1, <1>2, SeedValues, GateAssumption DEF SeedBuyers, Go
<1>4. /\ loaded[c] \subseteq Entry
      /\ \A q, r \in loaded[c] : q.buyer = r.buyer => q = r
  BY <1>1 DEF Rows, OneRowPerBuyer, LedgerTypeOK
<1>5. CASE SetBuyers(s, loaded[c])
  <2>1. /\ \A b \in Buyers : buyers'[s][b] =
             IF \E r \in loaded[c] : r.buyer = b THEN (CHOOSE r \in loaded[c] : r.buyer = b).id
                                                 ELSE buyers[s][b]
        /\ \A t \in Sales \ {s} : buyers'[t] = buyers[t]
    BY <1>1, <1>5 DEF SetBuyers, GateTypeOK
  <2>2. \A r \in loaded[c] :
          r.buyer \in Buyers /\ (CHOOSE q \in loaded[c] : q.buyer = r.buyer) = r
    BY <1>4 DEF Entry
  <2>. QED  BY <1>1, <1>2, <1>3, <2>1, <2>2
<1>6. CASE ~SetBuyers(s, loaded[c]) /\ buyers' = buyers
  BY <1>1, <1>2, <1>3, <1>6
<1>7. SetBuyers(s, loaded[c]) \/ buyers' = buyers
  BY DEF Seed, SeedUnheard, SeedBuyers
<1>. QED  BY <1>5, <1>6, <1>7

LEMMA SeedingLoads ==
    ASSUME BaseInv, OfSeeding(SeedingNext)
    PROVE  LoadedOnRecord'
<1>. USE SeedingAssumption DEF BaseInv, TypeOK, SeedingTypeOK
<1>1. \A s : Rows(s)' = Rows(s)
  BY SeedingFrame DEF Rows
<1>2. ASSUME NEW c \in Callers, Rehydrate(c) \/ SkipSeed(c) \/ LoadFails(c) \/ IsSeeded(c)
      PROVE  LoadedOnRecord'
  BY <1>1, <1>2 DEF Rehydrate, SkipSeed, LoadFails, IsSeeded, Go, gateVars, LoadedOnRecord
<1>3. ASSUME NEW c \in Callers,
             AcquireInitLock(c) \/ AcquireUnheard(c) \/ ReleaseInitLock(c) \/ ReleaseUnheard(c)
      PROVE  LoadedOnRecord'
  BY <1>1, <1>3 DEF AcquireInitLock, AcquireUnheard, ReleaseInitLock, ReleaseUnheard, Go,
     gateVars, LoadedOnRecord
<1>4. ASSUME NEW c \in Callers, LoadReservationState(c)
      PROVE  LoadedOnRecord'
  BY <1>1, <1>4 DEF LoadReservationState, Go, gateVars, LoadedOnRecord
<1>5. ASSUME NEW c \in Callers, Seed(c) \/ SeedUnheard(c) \/ SeedBuyers(c)
      PROVE  LoadedOnRecord'
  <2>1. /\ stock'[SaleOf[c]] # NotSeeded
        /\ \A t \in Sales \ {SaleOf[c]} : stock'[t] = stock[t]
    BY <1>5, PipelineEffect DEF LoadedOnRecord
  <2>2. \A d \in Callers \ {c} : at'[d] = at[d] /\ loaded'[d] = loaded[d]
    BY <1>5 DEF Seed, SeedUnheard, SeedBuyers, Go, seedingVars
  <2>3. loaded'[c] \subseteq loaded[c]
    BY <1>5 DEF Seed, SeedUnheard, SeedBuyers, seedingVars
  <2>. QED  BY <1>1, <2>1, <2>2, <2>3 DEF LoadedOnRecord
<1>6. ASSUME NEW s \in Sales, InsertSale(s) \/ LockExpires(s)
      PROVE  LoadedOnRecord'
  BY <1>1, <1>6 DEF InsertSale, LockExpires, gateVars, seedingVars, LoadedOnRecord
<1>7. ASSUME NEW C \in SUBSET Callers, CallersDie(C)
      PROVE  LoadedOnRecord'
  BY <1>1, <1>7 DEF CallersDie, gateVars, LoadedOnRecord
<1>. QED
  BY <1>2, <1>3, <1>4, <1>5, <1>6, <1>7 DEF OfSeeding, SeedingNext, AsksRedis, GoesUnheard

LEMMA SeedingBase ==
    ASSUME BaseInv, OfSeeding(SeedingNext)
    PROVE  BaseInv'
<1>. USE DEF BaseInv
<1>1. TypeOK' /\ LoadedOnRecord'
  BY SeedingTypeStep, SeedingLoads
<1>2. UNCHANGED <<stream, ledger, drainVars, receipts>>
  BY SeedingFrame
<1>3. OneRowPerBuyer' /\ HandFromStream'
  BY <1>2 DEF OneRowPerBuyer, HandFromStream, drainVars, groupVars, workerVars
<1>4. CASE UNCHANGED <<stock, buyers>>
  BY <1>1, <1>2, <1>3, <1>4 DEF NothingBeforeSeed, HoldersReserved, Rows
<1>5. ASSUME NEW c \in Callers, Seed(c) \/ SeedUnheard(c) \/ SeedBuyers(c)
      PROVE  BaseInv'
  <2>. PICK s \in Sales : s = SaleOf[c]
    BY SeedingAssumption
  <2>1. /\ stock'[s] # NotSeeded
        /\ \A b \in Buyers :
             \/ buyers'[s][b] = buyers[s][b]
             \/ \E r \in loaded[c] : r.buyer = b /\ buyers'[s][b] = r.id
        /\ \A t \in Sales \ {s} : stock'[t] = stock[t] /\ buyers'[t] = buyers[t]
    BY <1>5, PipelineEffect DEF LoadedOnRecord
  <2>2. NothingBeforeSeed'
    <3>1. \A t \in Sales : Rows(t)' = Rows(t)
      BY <1>2 DEF Rows
    <3>. QED  BY <1>2, <2>1, <3>1 DEF NothingBeforeSeed
  <2>3. HoldersReserved'
    <3>. SUFFICES ASSUME NEW t \in Sales, NEW b \in Buyers, buyers'[t][b] # NoId
                  PROVE  EntryOf(t, b, buyers'[t][b]) \in stream \cup ledger
      BY <1>2 DEF HoldersReserved
    <3>1. CASE buyers'[t][b] = buyers[t][b]
      BY <3>1 DEF HoldersReserved
    <3>2. CASE buyers'[t][b] # buyers[t][b]
      <4>1. PICK r \in loaded[c] : t = s /\ r.buyer = b /\ buyers'[t][b] = r.id
        BY <2>1, <3>2
      <4>2. r \in ledger /\ r.sale = s /\ r \in Entry
        BY <4>1 DEF LoadedOnRecord, Rows, TypeOK, LedgerTypeOK
      <4>. QED  BY <4>1, <4>2 DEF Entry, EntryOf
    <3>. QED  BY <3>1, <3>2
  <2>. QED  BY <1>1, <1>3, <2>2, <2>3
<1>. QED  BY <1>4, <1>5, SeedingFrame

\* An insert adds the entry, or finds a row and adds nothing.
LEMMA PersistAdds ==
    ASSUME BaseInv, NEW w \in Workers, NEW e \in hand[w], Persist(w, e)
    PROVE  /\ e \in stream /\ e \in Entry
           /\ stock[e.sale] # NotSeeded
           /\ ledger' = ledger \/ (ledger' = ledger \cup {e} /\ Conflicts(e) = {})
<1>1. e \in stream
  BY DEF BaseInv, HandFromStream
<1>2. e \in Entry
  BY <1>1 DEF BaseInv, TypeOK, GateTypeOK
<1>3. stock[e.sale] # NotSeeded
  BY <1>1, <1>2 DEF BaseInv, NothingBeforeSeed, Entry
<1>. QED  BY <1>1, <1>2, <1>3 DEF Persist, InsertRow

\* The worker records what is in a stream, and only sales that are seeded have one.
LEMMA DrainEffect ==
    ASSUME BaseInv, OfDrain(DrainNext)
    PROVE  /\ UNCHANGED <<stock, buyers, stream, initLock, at, loaded, receipts>>
           /\ \/ ledger' = ledger
              \/ \E e \in stream :
                   /\ e \in Entry /\ stock[e.sale] # NotSeeded
                   /\ ledger' = ledger \cup {e} /\ Conflicts(e) = {}
BY DrainFrame, PersistAdds DEF gateVars, seedingVars

\* What is delivered, handed out or written was in a stream, in hand or delivered before.
LEMMA DrainTakes ==
    ASSUME TypeOK, OfDrain(DrainNext)
    PROVE  /\ delivered' \subseteq delivered \cup stream
           /\ \A w \in Workers :
                /\ hand'[w] \subseteq hand[w] \cup stream \cup delivered
                /\ written'[w] \subseteq written[w] \cup hand[w]
<1>. DEFINE Takes == /\ delivered' \subseteq delivered \cup stream
                     /\ \A w \in Workers :
                          /\ hand'[w] \subseteq hand[w] \cup stream \cup delivered
                          /\ written'[w] \subseteq written[w] \cup hand[w]
<1>. USE DEF TypeOK, DrainTypeOK
<1>1. ASSUME NEW w \in Workers, WorkerStarts(w) \/ StartDrain(w) \/ RefreshStreams(w)
      PROVE  Takes
  BY <1>1 DEF WorkerStarts, StartDrain, RefreshStreams, groupVars
<1>2. ASSUME NEW w \in Workers, WorkerDies(w) \/ RefreshThrows(w)
      PROVE  Takes
  BY <1>2 DEF WorkerDies, RefreshThrows, Dies, groupVars
<1>3. ASSUME NEW w \in Workers, NoGroup(w) \/ PersistThrows(w)
      PROVE  Takes
  BY <1>3 DEF NoGroup, PersistThrows, BacksOff, groupVars
<1>4. ASSUME NEW w \in Workers, NEW s \in Sales, ReclaimStale(w, s)
      PROVE  Takes
  BY <1>4 DEF ReclaimStale, Earliest
<1>5. ASSUME NEW w \in Workers, ReadBatch(w)
      PROVE  Takes
  <2>. DEFINE got == UNION {Handed(s) : s \in streams[w]}
  <2>1. got \subseteq stream
    BY DEF Handed, Earliest
  <2>. HIDE DEF got
  <2>. QED  BY <1>5, <2>1 DEF ReadBatch, got
<1>6. ASSUME NEW w \in Workers, NEW e \in hand[w], Persist(w, e)
      PROVE  Takes
  BY <1>6 DEF Persist, groupVars
<1>7. ASSUME NEW w \in Workers, Acknowledge(w)
      PROVE  Takes
  BY <1>7 DEF Acknowledge
<1>8. ASSUME NEW e \in pel, GoesStale(e)
      PROVE  Takes
  BY <1>8 DEF GoesStale, workerVars
<1>. QED
  BY <1>1, <1>2, <1>3, <1>4, <1>5, <1>6, <1>7, <1>8 DEF OfDrain, DrainNext, Drains, Refreshes

LEMMA HandStep ==
    ASSUME BaseInv, OfDrain(DrainNext)
    PROVE  HandFromStream'
<1>1. stream' = stream
  BY DrainFrame DEF gateVars
<1>. QED  BY <1>1, DrainTakes DEF BaseInv, HandFromStream

LEMMA DrainBase ==
    ASSUME BaseInv, OfDrain(DrainNext)
    PROVE  BaseInv'
<1>. USE DEF BaseInv
<1>1. TypeOK' /\ HandFromStream'
  BY DrainTypeStep, HandStep
<1>2. UNCHANGED <<stock, buyers, stream, at, loaded>>
  BY DrainEffect
<1>3. CASE ledger' = ledger
  BY <1>1, <1>2, <1>3 DEF LoadedOnRecord, NothingBeforeSeed, HoldersReserved, OneRowPerBuyer, Rows
<1>4. ASSUME NEW e \in stream, e \in Entry, stock[e.sale] # NotSeeded,
             ledger' = ledger \cup {e}, Conflicts(e) = {}
      PROVE  BaseInv'
  <2>1. \A s \in Sales :
          /\ Rows(s) \subseteq Rows(s)'
          /\ stock[s] = NotSeeded => Rows(s)' = Rows(s)
    BY <1>4 DEF Rows
  <2>2. LoadedOnRecord'
    BY <1>2, <2>1, SeedingAssumption DEF LoadedOnRecord
  <2>3. NothingBeforeSeed'
    BY <1>2, <2>1 DEF NothingBeforeSeed
  <2>4. HoldersReserved'
    BY <1>2, <1>4 DEF HoldersReserved
  <2>5. OneRowPerBuyer'
    BY <1>4 DEF OneRowPerBuyer, Conflicts
  <2>. QED  BY <1>1, <2>2, <2>3, <2>4, <2>5
<1>. QED  BY <1>3, <1>4, DrainEffect

\* The invariants are a matter of these variables alone.
LEMMA OthersMove ==
    ASSUME OfPostgres(PostgresStops \/ PostgresReturns) \/ UNCHANGED vars
    PROVE  /\ UNCHANGED <<stock, buyers, stream, clock, ledger, initLock, at, loaded>>
           /\ UNCHANGED <<delivered, pel, hand, written, receipts>>
<1>1. CASE OfPostgres(PostgresStops \/ PostgresReturns)
  BY <1>1, PostgresStep DEF gateVars, seedingVars, drainVars, groupVars, workerVars
<1>2. CASE UNCHANGED vars
  BY <1>2 DEF vars, gateVars, ledgerVars, seedingVars, drainVars, groupVars, workerVars
<1>. QED  BY <1>1, <1>2

LEMMA BaseInvStep ==
    ASSUME BaseInv, [Next]_vars
    PROVE  BaseInv'
<1>1. CASE OfPostgres(PostgresStops \/ PostgresReturns) \/ UNCHANGED vars
  <2>1. TypeOK'
    BY TypeStep DEF BaseInv
  <2>. QED
    BY <1>1, <2>1, OthersMove DEF BaseInv, LoadedOnRecord, NothingBeforeSeed, HoldersReserved,
       OneRowPerBuyer, HandFromStream, Rows
<1>. QED  BY <1>1, BuyBase, SeedingBase, DrainBase DEF Next

-------------------------------------------------------------------------------
(* The hash, on PipelineWhole.                                             *)

\* A pipeline that runs whole leaves no call between its two commands.
LEMMA SeedingStaysWhole ==
    ASSUME PipelineWhole, SeedingTypeOK, \A c \in Callers : at[c] # "hset",
           OfSeeding(SeedingNext)
    PROVE  \A c \in Callers : at'[c] # "hset"
<1>. USE DEF SeedingTypeOK
<1>1. ASSUME NEW c \in Callers,
             Rehydrate(c) \/ AsksRedis(c) \/ LoadReservationState(c) \/ LoadFails(c)
      PROVE  \A d \in Callers : at'[d] # "hset"
  BY <1>1 DEF AsksRedis, Rehydrate, AcquireInitLock, SkipSeed, IsSeeded, Seed, SeedBuyers,
     ReleaseInitLock, LoadReservationState, LoadFails, Go
<1>2. ASSUME NEW c \in Callers, GoesUnheard(c)
      PROVE  at' = at
  BY <1>2 DEF GoesUnheard, AcquireUnheard, SeedUnheard, ReleaseUnheard, seedingVars
<1>3. ASSUME NEW s \in Sales, InsertSale(s) \/ LockExpires(s)
      PROVE  at' = at
  BY <1>3 DEF InsertSale, LockExpires, seedingVars
<1>4. ASSUME NEW C \in SUBSET Callers, CallersDie(C)
      PROVE  \A d \in Callers : at'[d] # "hset"
  BY <1>4 DEF CallersDie
<1>. QED  BY <1>1, <1>2, <1>3, <1>4 DEF OfSeeding, SeedingNext

\* Whoever seeds, whenever and however often: no one in the hash is given another id.
LEMMA SeedingKeepsHash ==
    ASSUME PipelineWhole, HashInv, OfSeeding(SeedingNext)
    PROVE  /\ ReservedKnown'
           /\ \A s \in Sales, b \in Buyers :
                buyers[s][b] # NoId => buyers'[s][b] = buyers[s][b]
<1>. USE DEF HashInv, BaseInv
<1>1. UNCHANGED <<stream, ledger>>
  BY SeedingFrame
<1>2. CASE UNCHANGED <<stock, buyers>>
  BY <1>1, <1>2 DEF ReservedKnown
<1>3. ASSUME NEW c \in Callers, Seed(c) \/ SeedUnheard(c)
      PROVE  /\ ReservedKnown'
             /\ \A s \in Sales, b \in Buyers :
                  buyers[s][b] # NoId => buyers'[s][b] = buyers[s][b]
  <2>. PICK s \in Sales : s = SaleOf[c]
    BY SeedingAssumption
  <2>1. /\ \A b \in Buyers :
             \/ buyers'[s][b] = buyers[s][b]
             \/ \E r \in loaded[c] : r.buyer = b /\ buyers'[s][b] = r.id
        /\ \A t \in Sales \ {s} : stock'[t] = stock[t] /\ buyers'[t] = buyers[t]
    BY <1>3, PipelineEffect DEF LoadedOnRecord
  <2>2. /\ loaded[c] \subseteq ledger /\ (\A r \in loaded[c] : r.sale = s)
        /\ stock[s] = NotSeeded => loaded[c] = Rows(s)
    BY <1>3 DEF LoadedOnRecord, Rows, Seed, SeedUnheard, Go
  <2>3. ASSUME NEW b \in Buyers, buyers[s][b] # NoId
        PROVE  buyers'[s][b] = buyers[s][b]
    <3>1. stock[s] # NotSeeded
      BY <2>3 DEF NothingBeforeSeed
    <3>. QED  BY <2>1, <2>2, <3>1 DEF ReservedKnown
  <2>4. \A r \in loaded[c] : buyers'[s][r.buyer] = r.id
    <3>1. SetBuyers(s, loaded[c])
      BY <1>3 DEF Seed, SeedUnheard
    <3>. QED  BY <1>3, <3>1, PipelineEffect DEF LoadedOnRecord
  <2>5. ASSUME NEW e \in stream \cup ledger, stock'[e.sale] # NotSeeded
        PROVE  buyers'[e.sale][e.buyer] = e.id
    <3>1. e \in Entry
      BY DEF TypeOK, GateTypeOK, LedgerTypeOK
    <3>2. CASE stock[e.sale] # NotSeeded
      <4>1. buyers[e.sale][e.buyer] = e.id /\ e.id # NoId
        BY <3>1, <3>2 DEF ReservedKnown, Entry
      <4>. QED  BY <2>1, <2>3, <3>1, <4>1 DEF Entry
    <3>3. CASE stock[e.sale] = NotSeeded
      <4>1. e.sale = s
        BY <2>1, <2>5, <3>1, <3>3 DEF Entry
      <4>2. e \in Rows(s)
        BY <3>3, <4>1 DEF NothingBeforeSeed, Rows
      <4>. QED  BY <2>2, <2>4, <3>3, <4>1, <4>2
    <3>. QED  BY <3>2, <3>3
  <2>. QED  BY <1>1, <2>1, <2>3, <2>5 DEF ReservedKnown
<1>4. \A c \in Callers : ~SeedBuyers(c)
  BY DEF SeedBuyers, Go
<1>. QED  BY <1>2, <1>3, <1>4, SeedingFrame

\* What the hash knows of a reservation it keeps: the script sets fields that are empty, and
\* nothing enters stream or Ledger but what a script run has put in the hash.
LEMMA HashStep ==
    ASSUME PipelineWhole, HashInv, [Next]_vars
    PROVE  /\ HashInv'
           /\ \A s \in Sales, b \in Buyers :
                buyers[s][b] # NoId => buyers'[s][b] = buyers[s][b]
<1>. USE DEF HashInv
<1>1. BaseInv'
  BY BaseInvStep
<1>2. ASSUME NEW s \in Sales, NEW b \in Buyers, Buy(s, b)
      PROVE  /\ HashInv'
             /\ \A t \in Sales, c \in Buyers :
                  buyers[t][c] # NoId => buyers'[t][c] = buyers[t][c]
  <2>1. UNCHANGED <<ledger, at>>
    BY <1>2, BuyEffect DEF BaseInv
  <2>2. CASE UNCHANGED <<stock, buyers, stream>>
    BY <1>1, <2>1, <2>2 DEF ReservedKnown
  <2>3. ASSUME NEW i \in Nat \ {NoId},
               Reserve(s, b, i), stream' = stream \cup {EntryOf(s, b, i)},
               stock[s] \in Nat \ {0}, stock[s] # NotSeeded, buyers[s][b] = NoId,
               \A t \in Sales : stock'[t] = NotSeeded <=> stock[t] = NotSeeded
        PROVE  /\ HashInv'
               /\ \A t \in Sales, c \in Buyers :
                    buyers[t][c] # NoId => buyers'[t][c] = buyers[t][c]
    <3>1. \A t \in Sales, c \in Buyers :
            buyers[t][c] # NoId => buyers'[t][c] = buyers[t][c]
      BY <2>3, SuccessCounts DEF BaseInv
    <3>2. buyers'[s][b] = i
      BY <2>3, SuccessCounts DEF BaseInv
    <3>3. ASSUME NEW e \in stream \cup ledger, stock'[e.sale] # NotSeeded
          PROVE  buyers'[e.sale][e.buyer] = e.id
      <4>1. e \in Entry
        BY DEF BaseInv, TypeOK, GateTypeOK, LedgerTypeOK
      <4>2. buyers[e.sale][e.buyer] = e.id /\ e.id # NoId
        BY <2>3, <3>3, <4>1 DEF ReservedKnown, Entry
      <4>. QED  BY <3>1, <4>1, <4>2 DEF Entry
    <3>4. ReservedKnown'
      BY <2>1, <2>3, <3>2, <3>3 DEF ReservedKnown, EntryOf
    <3>. QED  BY <1>1, <2>1, <3>1, <3>4
  <2>. QED  BY <1>2, <2>2, <2>3, BuyEffect DEF BaseInv
<1>3. CASE OfSeeding(SeedingNext)
  <2>1. \A c \in Callers : at'[c] # "hset"
    BY <1>3, SeedingStaysWhole DEF BaseInv, TypeOK
  <2>. QED  BY <1>1, <1>3, <2>1, SeedingKeepsHash
<1>4. CASE OfDrain(DrainNext)
  <2>1. UNCHANGED <<stock, buyers, stream, at>> /\ ledger' \subseteq ledger \cup stream
    BY <1>4, DrainEffect
  <2>. QED  BY <1>1, <2>1 DEF ReservedKnown
<1>5. CASE OfPostgres(PostgresStops \/ PostgresReturns) \/ UNCHANGED vars
  BY <1>1, <1>5, OthersMove DEF ReservedKnown
<1>. QED  BY <1>2, <1>3, <1>4, <1>5 DEF Next

\* What a buyer was told stays true: the hash keeps the id it has for them.
LEMMA ReceiptsStep ==
    ASSUME PipelineWhole, HashInv, ReceiptsHonoured, [Next]_vars
    PROVE  ReceiptsHonoured'
<1>1. \A q \in receipts : q.sale \in Sales /\ q.buyer \in Buyers /\ q.id \in Nat \ {NoId}
  BY DEF HashInv, BaseInv, TypeOK, Receipt, ReceiptsHonoured
<1>2. \A q \in receipts : q.id # NoId /\ buyers'[q.sale][q.buyer] = q.id
  BY <1>1, HashStep DEF ReceiptsHonoured
<1>3. ASSUME NEW s \in Sales, NEW b \in Buyers, Buy(s, b),
             NEW q \in receipts' \ receipts
      PROVE  q.id # NoId /\ buyers'[q.sale][q.buyer] = q.id
  <2>1. CASE GateCode(s, b) = "SUCCESS"
    <3>1. stock[s] \in Nat \ {0} /\ buyers[s][b] = NoId
      BY <1>3, <2>1, SuccessfulBuy DEF HashInv, BaseInv
    <3>2. PICK i \in Nat \ {NoId} :
               /\ Reserve(s, b, i)
               /\ receipts' = receipts \cup
                    {[sale |-> s, buyer |-> b, code |-> "SUCCESS", id |-> i]}
      BY <1>3, <2>1, SuccessfulBuy DEF HashInv, BaseInv
    <3>3. buyers'[s][b] = i
      BY <3>1, <3>2, SuccessCounts DEF HashInv, BaseInv
    <3>. QED  BY <1>3, <3>2, <3>3
  <2>2. CASE GateCode(s, b) # "SUCCESS"
    <3>1. buyers' = buyers
      BY <1>3, <2>2, BuyFrame DEF gateVars
    <3>2. GateCode(s, b) = "ALREADY_PURCHASED"
      BY <1>3, <2>2, BuyFrame
    <3>3. buyers[s][b] # NoId
      BY <3>2 DEF GateCode
    <3>. QED  BY <1>3, <2>2, <3>1, <3>3, BuyFrame
  <2>. QED  BY <2>1, <2>2
<1>4. ASSUME receipts' = receipts
      PROVE  ReceiptsHonoured'
  BY <1>2, <1>4 DEF ReceiptsHonoured
<1>. QED
  BY <1>2, <1>3, <1>4, SeedingFrame, DrainFrame, OthersMove DEF Next, ReceiptsHonoured

\* As long as the pipeline runs whole, who has a reservation of a live sale is in its hash, and
\* whoever was told of one finds it there: locks may expire early, replies may be lost.
THEOREM HashHolds ==
    ASSUME PipelineWhole
    PROVE  Spec => [](HashInv /\ ReceiptsHonoured)
<1>1. Init => HashInv /\ ReceiptsHonoured
  <2>1. Init => ReservedKnown /\ ReceiptsHonoured /\ \A c \in Callers : at[c] # "hset"
    BY LedgerAssumption DEF Init, GateInit, LedgerInit, SeedingInit, ReservedKnown,
       ReceiptsHonoured, Entry
  <2>. QED  BY <2>1, InitBaseInv DEF HashInv
<1>2. HashInv /\ ReceiptsHonoured /\ [Next]_vars => (HashInv /\ ReceiptsHonoured)'
  BY HashStep, ReceiptsStep
<1>. QED  BY <1>1, <1>2, PTL DEF Spec

\* One-Per-User: a buyer is only ever told of one reservation per sale.
THEOREM OnePerUser ==
    ASSUME PipelineWhole
    PROVE  Spec => []OneReservationPerBuyer
<1>1. ReceiptsHonoured => OneReservationPerBuyer
  BY DEF ReceiptsHonoured, OneReservationPerBuyer
<1>. QED  BY <1>1, HashHolds, PTL

\* Receipts, rows and the check endpoint agree on the reservation id.
THEOREM GateKnows ==
    ASSUME PipelineWhole
    PROVE  Spec => []GateKnowsEveryHolder
<1>1. HashInv /\ ReceiptsHonoured => GateKnowsEveryHolder
  BY DEF HashInv, ReservedKnown, ReceiptsHonoured, GateKnowsEveryHolder
<1>. QED  BY <1>1, HashHolds, PTL

-------------------------------------------------------------------------------
(* The lock, on SeedWithinTTL and ReleaseHeard.                            *)

LEMMA LockStep ==
    ASSUME SeedWithinTTL, ReleaseHeard, TypeOK, LockHeld, [Next]_vars
    PROVE  LockHeld'
<1>. USE SeedingAssumption DEF TypeOK, SeedingTypeOK, LockHeld, UnderLock
<1>1. ASSUME UNCHANGED <<initLock, at>>
      PROVE  LockHeld'
  BY <1>1
<1>2. CASE OfSeeding(SeedingNext)
  <2>1. ASSUME NEW c \in Callers, Rehydrate(c) \/ SkipSeed(c) \/ LoadFails(c) \/ IsSeeded(c)
        PROVE  LockHeld'
    BY <2>1 DEF Rehydrate, SkipSeed, LoadFails, IsSeeded, Go
  <2>2. ASSUME NEW c \in Callers, AcquireInitLock(c) \/ AcquireUnheard(c)
        PROVE  LockHeld'
    BY <2>2 DEF AcquireInitLock, AcquireUnheard, Go
  <2>3. ASSUME NEW c \in Callers, LoadReservationState(c) \/ Seed(c) \/ SeedBuyers(c)
        PROVE  LockHeld'
    BY <2>3 DEF LoadReservationState, Seed, SeedBuyers, Go
  <2>4. ASSUME NEW c \in Callers, ReleaseInitLock(c)
        PROVE  LockHeld'
    BY <2>4 DEF ReleaseInitLock, Go
  <2>5. ASSUME NEW s \in Sales, LockExpires(s)
        PROVE  LockHeld'
    BY <2>5 DEF LockExpires
  <2>6. ASSUME NEW C \in SUBSET Callers, CallersDie(C)
        PROVE  LockHeld'
    BY <2>6 DEF CallersDie
  <2>7. ASSUME NEW s \in Sales, InsertSale(s)
        PROVE  LockHeld'
    BY <2>7 DEF InsertSale, seedingVars
  <2>8. ASSUME NEW c \in Callers, SeedUnheard(c)
        PROVE  LockHeld'
    BY <2>8 DEF SeedUnheard, seedingVars
  <2>9. \A c \in Callers : ~ReleaseUnheard(c)
    BY DEF ReleaseUnheard
  <2>. QED
    BY <1>2, <2>1, <2>2, <2>3, <2>4, <2>5, <2>6, <2>7, <2>8, <2>9
       DEF OfSeeding, SeedingNext, AsksRedis, GoesUnheard
<1>3. ASSUME NEW s \in Sales, NEW b \in Buyers, Buy(s, b)
      PROVE  LockHeld'
  BY <1>1, <1>3, BuyFrame DEF seedingVars
<1>4. CASE OfDrain(DrainNext)
  BY <1>1, <1>4, DrainFrame DEF seedingVars
<1>. QED  BY <1>1, <1>2, <1>3, <1>4, OthersMove DEF Next

\* A lock that outlives its holder, and is deleted once, lets one call seed a sale at a time,
\* whatever becomes of the pipeline it sends. ResentRelease shows what it costs when not.
THEOREM SeedsAlone ==
    ASSUME SeedWithinTTL, ReleaseHeard
    PROVE  Spec => []OneSeeder
<1>1. Init => LockHeld
  BY DEF Init, SeedingInit, LockHeld, UnderLock
<1>2. TypeOK /\ LockHeld /\ [Next]_vars => LockHeld'
  BY LockStep
<1>3. LockHeld => OneSeeder
  BY DEF LockHeld, OneSeeder
<1>. QED  BY <1>1, <1>2, <1>3, TypeCorrect, PTL DEF Spec

-------------------------------------------------------------------------------
(* The stock, on SeedWithinTTL, ReleaseHeard and SeedHeard.                *)

\* While a call is at work, nobody else seeds its sale.
LEMMA OnceStep ==
    ASSUME SeedHeard, TypeOK, LockHeld, SeededOnce, [Next]_vars
    PROVE  SeededOnce'
<1>. USE SeedingAssumption DEF TypeOK, SeedingTypeOK, SeededOnce
<1>1. ASSUME UNCHANGED <<stock, at>>
      PROVE  SeededOnce'
  BY <1>1
<1>2. CASE OfSeeding(SeedingNext)
  <2>1. ASSUME NEW c \in Callers, Rehydrate(c) \/ SkipSeed(c) \/ LoadFails(c) \/ IsSeeded(c)
        PROVE  SeededOnce'
    BY <2>1 DEF Rehydrate, SkipSeed, LoadFails, IsSeeded, Go, gateVars
  <2>2. ASSUME NEW c \in Callers, AcquireInitLock(c) \/ AcquireUnheard(c)
        PROVE  SeededOnce'
    BY <2>2 DEF AcquireInitLock, AcquireUnheard, Go, gateVars
  <2>3. ASSUME NEW c \in Callers,
               \/ LoadReservationState(c) \/ SeedBuyers(c)
               \/ ReleaseInitLock(c) \/ ReleaseUnheard(c)
        PROVE  SeededOnce'
    BY <2>3 DEF LoadReservationState, SeedBuyers, ReleaseInitLock, ReleaseUnheard, Go, gateVars
  <2>4. ASSUME NEW c \in Callers, Seed(c)
        PROVE  SeededOnce'
    <3>1. at[c] = "seed" /\ at'[c] \notin {"load", "seed"}
      BY <2>4 DEF Seed, Go
    <3>2. \A d \in Callers \ {c} : at'[d] = at[d]
      BY <2>4 DEF Seed, Go
    <3>3. \A d \in Callers \ {c} : at[d] \in {"load", "seed"} => SaleOf[d] # SaleOf[c]
      BY <3>1 DEF LockHeld, UnderLock
    <3>4. \A t \in Sales \ {SaleOf[c]} : stock'[t] = stock[t]
      BY <2>4 DEF Seed, SetStock, GateTypeOK
    <3>. QED  BY <3>1, <3>2, <3>3, <3>4
  <2>5. ASSUME NEW s \in Sales, InsertSale(s) \/ LockExpires(s)
        PROVE  SeededOnce'
    BY <2>5 DEF InsertSale, LockExpires, seedingVars, gateVars
  <2>6. ASSUME NEW C \in SUBSET Callers, CallersDie(C)
        PROVE  SeededOnce'
    BY <2>6 DEF CallersDie, gateVars
  <2>7. \A c \in Callers : ~SeedUnheard(c)
    BY DEF SeedUnheard
  <2>. QED
    BY <1>2, <2>1, <2>2, <2>3, <2>4, <2>5, <2>6, <2>7
       DEF OfSeeding, SeedingNext, AsksRedis, GoesUnheard
<1>3. ASSUME NEW s \in Sales, NEW b \in Buyers, Buy(s, b)
      PROVE  SeededOnce'
  <2>1. at' = at
    BY <1>3, BuyEffect
  <2>2. \A t \in Sales : stock'[t] = NotSeeded <=> stock[t] = NotSeeded
    BY <1>3, BuyEffect
  <2>. QED  BY <2>1, <2>2
<1>4. CASE OfDrain(DrainNext)
  BY <1>1, <1>4, DrainFrame DEF gateVars, seedingVars
<1>. QED  BY <1>1, <1>2, <1>3, <1>4, OthersMove DEF Next

LEMMA ReservedFinite ==
    ASSUME TypeOK, IsFiniteSet(stream), NEW s
    PROVE  IsFiniteSet(Reserved(s)) /\ Cardinality(Reserved(s)) \in Nat
<1>1. IsFiniteSet(stream \cup ledger)
  BY FS_Union DEF TypeOK, LedgerTypeOK
<1>2. Reserved(s) \subseteq stream \cup ledger
  BY DEF Reserved
<1>. QED  BY <1>1, <1>2, FS_Subset, FS_CardinalityType

\* The pipeline leaves stock for what the sale has not sold: at that moment its reservations
\* are the rows the call has read.
LEMMA SeedLeavesStock ==
    ASSUME BaseInv, SeededOnce, NEW c \in Callers, Seed(c)
    PROVE  LET s == SaleOf[c]
           IN  /\ s \in Sales /\ stock[s] = NotSeeded
               /\ loaded[c] = Rows(s)
               /\ Reserved(s) = Rows(s)
               /\ stock'[s] \in Nat
               /\ stock'[s] + Cardinality(Rows(s)) = InitialStock[s]
               /\ \A t \in Sales \ {s} : stock'[t] = stock[t] /\ buyers'[t] = buyers[t]
<1>. DEFINE s == SaleOf[c]
<1>1. s \in Sales /\ InitialStock[s] \in Nat
  BY SeedingAssumption, GateAssumption
<1>2. stock[s] = NotSeeded /\ loaded[c] = Rows(s)
  BY DEF Seed, Go, SeededOnce, BaseInv, LoadedOnRecord
<1>3. Reserved(s) = Rows(s)
  BY <1>1, <1>2 DEF BaseInv, NothingBeforeSeed, Reserved, Rows
<1>4. Cardinality(Rows(s)) \in Nat /\ Cardinality(Rows(s)) <= InitialStock[s]
  <2>1. IsFiniteSet(Rows(s))
    BY FS_Subset DEF BaseInv, TypeOK, LedgerTypeOK, Rows
  <2>. QED  BY <1>1, <1>2, <2>1, FS_CardinalityType DEF BaseInv, NothingBeforeSeed
<1>5. /\ stock'[s] = RemainingOf(c)
      /\ \A t \in Sales \ {s} : stock'[t] = stock[t] /\ buyers'[t] = buyers[t]
  <2>1. ~SeedBuyers(c)
    BY DEF Seed, SeedBuyers, Go
  <2>. QED  BY <2>1, PipelineEffect DEF BaseInv, LoadedOnRecord
<1>. QED  BY <1>1, <1>2, <1>3, <1>4, <1>5 DEF RemainingOf

LEMMA SoldStep ==
    ASSUME SeedHeard, StockInv, [Next]_vars
    PROVE  IsFiniteSet(stream)' /\ SoldWithinStock'
<1>. USE DEF StockInv
<1>1. ASSUME UNCHANGED <<stock, stream>>, \A s \in Sales : Reserved(s)' = Reserved(s)
      PROVE  IsFiniteSet(stream)' /\ SoldWithinStock'
  BY <1>1 DEF SoldWithinStock
<1>2. ASSUME NEW s \in Sales, NEW b \in Buyers, Buy(s, b)
      PROVE  IsFiniteSet(stream)' /\ SoldWithinStock'
  <2>1. ledger' = ledger
    BY <1>2, BuyEffect DEF BaseInv
  <2>2. CASE UNCHANGED <<stock, buyers, stream>>
    BY <1>1, <2>1, <2>2 DEF Reserved
  <2>3. ASSUME NEW i \in Nat \ {NoId},
               Reserve(s, b, i), stream' = stream \cup {EntryOf(s, b, i)},
               stock[s] \in Nat \ {0}, stock[s] # NotSeeded, buyers[s][b] = NoId,
               \A t \in Sales : stock'[t] = NotSeeded <=> stock[t] = NotSeeded
        PROVE  IsFiniteSet(stream)' /\ SoldWithinStock'
    <3>1. /\ stock'[s] = stock[s] - 1
          /\ \A t \in Sales \ {s} : stock'[t] = stock[t]
      BY <2>3, SuccessCounts DEF BaseInv
    <3>2. /\ Reserved(s)' = Reserved(s) \cup {EntryOf(s, b, i)}
          /\ \A t \in Sales \ {s} : Reserved(t)' = Reserved(t)
      BY <2>1, <2>3 DEF Reserved, EntryOf
    <3>3. /\ Cardinality(Reserved(s)) \in Nat
          /\ \/ Cardinality(Reserved(s)') = Cardinality(Reserved(s))
             \/ Cardinality(Reserved(s)') = Cardinality(Reserved(s)) + 1
      BY <3>2, ReservedFinite, FS_AddElement DEF BaseInv
    <3>4. stock'[s] + Cardinality(Reserved(s)') <= InitialStock[s]
      BY <2>3, <3>1, <3>3, GateAssumption DEF SoldWithinStock
    <3>5. IsFiniteSet(stream')
      BY <2>3, FS_AddElement
    <3>. QED  BY <2>3, <3>1, <3>2, <3>4, <3>5 DEF SoldWithinStock
  <2>. QED  BY <1>2, <2>2, <2>3, BuyEffect DEF BaseInv
<1>3. CASE OfSeeding(SeedingNext)
  <2>1. UNCHANGED <<stream, ledger>> /\ \A s \in Sales : Reserved(s)' = Reserved(s)
    BY <1>3, SeedingFrame DEF Reserved
  <2>2. ASSUME NEW c \in Callers, Seed(c)
        PROVE  SoldWithinStock'
    BY <2>1, <2>2, SeedLeavesStock, GateAssumption DEF SoldWithinStock
  <2>3. ASSUME NEW c \in Callers, SeedBuyers(c) \/ SeedUnheard(c)
        PROVE  stock' = stock
    BY <2>3 DEF SeedBuyers, SeedUnheard
  <2>. QED  BY <1>1, <1>3, <2>1, <2>2, <2>3, SeedingFrame
<1>4. CASE OfDrain(DrainNext)
  <2>1. UNCHANGED <<stock, stream>> /\ stream' \cup ledger' = stream \cup ledger
    BY <1>4, DrainEffect
  <2>. QED  BY <1>1, <2>1 DEF Reserved
<1>5. CASE OfPostgres(PostgresStops \/ PostgresReturns) \/ UNCHANGED vars
  BY <1>1, <1>5, OthersMove DEF Reserved
<1>. QED  BY <1>2, <1>3, <1>4, <1>5 DEF Next

\* Stock covers what is reserved, as long as a sale is seeded by one call, once, under a lock
\* that nobody else's DEL removes: also when purchases come between the two commands of its
\* pipeline.
THEOREM StockHolds ==
    ASSUME SeedWithinTTL, ReleaseHeard, SeedHeard
    PROVE  Spec => []StockInv
<1>1. Init => StockInv
  BY InitBaseInv, FS_EmptySet
     DEF Init, GateInit, SeedingInit, StockInv, LockHeld, UnderLock, SeededOnce,
         SoldWithinStock
<1>2. StockInv /\ [Next]_vars => StockInv'
  BY BaseInvStep, LockStep, OnceStep, SoldStep DEF StockInv, BaseInv
<1>. QED  BY <1>1, <1>2, PTL DEF Spec

\* Every holder and every row is a reservation of its own.
LEMMA StockInvNoOversell == StockInv => NoOversell
<1>. SUFFICES ASSUME StockInv, NEW s \in Sales
              PROVE  /\ Cardinality(Holders(s)) <= InitialStock[s]
                     /\ Cardinality(Rows(s)) <= InitialStock[s]
  BY DEF NoOversell
<1>. USE DEF StockInv, BaseInv
<1>1. InitialStock[s] \in Nat
  BY GateAssumption
<1>2. CASE stock[s] = NotSeeded
  <2>1. Holders(s) = {}
    BY <1>2 DEF NothingBeforeSeed, Holders
  <2>. QED  BY <1>1, <1>2, <2>1, FS_EmptySet DEF NothingBeforeSeed
<1>3. CASE stock[s] # NotSeeded
  <2>1. IsFiniteSet(Reserved(s)) /\ Cardinality(Reserved(s)) \in Nat
    BY ReservedFinite
  <2>2. Cardinality(Reserved(s)) <= InitialStock[s]
    BY <1>1, <1>3, <2>1 DEF SoldWithinStock, TypeOK, GateTypeOK
  <2>3. Cardinality(Holders(s)) <= Cardinality(Reserved(s))
    <3>. DEFINE f == [b \in Holders(s) |-> EntryOf(s, b, buyers[s][b])]
    <3>1. \A b \in Holders(s) : f[b] \in Reserved(s) /\ f[b].buyer = b
      BY DEF HoldersReserved, Holders, Reserved, EntryOf
    <3>2. f \in Injection(Holders(s), Reserved(s))
      BY <3>1 DEF Injection, IsInjective
    <3>. QED  BY <2>1, <3>2, FS_Injection
  <2>4. Cardinality(Rows(s)) <= Cardinality(Reserved(s)) /\ Cardinality(Rows(s)) \in Nat
    <3>1. Rows(s) \subseteq Reserved(s)
      BY DEF Rows, Reserved
    <3>. QED  BY <2>1, <3>1, FS_Subset, FS_CardinalityType
  <2>. QED  BY <1>1, <2>1, <2>2, <2>3, <2>4, HoldersFinite
<1>. QED  BY <1>2, <1>3

\* No Oversell, for any number of buyers, nodes and workers: the Gate never has more
\* holders, and the Ledger never more rows, than the sale had units. What it takes is a lock
\* that outlives its holder, and a seed and a DEL that are sent once.
THEOREM NeverOversells ==
    ASSUME SeedWithinTTL, ReleaseHeard, SeedHeard
    PROVE  Spec => []NoOversell
<1>. QED  BY StockHolds, StockInvNoOversell, PTL

LEMMA StepNeverClobbers ==
    ASSUME SeedHeard, StockInv, [Next]_vars,
           NEW s \in Sales, stock[s] # NotSeeded, stock'[s] # stock[s]
    PROVE  /\ stock'[s] = stock[s] - 1
           /\ Cardinality(Holders(s)') = Cardinality(Holders(s)) + 1
<1>. USE DEF StockInv
<1>1. ASSUME NEW t \in Sales, NEW b \in Buyers, Buy(t, b)
      PROVE  /\ stock'[s] = stock[s] - 1
             /\ Cardinality(Holders(s)') = Cardinality(Holders(s)) + 1
  <2>1. PICK i \in Nat \ {NoId} :
             Reserve(t, b, i) /\ stock[t] \in Nat \ {0} /\ buyers[t][b] = NoId
    BY <1>1, BuyEffect DEF BaseInv
  <2>2. t = s
    BY <2>1, SuccessCounts DEF BaseInv
  <2>. QED  BY <2>1, <2>2, SuccessCounts DEF BaseInv
<1>2. CASE OfSeeding(SeedingNext)
  <2>1. ASSUME NEW c \in Callers, Seed(c) PROVE stock'[s] = stock[s]
    BY <2>1, SeedLeavesStock
  <2>2. ASSUME NEW c \in Callers, SeedBuyers(c) \/ SeedUnheard(c)
        PROVE  stock'[s] = stock[s]
    BY <2>2 DEF SeedBuyers, SeedUnheard
  <2>. QED  BY <1>2, <2>1, <2>2, SeedingFrame
<1>3. CASE OfDrain(DrainNext)
  BY <1>3, DrainEffect
<1>4. CASE OfPostgres(PostgresStops \/ PostgresReturns) \/ UNCHANGED vars
  BY <1>4, OthersMove
<1>. QED  BY <1>1, <1>2, <1>3, <1>4 DEF Next

\* An intact Gate is never clobbered: on these assumptions recovery resurrects no sold unit.
THEOREM ClobbersNothing ==
    ASSUME SeedWithinTTL, ReleaseHeard, SeedHeard
    PROVE  Spec => NeverClobbered
<1>1. StockInv /\ [Next]_vars =>
        [\A s \in Sales : stock[s] # NotSeeded /\ stock'[s] # stock[s] =>
            /\ stock'[s] = stock[s] - 1
            /\ Cardinality(Holders(s)') = Cardinality(Holders(s)) + 1]_vars
  BY StepNeverClobbers
<1>. QED  BY <1>1, StockHolds, PTL DEF Spec, NeverClobbered

-------------------------------------------------------------------------------
(* To the unit, on all four assumptions about seeding.                     *)

\* The seed of a sale brings in its rows: as many holders as rows.
LEMMA SeedCounts ==
    ASSUME PipelineWhole, BaseInv, SeededOnce, NEW c \in Callers, Seed(c)
    PROVE  Cardinality(Holders(SaleOf[c])') = Cardinality(Rows(SaleOf[c]))
<1>. PICK s \in Sales : s = SaleOf[c]
  BY SeedingAssumption
<1>1. /\ stock[s] = NotSeeded
      /\ loaded[c] = Rows(s)
  BY SeedLeavesStock
<1>2. /\ \A r \in Rows(s) : buyers'[s][r.buyer] = r.id
      /\ \A b \in Buyers :
           \/ buyers'[s][b] = buyers[s][b]
           \/ \E r \in Rows(s) : r.buyer = b /\ buyers'[s][b] = r.id
  <2>1. SetBuyers(s, loaded[c])
    BY DEF Seed
  <2>. QED  BY <1>1, <2>1, PipelineEffect DEF BaseInv, LoadedOnRecord
<1>3. \A b \in Buyers : buyers[s][b] = NoId
  BY <1>1 DEF BaseInv, NothingBeforeSeed
<1>4. /\ IsFiniteSet(Rows(s))
      /\ \A q, r \in Rows(s) : q.buyer = r.buyer => q = r
      /\ \A r \in Rows(s) : r.buyer \in Buyers /\ r.id # NoId
  BY FS_Subset DEF Rows, BaseInv, OneRowPerBuyer, TypeOK, LedgerTypeOK, Entry
<1>5. Holders(s)' = {r.buyer : r \in Rows(s)}
  BY <1>2, <1>3, <1>4 DEF Holders
<1>. QED  BY <1>4, <1>5, RowsCount

LEMMA ConservedStep ==
    ASSUME PipelineWhole, SeedHeard, CoreInv, [Next]_vars
    PROVE  StockConserved'
<1>. USE DEF CoreInv, HashInv
<1>1. ASSUME UNCHANGED <<stock, buyers>>
      PROVE  StockConserved'
  BY <1>1 DEF StockConserved, Holders
<1>2. ASSUME NEW s \in Sales, NEW b \in Buyers, Buy(s, b)
      PROVE  StockConserved'
  <2>1. ASSUME NEW i \in Nat \ {NoId}, Reserve(s, b, i),
               stock[s] \in Nat \ {0}, stock[s] # NotSeeded, buyers[s][b] = NoId,
               NEW t \in Sales, stock'[t] # NotSeeded
        PROVE  stock'[t] + Cardinality(Holders(t)') = InitialStock[t]
    <3>1. CASE t = s
      <4>1. stock[s] + Cardinality(Holders(s)) = InitialStock[s]
        BY <2>1 DEF StockConserved
      <4>. QED  BY <2>1, <3>1, <4>1, SuccessCounts, HoldersFinite DEF BaseInv
    <3>2. CASE t # s
      <4>1. stock'[t] = stock[t] /\ buyers'[t] = buyers[t]
        BY <2>1, <3>2, SuccessCounts DEF BaseInv
      <4>2. Holders(t)' = Holders(t)
        BY <4>1 DEF Holders
      <4>. QED  BY <2>1, <4>1, <4>2 DEF StockConserved
    <3>. QED  BY <3>1, <3>2
  <2>2. \/ UNCHANGED <<stock, buyers>>
        \/ \E i \in Nat \ {NoId} :
             /\ Reserve(s, b, i) /\ buyers[s][b] = NoId
             /\ stock[s] \in Nat \ {0} /\ stock[s] # NotSeeded
    BY <1>2, BuyEffect DEF BaseInv
  <2>. QED  BY <1>1, <2>1, <2>2 DEF StockConserved
<1>3. CASE OfSeeding(SeedingNext)
  <2>1. ASSUME NEW c \in Callers, Seed(c)
        PROVE  StockConserved'
    <3>. PICK s \in Sales : s = SaleOf[c]
      BY SeedingAssumption
    <3>1. /\ stock'[s] + Cardinality(Holders(s)') = InitialStock[s]
          /\ \A t \in Sales \ {s} : stock'[t] = stock[t] /\ buyers'[t] = buyers[t]
      BY <2>1, SeedLeavesStock, SeedCounts
    <3>2. \A t \in Sales \ {s} : Holders(t)' = Holders(t)
      BY <3>1 DEF Holders
    <3>. QED  BY <3>1, <3>2 DEF StockConserved
  <2>2. \A c \in Callers : ~SeedBuyers(c) /\ ~SeedUnheard(c)
    BY DEF SeedBuyers, SeedUnheard, Go
  <2>. QED  BY <1>1, <1>3, <2>1, <2>2, SeedingFrame
<1>4. CASE OfDrain(DrainNext)
  BY <1>1, <1>4, DrainEffect
<1>. QED  BY <1>1, <1>2, <1>3, <1>4, OthersMove DEF Next

LEMMA InitCoreInv == Init => CoreInv
<1>1. Init => ReservedKnown /\ StockConserved /\ \A c \in Callers : at[c] # "hset"
  BY LedgerAssumption
     DEF Init, GateInit, LedgerInit, SeedingInit, ReservedKnown, StockConserved, Entry
<1>2. Init => LockHeld /\ SeededOnce
  BY DEF Init, SeedingInit, LockHeld, UnderLock, SeededOnce
<1>. QED  BY <1>1, <1>2, InitBaseInv DEF CoreInv, HashInv

LEMMA CoreInvStep ==
    ASSUME SeedWithinTTL, ReleaseHeard, PipelineWhole, SeedHeard, CoreInv, [Next]_vars
    PROVE  CoreInv'
<1>1. HashInv'
  BY HashStep DEF CoreInv
<1>2. LockHeld' /\ SeededOnce'
  BY LockStep, OnceStep DEF CoreInv, HashInv, BaseInv
<1>. QED  BY <1>1, <1>2, ConservedStep DEF CoreInv

LEMMA CoreInvHolds ==
    ASSUME SeedWithinTTL, ReleaseHeard, PipelineWhole, SeedHeard
    PROVE  Spec => []CoreInv
<1>1. CoreInv /\ [Next]_vars => CoreInv'
  BY CoreInvStep
<1>. QED  BY <1>1, InitCoreInv, PTL DEF Spec

\* All that the properties rest on holds together, on the four assumptions about seeding.
THEOREM InvariantHolds ==
    ASSUME SeedWithinTTL, ReleaseHeard, PipelineWhole, SeedHeard
    PROVE  Spec => []IndInv
<1>1. CoreInv /\ StockInv /\ (HashInv /\ ReceiptsHonoured) => IndInv
  BY DEF IndInv
<1>. QED  BY <1>1, CoreInvHolds, StockHolds, HashHolds, PTL

\* Units are neither lost nor made.
THEOREM ConservesStock ==
    ASSUME SeedWithinTTL, ReleaseHeard, PipelineWhole, SeedHeard
    PROVE  Spec => []StockConserved
<1>1. CoreInv => StockConserved
  BY DEF CoreInv
<1>. QED  BY <1>1, CoreInvHolds, PTL

\* A unit for every holder, and a holder for every row: what is left adds up.
LEMMA CoreInvNoOversell == CoreInv => NoOversell
<1>. SUFFICES ASSUME CoreInv, NEW s \in Sales
              PROVE  /\ Cardinality(Holders(s)) <= InitialStock[s]
                     /\ Cardinality(Rows(s)) <= InitialStock[s]
  BY DEF NoOversell
<1>. USE DEF CoreInv, HashInv, BaseInv
<1>1. InitialStock[s] \in Nat
  BY GateAssumption
<1>2. CASE stock[s] = NotSeeded
  <2>1. Holders(s) = {}
    BY <1>2 DEF NothingBeforeSeed, Holders
  <2>. QED  BY <1>1, <1>2, <2>1, FS_EmptySet DEF NothingBeforeSeed
<1>3. CASE stock[s] # NotSeeded
  <2>1. Cardinality(Holders(s)) <= InitialStock[s]
    BY <1>1, <1>3, HoldersFinite DEF StockConserved, TypeOK, GateTypeOK
  <2>2. Cardinality(Rows(s)) <= Cardinality(Holders(s)) /\ Cardinality(Rows(s)) \in Nat
    <3>. DEFINE f == [r \in Rows(s) |-> r.buyer]
    <3>1. \A r \in Rows(s) : r.buyer \in Holders(s)
      BY <1>3 DEF TypeOK, LedgerTypeOK, ReservedKnown, Rows, Holders, Entry
    <3>2. \A q, r \in Rows(s) : q.buyer = r.buyer => q = r
      BY DEF OneRowPerBuyer, Rows
    <3>3. f \in Injection(Rows(s), Holders(s))
      BY <3>1, <3>2 DEF Injection, IsInjective
    <3>4. IsFiniteSet(Rows(s))
      BY FS_Subset DEF TypeOK, LedgerTypeOK, Rows
    <3>. QED  BY <3>3, <3>4, HoldersFinite, FS_Injection, FS_CardinalityType
  <2>. QED  BY <1>1, <2>1, <2>2, HoldersFinite
<1>. QED  BY <1>2, <1>3

-------------------------------------------------------------------------------
(* What was acknowledged is on record, as long as ids tell entries apart.  *)

LEMMA InitRecorded == Init => RecordInv
BY LedgerAssumption
   DEF Init, GateInit, LedgerInit, DrainInit, RecordInv, IdsTellApart, WrittenIsRecorded,
       AcknowledgedIsRecorded

\* An insert leaves the row behind, whether it was new or there already.
LEMMA PersistRecords ==
    ASSUME HashInv, IdsTellApart, NEW w \in Workers, NEW e \in hand[w], Persist(w, e)
    PROVE  /\ ledger' = ledger \cup {e}
           /\ IdsTellApart'
<1>1. e \in stream /\ stock[e.sale] # NotSeeded /\ buyers[e.sale][e.buyer] = e.id
  BY PersistAdds DEF HashInv, ReservedKnown
<1>2. \A r \in Conflicts(e) : r.id = e.id
  BY <1>1 DEF HashInv, ReservedKnown, Conflicts
<1>3. \A r \in Conflicts(e) : r = e
  BY <1>1, <1>2 DEF IdsTellApart, Conflicts
<1>4. ledger' = ledger \cup {e}
  BY <1>3 DEF Persist, InsertRow, Conflicts
<1>5. stream' = stream /\ clock' = clock
  BY DEF Persist, gateVars
<1>. QED  BY <1>1, <1>4, <1>5 DEF IdsTellApart

\* Without two streams in one millisecond a new reservation's id is later than all others.
LEMMA BuyRecorded ==
    ASSUME DistinctMs, HashInv, RecordInv, NEW s \in Sales, NEW b \in Buyers, Buy(s, b)
    PROVE  RecordInv'
<1>1. WrittenIsRecorded' /\ AcknowledgedIsRecorded'
  BY BuyFrame DEF RecordInv, WrittenIsRecorded, AcknowledgedIsRecorded, ledgerVars, drainVars,
     groupVars, workerVars
<1>2. CASE GateCode(s, b) = "SUCCESS"
  <2>1. PICK i \in NewIds(s) : Reserve(s, b, i)
    BY <1>2, SuccessfulBuy DEF HashInv, BaseInv
  <2>2. i = clock + 1
    BY <2>1 DEF NewIds
  <2>3. /\ stream' = stream \cup {EntryOf(s, b, clock + 1)}
        /\ clock' = clock + 1 /\ clock \in Nat
        /\ ledger' = ledger
    BY <2>1, <2>2, BuyFrame DEF Reserve, HashInv, BaseInv, TypeOK, GateTypeOK, ledgerVars
  <2>4. \A e \in stream \cup ledger : e.id \in Nat /\ e.id <= clock
    BY DEF RecordInv, IdsTellApart, HashInv, BaseInv, TypeOK, GateTypeOK, LedgerTypeOK, Entry
  <2>5. IdsTellApart'
    BY <2>3, <2>4 DEF RecordInv, IdsTellApart, EntryOf
  <2>. QED  BY <1>1, <2>5 DEF RecordInv
<1>3. CASE GateCode(s, b) # "SUCCESS"
  BY <1>1, <1>3, BuyFrame DEF RecordInv, IdsTellApart, gateVars, ledgerVars
<1>. QED  BY <1>2, <1>3

LEMMA DrainRecorded ==
    ASSUME HashInv, RecordInv, OfDrain(DrainNext)
    PROVE  RecordInv'
<1>. USE DEF RecordInv, WrittenIsRecorded, AcknowledgedIsRecorded
<1>. USE DEF HashInv, BaseInv, TypeOK, DrainTypeOK
<1>1. stream' = stream /\ clock' = clock
  BY DrainFrame DEF gateVars
<1>2. ASSUME NEW w \in Workers,
             WorkerStarts(w) \/ StartDrain(w) \/ RefreshStreams(w) \/ NoGroup(w)
               \/ PersistThrows(w)
      PROVE  RecordInv'
  BY <1>1, <1>2 DEF WorkerStarts, StartDrain, RefreshStreams, NoGroup, PersistThrows, BacksOff,
     groupVars, ledgerVars, IdsTellApart
<1>3. ASSUME NEW w \in Workers, WorkerDies(w) \/ RefreshThrows(w)
      PROVE  RecordInv'
  BY <1>1, <1>3 DEF WorkerDies, RefreshThrows, Dies, groupVars, ledgerVars, IdsTellApart
<1>4. ASSUME NEW w \in Workers, NEW s \in Sales, ReclaimStale(w, s)
      PROVE  RecordInv'
  BY <1>1, <1>4 DEF ReclaimStale, ledgerVars, IdsTellApart
<1>5. ASSUME NEW w \in Workers, ReadBatch(w)
      PROVE  RecordInv'
  <2>. DEFINE got == UNION {Handed(s) : s \in streams[w]}
  <2>1. /\ delivered' = delivered \cup got /\ pel' = pel \cup got
        /\ ledger' = ledger /\ written' = written
    BY <1>5 DEF ReadBatch, ledgerVars
  <2>. HIDE DEF got
  <2>. QED  BY <1>1, <2>1 DEF IdsTellApart
<1>6. ASSUME NEW w \in Workers, NEW e \in hand[w], Persist(w, e)
      PROVE  RecordInv'
  <2>1. ledger' = ledger \cup {e} /\ IdsTellApart'
    BY <1>6, PersistRecords
  <2>2. WrittenIsRecorded'
    BY <1>6, <2>1 DEF Persist
  <2>3. AcknowledgedIsRecorded'
    BY <1>6, <2>1 DEF Persist, groupVars
  <2>. QED  BY <2>1, <2>2, <2>3
<1>7. ASSUME NEW w \in Workers, Acknowledge(w)
      PROVE  RecordInv'
  BY <1>1, <1>7 DEF Acknowledge, ledgerVars, IdsTellApart
<1>8. ASSUME NEW e \in pel, GoesStale(e)
      PROVE  RecordInv'
  BY <1>1, <1>8 DEF GoesStale, workerVars, ledgerVars, IdsTellApart
<1>. QED
  BY <1>2, <1>3, <1>4, <1>5, <1>6, <1>7, <1>8 DEF OfDrain, DrainNext, Drains, Refreshes

LEMMA RecordedStep ==
    ASSUME DistinctMs, HashInv, RecordInv, [Next]_vars
    PROVE  RecordInv'
<1>. USE DEF RecordInv, IdsTellApart, WrittenIsRecorded, AcknowledgedIsRecorded
<1>1. CASE OfSeeding(SeedingNext)
  BY <1>1, SeedingFrame DEF drainVars, groupVars, workerVars
<1>2. CASE OfPostgres(PostgresStops \/ PostgresReturns)
  BY <1>2, PostgresStep DEF gateVars, drainVars, groupVars, workerVars
<1>3. CASE UNCHANGED vars
  BY <1>3 DEF vars, gateVars, ledgerVars, drainVars, groupVars, workerVars
<1>. QED  BY <1>1, <1>2, <1>3, BuyRecorded, DrainRecorded DEF Next

\* What is acknowledged is on record under ids that tell all reservations apart, and a
\* worker acknowledges only what it has written: inductive on top of HashInv, so that neither
\* an early expiry nor a pipeline sent twice matters to it.
THEOREM KeepsRecords ==
    ASSUME PipelineWhole, DistinctMs
    PROVE  Spec => []RecordInv
<1>1. HashInv /\ RecordInv /\ [Next]_vars => RecordInv'
  BY RecordedStep
<1>. QED  BY <1>1, InitRecorded, HashHolds, PTL DEF Spec

\* Exactly-once bookkeeping: through every crash, redelivery and race of two workers, an
\* entry leaves the pending list only once its row is in the Ledger.
THEOREM AcknowledgesOnlyRecorded ==
    ASSUME PipelineWhole, DistinctMs
    PROVE  Spec => []AcknowledgedIsRecorded
<1>1. RecordInv => AcknowledgedIsRecorded
  BY DEF RecordInv
<1>. QED  BY <1>1, KeepsRecords, PTL

-------------------------------------------------------------------------------
(* RushSale implements FlashSale.                                          *)

LEMMA BuyHandsOut ==
    ASSUME IndInv, NEW s \in Sales, NEW b \in Buyers, Buy(s, b)
    PROVE  Promise!HandOut \/ UNCHANGED <<stream \cup ledger, ledger>>
<1>. USE DEF IndInv, CoreInv, HashInv, BaseInv
<1>1. ledger' = ledger
  BY BuyEffect
<1>2. CASE UNCHANGED <<stock, buyers, stream>>
  BY <1>1, <1>2
<1>3. ASSUME NEW i \in Nat \ {NoId}, stream' = stream \cup {EntryOf(s, b, i)},
             stock[s] \in Nat \ {0}, stock[s] # NotSeeded, buyers[s][b] = NoId
      PROVE  Promise!HandOut
  <2>. DEFINE e == EntryOf(s, b, i)
  <2>1. stream' = stream \cup {e} /\ e.sale = s /\ e.buyer = b
    BY <1>3 DEF EntryOf
  <2>2. \A r \in Reserved(s) : r.buyer # b
    BY <1>3 DEF TypeOK, GateTypeOK, LedgerTypeOK, ReservedKnown, Reserved, Entry
  <2>3. e \notin stream \cup ledger
    BY <2>1, <2>2 DEF Reserved
  <2>4. Cardinality(Reserved(s)) < InitialStock[s]
    BY <1>3, ReservedFinite, GateAssumption DEF StockInv, SoldWithinStock
  <2>5. Promise!SoldOf(e.sale) = Reserved(s)
    BY <2>1 DEF Promise!SoldOf, Reserved
  <2>. HIDE DEF e
  <2>6. e \in (stream' \cup ledger') \ (stream \cup ledger)
    BY <1>1, <2>1, <2>3
  <2>7. stream' \cup ledger' = (stream \cup ledger) \cup {e}
    BY <1>1, <2>1
  <2>8. \A r \in Promise!SoldOf(e.sale) : r.buyer # e.buyer
    BY <2>1, <2>2, <2>5
  <2>9. Promise!Cardinality(Promise!SoldOf(e.sale)) < InitialStock[e.sale]
    <3>1. Promise!Cardinality(Reserved(s)) = Cardinality(Reserved(s))
      BY Zenon DEF Promise!Cardinality, Cardinality
    <3>. QED  BY <2>1, <2>4, <2>5, <3>1
  <2>. QED  BY <1>1, <2>6, <2>7, <2>8, <2>9 DEF Promise!HandOut
<1>. QED  BY <1>2, <1>3, BuyEffect

LEMMA DrainRecords ==
    ASSUME BaseInv, OfDrain(DrainNext)
    PROVE  (\E e \in stream \cup ledger : Promise!Record(e))
             \/ UNCHANGED <<stream \cup ledger, ledger>>
<1>1. stream' = stream
  BY DrainEffect
<1>2. CASE ledger' = ledger
  BY <1>1, <1>2
<1>3. ASSUME NEW e \in stream, ledger' = ledger \cup {e}, ledger' # ledger
      PROVE  Promise!Record(e)
  BY <1>1, <1>3 DEF Promise!Record
<1>. QED  BY <1>1, <1>2, <1>3, DrainEffect

\* The system with its Gate, stream and workers keeps the promises of FlashSale.
THEOREM ImplementsFlashSale ==
    ASSUME SeedWithinTTL, ReleaseHeard, PipelineWhole, SeedHeard
    PROVE  Spec => KeepsPromise
<1>1. Init => Promise!Init
  BY DEF Init, GateInit, LedgerInit, Promise!Init
<1>2. IndInv /\ [Next]_vars => [Promise!Next]_<<stream \cup ledger, ledger>>
  <2>. SUFFICES ASSUME IndInv, [Next]_vars
                PROVE  [Promise!Next]_<<stream \cup ledger, ledger>>
    OBVIOUS
  <2>1. BaseInv
    BY DEF IndInv, StockInv
  <2>2. CASE OfSeeding(SeedingNext)
    BY <2>2, SeedingFrame
  <2>3. CASE OfPostgres(PostgresStops \/ PostgresReturns) \/ UNCHANGED vars
    BY <2>3, OthersMove
  <2>. QED
    BY <2>1, <2>2, <2>3, BuyHandsOut, DrainRecords DEF Next, Promise!Next
<1>. QED  BY <1>1, <1>2, InvariantHolds, PTL DEF Spec, KeepsPromise, Promise!Spec
===============================================================================
