---------------------------- MODULE RedisLossProofs ---------------------------
(***************************************************************************)
(* Theorems about RedisLoss: what survives a Redis that loses data, for    *)
(* any number of losses, sales, buyers, callers and workers.               *)
(***************************************************************************)
EXTENDS RedisLoss, RushSaleProofs

-------------------------------------------------------------------------------
(* Types: no assumption on when the losses come.                           *)

LEMMA LiveIsSnapshot ==
    ASSUME TypeOK
    PROVE  /\ Live \in Snapshot
           /\ Live.pel \subseteq Live.delivered /\ Live.stale \subseteq Live.pel
BY DEF TypeOK, GateTypeOK, SeedingTypeOK, DrainTypeOK, Live, Snapshot

LEMMA EmptyIsSnapshot ==
    /\ Empty \in Snapshot
    /\ Empty.pel \subseteq Empty.delivered /\ Empty.stale \subseteq Empty.pel
BY DEF Empty, Snapshot, NoId

\* The processes and the Ledger are as they were, Redis is as r has it.
LEMMA ComesBackTypes ==
    ASSUME TypeOK, NEW r \in Snapshot, r.pel \subseteq r.delivered, r.stale \subseteq r.pel,
           ComesBackAs(r)
    PROVE  TypeOK'
<1>1. GateTypeOK'
  BY DEF TypeOK, GateTypeOK, ComesBackAs, Snapshot
<1>2. LedgerTypeOK'
  BY DEF TypeOK, LedgerTypeOK, ComesBackAs, ledgerVars
<1>3. SeedingTypeOK'
  BY DEF TypeOK, SeedingTypeOK, ComesBackAs, Snapshot
<1>4. DrainTypeOK'
  BY DEF TypeOK, DrainTypeOK, ComesBackAs, Snapshot, workerVars
<1>5. receipts' \subseteq Receipt
  BY DEF TypeOK, ComesBackAs
<1>. QED  BY <1>1, <1>2, <1>3, <1>4, <1>5 DEF TypeOK

LEMMA LossInitTypeOK == LossInit => LossTypeOK
BY InitTypeOK, EmptyIsSnapshot, RedisLossAssumption DEF LossInit, LossTypeOK

LEMMA LossTypeStep == LossTypeOK /\ [LossNext]_lossVars => LossTypeOK'
<1>. SUFFICES ASSUME LossTypeOK, [LossNext]_lossVars PROVE LossTypeOK'
  OBVIOUS
<1>1. CASE /\ Next
           /\ outlived' = {w \in outlived : Alive(w)'}
           /\ UNCHANGED <<aof, losses, forgotten>>
  BY <1>1, TypeStep DEF LossTypeOK
<1>2. CASE Fsync \/ UNCHANGED lossVars
  <2>1. /\ TypeOK' /\ wpc' = wpc
        /\ losses' = losses /\ outlived' = outlived /\ forgotten' = forgotten
    BY <1>2, TypeStep DEF Fsync, lossVars, vars, LossTypeOK, drainVars, workerVars
  <2>2. aof' = aof \/ aof' = Live
    BY <1>2 DEF Fsync, lossVars
  <2>. QED  BY <2>1, <2>2, LiveIsSnapshot DEF LossTypeOK, Alive
<1>3. ASSUME NEW r \in Snapshot, r.pel \subseteq r.delivered, r.stale \subseteq r.pel,
             ComesBackAs(r), aof' = r
      PROVE  LossTypeOK'
  <2>1. TypeOK'
    BY <1>3, ComesBackTypes DEF LossTypeOK
  <2>2. losses' \in 0 .. MaxLosses
    BY <1>3, RedisLossAssumption DEF LossTypeOK, ComesBackAs
  <2>3. outlived' \subseteq {w \in Workers : Alive(w)'}
    BY <1>3 DEF ComesBackAs, Alive, workerVars
  <2>4. forgotten' \subseteq Entry
    BY <1>3 DEF ComesBackAs, Forgets, LossTypeOK, TypeOK, GateTypeOK
  <2>. QED  BY <1>3, <2>1, <2>2, <2>3, <2>4 DEF LossTypeOK
<1>4. CASE Crash
  BY <1>3, <1>4 DEF Crash, LossTypeOK
<1>5. CASE Wipe
  BY <1>3, <1>5, EmptyIsSnapshot DEF Wipe
<1>. QED  BY <1>1, <1>2, <1>4, <1>5 DEF LossNext

\* Whatever a loss brings back, and whichever call or batch it cuts in two, every variable
\* keeps its type: stock never falls below zero, and what is pending was delivered.
THEOREM LossTypeCorrect == LossSpec => []LossTypeOK
<1>. QED  BY LossInitTypeOK, LossTypeStep, PTL DEF LossSpec

-------------------------------------------------------------------------------
(* The drain heals by a restart: no assumption on the losses either.       *)

\* The groups only grow, and no process comes up with a cache.
LEMMA DrainHeals ==
    ASSUME TypeOK, HealInv, OfDrain(DrainNext), outlived' = {w \in outlived : Alive(w)'}
    PROVE  HealInv'
<1>. USE DEF TypeOK, DrainTypeOK, HealInv, RestartHeals, Alive
<1>1. ASSUME NEW w \in Workers, WorkerStarts(w) \/ StartDrain(w)
      PROVE  HealInv'
  BY <1>1 DEF WorkerStarts, StartDrain, groupVars
<1>2. ASSUME NEW w \in Workers, WorkerDies(w) \/ RefreshThrows(w)
      PROVE  HealInv'
  BY <1>2 DEF WorkerDies, RefreshThrows, Dies, groupVars
<1>3. ASSUME NEW w \in Workers, RefreshStreams(w)
      PROVE  HealInv'
  BY <1>3 DEF RefreshStreams
<1>4. ASSUME NEW w \in Workers, NoGroup(w) \/ PersistThrows(w)
      PROVE  HealInv'
  BY <1>4 DEF NoGroup, PersistThrows, BacksOff, groupVars
<1>5. ASSUME NEW w \in Workers, NEW s \in Sales, ReclaimStale(w, s)
      PROVE  HealInv'
  BY <1>5 DEF ReclaimStale
<1>6. ASSUME NEW w \in Workers, ReadBatch(w)
      PROVE  HealInv'
  BY <1>6 DEF ReadBatch
<1>7. ASSUME NEW w \in Workers, NEW e \in hand[w], Persist(w, e)
      PROVE  HealInv'
  BY <1>7 DEF Persist, groupVars
<1>8. ASSUME NEW w \in Workers, Acknowledge(w)
      PROVE  HealInv'
  BY <1>8 DEF Acknowledge
<1>9. ASSUME NEW e \in pel, GoesStale(e)
      PROVE  HealInv'
  BY <1>9 DEF GoesStale, workerVars
<1>. QED
  BY <1>1, <1>2, <1>3, <1>4, <1>5, <1>6, <1>7, <1>8, <1>9 DEF OfDrain, DrainNext, Drains, Refreshes

LEMMA HealStep ==
    ASSUME LossTypeOK, HealInv, [LossNext]_lossVars
    PROVE  HealInv'
<1>1. ASSUME UNCHANGED drainVars, outlived' = outlived \/ outlived' = {w \in outlived : Alive(w)'}
      PROVE  HealInv'
  BY <1>1 DEF LossTypeOK, HealInv, RestartHeals, Alive, drainVars, groupVars, workerVars
<1>2. CASE /\ Next
           /\ outlived' = {w \in outlived : Alive(w)'}
           /\ UNCHANGED <<aof, losses, forgotten>>
  <2>1. ASSUME NEW s \in Sales, NEW b \in Buyers, Buy(s, b)
        PROVE  UNCHANGED drainVars
    BY <2>1, BuyFrame
  <2>2. CASE OfSeeding(SeedingNext)
    BY <1>1, <1>2, <2>2, SeedingFrame
  <2>3. CASE OfPostgres(PostgresStops \/ PostgresReturns)
    BY <1>1, <1>2, <2>3, PostgresStep
  <2>4. CASE OfDrain(DrainNext)
    BY <1>2, <2>4, DrainHeals DEF LossTypeOK
  <2>. QED  BY <1>1, <1>2, <2>1, <2>2, <2>3, <2>4 DEF Next
<1>3. CASE Fsync \/ UNCHANGED lossVars
  BY <1>1, <1>3 DEF Fsync, lossVars, vars
<1>4. CASE Crash \/ Wipe
  BY <1>4 DEF Crash, Wipe, ComesBackAs, HealInv, RestartHeals, Alive, workerVars
<1>. QED  BY <1>2, <1>3, <1>4 DEF LossNext

\* A worker that came up after the last loss drains no stream without a group, whatever was
\* lost and whenever: NOGROUP is for the workers that lived through it.
THEOREM RestartsHeal == LossSpec => []RestartHeals
<1>1. LossInit => HealInv
  BY DEF LossInit, Init, DrainInit, HealInv, RestartHeals
<1>2. LossTypeOK /\ HealInv /\ [LossNext]_lossVars => HealInv'
  BY HealStep
<1>3. HealInv => RestartHeals
  BY DEF HealInv
<1>. QED  BY <1>1, <1>2, <1>3, LossTypeCorrect, PTL DEF LossSpec

-------------------------------------------------------------------------------
(* What a loss cuts in two: no assumption on the losses.                   *)

\* The kinds of steps: one of RushSale that leaves file and history alone, an fsync, or a loss
\* that brings back what r has, a part of what there is.
LEMMA LossSteps ==
    ASSUME LossTypeOK, CutInv, [LossNext]_lossVars
    PROVE  \/ [Next]_vars /\ UNCHANGED <<aof, forgotten>>
           \/ UNCHANGED <<vars, forgotten>> /\ aof' = Live
           \/ \E r \in Snapshot :
                /\ r.stream \subseteq stream /\ r.delivered \subseteq r.stream
                /\ r = aof \/ r = Empty
                /\ ComesBackAs(r) /\ aof' = r
<1>1. Empty.stream \subseteq stream /\ Empty.delivered \subseteq Empty.stream
  BY DEF Empty
<1>2. CASE Crash
  BY <1>2 DEF Crash, CutInv, LossTypeOK
<1>3. CASE Wipe
  BY <1>1, <1>3, EmptyIsSnapshot DEF Wipe
<1>. QED  BY <1>2, <1>3 DEF LossNext, Fsync, lossVars

\* No step of RushSale removes an entry from a stream, or a row; what is new in the Ledger a
\* worker had in hand.
LEMMA NothingGoes ==
    ASSUME TypeOK, [Next]_vars
    PROVE  /\ stream \subseteq stream' /\ ledger \subseteq ledger'
           /\ \/ ledger' = ledger
              \/ stream' = stream /\ \E w \in Workers : \E e \in hand[w] : Persist(w, e)
           /\ \A w \in Workers : hand'[w] \subseteq hand[w] \cup stream \cup delivered
           /\ \A w \in Workers : written'[w] \subseteq written[w] \cup hand[w]
           /\ delivered' \subseteq delivered \cup stream
<1>1. ASSUME NEW s \in Sales, NEW b \in Buyers, Buy(s, b)
      PROVE  /\ stream \subseteq stream'
             /\ UNCHANGED <<ledger, hand, written, delivered>>
  BY <1>1, BuyEffect
<1>2. CASE OfSeeding(SeedingNext)
  BY <1>2, SeedingFrame DEF drainVars, groupVars, workerVars
<1>3. CASE OfDrain(DrainNext)
  <2>1. stream' = stream
    BY <1>3, DrainFrame DEF gateVars
  <2>2. ledger \subseteq ledger'
    BY <1>3, DrainFrame DEF Persist, InsertRow
  <2>. QED  BY <1>3, <2>1, <2>2, DrainFrame, DrainTakes
<1>. QED  BY <1>1, <1>2, <1>3, OthersMove DEF Next

LEMMA CutStep ==
    ASSUME LossTypeOK, CutInv, [LossNext]_lossVars
    PROVE  CutInv'
<1>. USE DEF CutInv
<1>1. CASE [Next]_vars /\ UNCHANGED <<aof, forgotten>>
  BY <1>1, NothingGoes DEF LossTypeOK
<1>2. CASE UNCHANGED <<vars, forgotten>> /\ aof' = Live
  BY <1>2 DEF Live, vars, gateVars, ledgerVars, drainVars, groupVars, workerVars
<1>3. ASSUME NEW r \in Snapshot, r.stream \subseteq stream, r.delivered \subseteq r.stream,
             ComesBackAs(r), aof' = r
      PROVE  CutInv'
  <2>1. /\ stream' = r.stream /\ delivered' = r.delivered
        /\ UNCHANGED <<ledger, hand, written>>
        /\ forgotten' = forgotten \cup Forgets(r)
    BY <1>3 DEF ComesBackAs, ledgerVars, workerVars
  <2>2. stream \cup ledger \subseteq stream' \cup ledger \cup forgotten'
    BY <2>1 DEF Forgets
  <2>. QED  BY <1>3, <2>1, <2>2
<1>. QED  BY <1>1, <1>2, <1>3, LossSteps

LEMMA CutInit == LossInit => CutInv
BY DEF LossInit, Init, DrainInit, CutInv, Empty

-------------------------------------------------------------------------------
(* Gates that sales have made.                                             *)

LEMMA EmptyMade ==
    ASSUME NEW L \in SUBSET Entry, NEW X
    PROVE  MadeBySales(Empty, L, X)
BY DEF MadeBySales, HoldersIn, Empty, Entry

LEMMA ReservedInFinite ==
    ASSUME NEW r, NEW L, IsFiniteSet(r.stream), IsFiniteSet(L), NEW X, NEW s
    PROVE  /\ IsFiniteSet(ReservedIn(r, L, X, s))
           /\ Cardinality(ReservedIn(r, L, X, s)) \in Nat
<1>1. IsFiniteSet(r.stream \cup L)
  BY FS_Union
<1>2. ReservedIn(r, L, X, s) \subseteq r.stream \cup L
  BY DEF ReservedIn
<1>. QED  BY <1>1, <1>2, FS_Subset, FS_CardinalityType

\* Rows may be added that are in the stream or left out of the account, and more left out.
LEMMA StaysMade ==
    ASSUME NEW r \in Snapshot, IsFiniteSet(r.stream),
           NEW L, NEW M, IsFiniteSet(L), L \subseteq M,
           NEW X, NEW Y, X \subseteq Y, M \subseteq L \cup r.stream \cup Y,
           MadeBySales(r, L, X)
    PROVE  MadeBySales(r, M, Y)
<1>1. ASSUME NEW s \in Sales, r.stock[s] # NotSeeded
      PROVE  r.stock[s] + Cardinality(ReservedIn(r, M, Y, s)) <= InitialStock[s]
  <2>1. ReservedIn(r, M, Y, s) \subseteq ReservedIn(r, L, X, s)
    BY DEF ReservedIn
  <2>2. /\ IsFiniteSet(ReservedIn(r, L, X, s))
        /\ Cardinality(ReservedIn(r, L, X, s)) \in Nat
    BY ReservedInFinite
  <2>3. /\ Cardinality(ReservedIn(r, M, Y, s)) \in Nat
        /\ Cardinality(ReservedIn(r, M, Y, s)) <= Cardinality(ReservedIn(r, L, X, s))
    BY <2>1, <2>2, FS_Subset, FS_CardinalityType
  <2>4. r.stock[s] \in Nat /\ InitialStock[s] \in Nat
    BY <1>1, GateAssumption DEF Snapshot
  <2>5. r.stock[s] + Cardinality(ReservedIn(r, L, X, s)) <= InitialStock[s]
    BY <1>1 DEF MadeBySales
  <2>. QED  BY <2>2, <2>3, <2>4, <2>5
<1>2. ASSUME NEW s \in Sales
      PROVE  /\ r.stock[s] = NotSeeded => HoldersIn(r, s) = {} /\ \A e \in r.stream : e.sale # s
             /\ r.stock[s] # NotSeeded => r.stock[s] = Left(s, Cardinality(HoldersIn(r, s)))
             /\ \A b \in HoldersIn(r, s) : EntryOf(s, b, r.buyers[s][b]) \in r.stream \cup M
  BY DEF MadeBySales
<1>3. /\ \A e \in r.stream : r.buyers[e.sale][e.buyer] = e.id
      /\ \A e \in M \ Y : r.stock[e.sale] # NotSeeded => r.buyers[e.sale][e.buyer] = e.id
  BY DEF MadeBySales
<1>. QED  BY <1>1, <1>2, <1>3 DEF MadeBySales

\* A Gate that was made but for all that the loss takes is made but for what it forgets: of a
\* sale with stock that is the same, of the others there is nothing to account for.
LEMMA ComesBackMade ==
    ASSUME LossTypeOK, NEW r \in Snapshot,
           MadeBySales(r, ledger, forgotten \cup (stream \ r.stream))
    PROVE  MadeBySales(r, ledger, forgotten \cup Forgets(r))
<1>. DEFINE X == forgotten \cup (stream \ r.stream)
            Y == forgotten \cup Forgets(r)
<1>1. ASSUME NEW s \in Sales, r.stock[s] # NotSeeded
      PROVE  ReservedIn(r, ledger, Y, s) = ReservedIn(r, ledger, X, s)
  BY <1>1 DEF ReservedIn, Forgets
<1>2. \A e \in ledger \ Y : r.stock[e.sale] # NotSeeded => e \notin X
  BY DEF Forgets
<1>3. MadeBySales(r, ledger, X)
  OBVIOUS
<1>. HIDE DEF X, Y
<1>4. MadeBySales(r, ledger, Y)
  BY <1>1, <1>2, <1>3 DEF MadeBySales
<1>. QED  BY <1>4 DEF Y

-------------------------------------------------------------------------------
(* The live Gate, step by step.                                            *)

\* What of s is reserved and not forgotten.
Kept(s) == {e \in (stream \cup ledger) \ forgotten : e.sale = s}

\* MadeBySales of the live Gate, read off its variables.
LiveMade ==
    /\ \A s \in Sales :
         /\ stock[s] = NotSeeded => Holders(s) = {} /\ \A e \in stream : e.sale # s
         /\ stock[s] # NotSeeded =>
              /\ stock[s] = Left(s, Cardinality(Holders(s)))
              /\ stock[s] + Cardinality(Kept(s)) <= InitialStock[s]
         /\ \A b \in Holders(s) : EntryOf(s, b, buyers[s][b]) \in stream \cup ledger
    /\ \A e \in stream : buyers[e.sale][e.buyer] = e.id
    /\ \A e \in ledger \ forgotten :
         stock[e.sale] # NotSeeded => buyers[e.sale][e.buyer] = e.id

LEMMA LiveIsMade ==
    /\ MadeBySales(Live, ledger, forgotten) <=> LiveMade
    /\ MadeBySales(Live, ledger, forgotten)' <=> LiveMade'
<1>1. /\ \A s : Holders(s) = HoldersIn(Live, s)
      /\ \A s : Kept(s) = ReservedIn(Live, ledger, forgotten, s)
      /\ \A s : Holders(s)' = HoldersIn(Live, s)'
      /\ \A s : Kept(s)' = ReservedIn(Live, ledger, forgotten, s)'
  BY DEF Holders, HoldersIn, Kept, ReservedIn, Live
<1>2. /\ Live.stock = stock /\ Live.buyers = buyers /\ Live.stream = stream
      /\ Live'.stock = stock' /\ Live'.buyers = buyers' /\ Live'.stream = stream'
  BY DEF Live
<1>3. MadeBySales(Live, ledger, forgotten) <=> LiveMade
  BY <1>1, <1>2 DEF MadeBySales, LiveMade
<1>4. MadeBySales(Live, ledger, forgotten)' <=> LiveMade'
  BY <1>1, <1>2 DEF MadeBySales, LiveMade
<1>. QED  BY <1>3, <1>4

LEMMA KeptFinite ==
    ASSUME TypeOK, IsFiniteSet(stream), NEW s
    PROVE  IsFiniteSet(Kept(s)) /\ Cardinality(Kept(s)) \in Nat
<1>1. IsFiniteSet(stream \cup ledger)
  BY FS_Union DEF TypeOK, LedgerTypeOK
<1>2. Kept(s) \subseteq stream \cup ledger
  BY DEF Kept
<1>. QED  BY <1>1, <1>2, FS_Subset, FS_CardinalityType

\* A purchase takes a unit that is left, and knows what it has added.
LEMMA BuyMade ==
    ASSUME TypeOK, IsFiniteSet(stream), LiveMade, UNCHANGED forgotten,
           NEW s \in Sales, NEW b \in Buyers, Buy(s, b)
    PROVE  LiveMade' /\ IsFiniteSet(stream')
<1>1. ledger' = ledger
  BY BuyEffect
<1>2. CASE UNCHANGED <<stock, buyers, stream>>
  BY <1>1, <1>2 DEF LiveMade, Holders, Kept
<1>3. ASSUME NEW i \in Nat \ {NoId},
             Reserve(s, b, i), stream' = stream \cup {EntryOf(s, b, i)},
             stock[s] \in Nat \ {0}, stock[s] # NotSeeded, buyers[s][b] = NoId,
             \A t \in Sales : stock'[t] = NotSeeded <=> stock[t] = NotSeeded
      PROVE  LiveMade' /\ IsFiniteSet(stream')
  <2>1. /\ stock'[s] = stock[s] - 1
        /\ Holders(s)' = Holders(s) \cup {b}
        /\ Cardinality(Holders(s)') = Cardinality(Holders(s)) + 1
        /\ \A t \in Sales \ {s} : stock'[t] = stock[t] /\ buyers'[t] = buyers[t]
        /\ buyers'[s][b] = i
        /\ \A c \in Buyers \ {b} : buyers'[s][c] = buyers[s][c]
    BY <1>3, SuccessCounts
  <2>2. IsFiniteSet(stream')
    BY <1>3, FS_AddElement
  <2>3. \A t \in Sales \ {s} : Holders(t)' = Holders(t) /\ Kept(t)' = Kept(t)
    BY <1>1, <1>3, <2>1 DEF Holders, Kept, EntryOf
  <2>4. stock'[s] = Left(s, Cardinality(Holders(s)'))
    BY <1>3, <2>1, HoldersFinite, GateAssumption DEF LiveMade, Left
  <2>5. stock'[s] + Cardinality(Kept(s)') <= InitialStock[s]
    <3>1. Kept(s)' = Kept(s) \/ Kept(s)' = Kept(s) \cup {EntryOf(s, b, i)}
      BY <1>1, <1>3 DEF Kept, EntryOf
    <3>2. /\ Cardinality(Kept(s)) \in Nat
          /\ \/ Cardinality(Kept(s)') = Cardinality(Kept(s))
             \/ Cardinality(Kept(s)') = Cardinality(Kept(s)) + 1
      BY <3>1, KeptFinite, FS_AddElement
    <3>3. stock[s] + Cardinality(Kept(s)) <= InitialStock[s]
      BY <1>3 DEF LiveMade
    <3>. QED  BY <1>3, <2>1, <3>2, <3>3, GateAssumption
  <2>6. ASSUME NEW t \in Sales, NEW c \in Holders(t)'
        PROVE  EntryOf(t, c, buyers'[t][c]) \in stream' \cup ledger'
    <3>1. CASE t = s /\ c = b
      BY <1>3, <2>1, <3>1
    <3>2. CASE ~(t = s /\ c = b)
      <4>1. c \in Holders(t) /\ buyers'[t][c] = buyers[t][c]
        BY <2>1, <2>3, <3>2 DEF Holders
      <4>. QED  BY <1>1, <1>3, <4>1 DEF LiveMade
    <3>. QED  BY <3>1, <3>2
  <2>7. ASSUME NEW e \in Entry, buyers[e.sale][e.buyer] = e.id
        PROVE  buyers'[e.sale][e.buyer] = e.id
    <3>1. e.sale \in Sales /\ e.buyer \in Buyers /\ e.id # NoId
      BY DEF Entry
    <3>. QED  BY <1>3, <2>1, <2>7, <3>1
  <2>8. \A e \in stream' : buyers'[e.sale][e.buyer] = e.id
    BY <1>3, <2>1, <2>7 DEF LiveMade, EntryOf, TypeOK, GateTypeOK
  <2>9. \A e \in ledger' \ forgotten' : stock'[e.sale] # NotSeeded => buyers'[e.sale][e.buyer] = e.id
    <3>1. \A e \in ledger : e \in Entry /\ e.sale \in Sales
      BY DEF TypeOK, LedgerTypeOK, Entry
    <3>. QED  BY <1>1, <1>3, <2>7, <3>1 DEF LiveMade
  <2>10. ASSUME NEW t \in Sales
         PROVE  /\ stock'[t] = NotSeeded => Holders(t)' = {} /\ \A e \in stream' : e.sale # t
                /\ stock'[t] # NotSeeded =>
                     /\ stock'[t] = Left(t, Cardinality(Holders(t)'))
                     /\ stock'[t] + Cardinality(Kept(t)') <= InitialStock[t]
    <3>1. CASE t = s
      BY <1>3, <2>4, <2>5, <3>1
    <3>2. CASE t # s
      BY <1>3, <2>1, <2>3, <3>2 DEF LiveMade, EntryOf
    <3>. QED  BY <3>1, <3>2
  <2>. QED  BY <2>2, <2>6, <2>8, <2>9, <2>10 DEF LiveMade
<1>. QED  BY <1>2, <1>3, BuyEffect

\* The seed of a sale leaves stock for what it has not put in the hash, and that covers the
\* rows that are not forgotten.
LEMMA SeedMade ==
    ASSUME PipelineWhole, TypeOK, LiveMade, SeededOnce, OneRowPerBuyer, CallsRead, RowsCovered,
           UNCHANGED forgotten, NEW c \in Callers, Seed(c)
    PROVE  LiveMade'
<1>. PICK s \in Sales : s = SaleOf[c]
  BY SeedingAssumption
<1>1. /\ at[c] = "seed" /\ stock[s] = NotSeeded
      /\ loaded[c] \subseteq Rows(s) /\ Rows(s) \ loaded[c] \subseteq forgotten
      /\ SetBuyers(s, loaded[c])
      /\ UNCHANGED <<stream, ledger>>
  BY DEF Seed, Go, SeededOnce, CallsRead, ledgerVars
<1>2. /\ stock'[s] = RemainingOf(c) /\ stock'[s] # NotSeeded
      /\ \A r \in loaded[c] : buyers'[s][r.buyer] = r.id
      /\ \A b \in Buyers :
           \/ buyers'[s][b] = buyers[s][b]
           \/ \E r \in loaded[c] : r.buyer = b /\ buyers'[s][b] = r.id
      /\ \A t \in Sales \ {s} : stock'[t] = stock[t] /\ buyers'[t] = buyers[t]
  <2>1. ~SeedBuyers(c)
    BY DEF Seed, SeedBuyers, Go
  <2>. QED  BY <1>1, <2>1, PipelineEffect
<1>3. /\ IsFiniteSet(loaded[c])
      /\ \A q, r \in loaded[c] : q.buyer = r.buyer => q = r
      /\ \A r \in loaded[c] : r \in ledger /\ r.sale = s /\ r \in Entry
  BY <1>1 DEF OneRowPerBuyer, Rows, TypeOK, SeedingTypeOK, LedgerTypeOK
<1>4. Holders(s) = {} /\ \A e \in stream : e.sale # s
  BY <1>1 DEF LiveMade
<1>5. Holders(s)' = {r.buyer : r \in loaded[c]}
  BY <1>2, <1>3, <1>4 DEF Holders, Entry
<1>6. Cardinality(Holders(s)') = Cardinality(loaded[c])
  BY <1>3, <1>5, RowsCount
<1>7. stock'[s] = Left(s, Cardinality(Holders(s)'))
  BY <1>2, <1>6 DEF Left, RemainingOf
<1>8. \A t \in Sales : Kept(t)' = Kept(t)
  BY <1>1 DEF Kept
<1>9. stock'[s] + Cardinality(Kept(s)) <= InitialStock[s]
  <2>1. Kept(s) = Rows(s) \ forgotten
    BY <1>4 DEF Kept, Rows
  <2>2. Kept(s) \subseteq loaded[c]
    BY <1>1, <2>1
  <2>3. /\ Cardinality(Kept(s)) \in Nat /\ Cardinality(loaded[c]) \in Nat
        /\ Cardinality(Kept(s)) <= Cardinality(loaded[c])
    BY <1>3, <2>2, FS_Subset, FS_CardinalityType
  <2>4. Cardinality(Kept(s)) <= InitialStock[s] /\ InitialStock[s] \in Nat
    BY <2>1, GateAssumption DEF RowsCovered
  <2>. QED  BY <1>2, <2>3, <2>4 DEF RemainingOf
<1>10. ASSUME NEW t \in Sales
       PROVE  /\ stock'[t] = NotSeeded => Holders(t)' = {} /\ \A e \in stream' : e.sale # t
              /\ stock'[t] # NotSeeded =>
                   /\ stock'[t] = Left(t, Cardinality(Holders(t)'))
                   /\ stock'[t] + Cardinality(Kept(t)') <= InitialStock[t]
              /\ \A b \in Holders(t)' : EntryOf(t, b, buyers'[t][b]) \in stream' \cup ledger'
  <2>1. CASE t = s
    <3>1. \A b \in Holders(s)' : EntryOf(s, b, buyers'[s][b]) \in ledger
      BY <1>2, <1>3, <1>5 DEF Entry, EntryOf
    <3>. QED  BY <1>1, <1>2, <1>7, <1>8, <1>9, <2>1, <3>1
  <2>2. CASE t # s
    <3>1. Holders(t)' = Holders(t)
      BY <1>2, <2>2 DEF Holders
    <3>. QED  BY <1>1, <1>2, <1>8, <2>2, <3>1 DEF LiveMade
  <2>. QED  BY <2>1, <2>2
<1>11. \A e \in stream' : buyers'[e.sale][e.buyer] = e.id
  BY <1>1, <1>2, <1>4 DEF LiveMade, TypeOK, GateTypeOK, Entry
<1>12. ASSUME NEW e \in ledger' \ forgotten', stock'[e.sale] # NotSeeded
       PROVE  buyers'[e.sale][e.buyer] = e.id
  <2>1. e \in ledger \ forgotten /\ e.sale \in Sales
    BY <1>1 DEF TypeOK, LedgerTypeOK, Entry
  <2>2. CASE e.sale = s
    BY <1>1, <1>2, <2>1, <2>2 DEF Rows
  <2>3. CASE e.sale # s
    BY <1>2, <1>12, <2>1, <2>3 DEF LiveMade
  <2>. QED  BY <2>2, <2>3
<1>. QED  BY <1>10, <1>11, <1>12 DEF LiveMade

\* What a call does to the rows it has read.
LEMMA CallsStep ==
    ASSUME PipelineWhole, TypeOK, CallsRead, UNCHANGED forgotten, OfSeeding(SeedingNext)
    PROVE  CallsRead'
<1>. USE DEF TypeOK, SeedingTypeOK, CallsRead
<1>1. \A s : Rows(s)' = Rows(s)
  BY SeedingFrame DEF Rows
<1>2. \A c \in Callers : at'[c] # "hset"
  BY SeedingStaysWhole
<1>3. ASSUME NEW c \in Callers, Rehydrate(c) \/ SkipSeed(c) \/ LoadFails(c) \/ IsSeeded(c)
      PROVE  CallsRead'
  BY <1>1, <1>2, <1>3 DEF Rehydrate, SkipSeed, LoadFails, IsSeeded, Go
<1>4. ASSUME NEW c \in Callers,
             AcquireInitLock(c) \/ AcquireUnheard(c) \/ ReleaseInitLock(c) \/ ReleaseUnheard(c)
      PROVE  CallsRead'
  BY <1>1, <1>2, <1>4 DEF AcquireInitLock, AcquireUnheard, ReleaseInitLock, ReleaseUnheard, Go
<1>5. ASSUME NEW c \in Callers, LoadReservationState(c)
      PROVE  CallsRead'
  BY <1>1, <1>2, <1>5 DEF LoadReservationState, Go
<1>6. ASSUME NEW c \in Callers, Seed(c) \/ SeedUnheard(c) \/ SeedBuyers(c)
      PROVE  CallsRead'
  <2>1. /\ \A d \in Callers \ {c} : at'[d] = at[d] /\ loaded'[d] = loaded[d]
        /\ \/ at'[c] # "seed" /\ loaded'[c] \subseteq loaded[c]
           \/ at' = at /\ loaded' = loaded
    BY <1>6 DEF Seed, SeedUnheard, SeedBuyers, Go, seedingVars
  <2>. QED  BY <1>1, <1>2, <2>1
<1>7. ASSUME NEW s \in Sales, InsertSale(s) \/ LockExpires(s)
      PROVE  CallsRead'
  BY <1>1, <1>2, <1>7 DEF InsertSale, LockExpires, seedingVars
<1>8. ASSUME NEW C \in SUBSET Callers, CallersDie(C)
      PROVE  CallsRead'
  BY <1>1, <1>2, <1>8 DEF CallersDie
<1>. QED
  BY <1>3, <1>4, <1>5, <1>6, <1>7, <1>8 DEF OfSeeding, SeedingNext, AsksRedis, GoesUnheard

\* All this is a matter of a few variables.
LEMMA StandsStill ==
    ASSUME UNCHANGED <<stock, buyers, stream, ledger, at, loaded, forgotten>>
    PROVE  /\ LiveMade => LiveMade'
           /\ OneRowPerBuyer => OneRowPerBuyer'
           /\ CallsRead => CallsRead'
           /\ RowsCovered => RowsCovered'
<1>1. /\ \A s : Holders(s)' = Holders(s)
      /\ \A s : Kept(s)' = Kept(s)
      /\ \A s : Rows(s)' = Rows(s)
  BY DEF Holders, Kept, Rows
<1>2. LiveMade => LiveMade'
  BY <1>1 DEF LiveMade
<1>3. OneRowPerBuyer => OneRowPerBuyer'
  BY DEF OneRowPerBuyer
<1>4. CallsRead => CallsRead'
  BY <1>1 DEF CallsRead
<1>5. RowsCovered => RowsCovered'
  BY <1>1 DEF RowsCovered
<1>. QED  BY <1>2, <1>3, <1>4, <1>5

\* A worker records what is in the stream of a live sale, or what was forgotten.
LEMMA PersistMade ==
    ASSUME TypeOK, CutInv, LiveMade, IsFiniteSet(stream), SeededOnce, OneRowPerBuyer,
           CallsRead, RowsCovered, UNCHANGED <<stock, buyers, stream, at, loaded, forgotten>>,
           NEW w \in Workers, NEW e \in hand[w], Persist(w, e)
    PROVE  /\ LiveMade' /\ OneRowPerBuyer' /\ CallsRead' /\ RowsCovered'
           /\ ledger' \subseteq ledger \cup stream \cup forgotten
<1>1. e \in Entry /\ e \in stream \cup ledger \cup forgotten
  BY DEF CutInv, TypeOK, GateTypeOK, DrainTypeOK
<1>2. CASE ledger' = ledger
  BY <1>2, StandsStill
<1>3. CASE ledger' = ledger \cup {e} /\ Conflicts(e) = {}
  <2>1. e \notin ledger
    BY <1>3 DEF Conflicts
  <2>2. e \in stream => stock[e.sale] # NotSeeded /\ buyers[e.sale][e.buyer] = e.id
    BY <1>1 DEF LiveMade, Entry
  <2>3. OneRowPerBuyer'
    BY <1>3 DEF OneRowPerBuyer, Conflicts
  <2>4. \A s \in Sales : Kept(s)' = Kept(s)
    BY <1>1, <1>3, <2>1 DEF Kept
  <2>5. LiveMade'
    <3>1. \A s \in Sales : Holders(s)' = Holders(s)
      BY DEF Holders
    <3>2. \A r \in ledger' \ forgotten' :
            stock'[r.sale] # NotSeeded => buyers'[r.sale][r.buyer] = r.id
      BY <1>1, <1>3, <2>1, <2>2 DEF LiveMade
    <3>. QED  BY <1>3, <2>4, <3>1, <3>2 DEF LiveMade
  <2>6. CallsRead'
    <3>1. \A c \in Callers : at[c] = "seed" => SaleOf[c] # e.sale \/ e \in forgotten
      BY <1>1, <2>1, <2>2 DEF SeededOnce
    <3>. QED  BY <1>3, <3>1 DEF CallsRead, Rows
  <2>7. RowsCovered'
    <3>. SUFFICES ASSUME NEW s \in Sales
                  PROVE  Cardinality(Rows(s)' \ forgotten) <= InitialStock[s]
      BY DEF RowsCovered
    <3>1. CASE e \in forgotten \/ e.sale # s
      <4>1. Rows(s)' \ forgotten = Rows(s) \ forgotten
        BY <1>3, <3>1 DEF Rows
      <4>. QED  BY <4>1 DEF RowsCovered
    <3>2. CASE e \notin forgotten /\ e.sale = s
      <4>1. e \in stream /\ stock[s] # NotSeeded
        BY <1>1, <2>1, <2>2, <3>2
      <4>2. Rows(s)' \ forgotten \subseteq Kept(s)
        BY <1>3, <4>1 DEF Rows, Kept
      <4>3. /\ Cardinality(Kept(s)) \in Nat
            /\ Cardinality(Rows(s)' \ forgotten) \in Nat
            /\ Cardinality(Rows(s)' \ forgotten) <= Cardinality(Kept(s))
        BY <4>2, KeptFinite, FS_Subset, FS_CardinalityType
      <4>4. stock[s] \in Nat /\ stock[s] + Cardinality(Kept(s)) <= InitialStock[s]
        BY <4>1 DEF LiveMade, TypeOK, GateTypeOK
      <4>. QED  BY <4>3, <4>4, GateAssumption
    <3>. QED  BY <3>1, <3>2
  <2>. QED  BY <1>1, <1>3, <2>3, <2>5, <2>6, <2>7
<1>. QED  BY <1>2, <1>3 DEF Persist, InsertRow

\* Between losses: what RushSale does keeps the live Gate made.
LEMMA LiveStep ==
    ASSUME SeedWithinTTL, ReleaseHeard, PipelineWhole, SeedHeard,
           LossTypeOK, LossInv, [Next]_vars, UNCHANGED forgotten
    PROVE  /\ LiveMade' /\ IsFiniteSet(stream') /\ OneRowPerBuyer' /\ CallsRead' /\ RowsCovered'
           /\ \A s \in Sales : stock[s] # NotSeeded => stock'[s] # NotSeeded
           /\ ledger' \subseteq ledger \cup stream \cup forgotten
<1>. DEFINE Goal ==
       /\ LiveMade' /\ IsFiniteSet(stream') /\ OneRowPerBuyer' /\ CallsRead' /\ RowsCovered'
       /\ \A s \in Sales : stock[s] # NotSeeded => stock'[s] # NotSeeded
       /\ ledger' \subseteq ledger \cup stream \cup forgotten
<1>1. TypeOK /\ LiveMade /\ IsFiniteSet(stream)
  BY LiveIsMade DEF LossTypeOK, LossInv
<1>. USE DEF LossInv
<1>2. ASSUME UNCHANGED <<stock, buyers, stream, ledger, at, loaded>>
      PROVE  Goal
  BY <1>1, <1>2, StandsStill
<1>3. ASSUME NEW s \in Sales, NEW b \in Buyers, Buy(s, b)
      PROVE  Goal
  <2>1. UNCHANGED <<ledger, at, loaded>>
    BY <1>1, <1>3, BuyEffect
  <2>2. \A t \in Sales : stock[t] # NotSeeded => stock'[t] # NotSeeded
    BY <1>1, <1>3, BuyEffect
  <2>3. OneRowPerBuyer' /\ CallsRead' /\ RowsCovered'
    BY <2>1 DEF OneRowPerBuyer, CallsRead, RowsCovered, Rows
  <2>. QED  BY <1>1, <1>3, <2>1, <2>2, <2>3, BuyMade
<1>4. CASE OfSeeding(SeedingNext)
  <2>1. UNCHANGED <<stream, ledger>>
    BY <1>4, SeedingFrame
  <2>2. CallsRead' /\ OneRowPerBuyer' /\ RowsCovered'
    BY <1>1, <1>4, <2>1, CallsStep DEF OneRowPerBuyer, RowsCovered, Rows
  <2>3. LiveMade'
    <3>1. CASE UNCHANGED <<stock, buyers>>
      BY <1>1, <2>1, <3>1 DEF LiveMade, Holders, Kept
    <3>2. ASSUME NEW c \in Callers, Seed(c)
          PROVE  LiveMade'
      BY <1>1, <3>2, SeedMade
    <3>3. \A c \in Callers : ~SeedBuyers(c) /\ ~SeedUnheard(c)
      BY DEF SeedBuyers, SeedUnheard, Go, CallsRead
    <3>. QED  BY <1>4, <3>1, <3>2, <3>3, SeedingFrame
  <2>4. \A s \in Sales : stock[s] # NotSeeded => stock'[s] # NotSeeded
    BY <1>1, <1>4, SeedingKeepsTypes DEF OfSeeding, TypeOK
  <2>. QED  BY <1>1, <2>1, <2>2, <2>3, <2>4
<1>5. CASE OfDrain(DrainNext)
  <2>1. UNCHANGED <<stock, buyers, stream, at, loaded>>
    BY <1>5, DrainFrame DEF gateVars, seedingVars
  <2>2. CASE UNCHANGED ledger
    BY <1>2, <2>1, <2>2
  <2>3. ASSUME NEW w \in Workers, NEW e \in hand[w], Persist(w, e)
        PROVE  Goal
    BY <1>1, <2>1, <2>3, PersistMade
  <2>. QED  BY <1>5, <2>2, <2>3, DrainFrame
<1>. QED  BY <1>2, <1>3, <1>4, <1>5, OthersMove DEF Next

LEMMA LossInvStep ==
    ASSUME SeedWithinTTL, ReleaseHeard, PipelineWhole, SeedHeard, LossKeepsLocks,
           LossTypeOK, LossInv, [LossNext]_lossVars
    PROVE  LossInv'
<1>. USE DEF LossInv
<1>1. CutInv' /\ LossTypeOK'
  BY CutStep, LossTypeStep
<1>2. CASE [Next]_vars /\ UNCHANGED <<aof, forgotten>>
  <2>1. LockHeld' /\ SeededOnce'
    BY <1>2, LockStep, OnceStep DEF LossTypeOK
  <2>2. /\ LiveMade' /\ IsFiniteSet(stream') /\ OneRowPerBuyer' /\ CallsRead' /\ RowsCovered'
        /\ \A s \in Sales : stock[s] # NotSeeded => stock'[s] # NotSeeded
        /\ ledger' \subseteq ledger \cup stream \cup forgotten
    BY <1>2, LiveStep
  <2>3. StaysSeeded'
    BY <1>2, <2>2 DEF StaysSeeded
  <2>4. MadeBySales(Live, ledger, forgotten)'
    BY <2>2, LiveIsMade
  <2>5. MadeBySales(aof, ledger, forgotten \cup (stream \ aof.stream))'
    <3>. DEFINE X == forgotten \cup (stream \ aof.stream)
                Y == forgotten \cup (stream' \ aof.stream)
    <3>1. /\ stream \subseteq stream' /\ ledger \subseteq ledger'
          /\ IsFiniteSet(aof.stream) /\ IsFiniteSet(ledger) /\ aof \in Snapshot
      BY <1>2, NothingGoes, FS_Subset DEF LossTypeOK, CutInv, TypeOK, LedgerTypeOK
    <3>2. X \subseteq Y /\ ledger' \subseteq ledger \cup aof.stream \cup Y
      BY <2>2, <3>1
    <3>3. MadeBySales(aof, ledger, X)
      OBVIOUS
    <3>. HIDE DEF X, Y
    <3>4. MadeBySales(aof, ledger', Y)
      BY <3>1, <3>2, <3>3, StaysMade
    <3>. QED  BY <1>2, <3>4 DEF Y
  <2>. QED  BY <1>1, <2>1, <2>2, <2>3, <2>4, <2>5
<1>3. CASE UNCHANGED <<vars, forgotten>> /\ aof' = Live
  <2>1. UNCHANGED <<stock, buyers, stream, ledger, initLock, at, loaded>> /\ Live' = Live
    BY <1>3, OthersMove DEF vars, gateVars, seedingVars, drainVars, groupVars, Live
  <2>2. LockHeld' /\ SeededOnce'
    BY <2>1 DEF LockHeld, SeededOnce
  <2>3. OneRowPerBuyer' /\ CallsRead' /\ RowsCovered'
    BY <1>3, <2>1, StandsStill
  <2>4. StaysSeeded'
    BY <1>3, <2>1 DEF StaysSeeded, Live
  <2>5. forgotten \cup (stream \ Live.stream) = forgotten
    BY DEF Live
  <2>. QED  BY <1>1, <1>3, <2>1, <2>2, <2>3, <2>4, <2>5
<1>4. ASSUME NEW r \in Snapshot, r.stream \subseteq stream, r = aof \/ r = Empty,
             ComesBackAs(r), aof' = r
      PROVE  LossInv'
  <2>1. /\ UNCHANGED <<ledger, at, loaded>>
        /\ stock' = r.stock /\ stream' = r.stream /\ initLock' = r.initLock
        /\ forgotten' = forgotten \cup Forgets(r)
    BY <1>4 DEF ComesBackAs, ledgerVars
  <2>2. Live' = r
    BY <1>4 DEF ComesBackAs, Live, Snapshot
  <2>3. LockHeld'
    BY <1>4, <2>1 DEF ComesBackAs, LockHeld
  <2>4. \A s \in Sales : r.stock[s] # NotSeeded => stock[s] # NotSeeded
    BY <1>4 DEF StaysSeeded, Empty
  <2>5. SeededOnce' /\ StaysSeeded'
    BY <1>4, <2>1, <2>4, SeedingAssumption DEF SeededOnce, StaysSeeded
  <2>6. \A s : Rows(s)' = Rows(s)
    BY <2>1 DEF Rows
  <2>7. OneRowPerBuyer' /\ CallsRead'
    BY <2>1, <2>6 DEF OneRowPerBuyer, CallsRead
  <2>8. RowsCovered'
    <3>. SUFFICES ASSUME NEW s \in Sales
                  PROVE  Cardinality(Rows(s) \ forgotten') <= InitialStock[s]
      BY <2>6 DEF RowsCovered
    <3>1. IsFiniteSet(Rows(s) \ forgotten)
      BY FS_Subset DEF LossTypeOK, TypeOK, LedgerTypeOK, Rows
    <3>2. Rows(s) \ forgotten' \subseteq Rows(s) \ forgotten
      BY <2>1
    <3>3. /\ Cardinality(Rows(s) \ forgotten') \in Nat /\ Cardinality(Rows(s) \ forgotten) \in Nat
          /\ Cardinality(Rows(s) \ forgotten') <= Cardinality(Rows(s) \ forgotten)
      BY <3>1, <3>2, FS_Subset, FS_CardinalityType
    <3>4. Cardinality(Rows(s) \ forgotten) <= InitialStock[s]
      BY DEF RowsCovered
    <3>. QED  BY <3>3, <3>4, GateAssumption
  <2>9. IsFiniteSet(stream')
    BY <1>4, <2>1, FS_Subset
  <2>10. MadeBySales(r, ledger, forgotten')
    <3>1. CASE r = aof
      BY <2>1, <3>1, ComesBackMade
    <3>2. CASE r = Empty
      BY <3>2, EmptyMade DEF LossTypeOK, TypeOK, LedgerTypeOK
    <3>. QED  BY <1>4, <3>1, <3>2
  <2>11. forgotten' \cup (stream' \ r.stream) = forgotten'
    BY <2>1
  <2>. QED
    BY <1>1, <1>4, <2>1, <2>2, <2>3, <2>5, <2>7, <2>8, <2>9, <2>10, <2>11
<1>. QED  BY <1>2, <1>3, <1>4, LossSteps

LEMMA LossInitInv == LossInit => LossInv
<1>. SUFFICES ASSUME LossInit PROVE LossInv
  OBVIOUS
<1>1. CutInv /\ LossTypeOK
  BY CutInit, LossInitTypeOK
<1>2. LockHeld /\ SeededOnce /\ CallsRead
  BY DEF LossInit, Init, SeedingInit, LockHeld, UnderLock, SeededOnce, CallsRead
<1>3. OneRowPerBuyer
  BY InitBaseInv DEF LossInit, BaseInv
<1>4. RowsCovered
  <2>1. \A s \in Sales : Cardinality(Rows(s)) <= InitialStock[s]
    BY LedgerAssumption DEF LossInit, Init, LedgerInit, Rows
  <2>2. \A s \in Sales : Rows(s) \ forgotten = Rows(s)
    BY DEF LossInit
  <2>. QED  BY <2>1, <2>2 DEF RowsCovered
<1>5. StaysSeeded /\ IsFiniteSet(stream)
  BY FS_EmptySet DEF LossInit, Init, GateInit, StaysSeeded, Empty
<1>6. MadeBySales(Live, ledger, forgotten)
  <2>1. LiveMade
    BY <1>1 DEF LossInit, Init, GateInit, LiveMade, Holders, LossTypeOK, TypeOK, LedgerTypeOK,
                Entry
  <2>. QED  BY <2>1, LiveIsMade
<1>7. MadeBySales(aof, ledger, forgotten \cup (stream \ aof.stream))
  <2>1. ledger \in SUBSET Entry /\ aof = Empty
    BY <1>1 DEF LossInit, LossTypeOK, TypeOK, LedgerTypeOK
  <2>. QED  BY <2>1, EmptyMade
<1>. QED  BY <1>1, <1>2, <1>3, <1>4, <1>5, <1>6, <1>7 DEF LossInv

\* Whatever a loss takes but the lock of a call under way, be it half a batch or a tail that a
\* worker has drained: live Gate, append-only file and Ledger agree on everything that was not
\* forgotten.
THEOREM LossInvHolds ==
    ASSUME SeedWithinTTL, ReleaseHeard, PipelineWhole, SeedHeard, LossKeepsLocks
    PROVE  LossSpec => []LossInv
<1>1. LossTypeOK /\ LossInv /\ [LossNext]_lossVars => LossInv'
  BY LossInvStep
<1>. QED  BY <1>1, LossInitInv, LossTypeCorrect, PTL DEF LossSpec

\* Each holder that is not forgotten has a reservation of its own.
LEMMA LossInvOversold == LossTypeOK /\ LossInv => OversoldOnlyByForgotten
<1>. SUFFICES ASSUME LossTypeOK, LossInv, NEW s \in Sales
              PROVE  /\ Cardinality(Rows(s) \ forgotten) <= InitialStock[s]
                     /\ Cardinality({b \in Holders(s) :
                            EntryOf(s, b, buyers[s][b]) \notin forgotten}) <= InitialStock[s]
  BY DEF OversoldOnlyByForgotten
<1>. DEFINE H == {b \in Holders(s) : EntryOf(s, b, buyers[s][b]) \notin forgotten}
<1>1. TypeOK /\ LiveMade /\ IsFiniteSet(stream) /\ InitialStock[s] \in Nat
  BY LiveIsMade, GateAssumption DEF LossTypeOK, LossInv
<1>2. Cardinality(Rows(s) \ forgotten) <= InitialStock[s]
  BY DEF LossInv, RowsCovered
<1>3. CASE stock[s] = NotSeeded
  <2>1. H = {}
    BY <1>1, <1>3 DEF LiveMade
  <2>. QED  BY <1>1, <1>2, <2>1, FS_EmptySet
<1>4. CASE stock[s] # NotSeeded
  <2>1. IsFiniteSet(Kept(s)) /\ Cardinality(Kept(s)) \in Nat
    BY <1>1, KeptFinite
  <2>2. Cardinality(Kept(s)) <= InitialStock[s]
    BY <1>1, <1>4, <2>1 DEF LiveMade, TypeOK, GateTypeOK
  <2>3. Cardinality(H) \in Nat /\ Cardinality(H) <= Cardinality(Kept(s))
    <3>. DEFINE f == [b \in H |-> EntryOf(s, b, buyers[s][b])]
    <3>1. \A b \in H : f[b] \in Kept(s) /\ f[b].buyer = b
      BY <1>1 DEF LiveMade, Kept, EntryOf
    <3>2. f \in Injection(H, Kept(s))
      BY <3>1 DEF Injection, IsInjective
    <3>3. IsFiniteSet(H)
      BY HoldersFinite, FS_Subset
    <3>. QED  BY <2>1, <3>2, <3>3, FS_Injection, FS_CardinalityType
  <2>. QED  BY <1>1, <1>2, <2>1, <2>2, <2>3
<1>. QED  BY <1>3, <1>4

\* No Oversell, as far as it survives losses: the Ledger and the Gate exceed the stock by no more
\* than a loss took and rehydration could not give back.
THEOREM OversellsOnlyForgotten ==
    ASSUME SeedWithinTTL, ReleaseHeard, PipelineWhole, SeedHeard, LossKeepsLocks
    PROVE  LossSpec => []OversoldOnlyByForgotten
<1>. QED  BY LossInvOversold, LossInvHolds, LossTypeCorrect, PTL

\* Units add up after any number of losses, also where a sale has more rows than units.
THEOREM UnitsAddUp ==
    ASSUME SeedWithinTTL, ReleaseHeard, PipelineWhole, SeedHeard, LossKeepsLocks
    PROVE  LossSpec => []GateAddsUp
<1>1. LossInv => GateAddsUp
  BY LiveIsMade DEF LossInv, LiveMade, GateAddsUp
<1>. QED  BY <1>1, LossInvHolds, PTL

\* Rehydration restores the check lookup for every row that was not forgotten.
THEOREM RehydrationRestoresRows ==
    ASSUME SeedWithinTTL, ReleaseHeard, PipelineWhole, SeedHeard, LossKeepsLocks
    PROVE  LossSpec => []GateKnowsEveryRow
<1>1. LossInv => GateKnowsEveryRow
  BY LiveIsMade DEF LossInv, LiveMade, GateKnowsEveryRow
<1>. QED  BY <1>1, LossInvHolds, PTL

-------------------------------------------------------------------------------
(* Acknowledgement across losses: on DistinctMs alone.                     *)

\* Whatever is new in a stream is later than all there was.
LEMMA NewIsLater ==
    ASSUME DistinctMs, TypeOK, [Next]_vars
    PROVE  /\ clock \in Nat /\ clock' \in Nat /\ clock <= clock'
           /\ \/ stream' = stream
              \/ \E e \in Entry : stream' = stream \cup {e} /\ clock < e.id /\ e.id <= clock'
<1>1. clock \in Nat /\ clock' \in Nat
  BY TypeStep DEF TypeOK, GateTypeOK
<1>2. ASSUME NEW s \in Sales, NEW b \in Buyers, Buy(s, b)
      PROVE  \/ stream' = stream /\ clock' = clock
             \/ \E e \in Entry :
                  /\ stream' = stream \cup {e}
                  /\ e.id = clock + 1 /\ clock' = clock + 1
  <2>1. CASE GateCode(s, b) # "SUCCESS"
    BY <1>2, <2>1, BuyFrame DEF gateVars
  <2>2. CASE GateCode(s, b) = "SUCCESS"
    <3>1. PICK i \in NewIds(s) : Reserve(s, b, i)
      BY <1>2, <2>2, SuccessfulBuy
    <3>2. i = clock + 1
      BY <3>1 DEF NewIds
    <3>3. stream' = stream \cup {EntryOf(s, b, clock + 1)} /\ clock' = clock + 1
      BY <1>1, <3>1, <3>2 DEF Reserve
    <3>4. EntryOf(s, b, clock + 1) \in Entry
      BY <1>1 DEF EntryOf, Entry, NoId
    <3>. QED  BY <3>3, <3>4 DEF EntryOf
  <2>. QED  BY <2>1, <2>2
<1>3. CASE OfSeeding(SeedingNext)
  BY <1>1, <1>3, SeedingFrame
<1>4. CASE OfDrain(DrainNext)
  BY <1>1, <1>4, DrainFrame DEF gateVars
<1>. QED  BY <1>1, <1>2, <1>3, <1>4, OthersMove DEF Next

\* An id that a loss has taken is not given again, so that of an insert's conflicts each is the
\* entry itself or a row of its buyer.
LEMMA PersistRecordsBuyer ==
    ASSUME LossTypeOK, LossRecordInv, NEW w \in Workers, NEW e \in hand[w], Persist(w, e)
    PROVE  /\ ledger' \subseteq ledger \cup {e}
           /\ e \in stream \cup ledger \cup forgotten
           /\ BuyerRecorded(e)'
<1>1. e \in stream \cup ledger \cup forgotten
  BY DEF LossRecordInv, CutInv
<1>2. CASE Conflicts(e) = {}
  BY <1>1, <1>2 DEF Persist, InsertRow, BuyerRecorded
<1>3. ASSUME NEW r \in Conflicts(e)
      PROVE  BuyerRecorded(e)' /\ ledger' = ledger
  <2>1. r.id = e.id => r = e
    BY <1>1 DEF LossRecordInv, Conflicts
  <2>. QED  BY <2>1 DEF Persist, InsertRow, Conflicts, BuyerRecorded
<1>. QED  BY <1>1, <1>2, <1>3

\* A worker acknowledges what it has written, and writes what it was handed.
LEMMA DrainAcknowledges ==
    ASSUME LossTypeOK, LossRecordInv, OfDrain(DrainNext)
    PROVE  /\ \A w \in Workers : \A e \in written'[w] : BuyerRecorded(e)'
           /\ AcknowledgedHasRow'
           /\ ledger' \subseteq ledger \cup stream \cup forgotten
<1>. DEFINE Goal == /\ \A w \in Workers : \A e \in written'[w] : BuyerRecorded(e)'
                    /\ AcknowledgedHasRow'
                    /\ ledger' \subseteq ledger \cup stream \cup forgotten
<1>. USE DEF AcknowledgedHasRow, LossTypeOK, TypeOK, DrainTypeOK
<1>1. /\ \A w \in Workers : \A e \in written[w] : BuyerRecorded(e)
      /\ \A e \in delivered \ pel : BuyerRecorded(e)
  BY DEF LossRecordInv
<1>2. ledger \subseteq ledger'
  BY DrainFrame DEF Persist, InsertRow
<1>3. \A e : BuyerRecorded(e) => BuyerRecorded(e)'
  BY <1>2 DEF BuyerRecorded
<1>4. ASSUME NEW w \in Workers,
             WorkerStarts(w) \/ StartDrain(w) \/ RefreshStreams(w) \/ NoGroup(w)
               \/ PersistThrows(w)
      PROVE  Goal
  BY <1>1, <1>3, <1>4 DEF WorkerStarts, StartDrain, RefreshStreams, NoGroup, PersistThrows,
     BacksOff, groupVars, ledgerVars
<1>5. ASSUME NEW w \in Workers, WorkerDies(w) \/ RefreshThrows(w)
      PROVE  Goal
  BY <1>1, <1>3, <1>5 DEF WorkerDies, RefreshThrows, Dies, groupVars, ledgerVars
<1>6. ASSUME NEW w \in Workers, NEW s \in Sales, ReclaimStale(w, s)
      PROVE  Goal
  BY <1>1, <1>3, <1>6 DEF ReclaimStale, ledgerVars
<1>7. ASSUME NEW w \in Workers, ReadBatch(w)
      PROVE  Goal
  <2>. DEFINE got == UNION {Handed(s) : s \in streams[w]}
  <2>1. /\ delivered' = delivered \cup got /\ pel' = pel \cup got
        /\ ledger' = ledger /\ written' = written
    BY <1>7 DEF ReadBatch, ledgerVars
  <2>. HIDE DEF got
  <2>. QED  BY <1>1, <1>3, <2>1
<1>8. ASSUME NEW w \in Workers, NEW e \in hand[w], Persist(w, e)
      PROVE  Goal
  <2>1. /\ ledger' \subseteq ledger \cup {e} /\ e \in stream \cup ledger \cup forgotten
        /\ BuyerRecorded(e)'
    BY <1>8, PersistRecordsBuyer
  <2>2. \A v \in Workers : written'[v] \subseteq written[v] \cup {e}
    BY <1>8 DEF Persist
  <2>3. UNCHANGED <<delivered, pel>>
    BY <1>8 DEF Persist, groupVars
  <2>. QED  BY <1>1, <1>3, <2>1, <2>2, <2>3
<1>9. ASSUME NEW w \in Workers, Acknowledge(w)
      PROVE  Goal
  <2>1. /\ pel' = pel \ written[w] /\ delivered' = delivered /\ ledger' = ledger
        /\ \A v \in Workers : written'[v] \subseteq written[v]
    BY <1>9 DEF Acknowledge, ledgerVars
  <2>. QED  BY <1>1, <1>3, <2>1
<1>10. ASSUME NEW e \in pel, GoesStale(e)
       PROVE  Goal
  BY <1>1, <1>3, <1>10 DEF GoesStale, workerVars, ledgerVars
<1>. QED
  BY <1>4, <1>5, <1>6, <1>7, <1>8, <1>9, <1>10 DEF OfDrain, DrainNext, Drains, Refreshes

LEMMA LossRecordStep ==
    ASSUME DistinctMs, LossTypeOK, LossRecordInv, [LossNext]_lossVars
    PROVE  LossRecordInv'
<1>1. CutInv /\ CutInv'
  BY CutStep DEF LossRecordInv
<1>2. \A e \in stream \cup ledger \cup forgotten : e.id \in Nat
  BY DEF LossTypeOK, TypeOK, GateTypeOK, LedgerTypeOK, Entry
<1>3. CASE [Next]_vars /\ UNCHANGED <<aof, forgotten>>
  <2>1. ledger \subseteq ledger'
    BY <1>3, NothingGoes DEF LossTypeOK
  <2>2. \A e : BuyerRecorded(e) => BuyerRecorded(e)'
    BY <2>1 DEF BuyerRecorded
  <2>3. /\ \A w \in Workers : \A e \in written'[w] : BuyerRecorded(e)'
        /\ AcknowledgedHasRow'
        /\ ledger' \subseteq ledger \cup stream \cup forgotten
    <3>1. CASE UNCHANGED <<delivered, pel, written, ledger>>
      BY <2>2, <3>1 DEF LossRecordInv, AcknowledgedHasRow
    <3>2. ASSUME NEW s \in Sales, NEW b \in Buyers, Buy(s, b)
          PROVE  UNCHANGED <<delivered, pel, written, ledger>>
      BY <3>2, BuyFrame DEF ledgerVars, drainVars, groupVars, workerVars
    <3>3. OfSeeding(SeedingNext) => UNCHANGED <<delivered, pel, written, ledger>>
      BY SeedingFrame DEF drainVars, groupVars, workerVars
    <3>. QED  BY <1>3, <3>1, <3>2, <3>3, DrainAcknowledges, OthersMove DEF Next
  <2>4. /\ \A e \in stream' \cup ledger' \cup forgotten' : e.id <= clock'
        /\ \A e, f \in stream' \cup ledger' \cup forgotten' : e.id = f.id => e = f
    BY <1>2, <1>3, <2>3, NewIsLater DEF LossRecordInv, LossTypeOK
  <2>. QED  BY <1>1, <1>3, <2>2, <2>3, <2>4 DEF LossRecordInv
<1>4. CASE UNCHANGED <<vars, forgotten>> /\ aof' = Live
  <2>1. UNCHANGED <<stream, ledger, clock, written, delivered, pel>>
    BY <1>4, OthersMove
  <2>2. \A e : BuyerRecorded(e)' <=> BuyerRecorded(e)
    BY <2>1 DEF BuyerRecorded
  <2>3. AcknowledgedHasRow' /\ \A e \in aof'.delivered \ aof'.pel : BuyerRecorded(e)'
    BY <1>4, <2>1, <2>2 DEF LossRecordInv, AcknowledgedHasRow, Live
  <2>. QED  BY <1>1, <1>4, <2>1, <2>2, <2>3 DEF LossRecordInv
<1>5. ASSUME NEW r \in Snapshot, r.stream \subseteq stream, r = aof \/ r = Empty,
             ComesBackAs(r), aof' = r
      PROVE  LossRecordInv'
  <2>1. /\ stream' = r.stream /\ delivered' = r.delivered /\ pel' = r.pel
        /\ UNCHANGED <<ledger, clock, written>>
        /\ forgotten' = forgotten \cup Forgets(r)
    BY <1>5 DEF ComesBackAs, ledgerVars, workerVars
  <2>2. stream' \cup ledger' \cup forgotten' \subseteq stream \cup ledger \cup forgotten
    BY <1>5, <2>1 DEF Forgets
  <2>3. \A e : BuyerRecorded(e)' <=> BuyerRecorded(e)
    BY <2>1 DEF BuyerRecorded
  <2>4. \A e \in r.delivered \ r.pel : BuyerRecorded(e)
    BY <1>5 DEF LossRecordInv, Empty
  <2>5. AcknowledgedHasRow'
    BY <2>1, <2>3, <2>4 DEF AcknowledgedHasRow
  <2>. QED  BY <1>1, <1>5, <2>1, <2>2, <2>3, <2>4, <2>5 DEF LossRecordInv
<1>. QED  BY <1>1, <1>3, <1>4, <1>5, LossSteps

\* Reservations keep their ids through losses, the forgotten ones too, and what a worker has
\* written, what the group is done with and what the file says the group is done with has a row
\* for its buyer: the losses may take what they like, and when.
THEOREM LossKeepsRecords ==
    ASSUME DistinctMs
    PROVE  LossSpec => []LossRecordInv
<1>1. LossInit => LossRecordInv
  <2>. SUFFICES ASSUME LossInit PROVE LossRecordInv
    OBVIOUS
  <2>1. RecordInv /\ CutInv
    BY InitRecorded, CutInit DEF LossInit
  <2>2. /\ aof = Empty /\ forgotten = {} /\ delivered = {}
        /\ \A w \in Workers : written[w] = {}
    BY DEF LossInit, Init, DrainInit
  <2>. QED
    BY <2>1, <2>2 DEF LossRecordInv, RecordInv, IdsTellApart, AcknowledgedHasRow, Empty
<1>2. LossTypeOK /\ LossRecordInv /\ [LossNext]_lossVars => LossRecordInv'
  BY LossRecordStep
<1>. QED  BY <1>1, <1>2, LossTypeCorrect, PTL DEF LossSpec

\* Nothing is acknowledged in vain, whatever Redis came back with and whatever a worker had in
\* hand at the time.
THEOREM LossAcknowledges ==
    ASSUME DistinctMs
    PROVE  LossSpec => []AcknowledgedHasRow
<1>1. LossRecordInv => AcknowledgedHasRow
  BY DEF LossRecordInv
<1>. QED  BY <1>1, LossKeepsRecords, PTL
===============================================================================
