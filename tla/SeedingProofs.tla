---------------------------- MODULE SeedingProofs -----------------------------
(* Lemmas about the calls of seedOrRehydrate, for whoever makes them.      *)
EXTENDS Seeding, FiniteSetTheorems, TLAPS

\* What the queries of a call return and its pipeline writes is of the right type: in
\* particular Math.max keeps the stock counter from starting below zero.
LEMMA SeedValues ==
    ASSUME GateTypeOK, SeedingTypeOK, NEW c \in Callers
    PROVE  /\ RemainingOf(c) \in Nat
           /\ \A b \in Buyers : (\E r \in loaded[c] : r.buyer = b) =>
                (CHOOSE r \in loaded[c] : r.buyer = b).id \in Nat
<1>1. RemainingOf(c) \in Nat
  BY SeedingAssumption, GateAssumption, FS_CardinalityType DEF RemainingOf, SeedingTypeOK
<1>2. \A r \in loaded[c] : r.id \in Nat
  BY DEF SeedingTypeOK, Entry
<1>3. \A b \in Buyers : (\E r \in loaded[c] : r.buyer = b) =>
        (CHOOSE r \in loaded[c] : r.buyer = b).id \in Nat
  BY <1>2
<1>. QED  BY <1>1, <1>3

\* A call writes the Gate with its pipeline only.
LEMMA PipelineWrites ==
    ASSUME GateTypeOK, SeedingTypeOK, NEW c \in Callers, Seed(c) \/ SeedUnheard(c) \/ SeedBuyers(c)
    PROVE  /\ GateTypeOK'
           /\ SeedingTypeOK'
           /\ created' = created
           /\ \A s \in Sales : stock[s] # NotSeeded => stock'[s] # NotSeeded
<1>. USE SeedingAssumption DEF GateTypeOK
<1>1. CASE Seed(c)
  <2>1. stock' \in [Sales -> Nat \cup {NotSeeded}]
    BY <1>1, SeedValues DEF Seed, SetStock
  <2>2. buyers' \in [Sales -> [Buyers -> Nat]]
    <3>1. CASE SetBuyers(SaleOf[c], loaded[c])
      BY <3>1, SeedValues DEF SetBuyers
    <3>2. CASE UNCHANGED buyers
      BY <3>2
    <3>. QED  BY <1>1, <3>1, <3>2 DEF Seed
  <2>3. \A s \in Sales : stock[s] # NotSeeded => stock'[s] # NotSeeded
    BY <1>1, SeedValues, GateAssumption DEF Seed, SetStock
  <2>4. GateTypeOK'
    BY <1>1, <2>1, <2>2 DEF Seed
  <2>5. SeedingTypeOK' /\ created' = created
    BY <1>1, FS_EmptySet DEF Seed, Go, SeedingTypeOK, Awaits, ledgerVars
  <2>. QED  BY <2>3, <2>4, <2>5
<1>2. CASE SeedUnheard(c)
  <2>1. stock' \in [Sales -> Nat \cup {NotSeeded}]
    BY <1>2, SeedValues DEF SeedUnheard, SetStock
  <2>2. buyers' \in [Sales -> [Buyers -> Nat]]
    BY <1>2, SeedValues DEF SeedUnheard, SetBuyers
  <2>3. \A s \in Sales : stock[s] # NotSeeded => stock'[s] # NotSeeded
    BY <1>2, SeedValues, GateAssumption DEF SeedUnheard, SetStock
  <2>4. GateTypeOK'
    BY <1>2, <2>1, <2>2 DEF SeedUnheard
  <2>5. SeedingTypeOK' /\ created' = created
    BY <1>2 DEF SeedUnheard, SeedingTypeOK, ledgerVars, seedingVars
  <2>. QED  BY <2>3, <2>4, <2>5
<1>3. CASE SeedBuyers(c)
  <2>1. buyers' \in [Sales -> [Buyers -> Nat]]
    BY <1>3, SeedValues DEF SeedBuyers, SetBuyers
  <2>2. GateTypeOK' /\ (\A s \in Sales : stock[s] # NotSeeded => stock'[s] # NotSeeded)
    BY <1>3, <2>1 DEF SeedBuyers
  <2>3. SeedingTypeOK' /\ created' = created
    BY <1>3, FS_EmptySet DEF SeedBuyers, Go, SeedingTypeOK, Awaits, ledgerVars
  <2>. QED  BY <2>2, <2>3
<1>. QED  BY <1>1, <1>2, <1>3

\* The steps of a call that only read Redis and Postgres, or move the lock.
LEMMA CallTypes ==
    ASSUME LedgerTypeOK, SeedingTypeOK, NEW c \in Callers,
           \/ Rehydrate(c) \/ AcquireInitLock(c) \/ AcquireUnheard(c) \/ SkipSeed(c)
           \/ IsSeeded(c) \/ LoadReservationState(c) \/ LoadFails(c)
           \/ ReleaseInitLock(c) \/ ReleaseUnheard(c)
    PROVE  UNCHANGED <<gateVars, ledgerVars>> /\ SeedingTypeOK'
<1>. USE SeedingAssumption DEF Go, LedgerTypeOK, SeedingTypeOK, Awaits
<1>1. CASE Rehydrate(c) \/ AcquireInitLock(c) \/ AcquireUnheard(c) \/ SkipSeed(c) \/ IsSeeded(c)
  BY <1>1 DEF Rehydrate, AcquireInitLock, AcquireUnheard, SkipSeed, IsSeeded
<1>2. CASE LoadReservationState(c)
  BY <1>2, FS_Subset DEF LoadReservationState, Rows
<1>3. CASE LoadFails(c) \/ ReleaseInitLock(c) \/ ReleaseUnheard(c)
  BY <1>3 DEF LoadFails, ReleaseInitLock, ReleaseUnheard
<1>. QED  BY <1>1, <1>2, <1>3

\* Every step of Seeding keeps the types of Gate, Ledger and calls, and no step of it takes
\* a sale off the Gate.
LEMMA SeedingKeepsTypes ==
    ASSUME GateTypeOK, LedgerTypeOK, SeedingTypeOK, SeedingNext
    PROVE  /\ GateTypeOK' /\ LedgerTypeOK' /\ SeedingTypeOK'
           /\ \A s \in Sales : stock[s] # NotSeeded => stock'[s] # NotSeeded
<1>1. ASSUME NEW c \in Callers, Seed(c) \/ SeedUnheard(c) \/ SeedBuyers(c)
      PROVE  /\ GateTypeOK' /\ LedgerTypeOK' /\ SeedingTypeOK'
             /\ \A s \in Sales : stock[s] # NotSeeded => stock'[s] # NotSeeded
  <2>1. UNCHANGED ledgerVars
    BY <1>1 DEF Seed, SeedUnheard, SeedBuyers
  <2>. QED  BY <1>1, <2>1, PipelineWrites DEF LedgerTypeOK, ledgerVars
<1>2. ASSUME NEW s \in Sales, InsertSale(s) \/ LockExpires(s)
      PROVE  UNCHANGED gateVars /\ LedgerTypeOK' /\ SeedingTypeOK'
  BY <1>2 DEF InsertSale, LockExpires, LedgerTypeOK, SeedingTypeOK, ledgerVars, seedingVars
<1>3. ASSUME NEW C \in SUBSET Callers, CallersDie(C)
      PROVE  UNCHANGED gateVars /\ LedgerTypeOK' /\ SeedingTypeOK'
  BY <1>3, FS_EmptySet DEF CallersDie, LedgerTypeOK, SeedingTypeOK, ledgerVars, Awaits
<1>4. ASSUME NEW c \in Callers,
             \/ Rehydrate(c) \/ AcquireInitLock(c) \/ AcquireUnheard(c) \/ SkipSeed(c)
             \/ IsSeeded(c) \/ LoadReservationState(c) \/ LoadFails(c)
             \/ ReleaseInitLock(c) \/ ReleaseUnheard(c)
      PROVE  UNCHANGED gateVars /\ LedgerTypeOK' /\ SeedingTypeOK'
  BY <1>4, CallTypes DEF LedgerTypeOK, ledgerVars
<1>5. ASSUME UNCHANGED gateVars
      PROVE  GateTypeOK' /\ (\A s \in Sales : stock[s] # NotSeeded => stock'[s] # NotSeeded)
  BY <1>5 DEF GateTypeOK, gateVars
<1>. QED
  BY <1>1, <1>2, <1>3, <1>4, <1>5 DEF SeedingNext, AsksRedis, GoesUnheard
===============================================================================
