---------------------------- MODULE RecoveryProofs ----------------------------
(***************************************************************************)
(* Theorems about Recovery, for every set of nodes, jobs and sales and any *)
(* number of faults.                                                       *)
(***************************************************************************)
EXTENDS Recovery, SeedingProofs

-------------------------------------------------------------------------------
(* What a step does to Gate, Ledger and calls.                             *)

LEMMA CallersOfJob ==
    ASSUME NEW j \in Jobs, NEW s \in Sales
    PROVE  <<j, s>> \in Callers /\ SaleOf[<<j, s>>] = s
<1>1. <<j, s>> \in Jobs \X Sales
  OBVIOUS
<1>. QED  BY <1>1, RecoveryAssumption

\* The steps of a job that run one step of a call, or create a sale.
LEMMA JobSeeds ==
    ASSUME RecoveryTypeOK, NEW j \in Jobs,
           \/ Insert(j) \/ ReadBack(j) \/ NextSale(j)
           \/ AwaitsRedis(j) \/ LoadsRows(j) \/ LoadThrows(j)
    PROVE  SeedingNext
<1>1. todo[j] \subseteq Sales
  BY DEF RecoveryTypeOK
<1>2. CASE Insert(j)
  BY <1>1, <1>2 DEF Insert, SeedingNext
<1>3. CASE ReadBack(j) \/ NextSale(j)
  BY <1>1, <1>3, CallersOfJob DEF ReadBack, NextSale, SeedingNext
<1>4. CASE AwaitsRedis(j)
  BY <1>4, CallersOfJob DEF AwaitsRedis, SeedingNext
<1>5. CASE LoadsRows(j) \/ LoadThrows(j)
  BY <1>5, CallersOfJob DEF LoadsRows, LoadThrows, SeedingNext
<1>. QED  BY <1>2, <1>3, <1>4, <1>5

LEMMA StepSeeds ==
    ASSUME RecoveryTypeOK, RecoveryNext
    PROVE  \/ SeedingNext
           \/ (PostgresStops \/ PostgresReturns) /\ UNCHANGED <<gateVars, seedingVars>>
           \/ RedisIsWiped
           \/ Apart
<1>1. ASSUME NEW j \in Jobs, Proceeds(j) PROVE SeedingNext \/ Apart
  BY <1>1, JobSeeds DEF Proceeds, SelectAll, Ends, Rejects
<1>2. ASSUME NEW n \in Nodes, NodeStarts(n) \/ Reconnects(n) PROVE Apart
  BY <1>2 DEF NodeStarts, Reconnects
<1>3. ASSUME NEW n \in Nodes, NodeDies(n) PROVE SeedingNext \/ Apart
  <2>1. JobsOf(n) \X Sales \in SUBSET Callers
    BY RecoveryAssumption DEF JobsOf
  <2>. QED  BY <1>3, <2>1 DEF NodeDies, SeedingNext
<1>4. ASSUME NEW n \in Nodes, Disconnects(n) PROVE SeedingNext \/ Apart
  <2>1. \A j \in JobsOf(n) : j \in Jobs
    BY DEF JobsOf
  <2>. QED  BY <1>4, <2>1, CallersOfJob DEF Disconnects, SeedingNext
<1>5. ASSUME NEW j \in Jobs, NEW s \in Sales, PostSale(j, s) PROVE Apart
  BY <1>5 DEF PostSale
<1>6. ASSUME NEW s \in Sales, LockRunsOut(s) PROVE SeedingNext
  BY <1>6 DEF LockRunsOut, SeedingNext
<1>7. RedisRestarts => Apart
  BY DEF RedisRestarts, Restarts, Apart, gateVars, ledgerVars, seedingVars
<1>8. PostgresFails \/ PostgresRecovers =>
        (PostgresStops \/ PostgresReturns) /\ UNCHANGED <<gateVars, seedingVars>>
  BY DEF PostgresFails, PostgresRecovers
<1>. QED
  BY <1>1, <1>2, <1>3, <1>4, <1>5, <1>6, <1>7, <1>8 DEF RecoveryNext

-------------------------------------------------------------------------------
(* Type correctness.                                                       *)

\* The parts of RecoveryTypeOK.
DataTypes == GateTypeOK /\ LedgerTypeOK /\ SeedingTypeOK

JobTypes ==
    /\ node \in [Nodes -> {"down", "booting", "serving"}]
    /\ connected \in [Nodes -> BOOLEAN]
    /\ pc \in [Jobs -> Points]
    /\ todo \in [Jobs -> SUBSET Sales]
    /\ threw \subseteq Jobs
    /\ faults \in 0 .. MaxFaults

OneCallPerJob ==
    \A j \in Jobs :
        /\ node[NodeOf[j]] = "down" => pc[j] = "free"
        /\ \A i \in Jobs : node[NodeOf[j]] = "booting" /\ NodeOf[i] = NodeOf[j] =>
             pc[i] = "free" \/ pc[j] = "free" \/ i = j
        /\ pc[j] \notin {"create", "loop"} => Between(j) /\ j \notin threw
        /\ \A s, t \in Sales : at[<<j, s>>] # "idle" /\ at[<<j, t>>] # "idle" => s = t

LEMMA TypeParts == RecoveryTypeOK <=> DataTypes /\ JobTypes /\ due \subseteq created /\ OneCallPerJob
BY DEF RecoveryTypeOK, DataTypes, JobTypes, OneCallPerJob

LEMMA RecoveryInitTypeOK == RecoveryInit => RecoveryTypeOK
<1>. SUFFICES ASSUME RecoveryInit PROVE RecoveryTypeOK
  OBVIOUS
<1>1. GateTypeOK
  BY LedgerAssumption DEF RecoveryInit, GateInit, LedgerInit, GateTypeOK, NoId
<1>2. LedgerTypeOK
  BY LedgerAssumption DEF RecoveryInit, LedgerInit, LedgerTypeOK, Entry
<1>3. SeedingTypeOK
  BY FS_EmptySet DEF RecoveryInit, SeedingInit, SeedingTypeOK, Awaits
<1>4. JobTypes /\ due \subseteq created
  BY RecoveryAssumption DEF RecoveryInit, JobTypes, Points
<1>5. OneCallPerJob
  BY CallersOfJob DEF RecoveryInit, SeedingInit, OneCallPerJob, Between
<1>. QED  BY <1>1, <1>2, <1>3, <1>4, <1>5, TypeParts DEF DataTypes

LEMMA DataStep ==
    ASSUME RecoveryTypeOK, RecoveryNext
    PROVE  DataTypes'
<1>. USE DEF RecoveryTypeOK, DataTypes
<1>1. CASE SeedingNext
  BY <1>1, SeedingKeepsTypes
<1>2. CASE (PostgresStops \/ PostgresReturns) /\ UNCHANGED <<gateVars, seedingVars>>
  BY <1>2 DEF PostgresStops, PostgresReturns, GateTypeOK, LedgerTypeOK, SeedingTypeOK, gateVars,
              seedingVars
<1>3. CASE RedisIsWiped
  BY <1>3 DEF RedisIsWiped, Restarts, GateTypeOK, LedgerTypeOK, SeedingTypeOK, ledgerVars, NoId
<1>4. CASE Apart
  BY <1>4 DEF Apart, GateTypeOK, LedgerTypeOK, SeedingTypeOK, gateVars, ledgerVars, seedingVars
<1>. QED  BY <1>1, <1>2, <1>3, <1>4, StepSeeds

\* Sales are only ever added to the table.
LEMMA CreatedGrows ==
    ASSUME RecoveryTypeOK, RecoveryNext
    PROVE  created \subseteq created'
<1>1. CASE SeedingNext
  BY <1>1 DEF SeedingNext, InsertSale, LockExpires, Rehydrate, AsksRedis, GoesUnheard,
     AcquireInitLock, AcquireUnheard, SkipSeed, IsSeeded, Seed, SeedUnheard, SeedBuyers,
     ReleaseInitLock, ReleaseUnheard, LoadReservationState, LoadFails, CallersDie, ledgerVars
<1>2. CASE \/ (PostgresStops \/ PostgresReturns) /\ UNCHANGED <<gateVars, seedingVars>>
           \/ RedisIsWiped
           \/ Apart
  BY <1>2 DEF PostgresStops, PostgresReturns, RedisIsWiped, Restarts, Apart, ledgerVars
<1>. QED  BY <1>1, <1>2, StepSeeds

LEMMA JobTypesStep ==
    ASSUME RecoveryTypeOK, RecoveryNext
    PROVE  JobTypes' /\ due' \subseteq created'
<1>. USE RecoveryAssumption DEF JobTypes, Points
<1>1. JobTypes /\ due \subseteq created /\ created \subseteq created'
  BY CreatedGrows, TypeParts
<1>2. ASSUME NEW n \in Nodes, NodeStarts(n) \/ Reconnects(n)
      PROVE  JobTypes' /\ due' \subseteq created'
  <2>1. CASE NodeStarts(n)
    <3>1. SeedSale # NoSale => SeedSale \in Sales
      OBVIOUS
    <3>2. PICK j \in Passes \cap JobsOf(n) : SeedFromEnv(j)
      BY <2>1 DEF NodeStarts
    <3>. QED  BY <1>1, <2>1, <3>1, <3>2 DEF NodeStarts, SeedFromEnv, Starts, JobsOf
  <2>2. CASE Reconnects(n)
    BY <1>1, <2>2 DEF Reconnects, Starts, JobsOf, jobVars
  <2>. QED  BY <1>2, <2>1, <2>2
<1>3. ASSUME NEW n \in Nodes, NodeDies(n) \/ Disconnects(n)
      PROVE  JobTypes' /\ due' \subseteq created'
  <2>1. faults' \in 0 .. MaxFaults /\ due' = {}
    BY <1>1, <1>3 DEF NodeDies, Disconnects, Fault, FaultLeaving
  <2>2. CASE NodeDies(n)
    BY <1>1, <2>1, <2>2 DEF NodeDies
  <2>3. CASE Disconnects(n)
    BY <1>1, <2>1, <2>3 DEF Disconnects, jobVars
  <2>. QED  BY <1>3, <2>2, <2>3
<1>4. ASSUME NEW j \in Jobs, NEW s \in Sales, PostSale(j, s)
      PROVE  JobTypes' /\ due' \subseteq created'
  BY <1>1, <1>4 DEF PostSale, Starts
<1>5. ASSUME NEW j \in Jobs, Insert(j) \/ ReadBack(j) \/ SelectAll(j) \/ NextSale(j)
      PROVE  JobTypes' /\ due' \subseteq created'
  <2>1. created \subseteq Sales
    BY DEF RecoveryTypeOK, LedgerTypeOK
  <2>2. CASE Insert(j) \/ ReadBack(j)
    BY <1>1, <2>2 DEF Insert, ReadBack
  <2>3. CASE SelectAll(j)
    BY <1>1, <2>1, <2>3 DEF SelectAll
  <2>4. CASE NextSale(j)
    BY <1>1, <2>4 DEF NextSale
  <2>. QED  BY <1>5, <2>2, <2>3, <2>4
<1>6. ASSUME NEW j \in Jobs, AwaitsRedis(j) \/ LoadsRows(j) \/ LoadThrows(j)
      PROVE  JobTypes' /\ due' \subseteq created'
  BY <1>1, <1>6 DEF AwaitsRedis, LoadsRows, LoadThrows, jobVars
<1>7. ASSUME NEW j \in Jobs, Ends(j) \/ Rejects(j)
      PROVE  JobTypes' /\ due' \subseteq created'
  BY <1>1, <1>7 DEF Ends, Rejects
<1>8. ASSUME NEW s \in Sales, LockRunsOut(s)
      PROVE  JobTypes' /\ due' \subseteq created'
  BY <1>1, <1>8 DEF LockRunsOut, jobVars
<1>9. CASE RedisRestarts \/ RedisIsWiped
  <2>1. faults' \in 0 .. MaxFaults /\ due' \subseteq created
    BY <1>1, <1>9 DEF RedisRestarts, RedisIsWiped, Restarts, FaultLeaving
  <2>2. connected' = [m \in Nodes |-> FALSE] /\ UNCHANGED <<node, jobVars>>
    BY <1>9 DEF RedisRestarts, RedisIsWiped, Restarts
  <2>. QED  BY <1>1, <2>1, <2>2 DEF jobVars
<1>10. CASE PostgresFails \/ PostgresRecovers
  BY <1>1, <1>10 DEF PostgresFails, PostgresRecovers, Fault, FaultLeaving, jobVars
<1>. QED
  BY <1>2, <1>3, <1>4, <1>5, <1>6, <1>7, <1>8, <1>9, <1>10 DEF RecoveryNext, Proceeds

\* A step of a call moves that call only, and it is a call under way.
LEMMA CallMoves ==
    ASSUME NEW c \in Callers, AsksRedis(c) \/ LoadReservationState(c) \/ LoadFails(c)
    PROVE  at[c] # "idle" /\ \E p \in Awaits : at' = [at EXCEPT ![c] = p]
BY DEF AsksRedis, AcquireInitLock, SkipSeed, IsSeeded, Seed, SeedBuyers, ReleaseInitLock,
       LoadReservationState, LoadFails, Go, Awaits

LEMMA OneCallStep ==
    ASSUME RecoveryTypeOK, RecoveryNext
    PROVE  OneCallPerJob'
<1>. USE DEF OneCallPerJob, Between
<1>1. JobTypes /\ OneCallPerJob /\ at \in [Callers -> Awaits]
  BY TypeParts DEF RecoveryTypeOK, SeedingTypeOK
<1>2. NodeOf \in [Jobs -> Nodes] /\ Passes \subseteq Jobs
  BY RecoveryAssumption DEF Jobs
<1>. USE DEF JobTypes
<1>3. ASSUME NEW n \in Nodes, NodeStarts(n) \/ Reconnects(n)
      PROVE  OneCallPerJob'
  <2>1. UNCHANGED at
    BY <1>3 DEF NodeStarts, Reconnects, Apart, seedingVars
  <2>2. CASE NodeStarts(n)
    BY <1>1, <1>2, <2>1, <2>2 DEF NodeStarts, SeedFromEnv, Starts, JobsOf
  <2>3. CASE Reconnects(n)
    BY <1>1, <1>2, <2>1, <2>3 DEF Reconnects, Starts, JobsOf, jobVars
  <2>. QED  BY <1>3, <2>2, <2>3
<1>4. ASSUME NEW n \in Nodes, NodeDies(n)
      PROVE  OneCallPerJob'
  <2>1. \A j \in Jobs, s \in Sales :
          at'[<<j, s>>] = IF NodeOf[j] = n THEN "idle" ELSE at[<<j, s>>]
    <3>1. \A j \in Jobs, s \in Sales : <<j, s>> \in JobsOf(n) \X Sales <=> NodeOf[j] = n
      BY DEF JobsOf
    <3>2. CASE CallersDie(JobsOf(n) \X Sales)
      BY <3>1, <3>2, CallersOfJob DEF CallersDie
    <3>3. CASE Apart /\ \A j \in JobsOf(n) : Between(j)
      BY <3>3 DEF Apart, seedingVars, JobsOf
    <3>. QED  BY <1>4, <3>2, <3>3 DEF NodeDies
  <2>. QED  BY <1>1, <1>2, <1>4, <2>1 DEF NodeDies, JobsOf
<1>5. ASSUME NEW n \in Nodes, Disconnects(n)
      PROVE  OneCallPerJob'
  <2>1. UNCHANGED at
    BY <1>5 DEF Disconnects, Apart, GoesUnheard, AcquireUnheard, SeedUnheard, ReleaseUnheard,
       seedingVars
  <2>. QED  BY <1>1, <1>2, <1>5, <2>1 DEF Disconnects, jobVars
<1>6. ASSUME NEW j \in Jobs, NEW s \in Sales, PostSale(j, s)
      PROVE  OneCallPerJob'
  BY <1>1, <1>2, <1>6 DEF PostSale, Starts, Apart, seedingVars
<1>7. ASSUME NEW j \in Jobs, Insert(j) \/ SelectAll(j)
      PROVE  OneCallPerJob'
  BY <1>1, <1>2, <1>7 DEF Insert, InsertSale, SelectAll, Apart, seedingVars
<1>8. ASSUME NEW j \in Jobs, ReadBack(j) \/ NextSale(j)
      PROVE  OneCallPerJob'
  <2>1. Between(j) /\ j \notin threw
    BY <1>1, <1>8 DEF ReadBack, NextSale
  <2>2. PICK s \in Sales : at' = [at EXCEPT ![<<j, s>>] = "acquire"]
    BY <1>1, <1>8 DEF ReadBack, NextSale, Rehydrate, Go
  <2>3. \A i \in Jobs, t \in Sales : <<i, t>> # <<j, s>> => at'[<<i, t>>] = at[<<i, t>>]
    BY <1>1, <2>2, CallersOfJob
  <2>. QED  BY <1>1, <1>2, <1>8, <2>1, <2>3 DEF ReadBack, NextSale
<1>9. ASSUME NEW j \in Jobs, AwaitsRedis(j) \/ LoadsRows(j) \/ LoadThrows(j)
      PROVE  OneCallPerJob'
  <2>1. PICK s \in Sales : AsksRedis(<<j, s>>) \/ LoadReservationState(<<j, s>>) \/ LoadFails(<<j, s>>)
    BY <1>9 DEF AwaitsRedis, LoadsRows, LoadThrows
  <2>2. at[<<j, s>>] # "idle" /\ \E p \in Awaits : at' = [at EXCEPT ![<<j, s>>] = p]
    BY <2>1, CallMoves, CallersOfJob
  <2>. PICK p \in Awaits : at' = [at EXCEPT ![<<j, s>>] = p]
    BY <2>2
  <2>3. \A i \in Jobs, t \in Sales : <<i, t>> # <<j, s>> => at'[<<i, t>>] = at[<<i, t>>]
    BY <1>1, CallersOfJob
  <2>4. pc[j] \in {"create", "loop"}
    BY <1>1, <2>2
  <2>5. UNCHANGED <<node, pc>> /\ threw' \subseteq threw \cup {j}
    BY <1>9 DEF AwaitsRedis, LoadsRows, LoadThrows, jobVars
  <2>. QED  BY <1>1, <1>2, <2>2, <2>3, <2>4, <2>5
<1>10. ASSUME NEW j \in Jobs, Ends(j) \/ Rejects(j)
       PROVE  OneCallPerJob'
  <2>1. UNCHANGED at /\ Between(j)
    BY <1>1, <1>10 DEF Ends, Rejects, Apart, seedingVars
  <2>2. CASE Ends(j)
    BY <1>1, <1>2, <2>1, <2>2 DEF Ends
  <2>3. CASE Rejects(j)
    BY <1>1, <1>2, <2>1, <2>3 DEF Rejects
  <2>. QED  BY <1>10, <2>2, <2>3
<1>11. ASSUME UNCHANGED <<at, node, jobVars>>
       PROVE  OneCallPerJob'
  BY <1>1, <1>11 DEF jobVars
<1>12. ASSUME NEW s \in Sales, LockRunsOut(s)
       PROVE  OneCallPerJob'
  BY <1>11, <1>12 DEF LockRunsOut, LockExpires
<1>13. CASE RedisRestarts \/ RedisIsWiped \/ PostgresFails \/ PostgresRecovers
  BY <1>11, <1>13 DEF RedisRestarts, RedisIsWiped, Restarts, PostgresFails, PostgresRecovers,
     seedingVars
<1>. QED
  BY <1>3, <1>4, <1>5, <1>6, <1>7, <1>8, <1>9, <1>10, <1>12, <1>13 DEF RecoveryNext, Proceeds

LEMMA RecoveryTypeStep == RecoveryTypeOK /\ [RecoveryNext]_recoveryVars => RecoveryTypeOK'
<1>. SUFFICES ASSUME RecoveryTypeOK, [RecoveryNext]_recoveryVars PROVE RecoveryTypeOK'
  OBVIOUS
<1>1. CASE RecoveryNext
  <2>1. DataTypes'
    BY <1>1, DataStep
  <2>2. JobTypes' /\ due' \subseteq created'
    BY <1>1, JobTypesStep
  <2>3. OneCallPerJob'
    BY <1>1, OneCallStep
  <2>. QED
    BY <2>1, <2>2, <2>3 DEF RecoveryTypeOK, DataTypes, JobTypes, OneCallPerJob
<1>2. CASE UNCHANGED recoveryVars
  BY <1>2 DEF recoveryVars, jobVars, gateVars, ledgerVars, seedingVars, RecoveryTypeOK, GateTypeOK,
     LedgerTypeOK, SeedingTypeOK, Between
<1>. QED  BY <1>1, <1>2

\* Every variable keeps its type; a process that is down runs no job, a booting one only its
\* boot pass, and a job awaits at most one call of seedOrRehydrate, where it makes one.
THEOREM RecoveryTypeCorrect == RecoverySpec => []RecoveryTypeOK
<1>. QED  BY RecoveryInitTypeOK, RecoveryTypeStep, PTL DEF RecoverySpec

-------------------------------------------------------------------------------
(* No cold node takes traffic.                                             *)

\* The part of BootInv that is about locks and calls.
LocksHeld ==
    /\ \A s \in Sales : initLock[s] # Nobody =>
         SaleOf[initLock[s]] = s /\ at[initLock[s]] \in UnderLock
    /\ \A c \in Callers : at[c] \in {"hset", "release"} => ~Unseeded(SaleOf[c])

\* A step of a call that does not fail leaves its sale live or to a call that is seeding it,
\* and takes no warmth from any sale.
LEMMA CallKeepsWarm ==
    ASSUME RecoveryTypeOK, LocksHeld, NEW c \in Callers,
           Rehydrate(c) \/ AsksRedis(c) \/ LoadReservationState(c)
    PROVE  /\ LocksHeld'
           /\ \A s \in Sales : Warm(s) => Warm(s)'
           /\ at[c] = "acquire" => Warm(SaleOf[c])'
<1>. DEFINE t == SaleOf[c]
<1>1. /\ t \in Sales
      /\ initLock \in [Sales -> Callers \cup {Nobody}]
      /\ at \in [Callers -> Awaits]
      /\ stock \in [Sales -> Nat \cup {NotSeeded}]
      /\ SaleOf \in [Callers -> Sales] /\ Nobody \notin Callers
  BY SeedingAssumption DEF RecoveryTypeOK, GateTypeOK, SeedingTypeOK
<1>. USE <1>1 DEF LocksHeld, Warm, Unseeded, BeingSeeded, UnderLock, Go
<1>2. CASE Rehydrate(c)
  <2>1. UNCHANGED <<stock, initLock>> /\ at[c] = "idle" /\ at' = [at EXCEPT ![c] = "acquire"]
    BY <1>2 DEF Rehydrate, gateVars
  <2>. QED  BY <2>1
<1>3. CASE AcquireInitLock(c)
  <2>1. /\ UNCHANGED stock /\ at[c] = "acquire" /\ at' = [at EXCEPT ![c] = "check"]
        /\ initLock[t] = Nobody /\ initLock' = [initLock EXCEPT ![t] = c]
    BY <1>3 DEF AcquireInitLock, gateVars
  <2>2. LocksHeld'
    BY <2>1
  <2>3. Warm(t)'
    BY <2>1
  <2>4. \A s \in Sales : Warm(s) => Warm(s)'
    BY <2>1
  <2>. QED  BY <2>2, <2>3, <2>4
<1>4. CASE SkipSeed(c)
  <2>1. /\ UNCHANGED <<stock, initLock>> /\ at[c] = "acquire" /\ at' = [at EXCEPT ![c] = "idle"]
        /\ initLock[t] # Nobody
    BY <1>4 DEF SkipSeed, gateVars
  <2>2. LocksHeld'
    BY <2>1
  <2>3. Warm(t)
    BY <2>1
  <2>4. \A s \in Sales : Warm(s) => Warm(s)'
    BY <2>1
  <2>. QED  BY <2>2, <2>3, <2>4
<1>5. CASE IsSeeded(c)
  <2>1. /\ UNCHANGED <<stock, initLock>> /\ at[c] = "check"
        /\ at' = [at EXCEPT ![c] = IF Unseeded(t) THEN "load" ELSE "release"]
    BY <1>5 DEF IsSeeded, gateVars
  <2>2. LocksHeld'
    BY <2>1
  <2>3. ASSUME NEW s \in Sales, Warm(s) PROVE Warm(s)'
    BY <2>1, <2>3
  <2>. QED  BY <2>1, <2>2, <2>3
<1>6. CASE LoadReservationState(c)
  <2>1. UNCHANGED <<stock, initLock>> /\ at[c] = "load" /\ at' = [at EXCEPT ![c] = "seed"]
    BY <1>6 DEF LoadReservationState, gateVars
  <2>. QED  BY <2>1
<1>7. CASE Seed(c) \/ SeedBuyers(c)
  <2>1. /\ UNCHANGED initLock /\ at[c] \in {"seed", "hset"}
        /\ \E p \in {"hset", "release"} : at' = [at EXCEPT ![c] = p]
    BY <1>7 DEF Seed, SeedBuyers
  <2>2. ~Unseeded(t)' /\ \A s \in Sales \ {t} : stock'[s] = stock[s]
    BY <1>7, SeedValues, GateAssumption DEF Seed, SeedBuyers, SetStock, RecoveryTypeOK
  <2>3. LocksHeld'
    BY <2>1, <2>2
  <2>4. ASSUME NEW s \in Sales, Warm(s), s # t PROVE Warm(s)'
    BY <2>1, <2>2, <2>4
  <2>. QED  BY <2>1, <2>2, <2>3, <2>4
<1>8. CASE ReleaseInitLock(c)
  <2>1. /\ UNCHANGED stock /\ at[c] = "release" /\ at' = [at EXCEPT ![c] = "idle"]
        /\ initLock' = [initLock EXCEPT ![t] = Nobody] /\ ~Unseeded(t)
    BY <1>8 DEF ReleaseInitLock, gateVars
  <2>2. LocksHeld'
    BY <2>1
  <2>3. ASSUME NEW s \in Sales, Warm(s), s # t PROVE Warm(s)'
    BY <2>1, <2>3
  <2>. QED  BY <2>1, <2>2, <2>3
<1>. QED  BY <1>2, <1>3, <1>4, <1>5, <1>6, <1>7, <1>8 DEF AsksRedis

\* What BootInv says of the jobs of a system without a fault so far.
JobsWarm ==
    /\ {r.sale : r \in PriorRows} \subseteq created
    /\ \A j \in Passes :
         /\ pc[j] = "insert" => todo[j] = {SeedSale}
         /\ pc[j] \in {"read", "create"} => Expected \subseteq created
    /\ \A j \in Jobs :
         /\ pc[j] = "select" => Expected \subseteq created
         /\ pc[j] = "loop" => \A s \in Expected :
              s \in todo[j] \/ at[<<j, s>>] = "acquire" \/ Warm(s)

Calm ==
    /\ pgUp /\ threw = {}
    /\ \A n \in Nodes : node[n] # "down" => connected[n]

LEMMA BootParts == BootInv <=> (faults = 0 => Calm /\ LocksHeld /\ JobsWarm /\ ServesWarm)
BY DEF BootInv, Calm, LocksHeld, JobsWarm

LEMMA BootInit == RecoveryInit => BootInv
<1>. SUFFICES ASSUME RecoveryInit PROVE BootInv
  OBVIOUS
<1>1. Calm
  BY DEF RecoveryInit, LedgerInit, Calm
<1>2. LocksHeld
  BY DEF RecoveryInit, SeedingInit, LocksHeld
<1>3. JobsWarm
  BY DEF RecoveryInit, LedgerInit, JobsWarm, Jobs
<1>4. ServesWarm
  BY DEF RecoveryInit, ServesWarm
<1>. QED  BY <1>1, <1>2, <1>3, <1>4, BootParts

\* As long as there is no fault, what is left is boots, posts and their calls.
LEMMA FaultFreeSteps ==
    ASSUME SeedWithinTTL, RecoveryTypeOK, BootInv, RecoveryNext, faults' = 0
    PROVE  /\ faults = 0
           /\ Calm'
           /\ \/ \E n \in Nodes : NodeStarts(n)
              \/ \E j \in Jobs :
                   \/ \E s \in Sales : PostSale(j, s)
                   \/ Insert(j) \/ ReadBack(j) \/ SelectAll(j) \/ NextSale(j)
                   \/ AwaitsRedis(j) \/ LoadsRows(j) \/ Ends(j)
<1>1. faults \in Nat
  BY RecoveryAssumption DEF RecoveryTypeOK
<1>2. ASSUME NEW D, FaultLeaving(D) PROVE FALSE
  BY <1>1, <1>2 DEF FaultLeaving
<1>3. \A n \in Nodes : ~NodeDies(n) /\ ~Disconnects(n)
  BY <1>2 DEF NodeDies, Disconnects, Fault
<1>4. ~RedisRestarts /\ ~RedisIsWiped /\ ~PostgresFails
  BY <1>2 DEF RedisRestarts, RedisIsWiped, Restarts, PostgresFails, Fault
<1>5. UNCHANGED faults
  BY <1>3, <1>4 DEF RecoveryNext, Proceeds, NodeStarts, Reconnects, PostSale, Insert, ReadBack,
     SelectAll, NextSale, AwaitsRedis, LoadsRows, LoadThrows, Ends, Rejects, LockRunsOut,
     PostgresRecovers
<1>6. faults = 0 /\ Calm /\ LocksHeld
  BY <1>5, BootParts
<1>7. ~PostgresRecovers
  BY <1>6 DEF PostgresRecovers, PostgresReturns, Calm
<1>8. \A s \in Sales : ~LockRunsOut(s)
  BY <1>6 DEF LockRunsOut, LockExpires, LocksHeld
<1>9. \A n \in Nodes : ~Reconnects(n)
  BY <1>6 DEF Reconnects, Calm
<1>10. \A j \in Jobs : ~LoadThrows(j) /\ ~Rejects(j)
  BY <1>6 DEF LoadThrows, LoadFails, Rejects, Calm
<1>11. \/ \E n \in Nodes : NodeStarts(n)
       \/ \E j \in Jobs :
            \/ \E s \in Sales : PostSale(j, s)
            \/ Insert(j) \/ ReadBack(j) \/ SelectAll(j) \/ NextSale(j)
            \/ AwaitsRedis(j) \/ LoadsRows(j) \/ Ends(j)
  BY <1>3, <1>4, <1>7, <1>8, <1>9, <1>10 DEF RecoveryNext, Proceeds
<1>12. node \in [Nodes -> {"down", "booting", "serving"}] /\ connected \in [Nodes -> BOOLEAN]
         /\ NodeOf \in [Jobs -> Nodes]
  BY RecoveryAssumption DEF RecoveryTypeOK
<1>13. Calm'
  <2>1. ASSUME NEW n \in Nodes, NodeStarts(n) PROVE Calm'
    BY <1>6, <1>12, <2>1, RecoveryAssumption
       DEF NodeStarts, SeedFromEnv, Starts, Apart, ledgerVars, JobsOf, Jobs, Calm
  <2>2. ASSUME NEW j \in Jobs, Ends(j) PROVE Calm'
    <3>1. node[NodeOf[j]] # "down"
      BY <2>2 DEF Ends, RecoveryTypeOK
    <3>. QED  BY <1>6, <1>12, <2>2, <3>1 DEF Ends, Apart, ledgerVars, Calm
  <2>3. ASSUME NEW j \in Jobs,
               \/ \E s \in Sales : PostSale(j, s)
               \/ Insert(j) \/ ReadBack(j) \/ SelectAll(j) \/ NextSale(j)
               \/ AwaitsRedis(j) \/ LoadsRows(j)
        PROVE  Calm'
    BY <1>6, <2>3
       DEF PostSale, Starts, Insert, InsertSale, ReadBack, SelectAll, NextSale, AwaitsRedis,
           LoadsRows, Rehydrate, AsksRedis, AcquireInitLock, SkipSeed, IsSeeded, Seed, SeedBuyers,
           ReleaseInitLock, LoadReservationState, Apart, ledgerVars, jobVars, Calm
  <2>. QED  BY <1>11, <2>1, <2>2, <2>3
<1>. QED  BY <1>6, <1>11, <1>13

LEMMA BootStep ==
    ASSUME SeedWithinTTL, RecoveryTypeOK, BootInv, RecoveryNext
    PROVE  BootInv'
<1>. SUFFICES ASSUME faults' = 0 PROVE LocksHeld' /\ JobsWarm' /\ ServesWarm'
  BY FaultFreeSteps, BootParts DEF BootInv, Calm, LocksHeld, JobsWarm
<1>1. faults = 0 /\ LocksHeld /\ JobsWarm /\ ServesWarm
  BY FaultFreeSteps, BootParts
<1>2. /\ node \in [Nodes -> {"down", "booting", "serving"}]
      /\ pc \in [Jobs -> Points]
      /\ todo \in [Jobs -> SUBSET Sales]
      /\ at \in [Callers -> Awaits]
      /\ created \subseteq Sales
      /\ NodeOf \in [Jobs -> Nodes] /\ Passes \subseteq Jobs
      /\ Passes \cap Posts = {} /\ NoSale \notin Sales
  BY RecoveryAssumption DEF RecoveryTypeOK, LedgerTypeOK, SeedingTypeOK, Jobs
<1>3. Expected \subseteq Sales
  BY RecoveryAssumption, LedgerAssumption DEF Expected, Entry
<1>4. ASSUME Apart
      PROVE  LocksHeld' /\ (\A s \in Sales : Warm(s)' <=> Warm(s))
               /\ UNCHANGED <<at, created>>
  BY <1>1, <1>4 DEF Apart, LocksHeld, Warm, Unseeded, BeingSeeded, gateVars, ledgerVars, seedingVars
<1>5. ASSUME NEW n \in Nodes, NodeStarts(n)
      PROVE  LocksHeld' /\ JobsWarm' /\ ServesWarm'
  <2>1. PICK j \in Passes : SeedFromEnv(j)
    BY <1>5 DEF NodeStarts
  <2>2. SeedSale = NoSale => Expected \subseteq created
    BY <1>1 DEF JobsWarm, Expected
  <2>3. Apart /\ node' = [node EXCEPT ![n] = "booting"]
    BY <1>5 DEF NodeStarts
  <2>4. JobsWarm'
    BY <1>1, <1>2, <1>3, <1>4, <2>1, <2>2, <2>3 DEF SeedFromEnv, Starts, JobsWarm
  <2>5. ServesWarm'
    BY <1>1, <1>2, <1>3, <1>4, <2>3 DEF ServesWarm
  <2>. QED  BY <1>4, <2>3, <2>4, <2>5
<1>6. ASSUME NEW j \in Jobs, NEW s \in Sales, PostSale(j, s)
      PROVE  LocksHeld' /\ JobsWarm' /\ ServesWarm'
  <2>1. Apart /\ UNCHANGED node
    BY <1>6 DEF PostSale
  <2>2. JobsWarm'
    BY <1>1, <1>2, <1>3, <1>4, <1>6, <2>1 DEF PostSale, Starts, JobsWarm
  <2>3. ServesWarm'
    BY <1>1, <1>3, <1>4, <2>1 DEF ServesWarm
  <2>. QED  BY <1>4, <2>1, <2>2, <2>3
<1>7. ASSUME NEW j \in Jobs, Insert(j)
      PROVE  LocksHeld' /\ JobsWarm' /\ ServesWarm'
  <2>1. /\ UNCHANGED <<stock, initLock, at, node, todo>>
        /\ pc[j] = "insert" /\ pc' = [pc EXCEPT ![j] = "read"]
        /\ \E s \in todo[j] : created' = created \cup {s}
    BY <1>7 DEF Insert, InsertSale, gateVars, seedingVars
  <2>2. LocksHeld' /\ (\A s \in Sales : Warm(s)' <=> Warm(s))
    BY <1>1, <2>1 DEF LocksHeld, Warm, Unseeded, BeingSeeded
  <2>3. j \in Passes => Expected \subseteq created'
    BY <1>1, <2>1 DEF JobsWarm, Expected
  <2>4. JobsWarm'
    BY <1>1, <1>2, <1>3, <2>1, <2>2, <2>3 DEF JobsWarm
  <2>5. ServesWarm'
    BY <1>1, <1>3, <2>1, <2>2 DEF ServesWarm
  <2>. QED  BY <2>2, <2>4, <2>5
<1>8. ASSUME NEW j \in Jobs, ReadBack(j) \/ NextSale(j)
      PROVE  LocksHeld' /\ JobsWarm' /\ ServesWarm'
  <2>1. PICK s \in todo[j] : Rehydrate(<<j, s>>) /\ (NextSale(j) => todo' = [todo EXCEPT ![j] = @ \ {s}])
    BY <1>8 DEF ReadBack, NextSale
  <2>2. s \in Sales /\ <<j, s>> \in Callers /\ SaleOf[<<j, s>>] = s
    BY <1>2, CallersOfJob
  <2>3. LocksHeld' /\ \A t \in Sales : Warm(t) => Warm(t)'
    BY <1>1, <2>1, <2>2, CallKeepsWarm
  <2>4. /\ at[<<j, s>>] = "idle" /\ at' = [at EXCEPT ![<<j, s>>] = "acquire"]
        /\ UNCHANGED <<created, node>>
    BY <1>8, <2>1 DEF Rehydrate, Go, ledgerVars, ReadBack, NextSale
  <2>5. at'[<<j, s>>] = "acquire"
    BY <1>2, <2>2, <2>4
  <2>6. \A i \in Jobs, t \in Sales : at[<<i, t>>] = "acquire" => at'[<<i, t>>] = "acquire"
    BY <1>2, <2>4, CallersOfJob
  <2>7. CASE ReadBack(j)
    BY <1>1, <1>2, <1>3, <2>3, <2>4, <2>6, <2>7 DEF ReadBack, JobsWarm, ServesWarm
  <2>8. CASE NextSale(j)
    <3>1. /\ UNCHANGED pc
          /\ \A i \in Jobs \ {j} : todo'[i] = todo[i]
          /\ todo'[j] = todo[j] \ {s}
      BY <1>2, <2>1, <2>8 DEF NextSale
    <3>2. ASSUME NEW i \in Jobs, pc[i] = "loop", NEW t \in Expected
          PROVE  t \in todo'[i] \/ at'[<<i, t>>] = "acquire" \/ Warm(t)'
      <4>1. t \in todo[i] \/ at[<<i, t>>] = "acquire" \/ Warm(t)
        BY <1>1, <3>2 DEF JobsWarm
      <4>2. CASE i = j /\ t = s
        BY <2>5, <4>2
      <4>3. CASE ~(i = j /\ t = s)
        BY <1>3, <2>3, <2>6, <3>1, <4>1, <4>3
      <4>. QED  BY <4>2, <4>3
    <3>3. \A i \in Passes : pc[i] = "insert" => i # j
      BY <2>8 DEF NextSale
    <3>4. JobsWarm'
      BY <1>1, <1>2, <2>4, <3>1, <3>2, <3>3 DEF JobsWarm
    <3>. QED  BY <1>1, <1>3, <2>3, <2>4, <3>4 DEF ServesWarm
  <2>. QED  BY <1>8, <2>3, <2>7, <2>8
<1>9. ASSUME NEW j \in Jobs, SelectAll(j)
      PROVE  LocksHeld' /\ JobsWarm' /\ ServesWarm'
  <2>1. /\ Apart /\ UNCHANGED node
        /\ pc[j] = "select" /\ pc' = [pc EXCEPT ![j] = "loop"]
        /\ todo' = [todo EXCEPT ![j] = created]
    BY <1>9 DEF SelectAll
  <2>2. JobsWarm'
    BY <1>1, <1>2, <1>3, <1>4, <2>1 DEF JobsWarm
  <2>3. ServesWarm'
    BY <1>1, <1>3, <1>4, <2>1 DEF ServesWarm
  <2>. QED  BY <1>4, <2>1, <2>2, <2>3
<1>10. ASSUME NEW j \in Jobs, AwaitsRedis(j) \/ LoadsRows(j)
       PROVE  LocksHeld' /\ JobsWarm' /\ ServesWarm'
  <2>1. PICK s \in Sales : AsksRedis(<<j, s>>) \/ LoadReservationState(<<j, s>>)
    BY <1>10 DEF AwaitsRedis, LoadsRows
  <2>2. <<j, s>> \in Callers /\ SaleOf[<<j, s>>] = s
    BY CallersOfJob
  <2>3. /\ LocksHeld'
        /\ \A t \in Sales : Warm(t) => Warm(t)'
        /\ at[<<j, s>>] = "acquire" => Warm(s)'
    BY <1>1, <2>1, <2>2, CallKeepsWarm
  <2>4. PICK p \in Awaits : at' = [at EXCEPT ![<<j, s>>] = p]
    BY <2>1, <2>2, CallMoves
  <2>5. \A i \in Jobs, t \in Sales : at[<<i, t>>] = "acquire" =>
          at'[<<i, t>>] = "acquire" \/ Warm(t)'
    BY <1>2, <2>3, <2>4, CallersOfJob
  <2>6. UNCHANGED <<node, pc, todo, created>>
    BY <1>10, <2>1 DEF AwaitsRedis, LoadsRows, jobVars, AsksRedis, AcquireInitLock, SkipSeed,
       IsSeeded, Seed, SeedBuyers, ReleaseInitLock, LoadReservationState, ledgerVars
  <2>. QED  BY <1>1, <1>2, <1>3, <2>3, <2>5, <2>6 DEF JobsWarm, ServesWarm
<1>11. ASSUME NEW j \in Jobs, Ends(j)
       PROVE  LocksHeld' /\ JobsWarm' /\ ServesWarm'
  <2>1. Apart /\ Between(j) /\ todo[j] = {} /\ UNCHANGED todo
    BY <1>11 DEF Ends
  <2>2. JobsWarm'
    BY <1>1, <1>2, <1>3, <1>4, <1>11, <2>1 DEF Ends, JobsWarm
  <2>3. CASE pc[j] = "loop"
    <3>1. \A s \in Expected : Warm(s)
      BY <1>1, <1>3, <2>1, <2>3 DEF JobsWarm, Between
    <3>. QED  BY <1>3, <1>4, <2>1, <2>2, <3>1 DEF ServesWarm
  <2>4. CASE pc[j] # "loop"
    BY <1>1, <1>3, <1>4, <1>11, <2>1, <2>2, <2>4 DEF Ends, ServesWarm
  <2>. QED  BY <2>3, <2>4
<1>. QED
  BY <1>5, <1>6, <1>7, <1>8, <1>9, <1>10, <1>11, FaultFreeSteps

\* Without a fault no lock outlives its call, no call ends before its sale is live, and a
\* boot pass has every sale on record still to do, in hand, or warm: inductive on top of the
\* types.
THEOREM KeepsBootInv ==
    ASSUME SeedWithinTTL
    PROVE  RecoverySpec => []BootInv
<1>1. RecoveryTypeOK /\ BootInv /\ [RecoveryNext]_recoveryVars => BootInv'
  <2>. SUFFICES ASSUME RecoveryTypeOK, BootInv, [RecoveryNext]_recoveryVars PROVE BootInv'
    OBVIOUS
  <2>1. CASE UNCHANGED recoveryVars
    BY <2>1 DEF recoveryVars, jobVars, gateVars, ledgerVars, seedingVars, BootInv, ServesWarm, Warm,
       Unseeded, BeingSeeded
  <2>. QED  BY <2>1, BootStep
<1>. QED  BY <1>1, BootInit, RecoveryTypeCorrect, PTL DEF RecoverySpec

\* No cold node takes traffic, for any number of nodes that boot together, posts and sales.
THEOREM BootsWarm ==
    ASSUME SeedWithinTTL
    PROVE  RecoverySpec => []ServesWarm
<1>1. BootInv => ServesWarm
  BY DEF BootInv, ServesWarm
<1>. QED  BY <1>1, KeepsBootInv, PTL
===============================================================================
