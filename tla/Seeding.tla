------------------------------- MODULE Seeding --------------------------------
(***************************************************************************)
(* Seeding and rehydration: the calls of SalesService.seedOrRehydrate that *)
(* API nodes have in flight (on boot, on every Redis reconnect and when a  *)
(* sale is created), guarded by the per-sale init lock.                    *)
(*                                                                         *)
(* A caller is a slot for one such call; which node runs it makes no       *)
(* difference, since the nodes share nothing but Redis and Postgres.       *)
(* Every await of the code separates two actions.                          *)
(***************************************************************************)
EXTENDS Ledger

CONSTANTS
    Callers,        \* slots for calls of seedOrRehydrate
    SaleOf,         \* SaleOf[c]: the sale caller c seeds
    Nobody,         \* the init lock's key is absent
    SeedWithinTTL,  \* a live holder is done before the lock's 30 s expire
    PipelineWhole,  \* Redis runs the seed pipeline without a command in between
    SeedHeard,      \* the reply to the seed pipeline is never lost
    ReleaseHeard    \* the reply to the lock's DEL is never lost

ASSUME SeedingAssumption ==
    /\ SaleOf \in [Callers -> Sales]
    /\ Nobody \notin Callers
    /\ SeedWithinTTL \in BOOLEAN
    /\ PipelineWhole \in BOOLEAN
    /\ SeedHeard \in BOOLEAN
    /\ ReleaseHeard \in BOOLEAN

VARIABLES
    initLock,  \* initLock[s]: whose SET NX created the key; the key itself does not say
    at,        \* at[c]: the await the call is at
    loaded     \* loaded[c]: the ledger rows the call has read

seedingVars == <<initLock, at, loaded>>

Awaits == {"idle", "acquire", "check", "load", "seed", "hset", "release"}

\* The stretch of the code that runs while the lock is held.
UnderLock == {"check", "load", "seed", "hset", "release"}

-------------------------------------------------------------------------------
Go(c, from, to) == at[c] = from /\ at' = [at EXCEPT ![c] = to]

\* createSale begins: the sale is inserted unless its id is taken.
InsertSale(s) ==
    /\ pgUp
    /\ created' = created \cup {s}
    /\ UNCHANGED <<gateVars, ledger, pgUp, seedingVars>>

\* seedOrRehydrate is called with a sale whose row was read: the end of createSale, or a
\* turn of rehydrateAll.
Rehydrate(c) ==
    /\ SaleOf[c] \in created
    /\ Go(c, "idle", "acquire")
    /\ UNCHANGED <<gateVars, ledgerVars, initLock, loaded>>

\* A slip: SET without NX.
AcquireWithoutNX(c) ==
    /\ Go(c, "acquire", "check")
    /\ initLock' = [initLock EXCEPT ![SaleOf[c]] = c]
    /\ UNCHANGED <<gateVars, ledgerVars, loaded>>

\* SET NX EX succeeds.
AcquireInitLock(c) ==
    /\ initLock[SaleOf[c]] = Nobody
    /\ Go(c, "acquire", "check")
    /\ initLock' = [initLock EXCEPT ![SaleOf[c]] = c]
    /\ UNCHANGED <<gateVars, ledgerVars, loaded>>

\* SET NX EX succeeds, but the connection goes down with its reply: the client will send
\* it again, and find the key it created.
AcquireUnheard(c) ==
    /\ at[c] = "acquire" /\ initLock[SaleOf[c]] = Nobody
    /\ initLock' = [initLock EXCEPT ![SaleOf[c]] = c]
    /\ UNCHANGED <<gateVars, ledgerVars, at, loaded>>

\* A slip: the lock's answer is not looked at.
SkipSeedGoesOn(c) ==
    /\ initLock[SaleOf[c]] # Nobody
    /\ Go(c, "acquire", "check")
    /\ UNCHANGED <<gateVars, ledgerVars, initLock, loaded>>

\* SET NX finds the key: skip, for a peer is seeding (or so it is taken to mean).
SkipSeed(c) ==
    /\ initLock[SaleOf[c]] # Nobody
    /\ Go(c, "acquire", "idle")
    /\ UNCHANGED <<gateVars, ledgerVars, initLock, loaded>>

\* A slip: a live sale is seeded again from the lagging Ledger.
SeedsAgain(c) ==
    /\ Go(c, "check", "load")
    /\ UNCHANGED <<gateVars, ledgerVars, initLock, loaded>>

\* EXISTS stock: nothing to do for a live sale.
IsSeeded(c) ==
    /\ Go(c, "check", IF stock[SaleOf[c]] = NotSeeded THEN "load" ELSE "release")
    /\ UNCHANGED <<gateVars, ledgerVars, initLock, loaded>>

LoadReservationState(c) ==
    /\ pgUp
    /\ Go(c, "load", "seed")
    /\ loaded' = [loaded EXCEPT ![c] = Rows(SaleOf[c])]
    /\ UNCHANGED <<gateVars, ledgerVars, initLock>>

\* The query throws; the finally clause still releases the lock.
LoadFails(c) ==
    /\ ~pgUp
    /\ Go(c, "load", "release")
    /\ UNCHANGED <<gateVars, ledgerVars, initLock, loaded>>

\* A slip: what is sold already is not counted.
RemainingIgnoresRows(c) == InitialStock[SaleOf[c]]

\* Math.max(0, initialStock - count)
RemainingOf(c) ==
    LET count == Cardinality(loaded[c])
        initial == InitialStock[SaleOf[c]]
    IN  IF count < initial THEN initial - count ELSE 0

\* The pipeline: SET, then HSET when there are rows. Redis may serve other clients
\* between the two unless the pipeline reaches it whole.
Seed(c) ==
    LET s == SaleOf[c]
        last == loaded[c] = {} \/ PipelineWhole
    IN  /\ Go(c, "seed", IF last THEN "release" ELSE "hset")
        /\ SetStock(s, RemainingOf(c))
        /\ IF last THEN SetBuyers(s, loaded[c]) ELSE UNCHANGED buyers
        /\ loaded' = [loaded EXCEPT ![c] = IF last THEN {} ELSE @]
        /\ UNCHANGED <<stream, lastId, clock, ledgerVars, initLock>>

\* The pipeline runs, its replies are lost, and the client will send it again.
SeedUnheard(c) ==
    /\ ~SeedHeard
    /\ at[c] = "seed"
    /\ SetStock(SaleOf[c], RemainingOf(c))
    /\ SetBuyers(SaleOf[c], loaded[c])
    /\ UNCHANGED <<stream, lastId, clock, ledgerVars, seedingVars>>

SeedBuyers(c) ==
    /\ Go(c, "hset", "release")
    /\ SetBuyers(SaleOf[c], loaded[c])
    /\ loaded' = [loaded EXCEPT ![c] = {}]
    /\ UNCHANGED <<stock, stream, lastId, clock, ledgerVars, initLock>>

\* DEL, whoever holds the key by now.
ReleaseInitLock(c) ==
    /\ Go(c, "release", "idle")
    /\ initLock' = [initLock EXCEPT ![SaleOf[c]] = Nobody]
    /\ UNCHANGED <<gateVars, ledgerVars, loaded>>

\* The DEL runs, its reply is lost, and the client will send it again: by then the lock may
\* be a peer's.
ReleaseUnheard(c) ==
    /\ ~ReleaseHeard
    /\ at[c] = "release"
    /\ initLock' = [initLock EXCEPT ![SaleOf[c]] = Nobody]
    /\ UNCHANGED <<gateVars, ledgerVars, at, loaded>>

\* A node dies with the calls C; their locks stay until they expire.
CallersDie(C) ==
    /\ \E c \in C : at[c] # "idle"
    /\ at' = [c \in Callers |-> IF c \in C THEN "idle" ELSE at[c]]
    /\ loaded' = [c \in Callers |-> IF c \in C THEN {} ELSE loaded[c]]
    /\ UNCHANGED <<gateVars, ledgerVars, initLock>>

\* EX 30 runs out, on the assumption only after the holder is gone.
LockExpires(s) ==
    /\ initLock[s] # Nobody
    /\ SeedWithinTTL => at[initLock[s]] \notin UnderLock
    /\ initLock' = [initLock EXCEPT ![s] = Nobody]
    /\ UNCHANGED <<gateVars, ledgerVars, at, loaded>>

-------------------------------------------------------------------------------
SeedingInit ==
    /\ initLock = [s \in Sales |-> Nobody]
    /\ at = [c \in Callers |-> "idle"]
    /\ loaded = [c \in Callers |-> {}]

\* What a call asks of Redis, and the commands that may run with their reply lost.
AsksRedis(c) ==
    \/ AcquireInitLock(c) \/ SkipSeed(c) \/ IsSeeded(c)
    \/ Seed(c) \/ SeedBuyers(c) \/ ReleaseInitLock(c)

GoesUnheard(c) == AcquireUnheard(c) \/ SeedUnheard(c) \/ ReleaseUnheard(c)

SeedingNext ==
    \/ \E s \in Sales : InsertSale(s) \/ LockExpires(s)
    \/ \E c \in Callers :
         \/ Rehydrate(c) \/ AsksRedis(c) \/ GoesUnheard(c)
         \/ LoadReservationState(c) \/ LoadFails(c)
    \/ \E C \in SUBSET Callers : CallersDie(C)

SeedingTypeOK ==
    /\ initLock \in [Sales -> Callers \cup {Nobody}]
    /\ at \in [Callers -> Awaits]
    /\ loaded \in [Callers -> SUBSET Entry]
    /\ \A c \in Callers : IsFiniteSet(loaded[c])
===============================================================================
