------------------------------- MODULE Recovery -------------------------------
(***************************************************************************)
(* Who calls seedOrRehydrate, and when: an API node that boots, POST       *)
(* /sales, and the 'ready' listener that rehydrates every sale after a     *)
(* reconnect (sales/sale-lifecycle.service.ts, SalesService.createSale and *)
(* rehydrateAll). Redis restarts with or without its data, connections     *)
(* drop, nodes die and Postgres goes away; each of these is a fault.       *)
(***************************************************************************)
EXTENDS Seeding

CONSTANTS
    Nodes,      \* API processes
    Passes,     \* jobs that boot a node or rehydrate it after a reconnect
    Posts,      \* jobs that handle a POST /sales
    NodeOf,     \* NodeOf[j]: the node that runs job j
    SeedSale,   \* SEED_SALE_ID, or NoSale
    NoSale,
    MaxFaults   \* bound on faults of any kind

Jobs == Passes \cup Posts

\* A job seeds at most one sale at a time: its call for s is the caller <<j, s>>.
ASSUME RecoveryAssumption ==
    /\ NodeOf \in [Jobs -> Nodes]
    /\ Passes \cap Posts = {}
    /\ Callers = Jobs \X Sales
    /\ \A c \in Callers : SaleOf[c] = c[2]
    /\ SeedSale \in Sales \cup {NoSale} /\ NoSale \notin Sales
    /\ MaxFaults \in Nat

VARIABLES
    node,       \* node[n]: down, booting (not listening on its port yet) or serving
    connected,  \* connected[n]: the node's Redis connection is up
    pc,         \* pc[j]: the statement the job is at
    todo,       \* todo[j]: sales it has still to seed
    threw,      \* jobs whose call of seedOrRehydrate ends in an exception
    faults,     \* faults so far
    due         \* history: unseeded sales that a pass has undertaken to seed, no fault since

jobVars == <<pc, todo, threw>>
recoveryVars == <<gateVars, ledgerVars, seedingVars, node, connected, jobVars, faults, due>>

Points == {"free", "insert", "read", "create", "select", "loop"}

-------------------------------------------------------------------------------
JobsOf(n) == {j \in Jobs : NodeOf[j] = n}

\* The job awaits no call of seedOrRehydrate.
Between(j) == \A s \in Sales : at[<<j, s>>] = "idle"

Unseeded(s) == stock[s] = NotSeeded

\* A call that holds the lock of s and has not failed.
BeingSeeded(s) ==
    \E c \in Callers : initLock[s] = c /\ at[c] \in UnderLock \ {"release"}

\* Live, or about to be.
Warm(s) == ~Unseeded(s) \/ BeingSeeded(s)

\* The sales a node has to know of when it comes up: those on record, and SEED_SALE_ID.
Expected == {r.sale : r \in PriorRows} \cup ({SeedSale} \ {NoSale})

\* The state of the Gate, the Ledger and the calls stays as it is.
Apart == UNCHANGED <<gateVars, ledgerVars, seedingVars>>

Starts(j, point, sales) ==
    /\ pc[j] = "free"
    /\ pc' = [pc EXCEPT ![j] = point]
    /\ todo' = [todo EXCEPT ![j] = sales]
    /\ UNCHANGED threw

\* _seedFromEnv: without a complete SEED_SALE the pass goes on to rehydrateAll.
SeedFromEnv(j) ==
    IF SeedSale = NoSale THEN Starts(j, "select", {}) ELSE Starts(j, "insert", {SeedSale})

\* A process starts; onApplicationBootstrap, which begins with _seedFromEnv, comes before
\* it listens.
NodeStarts(n) ==
    /\ node[n] = "down"
    /\ \E j \in Passes \cap JobsOf(n) : SeedFromEnv(j)
    /\ node' = [node EXCEPT ![n] = "booting"]
    /\ connected' = [connected EXCEPT ![n] = TRUE]
    /\ Apart /\ UNCHANGED <<faults, due>>

\* POST /sales, on a node that listens.
PostSale(j, s) ==
    /\ j \in Posts /\ node[NodeOf[j]] = "serving"
    /\ Starts(j, "insert", {s})
    /\ Apart /\ UNCHANGED <<node, connected, faults, due>>

\* createSale: insert, then read back what is there, then seed that.
Insert(j) ==
    /\ pc[j] = "insert"
    /\ \E s \in todo[j] : InsertSale(s)
    /\ pc' = [pc EXCEPT ![j] = "read"]
    /\ UNCHANGED <<node, connected, todo, threw, faults, due>>

ReadBack(j) ==
    /\ pc[j] = "read" /\ pgUp
    /\ \E s \in todo[j] : Rehydrate(<<j, s>>)
    /\ pc' = [pc EXCEPT ![j] = "create"]
    /\ todo' = [todo EXCEPT ![j] = {}]
    /\ UNCHANGED <<node, connected, threw, faults, due>>

\* rehydrateAll: select every sale, then seed one after the other.
SelectAll(j) ==
    /\ pc[j] = "select" /\ pgUp
    /\ pc' = [pc EXCEPT ![j] = "loop"]
    /\ todo' = [todo EXCEPT ![j] = created]
    /\ due' = due \cup {s \in created : Unseeded(s) /\ (initLock[s] = Nobody \/ BeingSeeded(s))}
    /\ Apart /\ UNCHANGED <<node, connected, threw, faults>>

\* A slip: the loop does not await seedOrRehydrate.
NextSaleUnawaited(j) ==
    /\ pc[j] = "loop" /\ j \notin threw
    /\ \E s \in todo[j] :
         /\ Rehydrate(<<j, s>>)
         /\ todo' = [todo EXCEPT ![j] = @ \ {s}]
    /\ UNCHANGED <<node, connected, pc, threw, faults, due>>

\* A slip: the loop ends at a sale that a peer is seeding.
NextSaleOrStop(j) ==
    /\ pc[j] = "loop" /\ Between(j) /\ j \notin threw
    /\ \E s \in todo[j] :
         /\ Rehydrate(<<j, s>>)
         /\ todo' = [todo EXCEPT ![j] = IF initLock[s] = Nobody THEN @ \ {s} ELSE {}]
    /\ UNCHANGED <<node, connected, pc, threw, faults, due>>

NextSale(j) ==
    /\ pc[j] = "loop" /\ Between(j) /\ j \notin threw
    /\ \E s \in todo[j] :
         /\ Rehydrate(<<j, s>>)
         /\ todo' = [todo EXCEPT ![j] = @ \ {s}]
    /\ UNCHANGED <<node, connected, pc, threw, faults, due>>

\* Redis commands wait for the connection; Postgres queries fail while it is down.
AwaitsRedis(j) ==
    /\ connected[NodeOf[j]]
    /\ \E s \in Sales : AsksRedis(<<j, s>>)
    /\ UNCHANGED <<node, connected, jobVars, faults, due>>

LoadsRows(j) ==
    /\ \E s \in Sales : LoadReservationState(<<j, s>>)
    /\ UNCHANGED <<node, connected, jobVars, faults, due>>

LoadThrows(j) ==
    /\ \E s \in Sales : LoadFails(<<j, s>>)
    /\ threw' = threw \cup {j}
    /\ UNCHANGED <<node, connected, pc, todo, faults, due>>

\* A slip: a node listens on its port before its boot pass is over.
EndsEarly(j) ==
    /\ Between(j) /\ j \notin threw /\ todo[j] = {}
    /\ \/ pc[j] = "create"
       \/ pc[j] = "loop"
    /\ pc' = [pc EXCEPT ![j] = IF pc[j] = "create" /\ j \in Passes THEN "select" ELSE "free"]
    /\ node' = [node EXCEPT ![NodeOf[j]] = "serving"]
    /\ Apart /\ UNCHANGED <<connected, todo, threw, faults, due>>

\* Past _seedFromEnv comes rehydrateAll; past that the node listens, for 'ready' and on
\* its port. A POST is answered, a pass after a reconnect just ends.
Ends(j) ==
    /\ Between(j) /\ j \notin threw /\ todo[j] = {}
    /\ \/ /\ pc[j] = "create" /\ j \in Passes
          /\ pc' = [pc EXCEPT ![j] = "select"]
          /\ UNCHANGED node
       \/ /\ pc[j] = "create" /\ j \in Posts
          /\ pc' = [pc EXCEPT ![j] = "free"]
          /\ UNCHANGED node
       \/ /\ pc[j] = "loop"
          /\ pc' = [pc EXCEPT ![j] = "free"]
          /\ node' = [node EXCEPT ![NodeOf[j]] = "serving"]
    /\ Apart /\ UNCHANGED <<connected, todo, threw, faults, due>>

\* An exception ends the job. During the boot it ends the process; a POST answers 500, the
\* listener logs it.
Rejects(j) ==
    /\ \/ pc[j] \in {"insert", "read", "select"} /\ ~pgUp
       \/ j \in threw /\ Between(j)
    /\ pc' = [pc EXCEPT ![j] = "free"]
    /\ todo' = [todo EXCEPT ![j] = {}]
    /\ threw' = threw \ {j}
    /\ node' = [node EXCEPT ![NodeOf[j]] = IF @ = "booting" THEN "down" ELSE @]
    /\ Apart /\ UNCHANGED <<connected, faults, due>>

\* 'ready': a node that is past its boot starts to rehydrate, without waiting for it.
Reconnects(n) ==
    /\ node[n] # "down" /\ ~connected[n]
    /\ connected' = [connected EXCEPT ![n] = TRUE]
    /\ IF node[n] = "serving" THEN \E j \in Passes \cap JobsOf(n) : Starts(j, "select", {})
                              ELSE UNCHANGED jobVars
    /\ Apart /\ UNCHANGED <<node, faults, due>>

-------------------------------------------------------------------------------
(* Faults.                                                                 *)

\* After a fault there is no telling, except that a node which served rehydrates once its
\* connection is back: D is what it will find unseeded, and its lock free.
FaultLeaving(D) ==
    /\ faults < MaxFaults
    /\ faults' = faults + 1
    /\ due' = D

Fault == FaultLeaving({})

\* Bound: a listening node has a job to spare for the pass its reconnect will start.
RoomToReconnect(n) ==
    node[n] = "serving" => \E j \in Passes \cap JobsOf(n) : pc[j] = "free"

NodeDies(n) ==
    /\ Fault
    /\ node[n] # "down"
    /\ node' = [node EXCEPT ![n] = "down"]
    /\ IF \A j \in JobsOf(n) : Between(j)
       THEN Apart
       ELSE CallersDie(JobsOf(n) \X Sales)
    /\ pc' = [j \in Jobs |-> IF NodeOf[j] = n THEN "free" ELSE pc[j]]
    /\ todo' = [j \in Jobs |-> IF NodeOf[j] = n THEN {} ELSE todo[j]]
    /\ threw' = threw \ JobsOf(n)
    /\ UNCHANGED connected

\* The node's connection drops, with or without a command whose reply it carried.
Disconnects(n) ==
    /\ Fault
    /\ node[n] # "down" /\ connected[n] /\ RoomToReconnect(n)
    /\ connected' = [connected EXCEPT ![n] = FALSE]
    /\ Apart \/ \E j \in JobsOf(n), s \in Sales : GoesUnheard(<<j, s>>)
    /\ UNCHANGED <<node, jobVars>>

\* Redis restarts: every connection drops.
Restarts ==
    /\ FaultLeaving({s \in created : /\ pgUp /\ (\E n \in Nodes : node[n] = "serving")
                                    /\ stock'[s] = NotSeeded /\ initLock'[s] = Nobody})
    /\ \A n \in Nodes : RoomToReconnect(n)
    /\ connected' = [n \in Nodes |-> FALSE]
    /\ UNCHANGED <<ledgerVars, at, loaded, node, jobVars>>

RedisRestarts ==
    /\ UNCHANGED <<gateVars, initLock>>
    /\ Restarts

\* ... without its volume.
RedisIsWiped ==
    /\ stock' = [s \in Sales |-> NotSeeded]
    /\ buyers' = [s \in Sales |-> [b \in Buyers |-> NoId]]
    /\ stream' = {}
    /\ lastId' = [s \in Sales |-> 0]
    /\ UNCHANGED clock
    /\ initLock' = [s \in Sales |-> Nobody]
    /\ Restarts

PostgresFails ==
    /\ Fault
    /\ PostgresStops
    /\ UNCHANGED <<gateVars, seedingVars, node, connected, jobVars>>

PostgresRecovers ==
    /\ PostgresReturns
    /\ UNCHANGED <<gateVars, seedingVars, node, connected, jobVars, faults, due>>

LockRunsOut(s) ==
    /\ LockExpires(s)
    /\ UNCHANGED <<node, connected, jobVars, faults, due>>

-------------------------------------------------------------------------------
RecoveryInit ==
    /\ GateInit /\ LedgerInit /\ SeedingInit
    /\ node = [n \in Nodes |-> "down"]
    /\ connected = [n \in Nodes |-> FALSE]
    /\ pc = [j \in Jobs |-> "free"]
    /\ todo = [j \in Jobs |-> {}]
    /\ threw = {}
    /\ faults = 0
    /\ due = {}

\* The job goes on by itself.
Proceeds(j) ==
    \/ Insert(j) \/ ReadBack(j) \/ SelectAll(j) \/ NextSale(j)
    \/ AwaitsRedis(j) \/ LoadsRows(j) \/ LoadThrows(j)
    \/ Ends(j) \/ Rejects(j)

RecoveryNext ==
    \/ \E n \in Nodes : NodeStarts(n) \/ Reconnects(n) \/ NodeDies(n) \/ Disconnects(n)
    \/ \E j \in Jobs : Proceeds(j) \/ \E s \in Sales : PostSale(j, s)
    \/ \E s \in Sales : LockRunsOut(s)
    \/ RedisRestarts \/ RedisIsWiped
    \/ PostgresFails \/ PostgresRecovers

RecoverySpec == RecoveryInit /\ [][RecoveryNext]_recoveryVars

\* Jobs go on, and the client reconnects for as long as it takes.
FairRecoverySpec ==
    /\ RecoverySpec
    /\ \A j \in Jobs : WF_recoveryVars(Proceeds(j))
    /\ \A n \in Nodes : WF_recoveryVars(Reconnects(n))

-------------------------------------------------------------------------------
RecoveryTypeOK ==
    /\ GateTypeOK /\ LedgerTypeOK /\ SeedingTypeOK
    /\ node \in [Nodes -> {"down", "booting", "serving"}]
    /\ connected \in [Nodes -> BOOLEAN]
    /\ pc \in [Jobs -> Points]
    /\ todo \in [Jobs -> SUBSET Sales]
    /\ threw \subseteq Jobs
    /\ faults \in 0 .. MaxFaults
    /\ due \subseteq created
    \* No job without its process, no second one during its boot; one call at a time, and
    \* only in the statement that makes it.
    /\ \A j \in Jobs :
         /\ node[NodeOf[j]] = "down" => pc[j] = "free"
         /\ \A i \in Jobs : node[NodeOf[j]] = "booting" /\ NodeOf[i] = NodeOf[j] =>
              pc[i] = "free" \/ pc[j] = "free" \/ i = j
         /\ pc[j] \notin {"create", "loop"} => Between(j) /\ j \notin threw
         /\ \A s, t \in Sales : at[<<j, s>>] # "idle" /\ at[<<j, t>>] # "idle" => s = t

\* No cold node takes traffic: without a fault, every sale that was on record when the node
\* came up, SEED_SALE_ID included, is live, or about to be by a peer, once it listens.
ServesWarm ==
    faults = 0 /\ (\E n \in Nodes : node[n] = "serving") => \A s \in Expected : Warm(s)

\* Why that is so, inductively: without a fault no call fails and no lock outlives its call,
\* so a call leaves its sale live, one that skips leaves it to a call under way, and a boot
\* pass has every sale still to do, in hand, or warm.
BootInv ==
    faults = 0 =>
        /\ pgUp /\ threw = {}
        /\ \A n \in Nodes : node[n] # "down" => connected[n]
        /\ \A s \in Sales : initLock[s] # Nobody =>
             SaleOf[initLock[s]] = s /\ at[initLock[s]] \in UnderLock
        /\ \A c \in Callers : at[c] \in {"hset", "release"} => ~Unseeded(SaleOf[c])
        /\ {r.sale : r \in PriorRows} \subseteq created
        /\ \A j \in Passes :
             /\ pc[j] = "insert" => todo[j] = {SeedSale}
             /\ pc[j] \in {"read", "create"} => Expected \subseteq created
        /\ \A j \in Jobs :
             /\ pc[j] = "select" => Expected \subseteq created
             /\ pc[j] = "loop" => \A s \in Expected :
                  s \in todo[j] \/ at[<<j, s>>] = "acquire" \/ Warm(s)
        /\ ServesWarm

\* A pass over the sales, at boot or after a reconnect, leaves none of them unseeded (a sale
\* it skips is being seeded by a peer, an earlier sale does not keep it from a later one), and
\* a Redis back without its data is seeded again by the nodes that served (docs/adr/0004),
\* whatever calls the loss has cut in two. Given that no other fault follows, and that the
\* lock is not held by a call that is dead, has failed, or never heard that it holds it.
SeedsWhatIsDue == []<>(\A s \in due : ~Unseeded(s))
===============================================================================
