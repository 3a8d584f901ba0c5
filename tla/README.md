# Rush Sale in TLA+

A verification development of the flash sale: the back end in `src/apps/api` and the storefront
in `src/apps/web`. TLA+ modules translated from the code, TLC configurations that check them on
small instances, and theorems that TLAPS proves for instances of every size.

## 1. The system

A buyer's `POST /sales/:id/purchases` is decided by one Lua script in Redis (the **Gate**),
which takes a unit of stock, remembers the buyer and appends the reservation to a stream. A
**worker** drains the streams into Postgres (the **Ledger**). When the Gate has no state for a
sale, the API nodes **seed** it from the Ledger. The **storefront** polls the status of one sale
and buys from it.

| component | state it keeps | operations | talks to | correct if |
|---|---|---|---|---|
| Gate (`redis/gate-lua.ts`, `redis/gate.ts`) | per sale: stock counter, buyers hash, reservation stream, init lock | reserve (the script), seed (a pipeline of two commands), acquire and release the lock, three reads | called by purchases and seeding | no oversell, one reservation per buyer, units conserved |
| Ledger (`db/*.ts`) | tables `sales` and `reservations` | insert ignoring conflicts, select | read by seeding and look-ups, written by workers and `createSale` | rows are reservations, one per buyer and sale |
| Seeding (`sales/sales.service.ts`) | calls in flight, the rows they have read | `seedOrRehydrate` | Gate, Ledger | one seeder at a time, a live sale is never overwritten |
| Recovery (`sale-lifecycle.service.ts`, `main.ts`, `createSale`, `rehydrateAll`) | per node: down, booting or serving, its Redis connection; its jobs and the sales they have to do | boot, `POST /sales`, rehydrate on `ready` | Seeding, Ledger | no cold node takes traffic, no sale is left unseeded |
| Worker (`worker/worker.service.ts`, `worker.ts`) | known streams, the batch in hand; in Redis the consumer group and its pending list | refresh streams, reclaim, read, insert, acknowledge | Gate's streams, Ledger | at least once, acknowledged only when recorded, nothing stranded |
| Redis persistence (`docker-compose.yml`, `redis.module.ts`) | the append-only file | fsync, crash, wipe | under the Gate and the group | recovery does not oversell |
| Purchase path (`purchases/*.ts`, `sales.service.ts`) | per node: cached sales, ids remembered as unknown; requests in flight | look up, check window, reserve, answer, resend | Gate, Ledger | sold in the window only, holders never turned away |
| Unknown-sale cache (`common/bounded-ttl-set.ts`) | entries in insertion order with an expiry | add, has | used by the purchase path | bounded, and never hides a sale for good |
| Status endpoint (`sales.controller.ts`) | none | read the stock, compute the status | Gate, cache | never SOLD_OUT while units are left |
| Storefront (`apps/web`) | identifier, last outcome, polled status, requests in flight | poll, type, buy, refetch | purchase and status endpoints | what it shows does not go back in time, outcomes meet their identifier, it does not stay locked |
| Health endpoint, HTTP mapping, countdown, configuration, load scenarios | none that outlives a request | | | not modelled (section 9) |

What is hard here: purchases, seeding calls and workers interleave at every `await`; processes
die between any two of them; a lock expires by time alone; entries are delivered more than once
and to two workers at once; replies get lost after the command has run; status requests overlap
the purchases they report on; Postgres comes and goes; Redis may come back older or empty while
the processes around it go on. `PROJECT.json` lists each of these hazards at its line.

## 2. Modules

| module | models | state and actions against the code |
|---|---|---|
| `Gate` | the script and the seed commands | `GateCode` is the order of the script's tests, `Reserve` its DECR, XADD and HSET in one step (Redis runs a script alone); `SetStock` and `SetBuyers` are the two commands of `seed` |
| `Ledger` (extends `Gate`) | the tables | `Conflicts` is the two keys of `reservations`, `InsertRow` the insert; Postgres stops and returns |
| `Seeding` (extends `Ledger`) | calls of `seedOrRehydrate` | `at[c]` is the await a call is at: acquire, check, load, seed, (hset,) release; it may die at each, the lock may expire, and the replies to SET NX, to the pipeline and to DEL may be lost and the command sent again |
| `Drain` (extends `Ledger`) | the worker processes and the consumer group | `wpc`, `streams`, `unclaimed`, `hand`, `written` are a worker's memory; `group`, `delivered`, `pel`, `stale` the group's state in Redis |
| `RushSale` (extends `Seeding`, `Drain`) | the composition: purchases at the Gate and what buyers are told | `Buy`; the steps of one component leave the others' state alone |
| `RedisLoss` (extends `RushSale`) | Redis that loses data | `aof` is what it would come back with; `Crash` and `Wipe` come at any moment, between a worker's XREADGROUP and its INSERT too; `outlived` remembers the workers that were up, `forgotten` the reservations that were lost for good |
| `Recovery` (extends `Seeding`) | who calls `seedOrRehydrate`, and when | a job `j` is one run of a function, `pc[j]` its statement, `todo[j]` the sales left in its loop; its call for sale `s` is the caller `<<j, s>>` of `Seeding`. `node` and `connected` are the process and its client; every fault is an action and counts in `faults` |
| `FlashSale` | the promise, without Redis, stream or worker | `HandOut` a reservation, `Record` it |
| `BoundedTtlSet` | the cache of unknown ids | operators over the sequence of entries; an entry carries the time it has left rather than an expiry date |
| `Purchases` (extends `Gate`, `BoundedTtlSet`) | requests on several API nodes | `call[c]` is the await a request is at: its sale's row, the script, the reply. Sales are created under the ids `Created`; any other id is only asked for |
| `Storefront` (extends `Gate`) | one tab and the two endpoints it uses | `asks` are status requests, `tries` purchases in flight, each with the await it is at (a status that was computed and is on its way to the tab included); `shown`, `field` and `banner` are what the hook keeps. The other tabs are `OthersBuy`, for tabs meet at the Gate only |
| `SeedingProofs`, `BoundedTtlSetProofs` | | lemmas about the operators and actions of `Seeding` and `BoundedTtlSet`, for whoever uses them |
| `RushSaleProofs`, `RedisLossProofs`, `RecoveryProofs`, `PurchasesProofs`, `StorefrontProofs` | | the theorems of section 8 |
| `MCRushSale`, `MCRedisLoss`, `MCPurchases`, `MCRecovery`, `MCStorefront` | instances for TLC | |

Abstractions that hold in all of them:

- Stream ids are numbers, as they are ordered like numbers. `NewIds` gives a stream an id later
  than all there are, or, unless `DistinctMs`, one that another stream generated in the same
  millisecond.
- A stream is the set of its entries: it is never trimmed.
- Redis commands wait while Redis is away (`maxRetriesPerRequest: null`), so no Redis call
  fails; only a missing consumer group does. Queries fail while Postgres is down; in `Purchases`,
  which has no Postgres of its own, at any time.
- A lost reply to XREADGROUP or XAUTOCLAIM leaves entries pending that no worker has: so does a
  batch that the `catch` of `run()` drops, which is in the model.
- The Postgres pool has no listener for errors of idle connections, so that such an error ends a
  process as well: processes die at any moment here.
- One action is what happens up to the next `await`, together with the command that is awaited,
  except that `_refreshStreams` creates its groups in one step: creation is idempotent, and a
  group is of no use before the worker has left that function. The stale read of a query that
  is answered late is kept (`loaded`, `found`).
- A node does not matter for a seeding call: nodes share nothing but Redis and Postgres. Which
  node and job makes a call matters to `Recovery` only.
- `Storefront` does not wipe Redis: after a wipe the stock shown may rise with the stock itself.

What is taken from React and react-query, which the code only uses: an input event finds the
handlers and the `disabled` of the last render; polls do not overlap and wait for a fetch in
flight; `refetch` cancels it; a failed fetch keeps the data (its retries are polls here).

Operators introduced by a comment "A slip" are not part of a specification. They state a
plausible bug of the definition below them and serve to see that the properties notice it.

## 3. Assumptions named as constants

| constant | says | what the code does about it |
|---|---|---|
| `SeedWithinTTL` | a live seeding call is done before its lock's 30 seconds expire | nothing: the lock is not renewed, and the seed does not look at it. With `SeedWithinTTL = FALSE` the instance of `resent_release` ends in the same way |
| `ReleaseHeard` | the reply to the DEL of the init lock is not lost | nothing; the client sends the DEL again, and by then the lock may be a peer's; run `resent_release` |
| `SeedHeard` | the reply to the seed pipeline is not lost | nothing; the client sends the pipeline again. `RushSale.cfg` with `SeedHeard = FALSE` breaks `NoOversell`, `StockConserved` and `NeverClobbered` within a second |
| `PipelineWhole` | no other client's command runs inside the seed pipeline | nothing; `pipeline()` is no `multi()`; run `split_pipeline` |
| `DistinctMs` | no two streams are appended to within one millisecond | nothing; run `id_collision`. It is free when there is one sale |
| `LossKeepsLocks` | a wipe or crash of Redis takes no init lock from a call that is past SET NX | nothing. With `LossKeepsLocks = FALSE` and two callers, `RedisLoss.cfg` breaks `OversoldOnlyByForgotten`, `GateAddsUp` and `GateKnowsEveryRow`: the lock falls, and the rest is as in `resent_release` |

None of them is something the code ensures; they are named so that each result says what it rests
on, and so that it can be seen what it costs when one fails. The first three and the last are the
four ways in which two calls come to seed one sale or one call to seed it twice. Each is `TRUE` in
the passing runs except where the table says otherwise, and dropped by the run it names. In
`Recovery.cfg` only `SeedWithinTTL` holds: the others about seeding are dropped there and nobody
buys. Which result rests on which assumption, and needs no other, is in section 8.

## 4. Properties

Of `RushSale`: `NoOversell`, `StockConserved`, `OneReservationPerBuyer`,
`GateKnowsEveryHolder`, `AcknowledgedIsRecorded`, `OneSeeder`, the action property
`NeverClobbered`, the refinement `KeepsPromise` and the liveness property
`EveryReservationRecorded`; and `OutageOnlyStalls` is what the docs say of a Postgres outage
(section 7). `IndInv` and `RecordInv` are the inductive invariants of section 8, checked before they
were proved; `LossInv` with `LossRecordInv`, `PurchasesInv`, `BootInv` and `TabInv` are those of `RedisLoss`,
`Purchases`, `Recovery` and `Storefront`. Of `RedisLoss`: `OversoldOnlyByForgotten`,
`GateAddsUp`, `GateKnowsEveryRow`, `AcknowledgedHasRow`,
`RestartHeals` and `LedgerWithinStock`. Of `Purchases`: `SoldInWindow`, `AnsweredTruly`, `UnknownBounded`, the
action property `LocalCreateWins` and the liveness property `BecomesKnown`. Of `Recovery`:
`ServesWarm` and the liveness property `SeedsWhatIsDue`. Of
`Storefront`: `SoldOutIsTrue`, the action properties `MeterNeverRises`, `RefetchSeesPurchase` and
`OutcomeMeetsField`, and the liveness property `FindsStock`. Each is stated in
words above its definition.

What Redis loses for good is what `forgotten` says, a history variable: of a sale whose stock came
back, the tail of the stream, recorded or not; of a sale that is seeded again, the reservations
without a row at the moment of the loss. `NoOversell` cannot survive a loss that cuts a batch or a
drained tail in two (`LedgerWithinStock` is violated by run `aof_tail`). What does survive is that
nothing else is sold twice, and nobody else unknown.

## 5. Runs

| run | instance | shows |
|---|---|---|
| `rush_sale` | 1 sale of 2 units, 3 buyers, 2 seeding calls, 2 workers, batches of 2 | all safety properties, the inductive invariants, and that the system implements `FlashSale` |
| `drain_liveness` | 1 seeded sale of 2 units, 2 buyers, 2 workers, batches of 1 | every reservation is recorded in the end |
| `redis_loss` | 1 sale of 2 units, 3 buyers, one of them on record, 2 wipes or crashes at any moment, 1 seeding call, 1 worker | the stock is exceeded by no more than what was forgotten; rehydration adds up and forgets no other recorded buyer; nothing is acknowledged in vain; a restarted worker has its groups again; `LossInv`, `LossRecordInv` |
| `purchases` | 1 sale of 1 unit, 2 possible windows, 2 nodes, 2 buyers, 2 requests at a time, 1 restart | window, answers, caches, and `PurchasesInv` behind them |
| `catalog_liveness` | 3 ids, one of which a sale is created under, a memory for 2, 2 requests at a time | the memory is bounded, without repeated ids and in order of expiry under a flood of unknown ids, and no sale stays unknown |
| `recovery` | 2 nodes, 2 sales (one on record, the other `SEED_SALE_ID` and posted), a pass for each node and 1 post, 1 fault of any kind | nodes come up warm, and what a pass undertakes or a wipe takes away is seeded |
| `storefront` | 1 sale of 2 units that opens and closes, 2 identifiers, 2 presses | order of what is shown and told, outcomes, no lasting lock-out |
| `split_pipeline`, `resent_release`, `id_collision`, `worker_outage`, `aof_tail` | the smallest that shows it | a statement of the docs or comments that the code does not keep (section 7) |

Bounds, and why they are enough. Three buyers for two units make a last unit, a race for it and
a buyer too many. Two seeding calls are one holder and one rival (a third could only wait as the
second does). Two workers are one that crashes or is slow and one that takes over. Batches of two
give a batch that is half done. The ids are bounded by the stock: an id is only made with a
reservation. Crashes of workers and callers, lock expiries and Postgres outages are not bounded
at all; `MaxLosses`, `MaxDeaths` and `Horizon` bound wipes and crashes of Redis, restarts of API
nodes and the clock of `Purchases`. One fault (`MaxFaults`) in `recovery` meets every statement of
every job, and the liveness it checks is about what follows the last fault; a pass for each node
is a boot or a reconnect against a peer's (`RoomToReconnect` keeps one free for a drop that is to
be answered). Two presses (`MaxPresses`) are a purchase and another after it, the first possibly
unheard and still running; cancelled status requests are as many as these make (equal ones count as one),
and a clock of three moments (`Horizon`) is before, in and after the window. Symmetry is used for buyers, callers and workers where no
row names a buyer (the buyer of a row stays apart), and never in a run with a liveness property.
`redis_loss` looks at states through a `VIEW` that leaves out `receipts`: they record what buyers
were told, no step depends on them, and of that run's properties only `LossTypeOK` says anything of
them: their type, which is also proved. Two losses are one that cuts a batch in two and one that
meets what the first left; the same instance with two seeding calls, and one of a single unit with
two calls, two buyers and no rows, pass too and are left out for their size.

No run stops: workers may always be started, so deadlock is checked everywhere.

Liveness starts from a seeded sale (`LiveInit`), so that the state graph is small enough; the way
there is what the safety runs cover.

## 6. Fairness

- `WF(Drains(w))`: the loop of `run()` goes on by itself while the process lives.
- `SF(Refreshes(w))`: the loop passes `_refreshStreams` every 5 seconds, also when there is always
  more to drain; the action is then enabled again and again, not continuously.
- `WF(GoesStale)` for the entry of each buyer: `CLAIM_IDLE_MS` passes.
- Nothing makes a buyer buy, a node seed, a worker start or Postgres return.
  `EveryReservationRecorded` therefore assumes `Settles`: Postgres stays up from some time on,
  each worker stays up or down from some time on, and one stays up.
- `Purchases`: time passes, every query ends and scripts are answered, the reply is not lost for
  ever (`SF(Answers)`), buyers keep asking each node for each id, and the queries this takes do not
  fail for ever (`SF(Answered)`). The last two are the premise of `BecomesKnown`.
- `Recovery`: `WF(Proceeds(j))`, a job goes on by itself, a failing query included, and
  `WF(Reconnects(n))`, ioredis reconnects for as long as it takes. Nothing makes a node start, a
  sale be posted, Postgres return or a lock expire; `due` therefore lists what is owed without any
  of these.
- `Storefront`: `WF(Polls)` (the tab stays open and in view), and `SF` of reading, of being
  answered and of arriving for requests that are live: they may fail any number of times, and not for ever.

## 7. Where the code does not do what is said of it

Each is a `findings` entry with the quoted line, and a run that TLC ends with a trace.

- `split_pipeline`: the seed pipeline is two commands. A buyer with a row who purchases between
  them gets a second reservation.
- `resent_release`: the DEL of the init lock is sent again after its reply was lost, and drops the
  lock of a peer, whose SET then puts sold units back.
- `id_collision`: the primary key of `reservations` is the stream id alone; the same id from two
  sales loses a reservation silently.
- `worker_outage`: a Postgres outage ends the worker through `_refreshStreams`, rather than
  stalling it.
- `aof_tail`: after a crash the Ledger may know more than the Gate, and nothing compares them.

Limits of the code that the models show and no document denies, or only in passing:

- A seeder that dies with the lock, or fails after it, leaves its sale `NOT_READY` until the next
  boot or reconnect: peers skip it, and nobody tries again when the lock expires. The same holds
  when the reply to SET NX is lost: the client sends it again and finds its own key.
- With Postgres away at the moment of a reconnect the listener's pass fails and is only logged.
- A reconnect while a node boots finds no listener yet.
- A `POST /sales` whose insert succeeds and whose read fails leaves a sale that nobody has seeded.
- A worker that outlives a wipe of Redis makes no progress until it is restarted
  (`RestartHeals` is about the restart).
- `FLUSHALL`, with the connection kept, triggers no rehydration at all
  (`docs/troubleshooting.md:79` says to restart the API); it is not modelled.
- While a sale is not seeded the storefront's button says "Sold out." (`use-rush-sale.ts:78` takes
  null for zero), although ADR 0004 (`docs/adr`, lines 26-27) says "never a wrong sold-out" of what
  requests are answered. `FindsStock` is what holds: it does not stay so.
- A purchase whose answer is lost may have been granted and the tab does not learn of it; an error
  with a JSON body clears the banner.

## 8. What is proved

Every theorem is about the full specification, for constants of any size, from the assumptions its
row names and those the modules make about their constants. Of these `LedgerAssumption` is the one
with content: the rows an earlier life left respect the table's keys and the stock.

### The back end: `RushSaleProofs`, over the lemmas of `SeedingProofs`

For every set of sales, buyers, callers and workers, every initial stock and every batch size:

| theorem | states | assumes |
|---|---|---|
| `TypeCorrect` | `Spec => []TypeOK` | - |
| `SeedsAlone` | `OneSeeder` | `SeedWithinTTL`, `ReleaseHeard` |
| `StockHolds`, `NeverOversells`, `ClobbersNothing` | `StockInv`, `NoOversell`, `NeverClobbered` | `SeedWithinTTL`, `ReleaseHeard`, `SeedHeard` |
| `HashHolds`, `OnePerUser`, `GateKnows` | `HashInv` and `ReceiptsHonoured`, `OneReservationPerBuyer`, `GateKnowsEveryHolder` | `PipelineWhole` |
| `KeepsRecords`, `AcknowledgesOnlyRecorded` | `RecordInv`, `AcknowledgedIsRecorded` | `PipelineWhole`, `DistinctMs` |
| `InvariantHolds`, `ConservesStock`, `ImplementsFlashSale` | `IndInv`, `StockConserved`, `KeepsPromise` | `SeedWithinTTL`, `ReleaseHeard`, `SeedHeard`, `PipelineWhole` |

So the lock and the pipeline guard different things. What a lock that expires or is dropped under
its holder, or a pipeline that is sent again, can do is put sold units back; it cannot give a buyer
two reservations or lose one. What a command between the two of the pipeline can do is give a buyer
a second reservation; it cannot exceed the stock. A stream id that two sales share can lose a
reservation and nothing else. (Section 3 says what shows that each assumption is needed.)

The argument. None of the properties is inductive. They rest on invariants that are built in layers,
each from the assumptions it needs, and each preserved by the layer below and one lemma per
component:

- `BaseInv` needs none. Rows that a call has read are on record, and all there are while the sale is
  unseeded (`LoadedOnRecord`); an unseeded sale has no holder and no stream entry, and no more rows
  than units (`NothingBeforeSeed`); who is in the hash has an entry or a row (`HoldersReserved`);
  what was delivered or is in a worker's hand came off a stream (`HandFromStream`). What a component
  can do to it is said once, in `BuyEffect`, `PipelineEffect` and `DrainEffect`.
- `HashInv`, on `PipelineWhole`: every reservation of a live sale is in its hash
  (`ReservedKnown`). A second seed, whoever sends it, writes rows that are in the hash under the same
  ids, so no field that is set ever changes (`HashStep`). `ReceiptsHonoured` follows step by step,
  and with distinct ids (`IdsTellApart`) a row that an insert conflicts with can only be the entry
  itself, which is `RecordInv`.
- `LockHeld`, on `SeedWithinTTL` and `ReleaseHeard`: a call past SET NX owns the lock.
- `StockInv`, on `SeedHeard` too: until the owner of the lock has seeded the sale nobody has
  (`SeededOnce`), and stock plus reservations, in stream or Ledger and each counted once, never
  exceed the initial stock (`SoldWithinStock`). `NoOversell` follows, for holders inject into
  reservations and rows are reservations.
- `CoreInv`, on all four: the sum of stock and holders is exact (`StockConserved`), since the seed
  makes exactly one holder of each row (`SeedCounts`).

For the refinement, a successful purchase is `HandOut` (that the buyer has no reservation is
`ReservedKnown`, that the stock suffices is `SoldWithinStock`), an insert of a new row is `Record`,
everything else stutters. The run `rush_sale` checks `IndInv`, which is all of these together; the
weaker instances were each checked before they were proved but are no runs of their own.

### Losses of Redis: `RedisLossProofs`

For any number of wipes and crashes, at any moment:

| theorem | states of `LossSpec` | assumes |
|---|---|---|
| `LossTypeCorrect`, `RestartsHeal` | `LossTypeOK`, `RestartHeals` | - |
| `LossKeepsRecords`, `LossAcknowledges` | `LossRecordInv`, `AcknowledgedHasRow` | `DistinctMs` |
| `LossInvHolds`, `OversellsOnlyForgotten`, `UnitsAddUp`, `RehydrationRestoresRows` | `LossInv`, `OversoldOnlyByForgotten`, `GateAddsUp`, `GateKnowsEveryRow` | the four about seeding, `LossKeepsLocks` |

Nothing is assumed of what a loss cuts in two: a worker goes on with the batch it had read, a tail
that was drained is lost, a call goes on with the rows it has read. `CutInv` says what of the
worker's memory and of the snapshot is left to rely on, from no assumption.

`MadeBySales(r, L, X)` says that a Gate `r` is one that seeding and sales have made for a Ledger
`L`, but for the reservations `X`: units add up and cover what is reserved, hash, stream and Ledger
know the same. `LossInv` has it of the live Gate, but for what was forgotten, and of the snapshot,
but for that and for the tail a crash would lose. A crash makes the second the first
(`ComesBackMade`), since it adds to `forgotten` just that tail; a wipe makes an empty Gate, of which
nearly nothing is to be said; an fsync copies the first to the second (`LiveIsMade`); an insert adds
a row to both (`PersistMade`), and is either a reservation that is counted already or one that was
forgotten (`CutInv`). A seed is the one step that makes a Gate from the Ledger, and counts all rows
but forgotten ones (`CallsRead`, `SeedMade`), for which the caller must have the lock to itself.

`GateAddsUp` has `Left`, and no plain difference, because of the `Math.max(0, ...)` of the seed:
with more rows than units it sells nothing more. Acknowledged entries have a row because the clock
outlives the loss, so that ids of a lost tail are not given again (`LossRecordInv`); the row may be
another reservation of the same buyer, one of which was forgotten. `RestartHeals` needs `HealInv`: a
process starts without a cache of streams, and from then on extends cache and groups together.

### Boot and recovery: `RecoveryProofs`

For any number of nodes, jobs, sales and faults:

| theorem | states | assumes |
|---|---|---|
| `RecoveryTypeCorrect` | `RecoverySpec => []RecoveryTypeOK` | - |
| `KeepsBootInv`, `BootsWarm` | `BootInv`, `ServesWarm` | `SeedWithinTTL` |

`RecoveryTypeOK` says more than types where the argument needs it: a job has one call in flight at
most, none outlives its process, a booting node runs nothing but its boot pass. `ServesWarm` is not inductive, for it says nothing of a node that is still
booting; `BootInv` adds that without a fault no call fails and no lock outlives its call, so that a
call leaves its sale live and one that skips leaves it to a call under way, and that a pass has
every expected sale still to do, in hand, or warm.

### The purchase path: `PurchasesProofs`, over the lemmas of `BoundedTtlSetProofs`

For any number of nodes, requests, sales, windows and restarts, and any capacity of the memory of
unknown ids, from no assumption but those on the constants: `PurchasesInvHolds` (`PurchasesInv`),
`PurchasesTypeCorrect` (`PurchasesTypeOK`), `SellsInWindow` (`SoldInWindow`), `AnswersTruly`
(`AnsweredTruly`), `UnknownStaysBounded` (`UnknownBounded`) and `LocalCreatesWin`
(`LocalCreateWins`).

What the Gate sells, and what a buyer is answered, depend on requests that are still on their way.
`PurchasesInv` therefore says of each that the row it has found is the one on record or none, and,
once it is past the window check, that it was let in while its sale was active and that only the
script answers it (`Backed`); and of each node that it caches what is on record
(`CachedIsOnRecord`), since a row never changes. `AnsweredTruly` is about requests too, so that a
command which is sent again after its reply was lost meets `ALREADY_PURCHASED` and the id it was
given. A 404 to a node that has the sale cached can only come from a query that was answered before.
The lemmas about `BoundedTtlSet` say of each of its operations (`add` with its eviction, `has` with
its deletion, the passing of time) that the sequence stays within its capacity, without repeated ids
and in order of expiry; they are stated for sequences of any length.

### The storefront: `StorefrontProofs`

For any stock, window, set of identifiers, number of presses and of requests
in flight, from no assumption but those on the constants: `TabKeepsOrder` (`TabInv`),
`StorefrontTypeCorrect` (`StorefrontTypeOK`), `BadgeIsTrue` (`SoldOutIsTrue`), `MeterFalls`
(`MeterNeverRises`), `PurchaseIsSeen` (`RefetchSeesPurchase`) and `OutcomeIsAboutField`
(`OutcomeMeetsField`). That what is shown never rises depends on requests that have not arrived;
`TabInv` orders all there is: the stock, what live requests have read, what is shown and told, each
at most the next; and a status that is on its way says SOLD_OUT only if it goes with a stock of zero. `Falls` (the stock of a seeded sale only falls) carries it across steps of others.

### Only model-checked

The liveness properties `EveryReservationRecorded`, `BecomesKnown`, `SeedsWhatIsDue` and
`FindsStock`: the prover does neither ENABLED nor what follows from fairness with it. The
counterexamples of section 7, which are about instances.

## 9. Not modelled, and the plan

Not modelled for good: health endpoint, countdown, configuration, dependency injection, validation
schemas, the tables that map outcomes to HTTP codes, styling and formatting: no state, or nothing a
unit test would not say. Malformed stream entries: the script writes none. The load scenarios are
drivers; what they assert is among the properties.

Order of work, most important behaviour first; 1 to 8 are done.

1. `Gate`, `Ledger`, `Seeding`, `Drain`, `RushSale`, their runs and the liveness of the drain.
2. `RedisLoss` and its runs.
3. `FlashSale`, the refinement, and the proofs for `RushSale`.
4. `BoundedTtlSet`, `Purchases` and their runs.
5. `Recovery`, its run and its proofs.
6. `Storefront`, its run and its proofs.
7. Theorems about `Purchases` (the window, true answers), `BoundedTtlSet` (sound after each
   operation) and `RedisLoss` (what a loss may cost, and what it may not).
8. Theorems that name what each assumption is needed for, on the weakest form of it.
9. Left: that `Purchases` and `Storefront` take from the Gate only what `RushSale` allows (an
   abstract Gate that all three implement), and a bound on what a lock lost under its holder costs,
   in place of the assumptions that exclude it.
