--------------------------------- MODULE Drain --------------------------------
(***************************************************************************)
(* The worker (worker/worker.service.ts): a consumer group that drains the *)
(* reservation streams into the Ledger, at least once, by processes that   *)
(* may die and start again.                                                *)
(*                                                                         *)
(* A worker persists the entries it was handed one at a time: INSERT, then *)
(* XACK. Within a stream it goes by id; the model leaves open which of     *)
(* several streams comes first.                                            *)
(***************************************************************************)
EXTENDS Ledger

CONSTANTS
    Workers,  \* worker processes
    Batch     \* BATCH: entries taken from one stream at a time

ASSUME DrainAssumption == Batch \in Nat \ {0}

VARIABLES
    group,      \* sales whose stream has the consumer group
    delivered,  \* entries up to the last delivered id of their stream's group
    pel,        \* entries delivered and not acknowledged
    stale,      \* those of pel that have been idle longer than CLAIM_IDLE_MS
    wpc,        \* wpc[w]: where the worker's loop is
    streams,    \* streams[w]: the streams it has discovered (_streams)
    unclaimed,  \* unclaimed[w]: streams _reclaimStale has still to visit
    hand,       \* hand[w]: entries it was handed and has not acknowledged
    written     \* written[w]: the entry inserted and about to be acknowledged

groupVars == <<group, delivered, pel, stale>>
workerVars == <<wpc, streams, unclaimed, hand, written>>
drainVars == <<groupVars, workerVars>>

\* down: no process; boot: before run()'s first _refreshStreams; loop: top of the while
\* loop; reclaim: inside _reclaimStale, or past it when no stream is left to visit.
WorkerPoints == {"down", "boot", "loop", "reclaim"}

-------------------------------------------------------------------------------
Free(w) == hand[w] = {} /\ written[w] = {}

\* Everything the process holds in memory is gone.
Dies(w) ==
    /\ wpc' = [wpc EXCEPT ![w] = "down"]
    /\ streams' = [streams EXCEPT ![w] = {}]
    /\ unclaimed' = [unclaimed EXCEPT ![w] = {}]
    /\ hand' = [hand EXCEPT ![w] = {}]
    /\ written' = [written EXCEPT ![w] = {}]

\* The catch clause of run(): drop the batch, back off, start over.
BacksOff(w) ==
    /\ wpc' = [wpc EXCEPT ![w] = "loop"]
    /\ unclaimed' = [unclaimed EXCEPT ![w] = {}]
    /\ hand' = [hand EXCEPT ![w] = {}]
    /\ UNCHANGED <<streams, written>>

WorkerStarts(w) ==
    /\ wpc[w] = "down"
    /\ wpc' = [wpc EXCEPT ![w] = "boot"]
    /\ UNCHANGED <<gateVars, ledgerVars, groupVars, streams, unclaimed, hand, written>>

\* A crash, or SIGTERM: the handler calls process.exit with the batch in hand.
WorkerDies(w) ==
    /\ wpc[w] # "down"
    /\ Dies(w)
    /\ UNCHANGED <<gateVars, ledgerVars, groupVars>>

\* A slip: XGROUP CREATE without MKSTREAM, its error on an empty stream ignored.
RefreshStreamsWithoutMkstream(w) ==
    /\ wpc[w] \in {"boot", "loop"} /\ Free(w)
    /\ pgUp
    /\ group' = group \cup {s \in created \ streams[w] : \E e \in stream : e.sale = s}
    /\ streams' = [streams EXCEPT ![w] = @ \cup created]
    /\ wpc' = [wpc EXCEPT ![w] = "loop"]
    /\ UNCHANGED <<gateVars, ledgerVars, delivered, pel, stale, unclaimed, hand, written>>

\* _refreshStreams: create the group, from id 0 (nothing delivered yet), for every sale
\* this process does not know of.
RefreshStreams(w) ==
    /\ wpc[w] \in {"boot", "loop"} /\ Free(w)
    /\ pgUp
    /\ group' = group \cup (created \ streams[w])
    /\ streams' = [streams EXCEPT ![w] = @ \cup created]
    /\ wpc' = [wpc EXCEPT ![w] = "loop"]
    /\ UNCHANGED <<gateVars, ledgerVars, delivered, pel, stale, unclaimed, hand, written>>

\* The SELECT of _refreshStreams throws outside of run()'s try: the rejection is unhandled
\* and ends the process.
RefreshThrows(w) ==
    /\ wpc[w] \in {"boot", "loop"} /\ Free(w)
    /\ ~pgUp
    /\ Dies(w)
    /\ UNCHANGED <<gateVars, ledgerVars, groupVars>>

\* An iteration of the drain begins, once there is a stream to drain.
StartDrain(w) ==
    /\ wpc[w] = "loop" /\ Free(w)
    /\ streams[w] # {}
    /\ wpc' = [wpc EXCEPT ![w] = "reclaim"]
    /\ unclaimed' = [unclaimed EXCEPT ![w] = streams[w]]
    /\ UNCHANGED <<gateVars, ledgerVars, groupVars, streams, hand, written>>

\* A slip: a pending entry stays with the worker it was delivered to.
ReclaimsNothing(w, s) ==
    /\ wpc[w] = "reclaim" /\ Free(w)
    /\ s \in unclaimed[w] /\ s \in group
    /\ unclaimed' = [unclaimed EXCEPT ![w] = @ \ {s}]
    /\ UNCHANGED <<gateVars, ledgerVars, groupVars, wpc, streams, hand, written>>

\* XAUTOCLAIM on one stream: take over what has been idle for too long.
ReclaimStale(w, s) ==
    /\ wpc[w] = "reclaim" /\ Free(w)
    /\ s \in unclaimed[w] /\ s \in group
    /\ unclaimed' = [unclaimed EXCEPT ![w] = @ \ {s}]
    /\ LET claimed == Earliest({e \in stale : e.sale = s}, Batch)
       IN  /\ stale' = stale \ claimed
           /\ hand' = [hand EXCEPT ![w] = claimed]
    /\ UNCHANGED <<gateVars, ledgerVars, group, delivered, pel, wpc, streams, written>>

\* What the group hands out next on the stream of s.
Handed(s) == Earliest({e \in stream \ delivered : e.sale = s}, Batch)

\* XREADGROUP '>' on every known stream; nothing new ends the iteration (BLOCK runs out).
ReadBatch(w) ==
    /\ wpc[w] = "reclaim" /\ Free(w)
    /\ unclaimed[w] = {} /\ streams[w] \subseteq group
    /\ LET got == UNION {Handed(s) : s \in streams[w]}
       IN  /\ delivered' = delivered \cup got
           /\ pel' = pel \cup got
           /\ hand' = [hand EXCEPT ![w] = got]
    /\ wpc' = [wpc EXCEPT ![w] = "loop"]
    /\ UNCHANGED <<gateVars, ledgerVars, group, stale, streams, unclaimed, written>>

\* NOGROUP: XAUTOCLAIM or XREADGROUP on a stream whose group is gone.
NoGroup(w) ==
    /\ wpc[w] = "reclaim" /\ Free(w)
    /\ \/ \E s \in unclaimed[w] : s \notin group
       \/ unclaimed[w] = {} /\ ~(streams[w] \subseteq group)
    /\ BacksOff(w)
    /\ UNCHANGED <<gateVars, ledgerVars, groupVars>>

\* INSERT the next entry of the batch.
Persist(w, e) ==
    /\ e \in hand[w] /\ written[w] = {}
    /\ \A f \in hand[w] : f.sale = e.sale => e.id <= f.id
    /\ pgUp
    /\ InsertRow(e)
    /\ hand' = [hand EXCEPT ![w] = @ \ {e}]
    /\ written' = [written EXCEPT ![w] = {e}]
    /\ UNCHANGED <<gateVars, created, pgUp, groupVars, wpc, streams, unclaimed>>

\* A slip: a failed INSERT does not keep the batch from being acknowledged.
AcknowledgesAnyway(w) ==
    /\ hand[w] # {} /\ written[w] = {}
    /\ ~pgUp
    /\ BacksOff(w)
    /\ pel' = pel \ hand[w]
    /\ stale' = stale \ hand[w]
    /\ UNCHANGED <<gateVars, ledgerVars, group, delivered>>

PersistThrows(w) ==
    /\ hand[w] # {} /\ written[w] = {}
    /\ ~pgUp
    /\ BacksOff(w)
    /\ UNCHANGED <<gateVars, ledgerVars, groupVars>>

\* A slip: the first row written acknowledges the whole batch.
AcknowledgesBatch(w) ==
    /\ written[w] # {}
    /\ pel' = pel \ (written[w] \cup hand[w])
    /\ stale' = stale \ (written[w] \cup hand[w])
    /\ written' = [written EXCEPT ![w] = {}]
    /\ UNCHANGED <<gateVars, ledgerVars, group, delivered, wpc, streams, unclaimed, hand>>

\* XACK, which concerns the group, whoever the entry is pending for.
Acknowledge(w) ==
    /\ written[w] # {}
    /\ pel' = pel \ written[w]
    /\ stale' = stale \ written[w]
    /\ written' = [written EXCEPT ![w] = {}]
    /\ UNCHANGED <<gateVars, ledgerVars, group, delivered, wpc, streams, unclaimed, hand>>

\* A pending entry has been idle for CLAIM_IDLE_MS, with or without a live worker on it.
GoesStale(e) ==
    /\ e \in pel \ stale
    /\ stale' = stale \cup {e}
    /\ UNCHANGED <<gateVars, ledgerVars, group, delivered, pel, workerVars>>

-------------------------------------------------------------------------------
DrainInit ==
    /\ group = {}
    /\ delivered = {}
    /\ pel = {}
    /\ stale = {}
    /\ wpc = [w \in Workers |-> "down"]
    /\ streams = [w \in Workers |-> {}]
    /\ unclaimed = [w \in Workers |-> {}]
    /\ hand = [w \in Workers |-> {}]
    /\ written = [w \in Workers |-> {}]

\* The steps of run() that go on by themselves while the process lives.
Drains(w) ==
    \/ StartDrain(w) \/ ReadBatch(w) \/ NoGroup(w)
    \/ \E s \in Sales : ReclaimStale(w, s)
    \/ \E e \in hand[w] : Persist(w, e)
    \/ PersistThrows(w) \/ Acknowledge(w)

Refreshes(w) == RefreshStreams(w) \/ RefreshThrows(w)

DrainNext ==
    \/ \E w \in Workers : WorkerStarts(w) \/ WorkerDies(w) \/ Refreshes(w) \/ Drains(w)
    \/ \E e \in pel : GoesStale(e)

DrainTypeOK ==
    /\ group \subseteq Sales
    /\ delivered \subseteq Entry
    /\ pel \subseteq delivered
    /\ stale \subseteq pel
    /\ wpc \in [Workers -> WorkerPoints]
    /\ streams \in [Workers -> SUBSET Sales]
    /\ unclaimed \in [Workers -> SUBSET Sales]
    /\ hand \in [Workers -> SUBSET Entry]
    /\ written \in [Workers -> SUBSET Entry]
===============================================================================
