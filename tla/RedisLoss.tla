------------------------------ MODULE RedisLoss -------------------------------
(***************************************************************************)
(* RushSale with a Redis that loses data: a hard crash brings back the     *)
(* append-only file as of the last fsync (appendfsync everysec), a wipe    *)
(* brings back nothing. Clients queue and resend their commands meanwhile, *)
(* so a call that was between two awaits goes on against the new state,    *)
(* and a batch in a worker's hand is inserted after the loss.              *)
(***************************************************************************)
EXTENDS RushSale

CONSTANTS
    MaxLosses,     \* bound on crashes and wipes
    LossKeepsLocks \* a loss takes no init lock from a call that is still seeding

ASSUME RedisLossAssumption ==
    /\ MaxLosses \in Nat
    /\ LossKeepsLocks \in BOOLEAN

VARIABLES
    aof,       \* what the append-only file would bring back
    losses,    \* crashes and wipes so far
    outlived,  \* history: workers whose process has lived through the last of them
    forgotten  \* history: reservations that a loss took and rehydration did not give back

lossVars == <<vars, aof, losses, outlived, forgotten>>

-------------------------------------------------------------------------------
Live ==
    [stock |-> stock, buyers |-> buyers, stream |-> stream, lastId |-> lastId,
     initLock |-> initLock, group |-> group, delivered |-> delivered, pel |-> pel,
     stale |-> stale]

Empty ==
    [stock |-> [s \in Sales |-> NotSeeded],
     buyers |-> [s \in Sales |-> [b \in Buyers |-> NoId]],
     stream |-> {}, lastId |-> [s \in Sales |-> 0],
     initLock |-> [s \in Sales |-> Nobody], group |-> {},
     delivered |-> {}, pel |-> {}, stale |-> {}]

\* What the Gate forgets when Redis comes back as r: a sale without stock is seeded again, so
\* of its reservations those are remembered that have their row by now; nothing does that for
\* a sale whose stock is back.
Forgets(r) ==
    {e \in stream \ r.stream : r.stock[e.sale] = NotSeeded => e \notin ledger}

ComesBackAs(r) ==
    /\ losses < MaxLosses
    /\ LossKeepsLocks => \A c \in Callers : at[c] \in UnderLock => r.initLock[SaleOf[c]] = c
    /\ losses' = losses + 1
    /\ outlived' = {w \in Workers : Alive(w)}
    /\ forgotten' = forgotten \cup Forgets(r)
    /\ stock' = r.stock /\ buyers' = r.buyers
    /\ stream' = r.stream /\ lastId' = r.lastId
    /\ initLock' = r.initLock
    /\ group' = r.group /\ delivered' = r.delivered
    /\ pel' = r.pel /\ stale' = r.stale
    /\ UNCHANGED <<clock, ledgerVars, at, loaded, workerVars, receipts>>

\* appendfsync everysec, at any moment.
Fsync ==
    /\ aof' = Live
    /\ UNCHANGED <<vars, losses, outlived, forgotten>>

Crash ==
    /\ ComesBackAs(aof)
    /\ UNCHANGED aof

Wipe ==
    /\ ComesBackAs(Empty)
    /\ aof' = Empty

LossInit == Init /\ aof = Empty /\ losses = 0 /\ outlived = {} /\ forgotten = {}

LossNext ==
    \/ /\ Next
       /\ outlived' = {w \in outlived : Alive(w)'}
       /\ UNCHANGED <<aof, losses, forgotten>>
    \/ Fsync
    \/ Crash
    \/ Wipe

LossSpec == LossInit /\ [][LossNext]_lossVars

-------------------------------------------------------------------------------
Snapshot ==
    [stock : [Sales -> Nat \cup {NotSeeded}], buyers : [Sales -> [Buyers -> Nat]],
     stream : SUBSET Entry, lastId : [Sales -> Nat],
     initLock : [Sales -> Callers \cup {Nobody}], group : SUBSET Sales,
     delivered : SUBSET Entry, pel : SUBSET Entry, stale : SUBSET Entry]

LossTypeOK ==
    /\ TypeOK
    /\ aof \in Snapshot
    /\ aof.pel \subseteq aof.delivered /\ aof.stale \subseteq aof.pel
    /\ losses \in 0 .. MaxLosses
    /\ outlived \subseteq {w \in Workers : Alive(w)}
    /\ forgotten \subseteq Entry

\* The Ledger never lists more reservations of a sale than its initial stock
\* (docs/load-testing.md: "This holds on both paths").
LedgerWithinStock == \A s \in Sales : Cardinality(Rows(s)) <= InitialStock[s]

\* No Oversell, as far as it survives losses: whatever is cut in two by them (a batch in a
\* worker's hand, a tail the worker has drained), a sale exceeds its stock in the Ledger and at
\* the Gate by no more than what was forgotten. With nothing forgotten this is NoOversell.
OversoldOnlyByForgotten ==
    \A s \in Sales :
        /\ Cardinality(Rows(s) \ forgotten) <= InitialStock[s]
        /\ Cardinality({b \in Holders(s) : EntryOf(s, b, buyers[s][b]) \notin forgotten})
             <= InitialStock[s]

\* Rehydration restores the check lookup: a live sale's hash knows every recorded buyer under
\* the recorded id, unless the reservation was forgotten.
GateKnowsEveryRow ==
    \A row \in ledger \ forgotten :
        stock[row.sale] # NotSeeded => buyers[row.sale][row.buyer] = row.id

\* What a sale of s has left with n buyers in its hash.
Left(s, n) == IF n < InitialStock[s] THEN InitialStock[s] - n ELSE 0

HoldersIn(r, s) == {b \in Buyers : r.buyers[s][b] # NoId}

\* Units add up, after any number of losses: what is left is the initial stock less the buyers
\* in the hash, for the pipeline counts the rows it puts there, and none when it has too many.
GateAddsUp ==
    \A s \in Sales : stock[s] # NotSeeded => stock[s] = Left(s, Cardinality(Holders(s)))

\* What a Gate of r and a Ledger L have reserved of s, the reservations X apart.
ReservedIn(r, L, X, s) == {e \in (r.stream \cup L) \ X : e.sale = s}

\* A Gate of r is one that seeding and purchases have made, for a Ledger L, but for the
\* reservations X: units add up and cover what is reserved, and hash, stream and Ledger know
\* the same.
MadeBySales(r, L, X) ==
    /\ \A s \in Sales :
         /\ r.stock[s] = NotSeeded =>
              HoldersIn(r, s) = {} /\ \A e \in r.stream : e.sale # s
         /\ r.stock[s] # NotSeeded =>
              /\ r.stock[s] = Left(s, Cardinality(HoldersIn(r, s)))
              /\ r.stock[s] + Cardinality(ReservedIn(r, L, X, s)) <= InitialStock[s]
         /\ \A b \in HoldersIn(r, s) : EntryOf(s, b, r.buyers[s][b]) \in r.stream \cup L
    /\ \A e \in r.stream : r.buyers[e.sale][e.buyer] = e.id
    /\ \A e \in L \ X : r.stock[e.sale] # NotSeeded => r.buyers[e.sale][e.buyer] = e.id

\* What a worker holds is in a stream, on record or forgotten, and what comes back is a part of
\* what there is: no assumption on what a loss cuts in two.
CutInv ==
    /\ delivered \subseteq stream
    /\ aof.delivered \subseteq aof.stream /\ aof.stream \subseteq stream
    /\ \A w \in Workers : hand[w] \cup written[w] \subseteq stream \cup ledger \cup forgotten

\* A call has read every row that is not forgotten.
CallsRead ==
    \A c \in Callers :
        /\ at[c] # "hset" /\ loaded[c] \subseteq Rows(SaleOf[c])
        /\ at[c] = "seed" => Rows(SaleOf[c]) \ loaded[c] \subseteq forgotten

RowsCovered == \A s \in Sales : Cardinality(Rows(s) \ forgotten) <= InitialStock[s]

\* No crash brings back a stock that the live Gate is without.
StaysSeeded == \A s \in Sales : aof.stock[s] # NotSeeded => stock[s] # NotSeeded

\* Behind the properties above: the live Gate is short of nothing but what was forgotten, and
\* the one that a crash would bring back of that and of its lost tail. Inductive together
\* with LossTypeOK.
LossInv ==
    /\ CutInv
    /\ LockHeld /\ SeededOnce /\ OneRowPerBuyer
    /\ CallsRead /\ RowsCovered /\ StaysSeeded
    /\ IsFiniteSet(stream)
    /\ MadeBySales(Live, ledger, forgotten)
    /\ MadeBySales(aof, ledger, forgotten \cup (stream \ aof.stream))

\* The buyer of e has a row, which need not be e: of two reservations, one made after the other
\* was forgotten, the Ledger takes the first it is handed.
BuyerRecorded(e) == \E row \in ledger : row.sale = e.sale /\ row.buyer = e.buyer

\* Nothing is acknowledged in vain, whatever Redis came back with and whatever the worker had in
\* hand at the time: the buyer of an entry that the group is done with has a row.
AcknowledgedHasRow == \A e \in delivered \ pel : BuyerRecorded(e)

\* Why: the clock outlives a loss, so that no id is given twice, not even one that was forgotten;
\* a worker acknowledges what it has inserted, and so it was when the snapshot was written.
LossRecordInv ==
    /\ CutInv
    /\ \A e \in stream \cup ledger \cup forgotten : e.id <= clock
    /\ \A e, f \in stream \cup ledger \cup forgotten : e.id = f.id => e = f
    /\ \A w \in Workers : \A e \in written[w] : BuyerRecorded(e)
    /\ \A e \in aof.delivered \ aof.pel : BuyerRecorded(e)
    /\ AcknowledgedHasRow

\* _streams is a cache of the groups that exist, and a loss makes it stale (NOGROUP on every
\* iteration); a restart heals it: a worker that came up after the last loss has a group for
\* every stream it drains, the empty ones and those lost with other streams kept included.
RestartHeals == \A w \in Workers \ outlived : streams[w] \subseteq group

\* Why: a process starts without a cache, and from then on extends cache and groups together.
HealInv ==
    /\ RestartHeals
    /\ \A w \in Workers : ~Alive(w) => streams[w] = {}
===============================================================================
