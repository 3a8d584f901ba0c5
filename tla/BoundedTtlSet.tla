----------------------------- MODULE BoundedTtlSet -----------------------------
(***************************************************************************)
(* common/bounded-ttl-set.ts: a set of keys of fixed capacity, each of     *)
(* which lives for a while. A value is the sequence of its entries, oldest *)
(* insertion first (the order of a JavaScript Map). An entry carries the   *)
(* time it has left, 0 once its expiry is past.                            *)
(***************************************************************************)
EXTENDS Naturals, Sequences

CONSTANTS
    Capacity,  \* entries at most
    TTL        \* ticks an entry lives

ASSUME BoundedTtlSetAssumption ==
    /\ Capacity \in Nat \ {0}
    /\ TTL \in Nat \ {0}

-------------------------------------------------------------------------------
TtlEntry(keys) == [key : keys, left : 0 .. TTL]

Empty == <<>>

\* Map.delete: a key is there at most once.
Without(entries, k) ==
    IF \E i \in DOMAIN entries : entries[i].key = k
    THEN LET i == CHOOSE i \in DOMAIN entries : entries[i].key = k
         IN  [j \in 1 .. Len(entries) - 1 |-> entries[IF j < i THEN j ELSE j + 1]]
    ELSE entries

\* A slip: evict only once the capacity is exceeded.
AddEvictsLate(entries, k) ==
    LET others == Without(entries, k)
        kept == IF Len(others) > Capacity THEN Tail(others) ELSE others
    IN  Append(kept, [key |-> k, left |-> TTL])

\* Re-inserting makes the key the newest; at capacity the oldest entry goes.
Add(entries, k) ==
    LET others == Without(entries, k)
        kept == IF Len(others) >= Capacity THEN Tail(others) ELSE others
    IN  Append(kept, [key |-> k, left |-> TTL])

Expired(entries, k) == \E i \in DOMAIN entries : entries[i].key = k /\ entries[i].left = 0

\* The answer of has(k), and the set it leaves behind.
Has(entries, k) == \E i \in DOMAIN entries : entries[i].key = k /\ entries[i].left > 0
AfterHas(entries, k) == IF Expired(entries, k) THEN Without(entries, k) ELSE entries

\* One tick of the clock.
Aged(entries) ==
    [i \in DOMAIN entries |->
        [entries[i] EXCEPT !.left = IF @ = 0 THEN 0 ELSE @ - 1]]

-------------------------------------------------------------------------------
\* At most Capacity entries, one per key, in the order they expire: the entry an eviction
\* drops is the one that would have expired first.
Sound(entries) ==
    /\ Len(entries) <= Capacity
    /\ \A i, j \in DOMAIN entries : i < j =>
         entries[i].key # entries[j].key /\ entries[i].left <= entries[j].left
===============================================================================
