------------------------- MODULE BoundedTtlSetProofs --------------------------
(***************************************************************************)
(* What the operations of the set keep and what they answer, for every     *)
(* capacity, life time and set of keys.                                    *)
(***************************************************************************)
EXTENDS BoundedTtlSet, SequenceTheorems, TLAPS

\* A sequence is a function on 1 .. n.
LEMMA SeqIsFunction ==
    ASSUME NEW T, NEW S \in Seq(T)
    PROVE  \E n \in Nat : n = Len(S) /\ DOMAIN S = 1 .. n /\ S \in [1 .. n -> T]
BY LenProperties

LEMMA FunctionIsSeq ==
    ASSUME NEW T, NEW n \in Nat, NEW S \in [1 .. n -> T]
    PROVE  S \in Seq(T) /\ Len(S) = n
<1>1. S \in Seq(T)
  BY SeqDef
<1>2. DOMAIN S = 1 .. Len(S) /\ DOMAIN S = 1 .. n /\ Len(S) \in Nat
  BY <1>1, LenProperties
<1>. QED  BY <1>1, <1>2

\* One entry per key, ordered by expiry: Sound without the bound.
Ordered(S) ==
    \A i, j \in DOMAIN S : i < j => S[i].key # S[j].key /\ S[i].left <= S[j].left

LEMMA SoundParts ==
    ASSUME NEW S
    PROVE  Sound(S) <=> Len(S) <= Capacity /\ Ordered(S)
BY DEF Sound, Ordered

\* Fewer entries or as many, none of them of the key, and still in order.
LEMMA WithoutKeeps ==
    ASSUME NEW K, NEW S \in Seq(TtlEntry(K)), Sound(S), NEW k
    PROVE  /\ Without(S, k) \in Seq(TtlEntry(K))
           /\ Sound(Without(S, k))
           /\ \A i \in DOMAIN Without(S, k) : Without(S, k)[i].key # k
           /\ \A i \in DOMAIN Without(S, k) :
                \E j \in DOMAIN S : Without(S, k)[i] = S[j]
<1>. DEFINE W == Without(S, k)
<1>1. CASE ~ \E i \in DOMAIN S : S[i].key = k
  BY <1>1 DEF Without
<1>2. CASE \E i \in DOMAIN S : S[i].key = k
  <2>. DEFINE d == CHOOSE i \in DOMAIN S : S[i].key = k
  <2>1. PICK n \in Nat : n = Len(S) /\ DOMAIN S = 1 .. n /\ S \in [1 .. n -> TtlEntry(K)]
    BY SeqIsFunction
  <2>2. d \in 1 .. n /\ S[d].key = k
    BY <1>2, <2>1
  <2>3. W = [j \in 1 .. n - 1 |-> S[IF j < d THEN j ELSE j + 1]]
    BY <1>2, <2>1 DEF Without
  <2>4. Ordered(S) /\ n <= Capacity
    BY <2>1, SoundParts
  <2>. HIDE DEF W, d
  <2>5. \A j \in 1 .. n - 1 : (IF j < d THEN j ELSE j + 1) \in 1 .. n \ {d}
    BY <2>2
  <2>6. W \in [1 .. n - 1 -> TtlEntry(K)] /\ n - 1 \in Nat
    BY <2>1, <2>2, <2>3, <2>5
  <2>7. W \in Seq(TtlEntry(K)) /\ Len(W) = n - 1
    BY <2>6, FunctionIsSeq
  <2>8. \A i \in DOMAIN W : W[i].key # k /\ \E j \in DOMAIN S : W[i] = S[j]
    <3>1. \A i \in 1 .. n \ {d} : S[i].key # k
      BY <2>1, <2>2, <2>4 DEF Ordered
    <3>. QED  BY <2>1, <2>3, <2>5, <2>6, <3>1
  <2>9. Ordered(W)
    <3>. SUFFICES ASSUME NEW i \in 1 .. n - 1, NEW j \in 1 .. n - 1, i < j
                  PROVE  W[i].key # W[j].key /\ W[i].left <= W[j].left
      BY <2>6 DEF Ordered
    <3>. DEFINE a == IF i < d THEN i ELSE i + 1
                b == IF j < d THEN j ELSE j + 1
    <3>1. a \in 1 .. n /\ b \in 1 .. n /\ a < b
      BY <2>2
    <3>2. W[i] = S[a] /\ W[j] = S[b]
      BY <2>3
    <3>. HIDE DEF a, b
    <3>. QED  BY <2>1, <2>4, <3>1, <3>2 DEF Ordered
  <2>10. Sound(W)
    <3>1. n - 1 <= Capacity
      BY <2>4, BoundedTtlSetAssumption
    <3>. QED  BY <2>7, <2>9, <3>1, SoundParts
  <2>. QED  BY <2>7, <2>8, <2>10 DEF W
<1>. QED  BY <1>1, <1>2

\* Making room: at capacity the oldest entry goes.
LEMMA EvictionKeeps ==
    ASSUME NEW K, NEW W \in Seq(TtlEntry(K)), Sound(W)
    PROVE  LET T == IF Len(W) >= Capacity THEN Tail(W) ELSE W
           IN  /\ T \in Seq(TtlEntry(K)) /\ Len(T) < Capacity /\ Ordered(T)
               /\ \A i \in DOMAIN T : \E j \in DOMAIN W : T[i] = W[j]
<1>1. PICK n \in Nat : n = Len(W) /\ DOMAIN W = 1 .. n /\ W \in [1 .. n -> TtlEntry(K)]
  BY SeqIsFunction
<1>2. Ordered(W) /\ n <= Capacity /\ Capacity \in Nat \ {0}
  BY <1>1, SoundParts, BoundedTtlSetAssumption
<1>3. CASE n < Capacity
  <2>1. ~(n >= Capacity)
    BY <1>2, <1>3
  <2>2. (IF Len(W) >= Capacity THEN Tail(W) ELSE W) = W /\ Len(W) < Capacity
    BY <1>1, <1>3, <2>1
  <2>. QED  BY <1>2, <2>2
<1>4. CASE n >= Capacity
  <2>. DEFINE T == Tail(W)
  <2>1. W # <<>>
    BY <1>1, <1>2, <1>4, EmptySeq
  <2>2. T \in Seq(TtlEntry(K)) /\ Len(T) = Len(W) - 1 /\ \A i \in 1 .. Len(T) : T[i] = W[i + 1]
    BY <2>1, HeadTailProperties
  <2>. HIDE DEF T
  <2>3. Len(T) = n - 1 /\ DOMAIN T = 1 .. n - 1
    BY <1>1, <2>2, LenProperties
  <2>4. \A i \in 1 .. n - 1 : T[i] = W[i + 1] /\ i + 1 \in 1 .. n
    BY <2>2, <2>3
  <2>5. Ordered(T)
    <3>. SUFFICES ASSUME NEW i \in 1 .. n - 1, NEW j \in 1 .. n - 1, i < j
                  PROVE  T[i].key # T[j].key /\ T[i].left <= T[j].left
      BY <2>3 DEF Ordered
    <3>1. i + 1 \in DOMAIN W /\ j + 1 \in DOMAIN W /\ i + 1 < j + 1
      BY <1>1, <2>4
    <3>2. W[i + 1].key # W[j + 1].key /\ W[i + 1].left <= W[j + 1].left
      BY <1>2, <3>1 DEF Ordered
    <3>. QED  BY <2>4, <3>2
  <2>6. n - 1 < Capacity
    BY <1>2
  <2>. QED  BY <1>1, <1>4, <2>2, <2>3, <2>4, <2>5, <2>6 DEF T
<1>. QED  BY <1>2, <1>3, <1>4

\* The new entry is the last one, and the last to expire.
LEMMA AppendKeeps ==
    ASSUME NEW K, NEW T \in Seq(TtlEntry(K)), Len(T) < Capacity, Ordered(T), NEW k \in K,
           \A i \in DOMAIN T : T[i].key # k
    PROVE  LET e == [key |-> k, left |-> TTL]
           IN  /\ Append(T, e) \in Seq(TtlEntry(K))
               /\ Sound(Append(T, e))
               /\ Has(Append(T, e), k)
               /\ \A x : Has(Append(T, e), x) => x = k \/ Has(T, x)
<1>. DEFINE e == [key |-> k, left |-> TTL]
            R == Append(T, e)
<1>1. PICK n \in Nat : n = Len(T) /\ DOMAIN T = 1 .. n /\ T \in [1 .. n -> TtlEntry(K)]
  BY SeqIsFunction
<1>2. e \in TtlEntry(K) /\ e.key = k /\ e.left = TTL /\ TTL \in Nat \ {0}
  BY BoundedTtlSetAssumption DEF TtlEntry
<1>. HIDE DEF e
<1>3. /\ R \in Seq(TtlEntry(K)) /\ Len(R) = Len(T) + 1
      /\ \A i \in 1 .. Len(T) : R[i] = T[i]
      /\ R[Len(T) + 1] = e
  BY <1>2, AppendProperties
<1>. HIDE DEF R
<1>4. Len(R) = n + 1 /\ DOMAIN R = 1 .. n + 1 /\ R[n + 1] = e /\ \A i \in 1 .. n : R[i] = T[i]
  BY <1>1, <1>3, LenProperties
<1>5. \A i \in 1 .. n : T[i].left <= TTL
  BY <1>1, <1>2 DEF TtlEntry
<1>6. Ordered(R)
  <2>. SUFFICES ASSUME NEW i \in 1 .. n + 1, NEW j \in 1 .. n + 1, i < j
                PROVE  R[i].key # R[j].key /\ R[i].left <= R[j].left
    BY <1>4 DEF Ordered
  <2>1. i \in 1 .. n /\ R[i] = T[i]
    BY <1>4
  <2>2. CASE j = n + 1
    BY <1>1, <1>2, <1>4, <1>5, <2>1, <2>2
  <2>3. CASE j # n + 1
    <3>1. j \in 1 .. n
      BY <2>3
    <3>. QED  BY <1>1, <1>4, <2>1, <3>1 DEF Ordered
  <2>. QED  BY <2>2, <2>3
<1>7. Sound(R)
  <2>1. n + 1 <= Capacity
    BY <1>1, BoundedTtlSetAssumption
  <2>. QED  BY <1>4, <1>6, <2>1, SoundParts
<1>8. Has(R, k)
  <2>1. n + 1 \in DOMAIN R /\ TTL > 0
    BY <1>2, <1>4
  <2>. QED  BY <1>2, <1>4, <2>1 DEF Has
<1>9. ASSUME NEW x, Has(R, x) PROVE x = k \/ Has(T, x)
  <2>1. PICK i \in 1 .. n + 1 : R[i].key = x /\ R[i].left > 0
    BY <1>4, <1>9 DEF Has
  <2>2. CASE i = n + 1
    BY <1>2, <1>4, <2>1, <2>2
  <2>3. CASE i # n + 1
    <3>1. i \in DOMAIN T /\ R[i] = T[i]
      BY <1>1, <1>4, <2>3
    <3>. QED  BY <2>1, <3>1 DEF Has
  <2>. QED  BY <2>2, <2>3
<1>. QED  BY <1>3, <1>7, <1>8, <1>9 DEF R, e

\* Adding keeps the set bounded and in the order of expiry, remembers the key, and learns of
\* no other.
LEMMA AddKeeps ==
    ASSUME NEW K, NEW S \in Seq(TtlEntry(K)), Sound(S), NEW k \in K
    PROVE  /\ Add(S, k) \in Seq(TtlEntry(K))
           /\ Sound(Add(S, k))
           /\ Has(Add(S, k), k)
           /\ \A x : Has(Add(S, k), x) => x = k \/ Has(S, x)
<1>. DEFINE W == Without(S, k)
            T == IF Len(W) >= Capacity THEN Tail(W) ELSE W
            e == [key |-> k, left |-> TTL]
<1>1. /\ W \in Seq(TtlEntry(K)) /\ Sound(W)
      /\ \A i \in DOMAIN W : W[i].key # k /\ \E j \in DOMAIN S : W[i] = S[j]
  BY WithoutKeeps
<1>2. Add(S, k) = Append(T, e)
  BY DEF Add
<1>. HIDE DEF W
<1>3. /\ T \in Seq(TtlEntry(K)) /\ Len(T) < Capacity /\ Ordered(T)
      /\ \A i \in DOMAIN T : \E j \in DOMAIN W : T[i] = W[j]
  BY <1>1, EvictionKeeps
<1>. HIDE DEF T
<1>4. \A i \in DOMAIN T : T[i].key # k /\ \E j \in DOMAIN S : T[i] = S[j]
  BY <1>1, <1>3
<1>5. /\ Append(T, e) \in Seq(TtlEntry(K))
      /\ Sound(Append(T, e))
      /\ Has(Append(T, e), k)
      /\ \A x : Has(Append(T, e), x) => x = k \/ Has(T, x)
  BY <1>3, <1>4, AppendKeeps
<1>6. \A x : Has(T, x) => Has(S, x)
  BY <1>4 DEF Has
<1>. QED  BY <1>2, <1>5, <1>6

\* A look-up drops no entry but an expired one of its own key.
LEMMA AfterHasKeeps ==
    ASSUME NEW K, NEW S \in Seq(TtlEntry(K)), Sound(S), NEW k
    PROVE  AfterHas(S, k) \in Seq(TtlEntry(K)) /\ Sound(AfterHas(S, k))
BY WithoutKeeps DEF AfterHas

\* Time ages all entries alike.
LEMMA AgedKeeps ==
    ASSUME NEW K, NEW S \in Seq(TtlEntry(K)), Sound(S)
    PROVE  Aged(S) \in Seq(TtlEntry(K)) /\ Sound(Aged(S))
<1>. DEFINE A == Aged(S)
<1>1. PICK n \in Nat : n = Len(S) /\ DOMAIN S = 1 .. n /\ S \in [1 .. n -> TtlEntry(K)]
  BY SeqIsFunction
<1>2. \A i \in 1 .. n : S[i].left \in 0 .. TTL
  BY <1>1 DEF TtlEntry
<1>3. A = [i \in 1 .. n |-> [S[i] EXCEPT !.left = IF S[i].left = 0 THEN 0 ELSE S[i].left - 1]]
  BY <1>1 DEF Aged
<1>. HIDE DEF A
<1>4. \A i \in 1 .. n :
        /\ A[i] \in TtlEntry(K)
        /\ A[i].key = S[i].key
        /\ A[i].left = IF S[i].left = 0 THEN 0 ELSE S[i].left - 1
  BY <1>1, <1>2, <1>3, BoundedTtlSetAssumption DEF TtlEntry
<1>5. A \in [1 .. n -> TtlEntry(K)]
  BY <1>3, <1>4
<1>6. A \in Seq(TtlEntry(K)) /\ Len(A) = n
  BY <1>5, FunctionIsSeq
<1>7. Ordered(S) /\ n <= Capacity
  BY <1>1, SoundParts
<1>8. Ordered(A)
  <2>. SUFFICES ASSUME NEW i \in 1 .. n, NEW j \in 1 .. n, i < j
                PROVE  A[i].key # A[j].key /\ A[i].left <= A[j].left
    BY <1>5 DEF Ordered
  <2>1. S[i].key # S[j].key /\ S[i].left <= S[j].left
    BY <1>1, <1>7 DEF Ordered
  <2>2. S[i].left \in Nat /\ S[j].left \in Nat
    BY <1>2, BoundedTtlSetAssumption
  <2>. QED  BY <1>4, <2>1, <2>2
<1>9. Sound(A)
  BY <1>6, <1>7, <1>8, SoundParts
<1>. QED  BY <1>6, <1>9 DEF A

LEMMA EmptyKeeps ==
    ASSUME NEW K
    PROVE  Empty \in Seq(TtlEntry(K)) /\ Sound(Empty)
<1>1. <<>> \in Seq(TtlEntry(K)) /\ Len(<<>>) = 0
  BY EmptySeq
<1>2. DOMAIN <<>> = 1 .. 0
  BY <1>1, LenProperties
<1>. QED  BY <1>1, <1>2, BoundedTtlSetAssumption DEF Empty, Sound
===============================================================================
