--------------------------- MODULE StorefrontProofs ---------------------------
(* Theorems about Storefront, for every stock, window and number of presses. *)
EXTENDS Storefront, TLAPS

LEMMA StorefrontConstants ==
    /\ Sale \in Sales
    /\ Unit \in Nat \ {0}
    /\ NotSeeded \notin Nat
    /\ Horizon \in Nat /\ MaxPresses \in Nat
BY GateAssumption, StorefrontAssumption DEF Unit

-------------------------------------------------------------------------------
(* The Gate, as the tab sees it: once seeded, stock falls.                 *)

Falls == stock[Sale] \in Nat => stock'[Sale] \in Nat /\ stock'[Sale] <= stock[Sale]

InRange == stock[Sale] \in 0 .. Unit \cup {NotSeeded}

LEMMA ReserveFalls ==
    ASSUME GateTypeOK, InRange, NEW b \in Buyers, GateCode(Sale, b) = "SUCCESS",
           \E i \in NewIds(Sale) : Reserve(Sale, b, i)
    PROVE  /\ GateTypeOK' /\ InRange' /\ Falls
           /\ stock[Sale] \in 1 .. Unit /\ stock'[Sale] = stock[Sale] - 1
<1>. USE StorefrontConstants
<1>1. stock[Sale] \in 1 .. Unit
  BY DEF GateCode, InRange
<1>2. PICK i \in NewIds(Sale) : Reserve(Sale, b, i)
  OBVIOUS
<1>3. i \in Nat \ {NoId}
  BY DEF NewIds, GateTypeOK, Entry, NoId
<1>4. stock' = [stock EXCEPT ![Sale] = stock[Sale] - 1] /\ stock[Sale] - 1 \in Nat
  BY <1>1, <1>2 DEF Reserve
<1>5. GateTypeOK'
  BY <1>2, <1>3, <1>4 DEF GateTypeOK, Reserve, EntryOf, Entry
<1>. QED  BY <1>1, <1>4, <1>5 DEF GateTypeOK, InRange, Falls

LEMMA SeedFalls ==
    ASSUME GateTypeOK, InRange, GetsSeeded
    PROVE  GateTypeOK' /\ InRange' /\ Falls
BY StorefrontConstants DEF GetsSeeded, SetStock, GateTypeOK, InRange, Falls

LEMMA GateStays ==
    ASSUME GateTypeOK, InRange, UNCHANGED gateVars
    PROVE  GateTypeOK' /\ InRange' /\ Falls
BY StorefrontConstants DEF gateVars, GateTypeOK, InRange, Falls

-------------------------------------------------------------------------------
(* The inductive invariant.                                                *)

LEMMA TabInvInit == StorefrontInit => TabInv
<1>. SUFFICES ASSUME StorefrontInit PROVE TabInv
  OBVIOUS
<1>1. GateTypeOK
  BY DEF StorefrontInit, GateInit, GateTypeOK, NoId
<1>2. StorefrontTypeOK
  BY <1>1, StorefrontConstants DEF StorefrontInit, StorefrontTypeOK, Outcomes
<1>. QED  BY <1>2, StorefrontConstants DEF StorefrontInit, GateInit, TabInv

\* The stock falls and the tab stays as it is.
LEMMA OthersStep ==
    ASSUME TabInv, GateTypeOK', InRange', Falls, now' \in 0 .. Horizon, UNCHANGED tabVars
    PROVE  TabInv'
<1>. USE StorefrontConstants DEF tabVars, KnownUpTo
<1>1. StorefrontTypeOK'
  BY DEF TabInv, StorefrontTypeOK
<1>2. shown # NoData => KnownUpTo(stock[Sale], shown.remaining)' /\ SoldOutIsTrue'
  BY DEF TabInv, Falls, SoldOutIsTrue
<1>3. told < Unit => KnownUpTo(stock'[Sale], told)
  BY DEF TabInv, Falls
<1>4. \A p \in tries : p.left < Unit => KnownUpTo(stock'[Sale], p.left)
  BY DEF TabInv, StorefrontTypeOK, Falls, Tries
<1>5. \A a \in asks : a.at # "sent" => KnownUpTo(stock'[Sale], a.remaining)
  BY DEF TabInv, ReadTruly, StorefrontTypeOK, Falls, Asks
<1>. QED  BY <1>1, <1>2, <1>3, <1>4, <1>5 DEF TabInv, ReadTruly, InRange

\* A try that gets on: it keeps its buyer and is heard only if it was, and what it is told
\* of the stock is true.
LEMMA TryStep ==
    ASSUME TabInv, GateTypeOK', InRange', Falls,
           NEW p \in tries, NEW q \in Tries, Advance(p, q),
           q.buyer = p.buyer, q.heard => p.heard,
           q.left < Unit => KnownUpTo(stock'[Sale], q.left),
           UNCHANGED <<now, field, shown, asks, presses, banner, told>>
    PROVE  TabInv'
<1>. USE StorefrontConstants DEF KnownUpTo, Advance
<1>1. StorefrontTypeOK'
  BY DEF TabInv, StorefrontTypeOK
<1>2. shown # NoData => KnownUpTo(stock[Sale], shown.remaining)' /\ SoldOutIsTrue'
  BY DEF TabInv, Falls, SoldOutIsTrue
<1>3. told < Unit => KnownUpTo(stock'[Sale], told)
  BY DEF TabInv, Falls
<1>4. \A r \in tries' : r.left < Unit => KnownUpTo(stock'[Sale], r.left)
  BY DEF TabInv, StorefrontTypeOK, Falls, Tries
<1>5. \A a \in asks : a.at # "sent" => KnownUpTo(stock'[Sale], a.remaining)
  BY DEF TabInv, ReadTruly, StorefrontTypeOK, Falls, Asks
<1>6. \A r \in tries' : r.heard => r.buyer = field
  BY DEF TabInv
<1>. QED  BY <1>1, <1>2, <1>3, <1>4, <1>5, <1>6 DEF TabInv, ReadTruly, InRange

SameTry(q, p) == q \in Tries /\ q.buyer = p.buyer /\ q.heard = p.heard /\ q.left = p.left

LEMMA TryMoves ==
    ASSUME NEW p \in Tries, NEW t \in {"sent", "gate", "done"}
    PROVE  SameTry([p EXCEPT !.at = t], p)
BY DEF Tries, SameTry

LEMMA TryEnds ==
    ASSUME NEW p \in Tries, NEW o \in Outcomes
    PROVE  SameTry([p EXCEPT !.at = "done", !.outcome = o], p)
BY DEF Tries, SameTry

LEMMA TryLearns ==
    ASSUME NEW p \in Tries, NEW n \in 0 .. Unit, NEW q, q = [p EXCEPT !.left = n]
    PROVE  q \in Tries /\ q.buyer = p.buyer /\ q.heard = p.heard /\ q.left = n
BY DEF Tries

LEMMA TryUnheard ==
    ASSUME NEW p \in Tries, NEW q, q = [p EXCEPT !.heard = FALSE]
    PROVE  q \in Tries /\ q.buyer = p.buyer /\ ~q.heard /\ q.left = p.left
BY DEF Tries

LEMMA PurchaseStep ==
    ASSUME TabInv, NEW p \in tries,
           ChecksWindow(p) \/ AnswersError(p) \/ RunsScript(p) \/ Fails(p)
    PROVE  TabInv'
<1>. USE StorefrontConstants
<1>1. GateTypeOK /\ InRange /\ p \in Tries /\ (p.left < Unit => KnownUpTo(stock[Sale], p.left))
  BY DEF TabInv, StorefrontTypeOK, InRange
<1>2. CASE ChecksWindow(p) \/ AnswersError(p) \/ Fails(p)
  <2>1. UNCHANGED gateVars
    BY <1>2 DEF ChecksWindow, AnswersError, Fails
  <2>2. \E q \in Tries : Advance(p, q) /\ q.buyer = p.buyer /\ (q.heard => p.heard) /\ q.left = p.left
    <3>1. CASE ChecksWindow(p)
      <4>1. CASE Advance(p, [p EXCEPT !.at = "gate"])
        <5>1. SameTry([p EXCEPT !.at = "gate"], p)
          BY <1>1, TryMoves
        <5>. QED  BY <4>1, <5>1 DEF SameTry
      <4>2. ASSUME NEW o \in Outcomes, Advance(p, [p EXCEPT !.at = "done", !.outcome = o])
            PROVE  \E q \in Tries : Advance(p, q) /\ q.buyer = p.buyer /\ (q.heard => p.heard) /\ q.left = p.left
        <5>1. SameTry([p EXCEPT !.at = "done", !.outcome = o], p)
          BY <1>1, TryEnds
        <5>. QED  BY <4>2, <5>1 DEF SameTry
      <4>3. \/ Advance(p, [p EXCEPT !.at = "gate"])
            \/ \E o \in Outcomes : Advance(p, [p EXCEPT !.at = "done", !.outcome = o])
        BY <3>1 DEF ChecksWindow, Outcomes
      <4>. QED  BY <4>1, <4>2, <4>3
    <3>2. CASE AnswersError(p)
      <4>1. SameTry([p EXCEPT !.at = "done"], p)
        BY <1>1, TryMoves
      <4>. QED  BY <3>2, <4>1 DEF AnswersError, SameTry
    <3>3. CASE Fails(p)
      <4>. DEFINE q == [p EXCEPT !.heard = FALSE]
      <4>1. q \in Tries /\ q.buyer = p.buyer /\ ~q.heard /\ q.left = p.left
        BY <1>1, TryUnheard
      <4>. QED  BY <3>3, <4>1 DEF Fails
    <3>. QED  BY <1>2, <3>1, <3>2, <3>3
  <2>. PICK q \in Tries : Advance(p, q) /\ q.buyer = p.buyer /\ (q.heard => p.heard) /\ q.left = p.left
    BY <2>2
  <2>3. q.left < Unit => KnownUpTo(stock'[Sale], q.left)
    BY <1>1, <2>1 DEF gateVars
  <2>. QED
    BY <1>1, <1>2, <2>1, <2>3, GateStays, TryStep DEF ChecksWindow, AnswersError, Fails
<1>3. CASE RunsScript(p)
  <2>. DEFINE code == GateCode(Sale, p.buyer)
              done == [p EXCEPT !.at = "done", !.outcome = code]
  <2>1. code \in {"SUCCESS", "ALREADY_PURCHASED", "SOLD_OUT", "NOT_READY"} /\ p.buyer \in Buyers
    BY <1>1 DEF GateCode, Tries
  <2>2. done \in Tries /\ done.buyer = p.buyer /\ done.heard = p.heard /\ done.left = p.left
    <3>1. code \in Outcomes
      BY <2>1 DEF Outcomes
    <3>. HIDE DEF code
    <3>2. SameTry(done, p)
      BY <1>1, <3>1, TryEnds
    <3>. QED  BY <3>2 DEF SameTry
  <2>. HIDE DEF done
  <2>3. CASE code = "SUCCESS"
    <3>1. \E i \in NewIds(Sale) : Reserve(Sale, p.buyer, i)
      BY <1>3, <2>3 DEF RunsScript
    <3>2. Advance(p, [done EXCEPT !.left = stock[Sale] - 1])
      BY <1>3, <2>3 DEF RunsScript, done
    <3>3. /\ GateTypeOK' /\ InRange' /\ Falls
          /\ stock[Sale] \in 1 .. Unit /\ stock'[Sale] = stock[Sale] - 1
      BY <1>1, <2>1, <2>3, <3>1, ReserveFalls
    <3>. DEFINE q == [done EXCEPT !.left = stock[Sale] - 1]
    <3>4. q \in Tries /\ q.buyer = p.buyer /\ q.heard = p.heard /\ q.left = stock[Sale] - 1
      <4>1. stock[Sale] - 1 \in 0 .. Unit
        BY <3>3
      <4>2. /\ q \in Tries /\ q.buyer = done.buyer /\ q.heard = done.heard
            /\ q.left = stock[Sale] - 1
        BY <2>2, <4>1, TryLearns
      <4>. QED  BY <2>2, <4>2
    <3>5. q.left < Unit => KnownUpTo(stock'[Sale], q.left)
      BY <3>3, <3>4 DEF KnownUpTo
    <3>. HIDE DEF q
    <3>. QED  BY <1>3, <3>2, <3>3, <3>4, <3>5, TryStep DEF RunsScript, q
  <2>4. CASE code = "SOLD_OUT"
    <3>. DEFINE q == [done EXCEPT !.left = 0]
    <3>1. Advance(p, q) /\ UNCHANGED gateVars
      BY <1>3, <2>4 DEF RunsScript, done
    <3>2. stock[Sale] = 0
      BY <2>4 DEF GateCode
    <3>3. q \in Tries /\ q.buyer = p.buyer /\ q.heard = p.heard /\ q.left = 0
      <4>1. q \in Tries /\ q.buyer = done.buyer /\ q.heard = done.heard /\ q.left = 0
        BY <2>2, TryLearns
      <4>. QED  BY <2>2, <4>1
    <3>4. q.left < Unit => KnownUpTo(stock'[Sale], q.left)
      BY <3>1, <3>2, <3>3 DEF KnownUpTo, gateVars
    <3>. HIDE DEF q
    <3>. QED  BY <1>1, <1>3, <3>1, <3>3, <3>4, GateStays, TryStep DEF RunsScript
  <2>5. CASE code \in {"ALREADY_PURCHASED", "NOT_READY"}
    <3>1. Advance(p, done) /\ UNCHANGED gateVars
      BY <1>3, <2>5 DEF RunsScript, done
    <3>2. done.left < Unit => KnownUpTo(stock'[Sale], done.left)
      BY <1>1, <2>2, <3>1 DEF gateVars
    <3>. QED  BY <1>1, <1>3, <2>2, <3>1, <3>2, GateStays, TryStep DEF RunsScript
  <2>. QED  BY <2>1, <2>3, <2>4, <2>5
<1>. QED  BY <1>2, <1>3

LEMMA AskStep ==
    ASSUME TabInv, \/ Polls
                   \/ \E a \in asks : ReadsRemaining(a) \/ AnswersStatus(a) \/ Arrives(a) \/ AskFails(a)
    PROVE  TabInv'
<1>. USE StorefrontConstants
<1>1. CASE Polls
  <2>1. NewAsk \in Asks /\ NewAsk.at = "sent" /\ NewAsk.live
    BY DEF NewAsk, Asks
  <2>. HIDE DEF NewAsk
  <2>2. UNCHANGED stock /\ StorefrontTypeOK'
    BY <1>1, <2>1 DEF Polls, TabInv, StorefrontTypeOK, GateTypeOK, gateVars
  <2>. QED  BY <1>1, <2>1, <2>2 DEF Polls, TabInv, ReadTruly, SoldOutIsTrue
<1>2. ASSUME NEW a \in asks, ReadsRemaining(a)
      PROVE  TabInv'
  <2>. DEFINE r == [a EXCEPT !.at = "read", !.remaining = stock[Sale]]
  <2>1. r \in Asks /\ r.at = "read" /\ r.live = a.live /\ r.remaining = stock[Sale]
    BY DEF TabInv, StorefrontTypeOK, Asks
  <2>2. asks' = (asks \ {a}) \cup {r} /\ UNCHANGED <<gateVars, now, field, shown, tries, presses,
                                                     banner, told>>
    BY <1>2 DEF ReadsRemaining
  <2>. HIDE DEF r
  <2>3. StorefrontTypeOK'
    BY <2>1, <2>2 DEF TabInv, StorefrontTypeOK, GateTypeOK, gateVars
  <2>. QED  BY <2>1, <2>2, <2>3 DEF TabInv, ReadTruly, SoldOutIsTrue, KnownUpTo, gateVars
<1>3. ASSUME NEW a \in asks, AnswersStatus(a)
      PROVE  TabInv'
  <2>. DEFINE d == DisplayStatusOf(a.remaining)
              r == [a EXCEPT !.at = "answered", !.status = d]
  <2>1. /\ d \in {"UPCOMING", "ACTIVE", "ENDED", "SOLD_OUT"}
        /\ d = "SOLD_OUT" => a.remaining = 0
    BY DEF DisplayStatusOf, StatusOf
  <2>2. asks' = (asks \ {a}) \cup {r} /\ UNCHANGED <<gateVars, now, field, shown, tries, presses,
                                                     banner, told>>
    BY <1>3 DEF AnswersStatus
  <2>. HIDE DEF d
  <2>3. /\ r \in Asks /\ r.at = "answered" /\ r.live = a.live /\ r.remaining = a.remaining
        /\ r.status = d
    BY <2>1 DEF TabInv, StorefrontTypeOK, Asks
  <2>4. a.at # "sent"
    BY <1>3 DEF AnswersStatus
  <2>. HIDE DEF r
  <2>5. StorefrontTypeOK'
    BY <2>2, <2>3 DEF TabInv, StorefrontTypeOK, GateTypeOK, gateVars
  <2>. QED  BY <2>1, <2>2, <2>3, <2>4, <2>5 DEF TabInv, ReadTruly, SoldOutIsTrue, gateVars
<1>4. ASSUME NEW a \in asks, AskFails(a)
      PROVE  TabInv'
  <2>1. StorefrontTypeOK'
    BY <1>4 DEF AskFails, TabInv, StorefrontTypeOK, GateTypeOK, gateVars
  <2>. QED  BY <1>4, <2>1 DEF AskFails, TabInv, ReadTruly, SoldOutIsTrue, gateVars
<1>5. ASSUME NEW a \in asks, Arrives(a)
      PROVE  TabInv'
  <2>1. CASE ~a.live
    <3>1. StorefrontTypeOK'
      BY <1>5, <2>1 DEF Arrives, TabInv, StorefrontTypeOK, GateTypeOK, gateVars
    <3>. QED  BY <1>5, <2>1, <3>1 DEF Arrives, TabInv, ReadTruly, SoldOutIsTrue, gateVars
  <2>2. CASE a.live
    <3>1. /\ a \in Asks /\ a.at = "answered" /\ KnownUpTo(stock[Sale], a.remaining)
          /\ told \in 0 .. Unit /\ (told < Unit => KnownUpTo(a.remaining, told))
      BY <1>5, <2>2 DEF Arrives, TabInv, ReadTruly, StorefrontTypeOK
    <3>2. /\ a.status \in {"UPCOMING", "ACTIVE", "ENDED", "SOLD_OUT"}
          /\ a.status = "SOLD_OUT" => a.remaining = 0
      BY <3>1 DEF TabInv, ReadTruly, Asks
    <3>3. /\ asks' = asks \ {a}
          /\ shown' = [status |-> a.status, remaining |-> a.remaining]
          /\ told' = IF a.remaining = NotSeeded THEN told ELSE Lower(told, a.remaining)
          /\ UNCHANGED <<gateVars, now, field, tries, presses, banner>>
      BY <1>5, <2>2 DEF Arrives
    <3>4. told' \in 0 .. Unit /\ (told' < Unit => KnownUpTo(stock[Sale], told'))
      BY <3>1, <3>3 DEF Asks, Lower, TabInv, KnownUpTo
    <3>5. shown' \in StatusData
      BY <3>1, <3>2, <3>3 DEF StatusData, Asks
    <3>6. StorefrontTypeOK'
      BY <3>3, <3>4, <3>5 DEF TabInv, StorefrontTypeOK, GateTypeOK, gateVars
    <3>7. KnownUpTo(stock[Sale], shown'.remaining) /\ SoldOutIsTrue'
      BY <3>1, <3>2, <3>3, <3>5 DEF SoldOutIsTrue, KnownUpTo, InRange, TabInv, gateVars
    <3>8. \A b \in asks' : ~b.live
      BY <2>2, <3>3 DEF TabInv, StorefrontTypeOK
    <3>. QED  BY <3>3, <3>4, <3>6, <3>7, <3>8 DEF TabInv, ReadTruly, gateVars
  <2>. QED  BY <2>1, <2>2
<1>. QED  BY <1>1, <1>2, <1>3, <1>4, <1>5

LEMMA BuyerStep ==
    ASSUME TabInv, \/ Presses
                   \/ \E b \in Buyers \cup {Blank} : Types(b)
                   \/ \E p \in tries : Vanishes(p) \/ Succeeds(p)
    PROVE  TabInv'
<1>. USE StorefrontConstants
<1>1. CASE Presses
  <2>. DEFINE p == [buyer |-> field, at |-> "sent", outcome |-> NoOutcome, left |-> Unit, heard |-> TRUE]
  <2>1. ~IsBuying /\ field # Blank
    BY <1>1 DEF Presses, ReasonPurchaseUnavailable
  <2>2. p \in Tries /\ p.heard /\ p.buyer = field /\ p.left = Unit
    BY <2>1 DEF TabInv, StorefrontTypeOK, Tries, Outcomes
  <2>3. /\ tries' = tries \cup {p} /\ presses' = presses + 1 /\ presses < MaxPresses
        /\ UNCHANGED <<gateVars, now, field, shown, asks, banner, told>>
    BY <1>1 DEF Presses
  <2>. HIDE DEF p
  <2>4. StorefrontTypeOK'
    BY <2>1, <2>2, <2>3 DEF TabInv, StorefrontTypeOK, GateTypeOK, gateVars, IsBuying
  <2>. QED  BY <2>2, <2>3, <2>4 DEF TabInv, ReadTruly, SoldOutIsTrue, gateVars
<1>2. ASSUME NEW b \in Buyers \cup {Blank}, Types(b)
      PROVE  TabInv'
  <2>1. StorefrontTypeOK'
    BY <1>2 DEF Types, TabInv, StorefrontTypeOK, GateTypeOK, gateVars
  <2>. QED  BY <1>2, <2>1 DEF Types, IsBuying, TabInv, ReadTruly, SoldOutIsTrue, gateVars
<1>3. ASSUME NEW p \in tries, Vanishes(p)
      PROVE  TabInv'
  <2>1. StorefrontTypeOK'
    BY <1>3 DEF Vanishes, TabInv, StorefrontTypeOK, GateTypeOK, gateVars
  <2>. QED  BY <1>3, <2>1 DEF Vanishes, TabInv, ReadTruly, SoldOutIsTrue, gateVars
<1>4. ASSUME NEW p \in tries, Succeeds(p)
      PROVE  TabInv'
  <2>1. p \in Tries /\ (p.left < Unit => KnownUpTo(stock[Sale], p.left)) /\ told \in 0 .. Unit
    BY DEF TabInv, StorefrontTypeOK
  <2>2. told' \in 0 .. Unit /\ (told' < Unit => KnownUpTo(stock[Sale], told'))
    BY <1>4, <2>1 DEF Succeeds, Lower, Tries, TabInv
  <2>3. /\ \A a \in asks' : a = NewAsk \/ \E b \in asks : a = [b EXCEPT !.live = FALSE]
        /\ NewAsk \in Asks /\ NewAsk.at = "sent" /\ NewAsk.live
    BY <1>4 DEF Succeeds, Refetch, NewAsk, Asks
  <2>. HIDE DEF NewAsk
  <2>4. /\ asks' \subseteq Asks
        /\ \A a \in asks' : a.live => a = NewAsk
        /\ \A a \in asks' : ReadTruly(a)
    <3>1. ASSUME NEW a \in asks', NEW b \in asks, a = [b EXCEPT !.live = FALSE]
          PROVE  a \in Asks /\ ~a.live /\ ReadTruly(a)
      <4>1. b \in Asks /\ ReadTruly(b)
        BY DEF TabInv, StorefrontTypeOK
      <4>2. a \in Asks /\ ~a.live /\ a.at = b.at /\ a.status = b.status /\ a.remaining = b.remaining
        BY <3>1, <4>1 DEF Asks
      <4>. QED  BY <4>1, <4>2 DEF ReadTruly
    <3>. QED  BY <2>3, <3>1 DEF ReadTruly
  <2>5. /\ tries' = tries \ {p} /\ banner' = p.outcome
        /\ UNCHANGED <<gateVars, now, field, shown, presses>>
    BY <1>4 DEF Succeeds
  <2>6. StorefrontTypeOK'
    BY <2>1, <2>2, <2>4, <2>5 DEF TabInv, StorefrontTypeOK, GateTypeOK, gateVars, Tries
  <2>. QED  BY <2>2, <2>3, <2>4, <2>5, <2>6 DEF TabInv, ReadTruly, SoldOutIsTrue, gateVars
<1>. QED  BY <1>1, <1>2, <1>3, <1>4
-------------------------------------------------------------------------------
LEMMA GetsSeededStep ==
    ASSUME TabInv, GetsSeeded
    PROVE  TabInv'
<1>1. GateTypeOK /\ InRange /\ now \in 0 .. Horizon
  BY DEF TabInv, StorefrontTypeOK, InRange
<1>2. GateTypeOK' /\ InRange' /\ Falls
  BY <1>1, SeedFalls
<1>3. UNCHANGED <<now, tabVars>>
  BY DEF GetsSeeded
<1>. QED  BY <1>1, <1>2, <1>3, OthersStep

LEMMA OthersBuyStep ==
    ASSUME TabInv, NEW b \in Buyers, OthersBuy(b)
    PROVE  TabInv'
<1>1. GateTypeOK /\ InRange /\ now \in 0 .. Horizon
  BY DEF TabInv, StorefrontTypeOK, InRange
<1>2. GateTypeOK' /\ InRange' /\ Falls
  BY <1>1, ReserveFalls DEF OthersBuy
<1>3. UNCHANGED <<now, tabVars>>
  BY DEF OthersBuy
<1>. QED  BY <1>1, <1>2, <1>3, OthersStep

\* The clock ticks, or nothing happens.
LEMMA TickStep ==
    ASSUME TabInv, Tick \/ UNCHANGED storefrontVars
    PROVE  TabInv'
<1>1. GateTypeOK /\ InRange /\ now \in 0 .. Horizon
  BY DEF TabInv, StorefrontTypeOK, InRange
<1>2. UNCHANGED gateVars /\ UNCHANGED tabVars /\ now' \in 0 .. Horizon
  BY <1>1, StorefrontConstants DEF Tick, storefrontVars
<1>. QED  BY <1>1, <1>2, GateStays, OthersStep

LEMMA TabInvStep == TabInv /\ [StorefrontNext]_storefrontVars => TabInv'
<1>. SUFFICES ASSUME TabInv, [StorefrontNext]_storefrontVars PROVE TabInv'
  OBVIOUS
<1>. QED
  BY GetsSeededStep, OthersBuyStep, TickStep, PurchaseStep, AskStep, BuyerStep DEF StorefrontNext

-------------------------------------------------------------------------------
\* Whatever the polls, purchases and failures, in whatever order the answers come, what the
\* tab knows of the stock is in the order of TabInv.
THEOREM TabKeepsOrder == StorefrontSpec => []TabInv
<1>. QED  BY TabInvInit, TabInvStep, PTL DEF StorefrontSpec

\* The variables of the tab keep their types; at most one live request, one heard purchase.
THEOREM StorefrontTypeCorrect == StorefrontSpec => []StorefrontTypeOK
<1>1. TabInv => StorefrontTypeOK
  BY DEF TabInv
<1>. QED  BY <1>1, TabKeepsOrder, PTL

\* The badge never says SOLD_OUT of a sale with a unit left.
THEOREM BadgeIsTrue == StorefrontSpec => []SoldOutIsTrue
<1>1. TabInv => SoldOutIsTrue
  BY DEF TabInv, SoldOutIsTrue
<1>. QED  BY <1>1, TabKeepsOrder, PTL

\* A status that arrives is one a live request has read.
LEMMA ShownStep ==
    ASSUME [StorefrontNext]_storefrontVars, shown' # shown
    PROVE  \E a \in asks : a.live /\ a.at = "answered" /\ shown'.remaining = a.remaining
<1>1. \E a \in asks : Arrives(a)
  BY DEF StorefrontNext, storefrontVars, tabVars, Polls, Presses, GetsSeeded, Tick, ReadsRemaining,
     AnswersStatus, AskFails, ChecksWindow, AnswersError, RunsScript, Succeeds, Fails, Vanishes, Types, OthersBuy
<1>. QED  BY <1>1 DEF Arrives

\* The stock shown never rises, whichever order the answers come in.
THEOREM MeterFalls == StorefrontSpec => MeterNeverRises
<1>1. TabInv /\ [StorefrontNext]_storefrontVars =>
        [shown # NoData /\ shown.remaining # NotSeeded =>
           shown'.remaining # NotSeeded /\ shown'.remaining <= shown.remaining]_storefrontVars
  <2>. SUFFICES ASSUME TabInv, [StorefrontNext]_storefrontVars,
                       shown # NoData, shown.remaining # NotSeeded
                PROVE  shown'.remaining # NotSeeded /\ shown'.remaining <= shown.remaining
    OBVIOUS
  <2>1. shown.remaining \in Nat
    BY StorefrontConstants DEF TabInv, StorefrontTypeOK, StatusData
  <2>2. CASE shown' = shown
    BY <2>1, <2>2
  <2>3. CASE shown' # shown
    BY <2>1, <2>3, ShownStep, StorefrontConstants DEF TabInv, KnownUpTo
  <2>. QED  BY <2>2, <2>3
<1>. QED  BY <1>1, TabKeepsOrder, PTL DEF StorefrontSpec, MeterNeverRises

\* What the tab fetches after a purchase knows of that purchase.
THEOREM PurchaseIsSeen == StorefrontSpec => RefetchSeesPurchase
<1>1. TabInv /\ [StorefrontNext]_storefrontVars =>
        [shown' # shown /\ told < Unit =>
           shown'.remaining # NotSeeded /\ shown'.remaining <= told]_storefrontVars
  <2>. SUFFICES ASSUME TabInv, [StorefrontNext]_storefrontVars, shown' # shown, told < Unit
                PROVE  shown'.remaining # NotSeeded /\ shown'.remaining <= told
    OBVIOUS
  <2>1. told \in Nat
    BY DEF TabInv, StorefrontTypeOK
  <2>. QED  BY <2>1, ShownStep, StorefrontConstants DEF TabInv, KnownUpTo
<1>. QED  BY <1>1, TabKeepsOrder, PTL DEF StorefrontSpec, RefetchSeesPurchase

\* An outcome appears under the identifier it is about.
THEOREM OutcomeIsAboutField == StorefrontSpec => OutcomeMeetsField
<1>1. TabInv => [\A p \in tries : Succeeds(p) => p.buyer = field]_storefrontVars
  BY DEF TabInv, Succeeds
<1>. QED  BY <1>1, TabKeepsOrder, PTL DEF OutcomeMeetsField
===============================================================================
