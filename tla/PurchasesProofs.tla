---------------------------- MODULE PurchasesProofs ---------------------------
(***************************************************************************)
(* Theorems about Purchases, for any number of nodes, requests, sales and  *)
(* buyers, any windows, and any capacity of the unknown-sale cache.        *)
(***************************************************************************)
EXTENDS Purchases, BoundedTtlSetProofs

-------------------------------------------------------------------------------
(* What is said of a buyer stays true while the Gate moves on.             *)

LEMMA Codings ==
    /\ \A s, b : GateCode(s, b) \in {"NOT_READY", "ALREADY_PURCHASED", "SOLD_OUT", "SUCCESS"}
    /\ \A s, b : GateCode(s, b) = "SUCCESS" =>
         stock[s] # NotSeeded /\ stock[s] # 0 /\ buyers[s][b] = NoId
    /\ \A s, b : GateCode(s, b) = "SOLD_OUT" => stock[s] = 0 /\ buyers[s][b] = NoId
    /\ \A s, b : GateCode(s, b) = "ALREADY_PURCHASED" => buyers[s][b] # NoId
    /\ \A w, t : Status(w, t) \in {"UPCOMING", "ENDED", "ACTIVE"}
<1>1. \A w, t : Status(w, t) \in {"UPCOMING", "ENDED", "ACTIVE"}
  BY DEF Status
<1>2. ASSUME NEW s, NEW b
      PROVE  /\ GateCode(s, b) \in {"NOT_READY", "ALREADY_PURCHASED", "SOLD_OUT", "SUCCESS"}
             /\ GateCode(s, b) = "SUCCESS" =>
                  stock[s] # NotSeeded /\ stock[s] # 0 /\ buyers[s][b] = NoId
             /\ GateCode(s, b) = "SOLD_OUT" => stock[s] = 0 /\ buyers[s][b] = NoId
             /\ GateCode(s, b) = "ALREADY_PURCHASED" => buyers[s][b] # NoId
  BY DEF GateCode
<1>. QED  BY <1>1, <1>2

\* A successful script run keeps the types, and what was true of any buyer.
LEMMA ReserveKeeps ==
    ASSUME GateTypeOK, NEW s \in Sales, NEW b \in Buyers, GateCode(s, b) = "SUCCESS",
           NEW i \in NewIds(s), Reserve(s, b, i)
    PROVE  /\ GateTypeOK'
           /\ i \in Nat \ {NoId} /\ buyers'[s][b] = i
           /\ \A r : r.sale \in Sales /\ r.buyer \in Buyers /\ Truly(r) => Truly(r)'
<1>1. stock[s] \in Nat \ {0} /\ buyers[s][b] = NoId
  BY Codings DEF GateTypeOK
<1>2. i \in Nat \ {NoId}
  BY DEF NewIds, GateTypeOK, Entry, NoId
<1>3. stock[s] - 1 \in Nat
  BY <1>1
<1>4. GateTypeOK'
  BY <1>2, <1>3 DEF GateTypeOK, Reserve, EntryOf, Entry
<1>5. ASSUME NEW r, r.sale \in Sales, r.buyer \in Buyers, Truly(r)
      PROVE  Truly(r)'
  <2>1. r.code = "SOLD_OUT" => r.sale # s
    BY <1>1, <1>5 DEF Truly
  <2>2. \A t \in Sales \ {s} : stock'[t] = stock[t] /\ buyers'[t] = buyers[t]
    BY DEF Reserve, GateTypeOK
  <2>3. r.code \in {"SUCCESS", "ALREADY_PURCHASED"} => ~(r.sale = s /\ r.buyer = b)
    BY <1>1, <1>5 DEF Truly
  <2>4. \A c \in Buyers \ {b} : buyers'[s][c] = buyers[s][c]
    BY DEF Reserve, GateTypeOK
  <2>. QED  BY <1>5, <2>1, <2>2, <2>3, <2>4 DEF Truly
<1>6. buyers'[s][b] = i
  BY DEF Reserve, GateTypeOK
<1>. QED  BY <1>2, <1>4, <1>5, <1>6

LEMMA TruthUnchanged ==
    ASSUME stock' = stock, buyers' = buyers, NEW r, Truly(r)
    PROVE  Truly(r)'
BY DEF Truly

\* A seeded sale stays seeded, and seeding takes no reservation away.
LEMMA SeededKeeps ==
    ASSUME GateTypeOK, NEW s \in Sales, Seeded(s)
    PROVE  /\ GateTypeOK'
           /\ \A r : r.sale \in Sales /\ Truly(r) => Truly(r)'
<1>1. /\ stock' = [stock EXCEPT ![s] = InitialStock[s]] /\ buyers' = buyers
      /\ UNCHANGED <<stream, lastId, clock>>
      /\ stock[s] \notin Nat
  BY GateAssumption DEF Seeded, SetStock
<1>2. GateTypeOK'
  BY <1>1, GateAssumption DEF GateTypeOK
<1>3. ASSUME NEW r, r.sale \in Sales, Truly(r) PROVE Truly(r)'
  BY <1>1, <1>3 DEF Truly, GateTypeOK
<1>. QED  BY <1>2, <1>3

-------------------------------------------------------------------------------
(* What a step has to show for the invariant to hold after it.             *)

RowsStay == \A s \in Sales : table[s] # NoSale => table'[s] = table[s]

\* A request stays, ends, or becomes one that is backed and speaks the truth.
CallsFollow ==
    /\ call' \in [Calls -> CallType \cup {NoCall}]
    /\ \A c \in Calls :
         \/ call'[c] \in {call[c], NoCall}
         \/ \E r \in CallType : call'[c] = r /\ Backed(r)' /\ Truly(r)'

AnswerFollows == answer' = NoCall \/ \E r \in AnswerType : answer' = r /\ Truly(r)'

LEMMA BackedStays ==
    ASSUME RowsStay, now \in Nat, now' \in Nat, now <= now', NEW r \in CallType, Backed(r)
    PROVE  Backed(r)'
<1>1. r.sale \in Sales /\ r.checked \in Nat
  BY PurchasesAssumption DEF CallType
<1>2. r.found \in {NoSale, table'[r.sale]}
  BY <1>1 DEF RowsStay, Backed
<1>3. r.at # "row" =>
        /\ table'[r.sale] # NoSale
        /\ Status(table'[r.sale], r.checked) = "ACTIVE"
        /\ r.checked <= now'
  BY <1>1 DEF RowsStay, Backed
<1>. QED  BY <1>2, <1>3 DEF Backed

LEMMA Concludes ==
    ASSUME PurchasesInv, PurchasesTypeOK', UnknownBounded', RowsStay, now <= now',
           \A r \in CallType \cup AnswerType : Truly(r) => Truly(r)',
           \A n \in Nodes, s \in Sales :
             cache'[n][s] = cache[n][s] \/ cache'[n][s] \in {NoSale, table'[s]},
           CallsFollow, AnswerFollows,
           \A m \in made' :
             \/ m \in made
             \/ /\ table[m.sale] # NoSale
                /\ Status(table[m.sale], m.checked) = "ACTIVE"
                /\ m.checked <= m.at
    PROVE  PurchasesInv'
<1>1. now \in Nat /\ now' \in Nat
  BY PurchasesAssumption DEF PurchasesInv, PurchasesTypeOK
<1>2. CachedIsOnRecord'
  <2>. SUFFICES ASSUME NEW n \in Nodes, NEW s \in Sales
                PROVE  cache'[n][s] \in {NoSale, table'[s]}
    BY DEF CachedIsOnRecord
  <2>. QED  BY DEF PurchasesInv, CachedIsOnRecord, RowsStay
<1>3. ASSUME NEW c \in Calls, call'[c] # NoCall
      PROVE  /\ Backed(call[c])' /\ Truly(call[c])'
  <2>1. CASE call'[c] = call[c]
    <3>1. PICK r \in CallType : call[c] = r /\ Backed(r) /\ Truly(r)
      BY <1>3, <2>1 DEF PurchasesInv, PurchasesTypeOK, AnsweredTruly
    <3>2. Backed(r)' /\ Truly(r)' /\ call'[c] = r
      BY <1>1, <2>1, <3>1, BackedStays
    <3>. QED  BY <3>2 DEF Backed, Truly
  <2>2. CASE \E r \in CallType : call'[c] = r /\ Backed(r)' /\ Truly(r)'
    <3>1. PICK r \in CallType : call'[c] = r /\ Backed(r)' /\ Truly(r)'
      BY <2>2
    <3>. QED  BY <3>1 DEF Backed, Truly
  <2>. QED  BY <1>3, <2>1, <2>2 DEF CallsFollow
<1>4. AnsweredTruly'
  <2>1. answer' # NoCall => Truly(answer)'
    BY DEF Truly, AnswerFollows
  <2>. QED  BY <1>3, <2>1 DEF AnsweredTruly
<1>5. SoldInWindow'
  <2>. SUFFICES ASSUME NEW m \in made'
                PROVE  /\ table'[m.sale] # NoSale
                       /\ Status(table'[m.sale], m.checked) = "ACTIVE"
                       /\ m.checked <= m.at
    BY DEF SoldInWindow
  <2>1. m.sale \in Sales
    BY DEF PurchasesTypeOK
  <2>2. /\ table[m.sale] # NoSale
        /\ Status(table[m.sale], m.checked) = "ACTIVE"
        /\ m.checked <= m.at
    BY DEF PurchasesInv, SoldInWindow
  <2>. QED  BY <2>1, <2>2 DEF RowsStay
<1>. QED  BY <1>2, <1>3, <1>4, <1>5 DEF PurchasesInv

-------------------------------------------------------------------------------
(* The steps, one by one.                                                  *)

\* How a request changes: it ends, it becomes r, or it is left alone.
LEMMA CallsChange ==
    ASSUME call \in [Calls -> CallType \cup {NoCall}], NEW c \in Calls
    PROVE  /\ call' = call => CallsFollow
           /\ Frees(c) => CallsFollow
           /\ \A r \in CallType :
                call' = [call EXCEPT ![c] = r] /\ Backed(r)' /\ Truly(r)' => CallsFollow
<1>1. call' = call => CallsFollow
  BY DEF CallsFollow
<1>2. ASSUME NEW r \in CallType \cup {NoCall}, call' = [call EXCEPT ![c] = r]
      PROVE  /\ call' \in [Calls -> CallType \cup {NoCall}]
             /\ call'[c] = r /\ \A d \in Calls \ {c} : call'[d] = call[d]
  BY <1>2
<1>3. Frees(c) => CallsFollow
  <2>. SUFFICES ASSUME call' = [call EXCEPT ![c] = NoCall] PROVE CallsFollow
    BY DEF Frees
  <2>1. /\ call' \in [Calls -> CallType \cup {NoCall}]
        /\ call'[c] = NoCall /\ \A d \in Calls \ {c} : call'[d] = call[d]
    BY <1>2
  <2>. QED  BY <2>1 DEF CallsFollow
<1>4. ASSUME NEW r \in CallType, call' = [call EXCEPT ![c] = r], Backed(r)', Truly(r)'
      PROVE  CallsFollow
  <2>1. /\ call' \in [Calls -> CallType \cup {NoCall}]
        /\ call'[c] = r /\ \A d \in Calls \ {c} : call'[d] = call[d]
    BY <1>2, <1>4
  <2>. QED  BY <1>4, <2>1 DEF CallsFollow
<1>. QED  BY <1>1, <1>3, <1>4

\* A sale's own window lets in, or answers with the status.
LEMMA CheckWindowSound ==
    ASSUME PurchasesTypeOK, UNCHANGED <<now, table>>,
           NEW c \in Calls, NEW n \in Nodes, NEW s \in Sales, NEW b \in Buyers,
           table[s] # NoSale, CheckWindow(c, n, s, b, table[s])
    PROVE  /\ CallsFollow /\ AnswerFollows
           /\ answer' # NoCall => answer'.code # "NOT_FOUND"
<1>. USE DEF PurchasesTypeOK
<1>1. CASE Status(table[s], now) = "ACTIVE"
  <2>0. PICK r : r = Request("gate", n, s, b, NoSale, now)
    OBVIOUS
  <2>1. call' = [call EXCEPT ![c] = r] /\ answer' = NoCall
    BY <1>1, <2>0 DEF CheckWindow, Silent
  <2>2. /\ r \in CallType
        /\ r.at = "gate" /\ r.sale = s /\ r.found = NoSale /\ r.checked = now
        /\ r.code = "NOT_FOUND"
    BY <2>0 DEF Request, CallType, Codes, NoId
  <2>3. Backed(r)' /\ Truly(r)'
    BY <1>1, <2>2, PurchasesAssumption DEF Backed, Truly
  <2>4. CallsFollow
    BY <2>0, <2>1, <2>2, <2>3, CallsChange
  <2>. QED  BY <2>1, <2>4 DEF AnswerFollows
<1>2. CASE Status(table[s], now) # "ACTIVE"
  <2>1. Frees(c) /\ answer' = Answer(n, s, b, Status(table[s], now), NoId)
    BY <1>2 DEF CheckWindow
  <2>2. Status(table[s], now) \in {"UPCOMING", "ENDED"}
    BY <1>2, Codings
  <2>3. PICK r : r = Answer(n, s, b, Status(table[s], now), NoId)
    OBVIOUS
  <2>4. r \in AnswerType /\ r.code \in {"UPCOMING", "ENDED"}
    BY <2>2, <2>3 DEF Answer, AnswerType, Codes, NoId
  <2>5. Truly(r)'
    BY <2>4 DEF Truly
  <2>6. CallsFollow
    BY <2>1, CallsChange
  <2>. QED  BY <2>1, <2>3, <2>4, <2>5, <2>6 DEF AnswerFollows
<1>. QED  BY <1>1, <1>2

\* The answer 404.
LEMMA NotFoundFollows ==
    ASSUME NEW n \in Nodes, NEW s \in Sales, NEW b \in Buyers,
           answer' = Answer(n, s, b, "NOT_FOUND", NoId)
    PROVE  AnswerFollows
<1>1. PICK r : r = Answer(n, s, b, "NOT_FOUND", NoId)
  OBVIOUS
<1>2. r \in AnswerType /\ r.code = "NOT_FOUND"
  BY <1>1 DEF Answer, AnswerType, Codes, NoId
<1>3. Truly(r)'
  BY <1>2 DEF Truly
<1>. QED  BY <1>1, <1>2, <1>3 DEF AnswerFollows

\* What holds of a step that leaves Gate, sales table and made reservations alone.
LEMMA QuietStep ==
    ASSUME PurchasesInv, UNCHANGED <<gateVars, table, made, deaths>>,
           now' \in 0 .. Horizon, now <= now',
           creating' \subseteq Nodes \X Sales,
           unknown' \in [Nodes -> Seq(TtlEntry(Sales))], UnknownBounded',
           cache' \in [Nodes -> [Sales -> Windows \cup {NoSale}]],
           \A n \in Nodes, s \in Sales :
             cache'[n][s] = cache[n][s] \/ cache'[n][s] \in {NoSale, table[s]},
           CallsFollow, AnswerFollows
    PROVE  PurchasesInv'
<1>1. GateTypeOK' /\ stock' = stock /\ buyers' = buyers
  BY DEF PurchasesInv, PurchasesTypeOK, GateTypeOK, gateVars
<1>2. call' \in [Calls -> CallType \cup {NoCall}] /\ answer' \in AnswerType \cup {NoCall}
  BY DEF CallsFollow, AnswerFollows
<1>3. PurchasesTypeOK'
  BY <1>1, <1>2 DEF PurchasesInv, PurchasesTypeOK
<1>4. \A r \in CallType \cup AnswerType : Truly(r) => Truly(r)'
  BY <1>1, TruthUnchanged
<1>5. RowsStay
  BY DEF RowsStay
<1>. QED  BY <1>3, <1>4, <1>5, Concludes

LEMMA LookUpStep ==
    ASSUME PurchasesInv, NEW c \in Calls, NEW n \in Nodes, NEW s \in Sales, NEW b \in Buyers,
           LookUp(c, n, s, b)
    PROVE  PurchasesInv'
<1>. USE DEF PurchasesInv, PurchasesTypeOK
<1>1. UNCHANGED <<now, table, creating, cache, made, deaths, gateVars>> /\ now <= now
  BY PurchasesAssumption DEF LookUp, tableVars
<1>2. CASE cache[n][s] # NoSale /\ CheckWindow(c, n, s, b, cache[n][s]) /\ unknown' = unknown
  <2>1. table[s] # NoSale /\ cache[n][s] = table[s]
    BY <1>2 DEF CachedIsOnRecord
  <2>2. CallsFollow /\ AnswerFollows
    BY <1>1, <1>2, <2>1, CheckWindowSound
  <2>. QED  BY <1>1, <1>2, <2>2, QuietStep DEF UnknownBounded
<1>3. CASE /\ answer' = Answer(n, s, b, "NOT_FOUND", NoId)
           /\ UNCHANGED <<call, unknown>>
  <2>1. CallsFollow /\ AnswerFollows
    BY <1>3, CallsChange, NotFoundFollows
  <2>. QED  BY <1>1, <1>3, <2>1, QuietStep DEF UnknownBounded
<1>4. CASE /\ unknown' = [unknown EXCEPT ![n] = AfterHas(@, s)]
           /\ call' = [call EXCEPT ![c] = Request("row", n, s, b, table[s], 0)]
           /\ Silent
  <2>1. PICK r : r = Request("row", n, s, b, table[s], 0)
    OBVIOUS
  <2>2. /\ r \in CallType
        /\ r.at = "row" /\ r.sale = s /\ r.found = table[s] /\ r.code = "NOT_FOUND"
    BY <2>1, PurchasesAssumption DEF Request, CallType, Codes, NoId
  <2>3. Backed(r)' /\ Truly(r)'
    BY <1>1, <2>2 DEF Backed, Truly
  <2>4. CallsFollow
    BY <1>4, <2>1, <2>2, <2>3, CallsChange
  <2>5. AnswerFollows
    BY <1>4 DEF Silent, AnswerFollows
  <2>6. /\ unknown' \in [Nodes -> Seq(TtlEntry(Sales))]
        /\ UnknownBounded'
    <3>1. AfterHas(unknown[n], s) \in Seq(TtlEntry(Sales)) /\ Sound(AfterHas(unknown[n], s))
      BY AfterHasKeeps DEF UnknownBounded
    <3>. QED  BY <1>4, <3>1 DEF UnknownBounded
  <2>. QED  BY <1>1, <2>4, <2>5, <2>6, QuietStep
<1>. QED  BY <1>2, <1>3, <1>4 DEF LookUp

LEMMA RowArrivesStep ==
    ASSUME PurchasesInv, NEW c \in Calls, RowArrives(c)
    PROVE  PurchasesInv'
<1>. USE DEF PurchasesInv, PurchasesTypeOK
<1>. DEFINE n == call[c].node  s == call[c].sale  b == call[c].buyer
<1>1. UNCHANGED <<now, table, creating, made, deaths, gateVars>> /\ now <= now
  BY PurchasesAssumption DEF RowArrives, tableVars
<1>2. /\ call[c] \in CallType /\ n \in Nodes /\ s \in Sales /\ b \in Buyers
      /\ call[c].found \in {NoSale, table[s]}
  BY DEF RowArrives, CallType, Backed
<1>3. CASE call[c].found = NoSale
  <2>1. /\ unknown' = [unknown EXCEPT ![n] = Add(@, s)]
        /\ answer' = Answer(n, s, b, "NOT_FOUND", NoId)
        /\ Frees(c) /\ cache' = cache
    BY <1>3 DEF RowArrives
  <2>2. CallsFollow /\ AnswerFollows
    BY <1>2, <2>1, CallsChange, NotFoundFollows
  <2>3. /\ unknown' \in [Nodes -> Seq(TtlEntry(Sales))]
        /\ UnknownBounded'
    <3>1. Add(unknown[n], s) \in Seq(TtlEntry(Sales)) /\ Sound(Add(unknown[n], s))
      BY <1>2, AddKeeps DEF UnknownBounded
    <3>. QED  BY <1>2, <2>1, <3>1 DEF UnknownBounded
  <2>. QED  BY <1>1, <2>1, <2>2, <2>3, QuietStep
<1>4. CASE call[c].found # NoSale
  <2>1. table[s] # NoSale /\ call[c].found = table[s]
    BY <1>2, <1>4
  <2>2. /\ cache' = [cache EXCEPT ![n][s] = table[s]]
        /\ CheckWindow(c, n, s, b, table[s])
        /\ unknown' = unknown
    BY <1>4, <2>1 DEF RowArrives
  <2>3. CallsFollow /\ AnswerFollows
    BY <1>1, <1>2, <2>1, <2>2, CheckWindowSound
  <2>4. /\ cache' \in [Nodes -> [Sales -> Windows \cup {NoSale}]]
        /\ \A m \in Nodes, t \in Sales :
             cache'[m][t] = cache[m][t] \/ cache'[m][t] \in {NoSale, table[t]}
    BY <1>2, <2>2
  <2>. QED  BY <1>1, <2>2, <2>3, <2>4, QuietStep DEF UnknownBounded
<1>. QED  BY <1>3, <1>4

\* The script's reply, to a reservation made or to none.
LEMMA RunsScriptStep ==
    ASSUME PurchasesInv, NEW c \in Calls, RunsScript(c)
    PROVE  PurchasesInv'
<1>. USE DEF PurchasesInv, PurchasesTypeOK
<1>. DEFINE s == call[c].sale  b == call[c].buyer
<1>1. /\ UNCHANGED <<now, table, creating, cache, unknown, deaths>> /\ now <= now
      /\ answer' = NoCall
  <2>1. Silent /\ UNCHANGED <<now, tableVars, nodeVars, deaths>>
    BY Zenon DEF RunsScript
  <2>. QED  BY <2>1, PurchasesAssumption DEF tableVars, nodeVars, Silent
<1>2. /\ call[c] \in CallType /\ s \in Sales /\ b \in Buyers
      /\ call[c].found \in {NoSale, table[s]} /\ call[c].checked \in 0 .. Horizon
      /\ table[s] # NoSale /\ Status(table[s], call[c].checked) = "ACTIVE"
      /\ call[c].checked <= now
  BY DEF RunsScript, CallType, Backed
<1>3. ASSUME NEW id \in Nat,
             call' = [call EXCEPT ![c] =
                        [@ EXCEPT !.at = "reply", !.code = GateCode(s, b), !.id = id]],
             GateCode(s, b) = "SOLD_OUT" => buyers'[s][b] = NoId /\ stock'[s] = 0,
             GateCode(s, b) \in {"SUCCESS", "ALREADY_PURCHASED"} =>
               id # NoId /\ id = buyers'[s][b]
      PROVE  CallsFollow
  <2>1. PICK r : r = [call[c] EXCEPT !.at = "reply", !.code = GateCode(s, b), !.id = id]
    OBVIOUS
  <2>2. GateCode(s, b) \in {"NOT_READY", "ALREADY_PURCHASED", "SOLD_OUT", "SUCCESS"}
    BY Codings
  <2>3. /\ r \in CallType
        /\ r.at = "reply" /\ r.sale = s /\ r.buyer = b /\ r.found = call[c].found
        /\ r.checked = call[c].checked /\ r.code = GateCode(s, b) /\ r.id = id
    BY <1>2, <2>1, <2>2 DEF CallType, Codes
  <2>4. Backed(r)'
    BY <1>1, <1>2, <2>2, <2>3 DEF Backed
  <2>5. Truly(r)'
    BY <1>3, <2>3 DEF Truly
  <2>. QED  BY <1>3, <2>1, <2>3, <2>4, <2>5, CallsChange
<1>4. CASE GateCode(s, b) = "SUCCESS"
  <2>1. PICK i \in NewIds(s) :
           /\ Reserve(s, b, i)
           /\ call' = [call EXCEPT ![c] =
                         [@ EXCEPT !.at = "reply", !.code = GateCode(s, b), !.id = i]]
    BY <1>4 DEF RunsScript
  <2>2. PICK m : m = [sale |-> s, buyer |-> b, checked |-> call[c].checked, at |-> now]
    OBVIOUS
  <2>3. made' = made \cup {m}
    BY <1>4, <2>2 DEF RunsScript
  <2>4. /\ m \in [sale : Sales, buyer : Buyers, checked : 0 .. Horizon, at : 0 .. Horizon]
        /\ m.sale = s /\ m.checked = call[c].checked /\ m.at = now
    BY <1>2, <2>2
  <2>5. /\ GateTypeOK' /\ i \in Nat \ {NoId} /\ buyers'[s][b] = i
        /\ \A r \in CallType \cup AnswerType : Truly(r) => Truly(r)'
    BY <1>2, <1>4, <2>1, ReserveKeeps DEF CallType, AnswerType
  <2>6. CallsFollow
    BY <1>3, <1>4, <2>1, <2>5
  <2>7. AnswerFollows /\ RowsStay /\ UnknownBounded'
    BY <1>1 DEF AnswerFollows, RowsStay, UnknownBounded
  <2>8. PurchasesTypeOK'
    BY <1>1, <2>3, <2>4, <2>5, <2>6 DEF CallsFollow
  <2>. QED  BY <1>1, <1>2, <2>3, <2>4, <2>5, <2>6, <2>7, <2>8, Concludes
<1>5. CASE GateCode(s, b) # "SUCCESS"
  <2>1. /\ call' = [call EXCEPT ![c] =
                      [@ EXCEPT !.at = "reply", !.code = GateCode(s, b), !.id = buyers[s][b]]]
        /\ UNCHANGED <<made, gateVars>>
    BY <1>5 DEF RunsScript
  <2>2. buyers[s][b] \in Nat /\ stock' = stock /\ buyers' = buyers
    BY <1>2, <2>1 DEF GateTypeOK, gateVars, NoId
  <2>3. CallsFollow
    <3>1. /\ GateCode(s, b) = "SOLD_OUT" => buyers'[s][b] = NoId /\ stock'[s] = 0
          /\ GateCode(s, b) \in {"SUCCESS", "ALREADY_PURCHASED"} =>
               buyers[s][b] # NoId /\ buyers[s][b] = buyers'[s][b]
      BY <1>5, <2>2, Codings
    <3>. QED  BY <1>3, <2>1, <2>2, <3>1
  <2>4. AnswerFollows /\ UnknownBounded'
    BY <1>1 DEF AnswerFollows, UnknownBounded
  <2>. QED  BY <1>1, <2>1, <2>3, <2>4, QuietStep
<1>. QED  BY <1>4, <1>5

LEMMA QueryFailsStep ==
    ASSUME PurchasesInv, NEW c \in Calls, QueryFails(c)
    PROVE  PurchasesInv'
<1>. USE DEF PurchasesInv, PurchasesTypeOK
<1>1. /\ UNCHANGED <<now, table, creating, cache, unknown, made, deaths, gateVars>>
      /\ now <= now /\ answer' = NoCall
  BY PurchasesAssumption DEF QueryFails, tableVars, nodeVars, Silent
<1>2. Frees(c)
  BY DEF QueryFails
<1>3. CallsFollow /\ AnswerFollows /\ UnknownBounded'
  BY <1>1, <1>2, CallsChange DEF AnswerFollows, UnknownBounded
<1>. QED  BY <1>1, <1>3, QuietStep

LEMMA ResendsStep ==
    ASSUME PurchasesInv, NEW c \in Calls, Resends(c)
    PROVE  PurchasesInv'
<1>. USE DEF PurchasesInv, PurchasesTypeOK
<1>1. /\ UNCHANGED <<now, table, creating, cache, unknown, made, deaths, gateVars>>
      /\ now <= now /\ answer' = NoCall
  BY PurchasesAssumption DEF Resends, tableVars, nodeVars, Silent
<1>2. call[c] \in CallType /\ call[c].at = "reply" /\ Backed(call[c])
  BY DEF Resends
<1>3. PICK r : r = [call[c] EXCEPT !.at = "gate", !.code = "NOT_FOUND", !.id = NoId]
  OBVIOUS
<1>4. /\ r \in CallType
      /\ r.at = "gate" /\ r.sale = call[c].sale /\ r.found = call[c].found
      /\ r.checked = call[c].checked /\ r.code = "NOT_FOUND"
  BY <1>2, <1>3 DEF CallType, Codes, NoId
<1>5. Backed(r)' /\ Truly(r)'
  BY <1>1, <1>2, <1>4 DEF Backed, Truly
<1>6. call' = [call EXCEPT ![c] = r]
  BY <1>3 DEF Resends
<1>7. CallsFollow /\ AnswerFollows /\ UnknownBounded'
  BY <1>1, <1>4, <1>5, <1>6, CallsChange DEF AnswerFollows, UnknownBounded
<1>. QED  BY <1>1, <1>7, QuietStep

LEMMA AnswersStep ==
    ASSUME PurchasesInv, NEW c \in Calls, Answers(c)
    PROVE  PurchasesInv' /\ answer'.code # "NOT_FOUND"
<1>. USE DEF PurchasesInv, PurchasesTypeOK
<1>1. /\ UNCHANGED <<now, table, creating, cache, unknown, made, deaths, gateVars>>
      /\ now <= now
  BY PurchasesAssumption DEF Answers, tableVars, nodeVars
<1>2. /\ call[c] \in CallType /\ call[c].at = "reply" /\ Backed(call[c]) /\ Truly(call[c])
  BY DEF Answers, AnsweredTruly
<1>3. PICK r : r = Answer(call[c].node, call[c].sale, call[c].buyer, call[c].code, call[c].id)
  OBVIOUS
<1>4. /\ r \in AnswerType
      /\ r.sale = call[c].sale /\ r.buyer = call[c].buyer
      /\ r.code = call[c].code /\ r.id = call[c].id
  BY <1>2, <1>3 DEF Answer, AnswerType, CallType
<1>5. Truly(r)'
  BY <1>1, <1>2, <1>4 DEF Truly, gateVars
<1>6. answer' = r /\ Frees(c)
  BY <1>3 DEF Answers
<1>7. CallsFollow /\ AnswerFollows /\ UnknownBounded'
  BY <1>1, <1>4, <1>5, <1>6, CallsChange DEF AnswerFollows, UnknownBounded
<1>8. answer'.code # "NOT_FOUND"
  BY <1>2, <1>4, <1>6 DEF Backed
<1>. QED  BY <1>1, <1>7, <1>8, QuietStep

\* A sale is inserted once: the second insert leaves the row as it is.
LEMMA CreateSaleStep ==
    ASSUME PurchasesInv, NEW n \in Nodes, NEW s \in Sales, NEW x \in Windows,
           CreateSale(n, s, x)
    PROVE  PurchasesInv'
<1>. USE DEF PurchasesInv, PurchasesTypeOK
<1>1. /\ UNCHANGED <<now, cache, unknown, call, made, deaths, gateVars>>
      /\ now <= now /\ answer' = NoCall
  BY PurchasesAssumption DEF CreateSale, nodeVars, Silent
<1>2. table' \in [Sales -> Windows \cup {NoSale}] /\ RowsStay
  BY DEF CreateSale, RowsStay
<1>3. creating' \subseteq Nodes \X Sales
  BY DEF CreateSale
<1>4. GateTypeOK' /\ \A r \in CallType \cup AnswerType : Truly(r) => Truly(r)'
  BY <1>1, TruthUnchanged DEF gateVars, GateTypeOK
<1>5. CallsFollow /\ AnswerFollows /\ UnknownBounded'
  BY <1>1 DEF CallsFollow, AnswerFollows, UnknownBounded
<1>6. PurchasesTypeOK'
  BY <1>1, <1>2, <1>3, <1>4
<1>. QED  BY <1>1, <1>2, <1>4, <1>5, <1>6, Concludes

\* Two ways of caching a row as it is in the table.
LEMMA CachesRow ==
    ASSUME PurchasesInv, NEW n \in Nodes, NEW s \in Sales,
           cache' = [cache EXCEPT ![n][s] = table[s]],
           creating' \subseteq creating,
           Silent, UNCHANGED <<now, table, unknown, call, made, deaths, gateVars>>
    PROVE  PurchasesInv'
<1>. USE DEF PurchasesInv, PurchasesTypeOK
<1>1. now <= now
  BY PurchasesAssumption
<1>2. /\ cache' \in [Nodes -> [Sales -> Windows \cup {NoSale}]]
      /\ \A m \in Nodes, t \in Sales :
           cache'[m][t] = cache[m][t] \/ cache'[m][t] \in {NoSale, table[t]}
  OBVIOUS
<1>3. CallsFollow /\ AnswerFollows /\ UnknownBounded'
  BY DEF Silent, CallsFollow, AnswerFollows, UnknownBounded
<1>. QED  BY <1>1, <1>2, <1>3, QuietStep

LEMMA SeededStep ==
    ASSUME PurchasesInv, NEW s \in Sales, Seeded(s)
    PROVE  PurchasesInv'
<1>. USE DEF PurchasesInv, PurchasesTypeOK
<1>1. /\ UNCHANGED <<now, table, creating, cache, unknown, call, made, deaths>>
      /\ now <= now /\ answer' = NoCall
  BY PurchasesAssumption DEF Seeded, tableVars, nodeVars, Silent
<1>2. GateTypeOK' /\ \A r \in CallType \cup AnswerType : Truly(r) => Truly(r)'
  BY SeededKeeps DEF CallType, AnswerType
<1>3. CallsFollow /\ AnswerFollows /\ UnknownBounded' /\ RowsStay
  BY <1>1 DEF CallsFollow, AnswerFollows, UnknownBounded, RowsStay
<1>4. PurchasesTypeOK'
  BY <1>1, <1>2
<1>. QED  BY <1>1, <1>2, <1>3, <1>4, Concludes

LEMMA NodeRestartsStep ==
    ASSUME PurchasesInv, NEW n \in Nodes, NodeRestarts(n)
    PROVE  PurchasesInv'
<1>. USE DEF PurchasesInv, PurchasesTypeOK
<1>1. /\ UNCHANGED <<now, table, made, gateVars>>
      /\ now <= now /\ answer' = NoCall
  BY PurchasesAssumption DEF NodeRestarts, Silent
<1>2. deaths' \in 0 .. MaxDeaths
  BY PurchasesAssumption DEF NodeRestarts
<1>3. /\ cache' \in [Nodes -> [Sales -> Windows \cup {NoSale}]]
      /\ \A m \in Nodes, s \in Sales :
           cache'[m][s] = cache[m][s] \/ cache'[m][s] \in {NoSale, table'[s]}
  BY DEF NodeRestarts
<1>4. unknown' \in [Nodes -> Seq(TtlEntry(Sales))] /\ UnknownBounded'
  BY EmptyKeeps DEF NodeRestarts, UnknownBounded
<1>5. creating' \subseteq Nodes \X Sales
  BY DEF NodeRestarts
<1>6. CallsFollow /\ AnswerFollows /\ RowsStay
  BY <1>1 DEF NodeRestarts, CallsFollow, AnswerFollows, RowsStay
<1>7. GateTypeOK' /\ \A r \in CallType \cup AnswerType : Truly(r) => Truly(r)'
  BY <1>1, TruthUnchanged DEF gateVars, GateTypeOK
<1>8. PurchasesTypeOK'
  BY <1>1, <1>2, <1>3, <1>4, <1>5, <1>6, <1>7 DEF CallsFollow
<1>. QED  BY <1>1, <1>3, <1>4, <1>6, <1>7, <1>8, Concludes

LEMMA TickStep ==
    ASSUME PurchasesInv, Tick
    PROVE  PurchasesInv'
<1>. USE DEF PurchasesInv, PurchasesTypeOK
<1>1. UNCHANGED <<table, creating, cache, call, made, deaths, gateVars>> /\ answer' = NoCall
  BY DEF Tick, tableVars, Silent
<1>2. now' \in 0 .. Horizon /\ now <= now'
  BY PurchasesAssumption DEF Tick
<1>3. unknown' \in [Nodes -> Seq(TtlEntry(Sales))] /\ UnknownBounded'
  BY AgedKeeps DEF Tick, UnknownBounded
<1>4. CallsFollow /\ AnswerFollows
  BY <1>1 DEF CallsFollow, AnswerFollows
<1>. QED  BY <1>1, <1>2, <1>3, <1>4, QuietStep

-------------------------------------------------------------------------------
(* The invariant.                                                          *)

LEMMA StartsWell == PurchasesInit => PurchasesInv
<1>. SUFFICES ASSUME PurchasesInit PROVE PurchasesInv
  OBVIOUS
<1>. USE DEF PurchasesInit, GateInit
<1>1. GateTypeOK
  BY GateAssumption DEF GateTypeOK, Entry, NoId
<1>2. now \in 0 .. Horizon /\ deaths \in 0 .. MaxDeaths
  BY PurchasesAssumption
<1>3. unknown \in [Nodes -> Seq(TtlEntry(Sales))] /\ UnknownBounded
  BY EmptyKeeps DEF UnknownBounded
<1>4. /\ table \in [Sales -> Windows \cup {NoSale}]
      /\ cache \in [Nodes -> [Sales -> Windows \cup {NoSale}]]
      /\ creating \subseteq Nodes \X Sales
      /\ call \in [Calls -> CallType \cup {NoCall}]
  OBVIOUS
<1>5. PurchasesTypeOK
  BY <1>1, <1>2, <1>3, <1>4 DEF PurchasesTypeOK
<1>6. CachedIsOnRecord /\ SoldInWindow /\ AnsweredTruly
  BY DEF CachedIsOnRecord, SoldInWindow, AnsweredTruly
<1>. QED  BY <1>3, <1>5, <1>6 DEF PurchasesInv

LEMMA StepKeeps == PurchasesInv /\ [PurchasesNext]_purchaseVars => PurchasesInv'
<1>. SUFFICES ASSUME PurchasesInv, [PurchasesNext]_purchaseVars PROVE PurchasesInv'
  OBVIOUS
<1>1. ASSUME NEW c \in Calls, NEW n \in Nodes, NEW s \in Sales, NEW b \in Buyers,
             LookUp(c, n, s, b)
      PROVE  PurchasesInv'
  BY <1>1, LookUpStep
<1>2. ASSUME NEW c \in Calls,
             \/ RowArrives(c) \/ QueryFails(c)
             \/ RunsScript(c) \/ Resends(c) \/ Answers(c)
      PROVE  PurchasesInv'
  BY <1>2, RowArrivesStep, QueryFailsStep, RunsScriptStep, ResendsStep, AnswersStep
<1>3. ASSUME NEW n \in Nodes, NEW s \in Sales, SaleLoaded(n, s) \/ Rehydrated(n, s)
      PROVE  PurchasesInv'
  <2>1. /\ cache' = [cache EXCEPT ![n][s] = table[s]]
        /\ creating' \subseteq creating
        /\ Silent /\ UNCHANGED <<now, table, unknown, call, made, deaths, gateVars>>
    BY <1>3 DEF SaleLoaded, Rehydrated, tableVars
  <2>. QED  BY <2>1, CachesRow
<1>4. ASSUME NEW n \in Nodes, NEW s \in Created, NEW x \in Windows, CreateSale(n, s, x)
      PROVE  PurchasesInv'
  BY <1>4, CreateSaleStep, PurchasesAssumption
<1>5. ASSUME NEW s \in Sales, Seeded(s) PROVE PurchasesInv'
  BY <1>5, SeededStep
<1>6. ASSUME NEW n \in Nodes, NodeRestarts(n) PROVE PurchasesInv'
  BY <1>6, NodeRestartsStep
<1>7. CASE Tick
  BY <1>7, TickStep
<1>8. CASE UNCHANGED purchaseVars
  <2>. USE <1>8 DEF purchaseVars, tableVars, nodeVars, gateVars
  <2>1. PurchasesTypeOK'
    BY DEF PurchasesInv, PurchasesTypeOK, GateTypeOK
  <2>2. UnknownBounded' /\ CachedIsOnRecord' /\ SoldInWindow'
    BY DEF PurchasesInv, UnknownBounded, CachedIsOnRecord, SoldInWindow
  <2>3. \A c \in Calls : (call[c] # NoCall => Backed(call[c]))'
    BY DEF PurchasesInv, Backed
  <2>4. AnsweredTruly'
    BY DEF PurchasesInv, AnsweredTruly, Truly
  <2>. QED  BY <2>1, <2>2, <2>3, <2>4 DEF PurchasesInv
<1>. QED  BY <1>1, <1>2, <1>3, <1>4, <1>5, <1>6, <1>7, <1>8 DEF PurchasesNext

\* The purchase path keeps its invariant: rows, cached and queried, are the table's; a
\* request past the window check was let in by its sale's own window; replies on their way
\* and answers given are true (sales.service.ts, purchases.service.ts, gate.ts).
THEOREM PurchasesInvHolds == PurchasesSpec => []PurchasesInv
BY StartsWell, StepKeeps, PTL DEF PurchasesSpec

\* The state of the nodes' caches, of requests on their way and of the Gate is well typed.
THEOREM PurchasesTypeCorrect == PurchasesSpec => []PurchasesTypeOK
<1>1. PurchasesInv => PurchasesTypeOK
  BY DEF PurchasesInv
<1>. QED  BY <1>1, PurchasesInvHolds, PTL

\* However many nodes create a sale with whatever windows, and whatever each has cached,
\* the Gate sells only to requests let in within the sale's one window
\* (purchases.service.ts:35-51, sales.service.ts:46-55).
THEOREM SellsInWindow == PurchasesSpec => []SoldInWindow
<1>1. PurchasesInv => SoldInWindow
  BY DEF PurchasesInv
<1>. QED  BY <1>1, PurchasesInvHolds, PTL

\* SUCCESS and ALREADY_PURCHASED name the buyer's one reservation, and SOLD_OUT is said
\* only to those who hold none, through lost replies and repeated commands (gate.ts).
THEOREM AnswersTruly == PurchasesSpec => []AnsweredTruly
<1>1. PurchasesInv => AnsweredTruly
  BY DEF PurchasesInv
<1>. QED  BY <1>1, PurchasesInvHolds, PTL

\* Whatever ids are asked for, the memory spent on unknown ones is bounded, and evictions
\* drop the entry nearest to its expiry (bounded-ttl-set.ts).
THEOREM UnknownStaysBounded == PurchasesSpec => []UnknownBounded
<1>1. PurchasesInv => UnknownBounded
  BY DEF PurchasesInv
<1>. QED  BY <1>1, PurchasesInvHolds, PTL

\* A cached sale is never answered with 404, but to a request whose query read the table
\* before the sale was there (sales.service.ts:64-82).
THEOREM LocalCreatesWin == PurchasesSpec => LocalCreateWins
<1>. DEFINE NotFoundTo(n, s) ==
         /\ cache[n][s] # NoSale /\ answer' # NoCall
         /\ answer'.node = n /\ answer'.sale = s /\ answer'.code = "NOT_FOUND"
       FoundNothing(c) == /\ call[c] # NoCall /\ call'[c] = NoCall
                          /\ call[c].at = "row" /\ call[c].found = NoSale
<1>1. ASSUME PurchasesInv, PurchasesNext,
             NEW n \in Nodes, NEW s \in Sales, NotFoundTo(n, s)
      PROVE  \E c \in Calls : FoundNothing(c)
  <2>. USE <1>1
  <2>1. ~Silent
    BY DEF Silent
  <2>2. ASSUME NEW c \in Calls, NEW m \in Nodes, NEW t \in Sales, NEW b \in Buyers,
               LookUp(c, m, t, b)
        PROVE  FALSE
    <3>1. CASE cache[m][t] # NoSale /\ CheckWindow(c, m, t, b, cache[m][t])
      <4>1. table[t] # NoSale /\ cache[m][t] = table[t]
        BY <3>1 DEF PurchasesInv, CachedIsOnRecord
      <4>2. UNCHANGED <<now, table>>
        BY <2>2 DEF LookUp, tableVars
      <4>. QED  BY <3>1, <4>1, <4>2, CheckWindowSound DEF PurchasesInv
    <3>2. CASE cache[m][t] = NoSale /\ answer' = Answer(m, t, b, "NOT_FOUND", NoId)
      <4>1. answer'.node = m /\ answer'.sale = t
        BY <3>2 DEF Answer
      <4>. QED  BY <3>2, <4>1
    <3>. QED  BY <2>1, <2>2, <3>1, <3>2 DEF LookUp
  <2>3. ASSUME NEW c \in Calls, RowArrives(c)
        PROVE  FoundNothing(c)
    <3>1. CASE call[c].found # NoSale
      <4>. DEFINE m == call[c].node  t == call[c].sale  b == call[c].buyer
      <4>1. /\ call[c] \in CallType /\ m \in Nodes /\ t \in Sales /\ b \in Buyers
            /\ table[t] # NoSale /\ call[c].found = table[t]
        BY <2>3, <3>1 DEF RowArrives, PurchasesInv, PurchasesTypeOK, CallType, Backed
      <4>2. CheckWindow(c, m, t, b, table[t]) /\ UNCHANGED <<now, table>>
        BY <2>3, <3>1, <4>1 DEF RowArrives, tableVars
      <4>. QED  BY <4>1, <4>2, CheckWindowSound DEF PurchasesInv
    <3>2. CASE call[c].found = NoSale
      <4>1. call[c] # NoCall /\ call[c].at = "row" /\ call' = [call EXCEPT ![c] = NoCall]
        BY <2>3, <3>2 DEF RowArrives, Frees
      <4>2. call'[c] = NoCall
        BY <4>1 DEF PurchasesInv, PurchasesTypeOK
      <4>. QED  BY <3>2, <4>1, <4>2
    <3>. QED  BY <3>1, <3>2
  <2>4. ASSUME NEW c \in Calls
        PROVE  ~QueryFails(c) /\ ~RunsScript(c) /\ ~Resends(c) /\ ~Answers(c)
    <3>1. ~RunsScript(c)
      BY <2>1, Zenon DEF RunsScript
    <3>. QED  BY <2>1, <3>1, AnswersStep DEF Resends, QueryFails
  <2>5. ASSUME NEW m \in Nodes, NEW t \in Sales
        PROVE  ~SaleLoaded(m, t) /\ ~Rehydrated(m, t) /\ \A x : ~CreateSale(m, t, x)
    BY <2>1 DEF SaleLoaded, Rehydrated, CreateSale
  <2>6. /\ \A t : ~Seeded(t)
        /\ \A m : ~NodeRestarts(m)
        /\ ~Tick
    BY <2>1 DEF Seeded, NodeRestarts, Tick
  <2>. HIDE DEF NotFoundTo, FoundNothing
  <2>. QED  BY <2>2, <2>3, <2>4, <2>5, <2>6, PurchasesAssumption DEF PurchasesNext
<1>2. ASSUME PurchasesInv, [PurchasesNext]_purchaseVars
      PROVE  [\A n \in Nodes, s \in Sales :
                cache[n][s] # NoSale /\ answer' # NoCall
                  /\ answer'.node = n /\ answer'.sale = s /\ answer'.code = "NOT_FOUND" =>
                \E c \in Calls : /\ call[c] # NoCall /\ call'[c] = NoCall
                                 /\ call[c].at = "row" /\ call[c].found = NoSale]_purchaseVars
  BY <1>1, <1>2
<1>. QED  BY <1>2, PurchasesInvHolds, PTL DEF PurchasesSpec, LocalCreateWins
===============================================================================
