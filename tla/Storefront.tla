------------------------------ MODULE Storefront ------------------------------
(***************************************************************************)
(* One tab of the storefront (apps/web): the status it polls, the button,  *)
(* the purchase in flight and the banner; and what GET /sales/:id/status   *)
(* and POST /sales/:id/purchases do for it.                                *)
(*                                                                         *)
(* Tabs meet at the Gate only, so the others appear as purchases there.    *)
(* Fetching is react-query's: polls do not overlap, a refetch cancels the  *)
(* fetch in flight and starts anew, a failed fetch keeps the data.         *)
(***************************************************************************)
EXTENDS Gate

CONSTANTS
    Sale,       \* SALE_ID
    StartsAt, EndsAt,
    Horizon,    \* bound of the clock
    MaxPresses, \* bound on presses of the button
    Blank,      \* nothing but white space in the field
    NoData,     \* no status has arrived yet
    NoOutcome   \* no banner

ASSUME StorefrontAssumption ==
    /\ Sale \in Sales
    /\ StartsAt \in Nat /\ EndsAt \in Nat /\ StartsAt < EndsAt
    /\ Horizon \in Nat /\ MaxPresses \in Nat
    /\ Blank \notin Buyers

VARIABLES
    now,      \* the clock
    field,    \* the identifier in the field, trimmed
    shown,    \* the status the tab shows (status.data)
    asks,     \* status requests in flight; only a live one's answer is used
    tries,    \* purchases in flight; only a heard one's answer reaches the tab
    presses,  \* presses of the button so far
    banner,   \* lastOutcome
    told      \* history: the least stock the tab has been told of

tabVars == <<field, shown, asks, tries, presses, banner, told>>
storefrontVars == <<gateVars, now, tabVars>>

Unit == InitialStock[Sale]
Lower(m, n) == IF m < n THEN m ELSE n

StatusData == [status : {"UPCOMING", "ACTIVE", "ENDED", "SOLD_OUT"},
               remaining : 0 .. Unit \cup {NotSeeded}]
Asks == [live : BOOLEAN, at : {"sent", "read", "answered"},
         status : {"UPCOMING", "ACTIVE", "ENDED", "SOLD_OUT"},
         remaining : 0 .. Unit \cup {NotSeeded}]
Outcomes == {"SUCCESS", "ALREADY_PURCHASED", "SOLD_OUT", "NOT_READY",
             "NOT_ACTIVE_UPCOMING", "NOT_ACTIVE_ENDED", NoOutcome}
Tries == [buyer : Buyers, at : {"sent", "gate", "done"}, outcome : Outcomes,
          left : 0 .. Unit, heard : BOOLEAN]

-------------------------------------------------------------------------------
(* The API.                                                                *)

StatusOf ==
    IF now < StartsAt THEN "UPCOMING"
    ELSE IF now >= EndsAt THEN "ENDED"
    ELSE "ACTIVE"

\* A slip: null counts as zero.
DisplayStatusOfNull(remaining) ==
    IF StatusOf = "ACTIVE" /\ remaining \in {0, NotSeeded} THEN "SOLD_OUT" ELSE StatusOf

DisplayStatusOf(remaining) ==
    IF StatusOf = "ACTIVE" /\ remaining = 0 THEN "SOLD_OUT" ELSE StatusOf

\* GET status: the await of the stock key, ...
ReadsRemaining(a) ==
    /\ a.at = "sent"
    /\ asks' = (asks \ {a}) \cup {[a EXCEPT !.at = "read", !.remaining = stock[Sale]]}
    /\ UNCHANGED <<gateVars, now, field, shown, tries, presses, banner, told>>

\* ... and the status, by the clock as it is then. The answer is on its way to the tab.
AnswersStatus(a) ==
    /\ a.at = "read"
    /\ asks' = (asks \ {a}) \cup
                 {[a EXCEPT !.at = "answered", !.status = DisplayStatusOf(a.remaining)]}
    /\ UNCHANGED <<gateVars, now, field, shown, tries, presses, banner, told>>

Advance(p, q) == tries' = (tries \ {p}) \cup {q}

\* POST purchases: outside of the window it is answered without the Gate.
ChecksWindow(p) ==
    /\ p.at = "sent"
    /\ Advance(p, CASE StatusOf = "UPCOMING" ->
                         [p EXCEPT !.at = "done", !.outcome = "NOT_ACTIVE_UPCOMING"]
                    [] StatusOf = "ENDED" ->
                         [p EXCEPT !.at = "done", !.outcome = "NOT_ACTIVE_ENDED"]
                    [] OTHER -> [p EXCEPT !.at = "gate"])
    /\ UNCHANGED <<gateVars, now, field, shown, asks, presses, banner, told>>

\* An error of the API (400, 404, 500) has a JSON body without an outcome.
AnswersError(p) ==
    /\ p.at = "sent"
    /\ Advance(p, [p EXCEPT !.at = "done"])
    /\ UNCHANGED <<gateVars, now, field, shown, asks, presses, banner, told>>

RunsScript(p) ==
    /\ p.at = "gate"
    /\ LET code == GateCode(Sale, p.buyer)
           done == [p EXCEPT !.at = "done", !.outcome = code]
       IN  CASE code = "SUCCESS" ->
                  /\ \E i \in NewIds(Sale) : Reserve(Sale, p.buyer, i)
                  /\ Advance(p, [done EXCEPT !.left = stock[Sale] - 1])
             [] code = "SOLD_OUT" ->
                  /\ Advance(p, [done EXCEPT !.left = 0])
                  /\ UNCHANGED gateVars
             [] OTHER ->
                  /\ Advance(p, done)
                  /\ UNCHANGED gateVars
    /\ UNCHANGED <<now, field, shown, asks, presses, banner, told>>

\* Another tab's purchase, let through by its window check.
OthersBuy(b) ==
    /\ now >= StartsAt
    /\ GateCode(Sale, b) = "SUCCESS"
    /\ \E i \in NewIds(Sale) : Reserve(Sale, b, i)
    /\ UNCHANGED <<now, tabVars>>

\* A node seeds the sale.
GetsSeeded ==
    /\ stock[Sale] = NotSeeded
    /\ SetStock(Sale, Unit)
    /\ UNCHANGED <<buyers, stream, lastId, clock, now, tabVars>>

Tick ==
    /\ now < Horizon
    /\ now' = now + 1
    /\ UNCHANGED <<gateVars, tabVars>>

-------------------------------------------------------------------------------
(* The tab.                                                                *)

IsBuying == \E p \in tries : p.heard

\* Why the button is locked, in the order of the tests; "" when it is not.
ReasonPurchaseUnavailable ==
    IF IsBuying THEN "Securing your reservation"
    ELSE IF shown = NoData THEN "Loading sale"
    ELSE IF field = Blank THEN "Enter an identifier to buy"
    ELSE IF shown.status = "UPCOMING" THEN "The sale hasn't started yet"
    ELSE IF shown.status = "ENDED" THEN "This sale has ended"
    ELSE IF shown.remaining \in {0, NotSeeded} THEN "Sold out"
    ELSE ""

NewAsk == [live |-> TRUE, at |-> "sent", status |-> "UPCOMING", remaining |-> NotSeeded]

\* A slip: a tab that shows "Sold out" has nothing to wait for.
PollsWhileOpen ==
    /\ ~\E a \in asks : a.live
    /\ ReasonPurchaseUnavailable # "Sold out"
    /\ asks' = asks \cup {NewAsk}
    /\ UNCHANGED <<gateVars, now, field, shown, tries, presses, banner, told>>

\* The first fetch, and refetchInterval, which waits for a fetch in flight.
Polls ==
    /\ ~\E a \in asks : a.live
    /\ asks' = asks \cup {NewAsk}
    /\ UNCHANGED <<gateVars, now, field, shown, tries, presses, banner, told>>

\* A slip: whichever answer arrives is shown.
ArrivesAnyway(a) ==
    /\ a.at = "answered"
    /\ asks' = asks \ {a}
    /\ shown' = [status |-> a.status, remaining |-> a.remaining]
    /\ told' = IF a.remaining = NotSeeded THEN told ELSE Lower(told, a.remaining)
    /\ UNCHANGED <<gateVars, now, field, tries, presses, banner>>

\* The status arrives; the answer to a cancelled request is thrown away.
Arrives(a) ==
    /\ a.at = "answered"
    /\ asks' = asks \ {a}
    /\ IF a.live
       THEN /\ shown' = [status |-> a.status, remaining |-> a.remaining]
            /\ told' = IF a.remaining = NotSeeded THEN told ELSE Lower(told, a.remaining)
       ELSE UNCHANGED <<shown, told>>
    /\ UNCHANGED <<gateVars, now, field, tries, presses, banner>>

\* No answer, or one that is not ok: the data stays as it is.
AskFails(a) ==
    /\ asks' = asks \ {a}
    /\ UNCHANGED <<gateVars, now, field, shown, tries, presses, banner, told>>

\* A slip: the field stays editable during a purchase.
TypesAnytime(b) ==
    /\ shown # NoData
    /\ field' = b
    /\ UNCHANGED <<gateVars, now, shown, asks, tries, presses, banner, told>>

\* The field is there once there is data, and disabled during a purchase.
Types(b) ==
    /\ shown # NoData /\ ~IsBuying
    /\ field' = b
    /\ UNCHANGED <<gateVars, now, shown, asks, tries, presses, banner, told>>

Presses ==
    /\ presses < MaxPresses
    /\ ReasonPurchaseUnavailable = ""
    /\ tries' = tries \cup {[buyer |-> field, at |-> "sent", outcome |-> NoOutcome,
                             left |-> Unit, heard |-> TRUE]}
    /\ presses' = presses + 1
    /\ UNCHANGED <<gateVars, now, field, shown, asks, banner, told>>

\* A slip: the refetch after a purchase joins a poll in flight.
RefetchJoins ==
    asks' = IF \E a \in asks : a.live THEN asks ELSE asks \cup {NewAsk}

\* A slip: the refetch leaves a poll in flight alone.
RefetchBesides == asks' = asks \cup {NewAsk}

\* status.refetch(): cancel what is in flight, ask again.
Refetch == asks' = {[a EXCEPT !.live = FALSE] : a \in asks} \cup {NewAsk}

\* onSuccess, for any JSON body: set the outcome, fetch the status anew.
Succeeds(p) ==
    /\ p.at = "done" /\ p.heard
    /\ tries' = tries \ {p}
    /\ banner' = p.outcome
    /\ told' = Lower(told, p.left)
    /\ Refetch
    /\ UNCHANGED <<gateVars, now, field, shown, presses>>

\* The connection breaks: the mutation fails, the banner stays; the API may go on.
Fails(p) ==
    /\ p.heard
    /\ Advance(p, [p EXCEPT !.heard = FALSE])
    /\ UNCHANGED <<gateVars, now, field, shown, asks, presses, banner, told>>

\* A request nobody waits for gets lost or is answered to nobody.
Vanishes(p) ==
    /\ ~p.heard
    /\ tries' = tries \ {p}
    /\ UNCHANGED <<gateVars, now, field, shown, asks, presses, banner, told>>

-------------------------------------------------------------------------------
StorefrontInit ==
    /\ GateInit /\ clock = 0
    /\ now = 0
    /\ field = Blank /\ shown = NoData
    /\ asks = {} /\ tries = {} /\ presses = 0
    /\ banner = NoOutcome
    /\ told = Unit

StorefrontNext ==
    \/ Polls \/ Presses \/ GetsSeeded \/ Tick
    \/ \E a \in asks : ReadsRemaining(a) \/ AnswersStatus(a) \/ Arrives(a) \/ AskFails(a)
    \/ \E p \in tries :
         \/ ChecksWindow(p) \/ AnswersError(p) \/ RunsScript(p)
         \/ Succeeds(p) \/ Fails(p) \/ Vanishes(p)
    \/ \E b \in Buyers \cup {Blank} : Types(b)
    \/ \E b \in Buyers : OthersBuy(b)

StorefrontSpec == StorefrontInit /\ [][StorefrontNext]_storefrontVars

\* The tab polls for as long as it is open, and not every request of it fails.
FairStorefrontSpec ==
    /\ StorefrontSpec
    /\ WF_storefrontVars(Polls)
    /\ SF_storefrontVars(\E a \in asks : a.live /\ ReadsRemaining(a))
    /\ SF_storefrontVars(\E a \in asks : a.live /\ AnswersStatus(a))
    /\ SF_storefrontVars(\E a \in asks : a.live /\ Arrives(a))

-------------------------------------------------------------------------------
StorefrontTypeOK ==
    /\ GateTypeOK
    /\ now \in 0 .. Horizon
    /\ field \in Buyers \cup {Blank}
    /\ shown \in StatusData \cup {NoData}
    /\ asks \subseteq Asks
    /\ tries \subseteq Tries
    /\ presses \in 0 .. MaxPresses
    /\ banner \in Outcomes
    /\ told \in 0 .. Unit
    /\ \A a, b \in asks : a.live /\ b.live => a = b
    /\ \A p, q \in tries : p.heard /\ q.heard => p = q

\* The badge says SOLD_OUT only of a sale without a unit left, never of one that has not been
\* seeded, although status and stock are read one after the other.
SoldOutIsTrue ==
    shown # NoData /\ shown.status = "SOLD_OUT" => stock[Sale] = 0

\* Polls, refetches and late answers do not show stock that comes back: the meter only falls,
\* and a number is never replaced by "unknown".
MeterNeverRises ==
    [][shown # NoData /\ shown.remaining # NotSeeded =>
         shown'.remaining # NotSeeded /\ shown'.remaining <= shown.remaining]_storefrontVars

\* What is fetched after a purchase reflects it: no status arrives that knows less than the
\* answer to the tab's own purchase did.
RefetchSeesPurchase ==
    [][shown' # shown /\ told < Unit =>
         shown'.remaining # NotSeeded /\ shown'.remaining <= told]_storefrontVars

\* An outcome appears under the identifier it is about, however long the purchase took.
OutcomeMeetsField ==
    [][\A p \in tries : Succeeds(p) => p.buyer = field]_storefrontVars

\* While a sale is not seeded the button says "Sold out", and after the seed it does not stay
\* that way: the tab finds the units that are left.
FindsStock ==
    ReasonPurchaseUnavailable = "Sold out" /\ stock[Sale] \in Nat \ {0}
        ~> ReasonPurchaseUnavailable # "Sold out" \/ stock[Sale] = 0

\* m is known of the stock when n is all that is left.
KnownUpTo(n, m) == m \in Nat => n \in Nat /\ n <= m

\* What a request has read is no less than what is in stock, and the status it is answered
\* with agrees with it.
ReadTruly(a) ==
    a.at # "sent" =>
      /\ KnownUpTo(stock[Sale], a.remaining)
      /\ a.at = "answered" /\ a.status = "SOLD_OUT" => a.remaining = 0

\* The order behind it all: what is in stock, what a live request has read, and what the tab
\* has been shown and told, each at most the next.
TabInv ==
    /\ StorefrontTypeOK
    /\ stock[Sale] \in 0 .. Unit \cup {NotSeeded}
    /\ told < Unit => KnownUpTo(stock[Sale], told)
    /\ \A p \in tries : p.left < Unit => KnownUpTo(stock[Sale], p.left)
    /\ \A p \in tries : p.heard => p.buyer = field
    /\ shown # NoData => KnownUpTo(stock[Sale], shown.remaining) /\ SoldOutIsTrue
    /\ \A a \in asks : ReadTruly(a)
    /\ \A a \in asks : a.at # "sent" =>
         /\ a.live /\ shown # NoData => KnownUpTo(a.remaining, shown.remaining)
         /\ a.live /\ told < Unit => KnownUpTo(a.remaining, told)
===============================================================================
