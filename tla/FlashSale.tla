------------------------------- MODULE FlashSale ------------------------------
(***************************************************************************)
(* What the system promises, with no Redis, no stream and no worker in it: *)
(* a sale hands out at most its stock of reservations, at most one to a    *)
(* buyer, never takes one back, and the record only ever lists handed-out  *)
(* reservations, under the id they were handed out with.                   *)
(***************************************************************************)
EXTENDS Naturals, FiniteSets

CONSTANTS InitialStock, PriorRows

VARIABLES
    reserved,  \* reservations handed out
    recorded   \* those on record

-------------------------------------------------------------------------------
SoldOf(s) == {r \in reserved : r.sale = s}

Init ==
    /\ reserved = PriorRows
    /\ recorded = PriorRows

\* One new reservation, to a buyer without one, while stock lasts.
HandOut ==
    /\ \E e \in reserved' \ reserved :
         /\ reserved' = reserved \cup {e}
         /\ \A r \in SoldOf(e.sale) : r.buyer # e.buyer
         /\ Cardinality(SoldOf(e.sale)) < InitialStock[e.sale]
    /\ UNCHANGED recorded

Record(e) ==
    /\ e \in reserved \ recorded
    /\ recorded' = recorded \cup {e}
    /\ UNCHANGED reserved

Next == HandOut \/ \E e \in reserved : Record(e)

Spec == Init /\ [][Next]_<<reserved, recorded>>
===============================================================================
