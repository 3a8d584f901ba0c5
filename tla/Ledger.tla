-------------------------------- MODULE Ledger --------------------------------
(***************************************************************************)
(* The Ledger: the two Postgres tables, and whether Postgres answers.      *)
(* `created' is the sales table (db/sale-table.ts), `ledger' the           *)
(* reservations table (db/reservation-table.ts).                           *)
(***************************************************************************)
EXTENDS Gate

CONSTANTS
    PriorRows,   \* rows an earlier life of the system left behind
    PriorClock   \* no id up to now is later than this

\* What an earlier life can have left: the table's own keys hold, and stock was respected.
ASSUME LedgerAssumption ==
    /\ PriorRows \subseteq Entry /\ IsFiniteSet(PriorRows)
    /\ PriorClock \in Nat
    /\ \A q, r \in PriorRows :
         (q.id = r.id \/ (q.sale = r.sale /\ q.buyer = r.buyer)) => q = r
    /\ \A r \in PriorRows : r.id <= PriorClock
    /\ \A s \in Sales : Cardinality({r \in PriorRows : r.sale = s}) <= InitialStock[s]

VARIABLES
    created,  \* sales with a row in the sales table
    ledger,   \* rows of the reservations table
    pgUp      \* Postgres answers

ledgerVars == <<created, ledger, pgUp>>

-------------------------------------------------------------------------------
Rows(s) == {r \in ledger : r.sale = s}

\* A key of the table the new row would repeat: PRIMARY KEY (id), which does not name the
\* sale, or UNIQUE (sale_id, buyer_id).
Conflicts(e) == {r \in ledger : r.id = e.id \/ (r.sale = e.sale /\ r.buyer = e.buyer)}

\* INSERT ... ON CONFLICT DO NOTHING.
InsertRow(e) == ledger' = IF Conflicts(e) = {} THEN ledger \cup {e} ELSE ledger

PostgresStops ==
    /\ pgUp
    /\ pgUp' = FALSE
    /\ UNCHANGED <<created, ledger>>

PostgresReturns ==
    /\ ~pgUp
    /\ pgUp' = TRUE
    /\ UNCHANGED <<created, ledger>>

LedgerInit ==
    /\ created = {r.sale : r \in PriorRows}
    /\ ledger = PriorRows
    /\ pgUp = TRUE
    /\ clock = PriorClock

LedgerTypeOK ==
    /\ created \subseteq Sales
    /\ ledger \subseteq Entry /\ IsFiniteSet(ledger)
    /\ pgUp \in BOOLEAN
===============================================================================
