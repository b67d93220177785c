---------------------------- MODULE LedgerStore -----------------------------
(***************************************************************************)
(* The promise of the ledger's store: a call reads the ledger, computes    *)
(* and replaces it as if in one step.  The time a call looks at may lie in *)
(* the past when its effect appears, because writing the file takes time.  *)
(* What a call may do to the ledger is a parameter of the promise.         *)
(***************************************************************************)
EXTENDS Naturals

CONSTANTS
    Holder,                 \* workers
    EmptyLedger,            \* the ledger without tasks
    NoTickets,              \* the tickets of a worker that has none
    Outcomes(_, _, _, _),   \* what a call may lead to: new ledgers and tickets
    MaxClock                \* bound on the clock

VARIABLES
    ledger,         \* the stored value
    clock,          \* seconds
    tickets         \* tickets[h][t]: the last lease h was given on t

vars == <<ledger, clock, tickets>>

Init ==
    /\ ledger = EmptyLedger
    /\ clock = 0
    /\ tickets = [h \in Holder |-> NoTickets]

Call(h) ==
    \E now \in 0..clock : \E o \in Outcomes(ledger, h, tickets[h], now) :
        /\ ledger' = o.ledger
        /\ tickets' = [tickets EXCEPT ![h] = o.tickets]
        /\ UNCHANGED clock

Tick ==
    /\ clock < MaxClock
    /\ clock' = clock + 1
    /\ UNCHANGED <<ledger, tickets>>

Forget(h) ==
    /\ tickets' = [tickets EXCEPT ![h] = NoTickets]
    /\ UNCHANGED <<ledger, clock>>

Next ==
    \/ \E h \in Holder : Call(h) \/ Forget(h)
    \/ Tick

Spec == Init /\ [][Next]_vars
=============================================================================
