-------------------------------- MODULE Lease --------------------------------
(***************************************************************************)
(* What the row of cluster_state promises to whoever reads it: a lease     *)
(* with a holder, a term and a stamp.  It says nothing of the servers'     *)
(* loops, of their reads or of the order of their calls.                   *)
(*                                                                         *)
(*  - The holder changes only when the lease is vacant or has expired on   *)
(*    the fastest clock, and each change begins the next term.             *)
(*  - The stamp only moves forward and is never ahead of that clock.       *)
(*  - Once a call has failed (`faulty'), the terms may start again at 1.   *)
(***************************************************************************)
EXTENDS Integers

CONSTANTS
    Holder,         \* who may hold the lease
    Nobody,         \* a vacant lease
    Duration,       \* how long the lease outlives its stamp
    Drift           \* how far the fastest clock is ahead of the true time

VARIABLES
    now,            \* true time
    holder, term, stamp,
    faulty          \* some call has failed

vars == <<now, holder, term, stamp, faulty>>

Init ==
    /\ now = 0
    /\ holder = Nobody
    /\ term = 0
    /\ stamp = 0
    /\ faulty = FALSE

Expired == stamp + Duration < now + Drift

\* A new stamp.
Stamp ==
    /\ stamp' \in Int
    /\ stamp <= stamp'
    /\ stamp' <= now + Drift

\* The lease passes to h, who may have held it before; the call that did it
\* may have failed.
Take(h) ==
    /\ holder = Nobody \/ Expired
    /\ holder' = h
    /\ term' = term + 1 \/ (faulty /\ term' = 1)
    /\ Stamp
    /\ faulty' \in {faulty, TRUE}
    /\ UNCHANGED now

\* The holder goes on holding it.
Extend ==
    /\ holder # Nobody
    /\ Stamp
    /\ faulty' \in {faulty, TRUE}
    /\ UNCHANGED <<now, holder, term>>

Fail ==
    /\ faulty' = TRUE
    /\ UNCHANGED <<now, holder, term, stamp>>

AdvanceTime ==
    /\ now' = now + 1
    /\ UNCHANGED <<holder, term, stamp, faulty>>

Next == AdvanceTime \/ Fail \/ Extend \/ \E h \in Holder : Take(h)

Spec == Init /\ [][Next]_vars
=============================================================================
