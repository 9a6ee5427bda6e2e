-------------------------- MODULE ConnectionLimit --------------------------
(***************************************************************************)
(* What the slot counter of state.rs promises to the handlers, whatever    *)
(* the transport: a counting semaphore.  A session, or a handshake that is *)
(* going to become one, takes one of `Limit` slots, and only when one is   *)
(* free; slots are given back one at a time.  The promise is made while    *)
(* the bookkeeping is trusted, which a restart makes it again.             *)
(***************************************************************************)
EXTENDS Naturals

CONSTANT Limit

VARIABLES
    used,    \* slots of sessions and of handshakes on their way; 0 when untrusted
    trusted  \* the bookkeeping has not been disturbed since the start

Init == used = 0 /\ trusted = TRUE

Acquire ==
    /\ trusted
    /\ used < Limit
    /\ used' = used + 1
    /\ UNCHANGED trusted

Release ==
    /\ trusted
    /\ used > 0
    /\ used' = used - 1
    /\ UNCHANGED trusted

\* An entry was written without a slot, or the counter was overwritten.
LoseTrust ==
    /\ trusted
    /\ trusted' = FALSE
    /\ used' = 0

Restart == used' = 0 /\ trusted' = TRUE

Next == Acquire \/ Release \/ LoseTrust \/ Restart

Spec == Init /\ [][Next]_<<used, trusted>>
=============================================================================
