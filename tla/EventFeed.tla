----------------------------- MODULE EventFeed -----------------------------
(***************************************************************************)
(* What webhook.rs promises to an endpoint: a lossy FIFO feed.  An event   *)
(* that finds the feed full is dropped; one that is accepted is attempted  *)
(* before every later one and eventually settled; an attempt may reach the *)
(* endpoint or not, and may be repeated.  A crash forgets what is pending. *)
(***************************************************************************)
EXTENDS Naturals, Sequences

CONSTANTS Events, Room

VARIABLES
    pending,  \* events accepted and not settled, oldest first
    log       \* what the endpoint has received, in order

Init == pending = << >> /\ log = << >>

Accept(e) ==
    /\ Len(pending) <= Room
    /\ pending' = Append(pending, e)
    /\ UNCHANGED log

\* The endpoint receives the oldest event or misses it.
Try == log' \in {log, Append(log, Head(pending))}

Attempt ==
    /\ pending # << >>
    /\ Try
    /\ UNCHANGED pending

\* The last attempt of the oldest event.
Settle ==
    /\ pending # << >>
    /\ Try
    /\ pending' = Tail(pending)

Crash == pending' = << >> /\ UNCHANGED log

Next ==
    \/ \E e \in Events : Accept(e)
    \/ Attempt
    \/ Settle
    \/ Crash

Spec == Init /\ [][Next]_<<pending, log>> /\ WF_<<pending, log>>(Settle)
=============================================================================
