-------------------------- MODULE MCBlockingQueue --------------------------
(* Small instances of the blocking queue for TLC: two producers and two    *)
(* consumers, of which one passes a deadline to pop_front.                 *)
EXTENDS BlockingQueue

CONSTANTS p1, p2, c1, c2

MCProducers == {p1, p2}
MCConsumers == {c1, c2}
MCTimed == {c1}
=============================================================================
