-------------------------- MODULE MCSheddingQueue --------------------------
(* Queues that shed, for TLC: one of each limit up to Limit, so that they  *)
(* are full with an odd and with an even number of items, and with one.    *)
EXTENDS BlockingQueue

CONSTANTS p1, p2, c1, c2

MCProducers == {p1, p2}
MCConsumers == {c1, c2}
MCTimed == {c1}

VARIABLE m_limit    \* the limit this queue was made with

Queue(l) == INSTANCE BlockingQueue WITH Limit <- l

SheddingInit ==
    \E l \in 1 .. Limit : m_limit = l /\ Queue(l)!Init

SheddingNext ==
    /\ \E l \in 1 .. Limit : m_limit = l /\ Queue(l)!Next
    /\ m_limit' = m_limit

SheddingSpec == SheddingInit /\ [][SheddingNext]_<<vars, m_limit>>

(* A queue that sheds does what the channel of its limit does: the oldest  *)
(* item and every second one after it stay, in their order, the others     *)
(* reach the drop function, and the new item is the youngest. So items of  *)
(* a producer are never swapped, none is lost without being evicted, and   *)
(* the limit is kept but for a limit of one.                               *)
KeepsItsPromise(l) == Queue(l)!Fifo /\ Queue(l)!Conserved /\ Queue(l)!Capacity

ShedsAsPromised ==
    /\ \E l \in 1 .. Limit : m_limit = l /\ Queue(l)!Channel!CInit
    /\ [][\E l \in 1 .. Limit : m_limit = l /\ Queue(l)!Channel!CNext]_
            <<queue, m_stop, sent, delivered, evicted>>
    /\ [](\E l \in 1 .. Limit : m_limit = l /\ KeepsItsPromise(l))
=============================================================================
