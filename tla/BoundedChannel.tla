--------------------------- MODULE BoundedChannel ---------------------------
(***************************************************************************)
(* What otl::BlockingQueue promises its users, with no locks, condition    *)
(* variables or waiting in it: a channel that senders fill one item at a   *)
(* time, that a receiver empties from the front, whole batches at once,    *)
(* that sheds every second item when it is full and shedding is on, and    *)
(* that stops bounding and batching once it is closed.                     *)
(***************************************************************************)
EXTENDS Integers, Sequences, SequencesExt

CONSTANTS
    Producers,   \* the threads that send
    Limit,       \* the capacity; 0 for none
    DropFn,      \* TRUE when a full channel sheds items instead of blocking
    MinNum,      \* a receiver of an open channel waits for so many items...
    MaxNum       \* ... and takes at most so many

(* What a channel is made with; users of this module establish it.         *)
ChannelAssumption ==
    /\ Limit \in Nat
    /\ DropFn \in BOOLEAN
    /\ MinNum \in Nat \ {0}
    /\ MaxNum \in Nat \ {0}

VARIABLES
    chan,        \* the items in the channel, oldest first
    closed,      \* the channel was closed
    sent,        \* sent[p]: how many items of p entered the channel
    delivered,   \* every item received so far, in the order of reception
    evicted      \* the items that were shed or discarded

cvars == <<chan, closed, sent, delivered, evicted>>

(* The k-th item a producer sends is told apart from every other item.     *)
Item == [from : Producers, num : Nat \ {0}]
NextItem(p) == [from |-> p, num |-> sent[p] + 1]

CInit ==
    /\ chan = <<>>
    /\ closed = FALSE
    /\ sent = [p \in Producers |-> 0]
    /\ delivered = <<>>
    /\ evicted = {}

Bounded == Limit > 0 /\ ~closed

(* Shedding spares the oldest of n items and, of any two neighbours, one:  *)
(* the places that are spared, in their order, are half of all places.     *)
Spared(at, n) ==
    /\ 2 * Len(at) \in {n, n + 1}
    /\ \A i, j \in 1 .. Len(at) : i < j => at[i] < at[j]
    /\ n > 0 => 1 \in Range(at)
    /\ \A k \in 1 .. n - 1 : k \in Range(at) <=> k + 1 \notin Range(at)

(* An item enters a channel that has room for it, or has no bound.         *)
Send(p) ==
    /\ Bounded => Len(chan) < Limit
    /\ chan' = Append(chan, NextItem(p))
    /\ sent' = [sent EXCEPT ![p] = @ + 1]
    /\ UNCHANGED <<closed, delivered, evicted>>

(* An item enters a full channel that first sheds every second item.       *)
SendShedding(p) ==
    /\ DropFn /\ Bounded /\ Len(chan) >= Limit
    /\ \E n \in 0 .. Len(chan) : \E at \in [1 .. n -> 1 .. Len(chan)] :
          /\ Spared(at, Len(chan))
          /\ chan' = Append([i \in 1 .. n |-> chan[at[i]]], NextItem(p))
          /\ evicted' = evicted \cup {chan[k] : k \in 1 .. Len(chan) \ Range(at)}
    /\ sent' = [sent EXCEPT ![p] = @ + 1]
    /\ UNCHANGED <<closed, delivered>>

(* A receiver takes the oldest items: a full batch, or what is left of it  *)
(* once the channel is closed.                                             *)
Receive ==
    \E n \in 1 .. Len(chan) :
        /\ n <= MaxNum
        /\ closed \/ (Len(chan) >= MinNum /\ (n >= MinNum \/ n = MaxNum))
        /\ delivered' = delivered \o SubSeq(chan, 1, n)
        /\ chan' = SubSeq(chan, n + 1, Len(chan))
        /\ UNCHANGED <<closed, sent, evicted>>

(* The oldest items are thrown away.                                       *)
Discard ==
    \E n \in 1 .. Len(chan) :
        /\ evicted' = evicted \cup {chan[i] : i \in 1 .. n}
        /\ chan' = SubSeq(chan, n + 1, Len(chan))
        /\ UNCHANGED <<closed, sent, delivered>>

Close ==
    /\ closed' = TRUE
    /\ UNCHANGED <<chan, sent, delivered, evicted>>

CNext ==
    \/ \E p \in Producers : Send(p) \/ SendShedding(p)
    \/ Receive
    \/ Discard
    \/ Close

CSpec == CInit /\ [][CNext]_cvars
-----------------------------------------------------------------------------
(* The history of the channel: what was received, then what waits.         *)
History == delivered \o chan

(* Between any two items of one producer, the one sent first is received   *)
(* first (and no item is received twice), whatever was shed in between.    *)
Ordered(items) ==
    \A i, j \in 1 .. Len(items) :
        (i < j /\ items[i].from = items[j].from) => items[i].num < items[j].num

Fifo == Ordered(History)

(* Every item sent is in the channel, was received or was evicted, and     *)
(* never two of these: nothing vanishes, nothing appears from nowhere.     *)
Sent == UNION {{[from |-> p, num |-> k] : k \in 1 .. sent[p]} : p \in Producers}

Conserved ==
    /\ ToSet(History) \cup evicted = Sent
    /\ ToSet(History) \cap evicted = {}

(* An open, bounded channel never holds more than its bound. Shedding is   *)
(* the exception when the bound is 1: half of one item is one item, so the *)
(* new item is the second.                                                 *)
Capacity ==
    Bounded => \/ Len(chan) <= Limit
               \/ DropFn /\ Len(chan) <= 2
=============================================================================
