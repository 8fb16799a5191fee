---------------------------- MODULE BlockingQueue ----------------------------
(***************************************************************************)
(* otl::BlockingQueue<T> (otl_thread_queue.h): a queue guarded by one      *)
(* pthread mutex, with a condition variable for producers that wait for    *)
(* room (m_push_condv) and one for consumers that wait for a batch         *)
(* (m_pop_condv).                                                          *)
(*                                                                         *)
(* A call that runs from lock to unlock without waiting is one step. The   *)
(* batch push holds the mutex over several items and may wait between any  *)
(* two of them, so it takes one step per item and "lock" names it as the   *)
(* holder. pop_front reads m_stop once more after it has unlocked, and     *)
(* that read is a step of its own.                                         *)
(***************************************************************************)
EXTENDS Integers, Sequences, FiniteSets, SequencesExt

CONSTANTS
    Producers, Consumers,  \* the threads that push, the threads that pop
    Limit,                 \* m_limit; 0 for no limit
    DropFn,                \* TRUE when set_drop_fn was given a function
    MinNum, MaxNum,        \* min_num and max_num of every pop_front
    Timed,                 \* the consumers that pass a wait_ms other than 0
    MaxBatch,              \* bound: the longest vector pushed at once
    MaxItems,              \* bound: the items a producer hands over in all
    DropNums,              \* the arguments given to drop(num)
    NoThread               \* nobody holds the mutex between two steps

ASSUME QueueAssumption ==
    /\ IsFiniteSet(Consumers)
    /\ Limit \in Nat
    /\ DropFn \in BOOLEAN
    /\ MinNum \in Nat \ {0}
    /\ MaxNum \in Nat \ {0}
    /\ Timed \subseteq Consumers
    /\ MaxBatch \in Nat \ {0}
    /\ MaxItems \in Nat
    /\ DropNums \subseteq Nat
    /\ NoThread \notin Producers

VARIABLES
    queue,      \* m_queue (m_type 0) or m_vec (m_type 1), oldest item first
    m_stop,
    lock,       \* the producer that holds m_qmtx between two steps
    push,       \* push[p]: the push call of p, and what is left of it
    pop,        \* pop[c]: the pop_front call of c, and its result
    sent,       \* sent[p]: how many items of p entered the queue
    delivered,  \* the items pop_front moved out, in that order
    evicted     \* the items given to m_drop_fn or discarded by drop(num)

vars == <<queue, m_stop, lock, push, pop, sent, delivered, evicted>>

Item == [from : Producers, num : Nat \ {0}]
NextItem(p) == [from |-> p, num |-> sent[p] + 1]

(* A producer is out of the queue, competes for the mutex or holds it      *)
(* ("running"), or is blocked on m_push_condv ("waiting").                 *)
PushCall == [pc : {"out", "running", "waiting"},
             many : BOOLEAN,      \* push(vector) rather than push(T)
             left : Nat]          \* the items of the argument not yet moved

(* A consumer is out of the queue, competes for the mutex ("running"), is  *)
(* blocked on m_pop_condv ("waiting"), was told its time is up             *)
(* ("expired"), or has unlocked and not yet read m_stop ("unlocked").      *)
PopCall == [pc : {"out", "running", "waiting", "expired", "unlocked"},
            is_timeout : BOOLEAN,
            ret : {0, -1},
            objs : Seq(Item)]

Init ==
    /\ queue = <<>>
    /\ m_stop = FALSE
    /\ lock = NoThread
    /\ push = [p \in Producers |-> [pc |-> "out", many |-> FALSE, left |-> 0]]
    /\ pop = [c \in Consumers |->
                [pc |-> "out", is_timeout |-> FALSE, ret |-> 0, objs |-> <<>>]]
    /\ sent = [p \in Producers |-> 0]
    /\ delivered = <<>>
    /\ evicted = {}

LockFree(t) == lock \in {NoThread, t}

PushWaiters == {p \in Producers : push[p].pc = "waiting"}
PopWaiters == {c \in Consumers : pop[c].pc = "waiting"}

(* pthread_cond_broadcast: every waiter goes back to compete for the mutex.*)
WakeAll(calls) ==
    [t \in DOMAIN calls |->
        IF calls[t].pc = "waiting" THEN [calls[t] EXCEPT !.pc = "running"]
                                   ELSE calls[t]]

(* Definitions marked "Variant" are what a plausible slip would make of the *)
(* definition after them; no specification uses one. Variant: the signal   *)
(* of push(vector) is left out.                                            *)
WakeOne_NoSignal(calls, waiters) == {calls}

(* pthread_cond_signal: one waiter, whichever, when there is one.          *)
WakeOne(calls, waiters) ==
    IF waiters = {} THEN {calls}
    ELSE {[calls EXCEPT ![t].pc = "running"] : t \in waiters}
-----------------------------------------------------------------------------
(* push(T&) and push(std::vector<T>&).                                     *)

CallPush(p) ==
    /\ push[p].pc = "out"
    /\ \E many \in BOOLEAN, n \in 1 .. MaxBatch :
        /\ ~many => n = 1
        /\ sent[p] + n <= MaxItems
        /\ push' = [push EXCEPT ![p] = [pc |-> "running", many |-> many, left |-> n]]
    /\ UNCHANGED <<queue, m_stop, lock, pop, sent, delivered, evicted>>

(* Variant: the limit is tested off by one.                                *)
Full_OffByOne == Limit > 0 /\ Len(queue) > Limit /\ ~m_stop

Full == Limit > 0 /\ Len(queue) >= Limit /\ ~m_stop

(* wait_and_push_one on a full queue with no drop function: wait, and      *)
(* release the mutex while waiting. A woken producer tests Full again.     *)
PushWait(p) ==
    /\ push[p].pc = "running" /\ LockFree(p)
    /\ Full /\ ~DropFn
    /\ push' = [push EXCEPT ![p].pc = "waiting"]
    /\ lock' = NoThread
    /\ UNCHANGED <<queue, m_stop, pop, sent, delivered, evicted>>

(* Variant: the odd indices are kept.                                      *)
KeptHalf_Odd(s) == [i \in 1 .. (Len(s) \div 2) |-> s[2 * i]]

(* drop_half_ keeps the items at the even indices 0, 2, 4, ... and hands   *)
(* the others to the drop function.                                        *)
KeptHalf(s) == [i \in 1 .. ((Len(s) + 1) \div 2) |-> s[2 * i - 1]]
ShedHalf(s) == {s[2 * i] : i \in 1 .. (Len(s) \div 2)}

Store(p) ==
    IF Full THEN /\ queue' = Append(KeptHalf(queue), NextItem(p))
                 /\ evicted' = evicted \cup ShedHalf(queue)
            ELSE /\ queue' = Append(queue, NextItem(p))
                 /\ evicted' = evicted

(* What follows an item: push(T&) wakes every consumer and unlocks;        *)
(* push(vector&) gives up when the queue was stopped, else wakes one       *)
(* consumer, and unlocks after the last item.                              *)
AfterItem(p) ==
    LET left == push[p].left - 1
        done == ~push[p].many \/ m_stop \/ left = 0
    IN /\ push' = [push EXCEPT ![p].left = left,
                               ![p].pc = IF done THEN "out" ELSE "running"]
       /\ lock' = IF done THEN NoThread ELSE p
       /\ IF push[p].many
          THEN IF m_stop THEN pop' = pop ELSE pop' \in WakeOne(pop, PopWaiters)
          ELSE pop' = WakeAll(pop)

PushItem(p) ==
    /\ push[p].pc = "running" /\ LockFree(p)
    /\ Full => DropFn
    /\ Store(p)
    /\ sent' = [sent EXCEPT ![p] = @ + 1]
    /\ AfterItem(p)
    /\ UNCHANGED <<m_stop, delivered>>
-----------------------------------------------------------------------------
(* pop_front(objs, min_num, max_num, wait_ms, p_is_timeout).               *)

CallPop(c) ==
    /\ pop[c].pc = "out"
    /\ pop' = [pop EXCEPT ![c] = [pc |-> "running", is_timeout |-> FALSE,
                                  ret |-> 0, objs |-> <<>>]]
    /\ UNCHANGED <<queue, m_stop, lock, push, sent, delivered, evicted>>

(* Variant: one item is enough.                                            *)
TooFew_AnyItem == Len(queue) = 0 /\ ~m_stop

TooFew == Len(queue) < MinNum /\ ~m_stop

PopWait(c) ==
    /\ pop[c].pc = "running" /\ lock = NoThread
    /\ TooFew
    /\ pop' = [pop EXCEPT ![c].pc = "waiting"]
    /\ UNCHANGED <<queue, m_stop, lock, push, sent, delivered, evicted>>

(* Variant: the producers are not told that there is room.                 *)
PopTake_NoBroadcast(c) ==
    LET n == IF Len(queue) < MaxNum THEN Len(queue) ELSE MaxNum
        taken == SubSeq(queue, 1, n)
    IN /\ pop[c].pc = "running" /\ lock = NoThread
       /\ ~TooFew
       /\ queue' = SubSeq(queue, n + 1, Len(queue))
       /\ delivered' = delivered \o taken
       /\ pop' = [pop EXCEPT ![c].objs = taken, ![c].pc = "unlocked"]
       /\ UNCHANGED <<m_stop, lock, push, sent, evicted>>

PopTake(c) ==
    LET n == IF Len(queue) < MaxNum THEN Len(queue) ELSE MaxNum
        taken == SubSeq(queue, 1, n)
    IN /\ pop[c].pc = "running" /\ lock = NoThread
       /\ ~TooFew
       /\ queue' = SubSeq(queue, n + 1, Len(queue))
       /\ delivered' = delivered \o taken
       /\ pop' = [pop EXCEPT ![c].objs = taken, ![c].pc = "unlocked"]
       /\ push' = WakeAll(push)
       /\ UNCHANGED <<m_stop, lock, sent, evicted>>

(* The deadline passes while c waits; the wait still ends by taking the    *)
(* mutex, after which pop_front neither tests the queue again nor takes    *)
(* anything nor wakes a producer.                                          *)
Expire(c) ==
    /\ c \in Timed /\ pop[c].pc = "waiting"
    /\ pop' = [pop EXCEPT ![c].pc = "expired"]
    /\ UNCHANGED <<queue, m_stop, lock, push, sent, delivered, evicted>>

PopTimeout(c) ==
    /\ pop[c].pc = "expired" /\ lock = NoThread
    /\ pop' = [pop EXCEPT ![c].is_timeout = TRUE, ![c].pc = "unlocked"]
    /\ UNCHANGED <<queue, m_stop, lock, push, sent, delivered, evicted>>

PopReturn(c) ==
    /\ pop[c].pc = "unlocked"
    /\ pop' = [pop EXCEPT ![c].pc = "out",
                          ![c].ret = IF ~m_stop /\ pop[c].is_timeout THEN -1 ELSE 0]
    /\ UNCHANGED <<queue, m_stop, lock, push, sent, delivered, evicted>>
-----------------------------------------------------------------------------
(* Variant: stop() wakes the consumers only.                               *)
Stop_PopSideOnly ==
    /\ lock = NoThread
    /\ m_stop' = TRUE
    /\ pop' = WakeAll(pop)
    /\ UNCHANGED <<queue, lock, push, sent, delivered, evicted>>

Stop ==
    /\ lock = NoThread
    /\ m_stop' = TRUE
    /\ push' = WakeAll(push)
    /\ pop' = WakeAll(pop)
    /\ UNCHANGED <<queue, lock, sent, delivered, evicted>>

(* drop(num): all the items for 0, and nothing at all when there are fewer *)
(* than num.                                                               *)
Drop ==
    /\ lock = NoThread
    /\ \E num \in DropNums :
        LET n == IF num = 0 THEN Len(queue) ELSE num
        IN /\ n <= Len(queue)
           /\ evicted' = evicted \cup {queue[i] : i \in 1 .. n}
           /\ queue' = SubSeq(queue, n + 1, Len(queue))
    /\ push' = WakeAll(push)
    /\ UNCHANGED <<m_stop, lock, pop, sent, delivered>>

(* POSIX lets either wait return with nobody having signalled.             *)
SpuriousWake ==
    /\ \/ /\ push' \in {[push EXCEPT ![p].pc = "running"] : p \in PushWaiters}
          /\ pop' = pop
       \/ /\ pop' \in {[pop EXCEPT ![c].pc = "running"] : c \in PopWaiters}
          /\ push' = push
    /\ UNCHANGED <<queue, m_stop, lock, sent, delivered, evicted>>

Producer(p) == CallPush(p) \/ PushWait(p) \/ PushItem(p)
Consumer(c) == \/ CallPop(c) \/ PopWait(c) \/ PopTake(c)
               \/ Expire(c) \/ PopTimeout(c) \/ PopReturn(c)

Next ==
    \/ \E p \in Producers : Producer(p)
    \/ \E c \in Consumers : Consumer(c)
    \/ Stop
    \/ Drop
    \/ SpuriousWake

Spec == Init /\ [][Next]_vars

(* A thread that competes for the mutex gets it in the end, however often  *)
(* others take it first, and runs its critical section to the unlock. The  *)
(* consumers are the workers of a WorkerPool, which always call again.     *)
(* Nothing makes a producer push, a deadline pass or anybody stop a queue. *)
Fairness ==
    /\ \A p \in Producers : SF_vars(PushWait(p) \/ PushItem(p))
    /\ \A c \in Consumers : /\ WF_vars(CallPop(c))
                            /\ SF_vars(PopWait(c) \/ PopTake(c))
                            /\ SF_vars(PopTimeout(c))
                            /\ WF_vars(PopReturn(c))

FairSpec == Spec /\ Fairness
-----------------------------------------------------------------------------
TypeOK ==
    /\ queue \in Seq(Item)
    /\ m_stop \in BOOLEAN
    /\ lock \in Producers \cup {NoThread}
    /\ push \in [Producers -> PushCall]
    /\ \A p \in Producers : push[p].pc # "out" => push[p].left > 0
    /\ pop \in [Consumers -> PopCall]
    /\ sent \in [Producers -> Nat]
    /\ delivered \in Seq(Item)
    /\ evicted \subseteq Item

(* The queue does what the abstract channel does: every step of a thread   *)
(* is a step of the channel or changes nothing that a user can see.        *)
Channel == INSTANCE BoundedChannel WITH chan <- queue, closed <- m_stop

ImplementsChannel == Channel!CSpec
Fifo == Channel!Fifo
Conserved == Channel!Conserved
Capacity == Channel!Capacity

(* A producer stays blocked in push only while it has a reason to: the     *)
(* queue is full, nobody sheds and nobody stopped it. Whoever makes room   *)
(* or stops the queue must wake the producers for this to hold.            *)
PushWaitersJustified == PushWaiters # {} => Full /\ ~DropFn

(* No wake-up of a consumer is lost although push(vector) signals a single *)
(* consumer per item: when consumers wait, the queue is not stopped, and   *)
(* every item beyond an incomplete batch has a running consumer to take it.*)
Running == {c \in Consumers : pop[c].pc = "running"}

PopWaitersServed ==
    PopWaiters # {} =>
        ~m_stop /\ Len(queue) < MinNum + Cardinality(Running)

(* What pop_front tells its caller: -1 comes with no items, and a call     *)
(* that returns short of a batch without timing out met a stopped queue.   *)
PopResult ==
    \A c \in Consumers :
        /\ pop[c].ret = -1 => pop[c].objs = <<>>
        /\ pop[c].pc = "unlocked" =>
            \/ pop[c].is_timeout /\ pop[c].objs = <<>>
            \/ Len(pop[c].objs) >= MinNum
            \/ Len(pop[c].objs) = MaxNum
            \/ m_stop

(* After stop() every pop_front that is under way returns; while consumers *)
(* keep calling, or after stop(), a finite load of pushes is over in the   *)
(* end, so that no producer waits for ever; and while they keep calling a  *)
(* complete batch does not stay in the queue.                              *)
EveryCallReturns ==
    /\ \A c \in Consumers : m_stop /\ pop[c].pc # "out" ~> pop[c].pc = "out"
    /\ (\E p \in Producers : push[p].pc # "out") ~> (\A p \in Producers : push[p].pc = "out")
    /\ Len(queue) >= MinNum ~> Len(queue) < MinNum
=============================================================================
