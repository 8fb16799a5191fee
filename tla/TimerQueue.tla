----------------------------- MODULE TimerQueue -----------------------------
(***************************************************************************)
(* otl::TimerQueueImpl (otl_timer.cpp): a heap of timers served by the     *)
(* thread that calls runLoop(), a map from ids to the timers that are      *)
(* still scheduled, one mutex and one condition variable. Any thread, and  *)
(* a callback too, may create and delete timers and stop the loop.         *)
(*                                                                         *)
(* A section from lock to unlock is one step, but for the instant between  *)
(* the test of a wait's predicate and the wait itself: the loop holds the  *)
(* mutex there, and stop(), which takes no mutex, can come in between.     *)
(***************************************************************************)
EXTENDS Integers, FiniteSets

CONSTANTS
    Clients,     \* the threads that call createTimer, deleteTimer and stop
    MaxTimers,   \* bound: the timers created in all
    MaxTime,     \* bound: the last reading of getTimeMsec()
    Delays,      \* the arguments delayMsec ...
    Skews,       \* ... and skew ...
    Repeats      \* ... and repeat of createTimer

ASSUME TimerAssumption ==
    /\ MaxTimers \in Nat \ {0}
    /\ MaxTime \in Nat
    /\ Delays \subseteq Nat \ {0}     \* 0 repeats without end within one ms
    /\ Skews \subseteq Nat
    /\ Repeats \subseteq {-1} \cup Nat

Ids == 1 .. MaxTimers
NoDeadline == -1

VARIABLES
    now,        \* getTimeMsec()
    nextId,     \* m_nextTimerId
    timer,      \* timer[id]: the OptimizedTimer
    heap,       \* the ids in m_timerHeap
    map,        \* the ids in m_timerMap
    m_running,
    client,     \* client[c]: the call of c that is under way
    loop,       \* where runLoop() is
    current,    \* nextTimer, once it was popped
    deadline,   \* when the wait of the loop times out
    fired,      \* fired[id]: how often the callback was begun
    made,       \* made[id]: the first timeout and the repeat asked for
    deletedAt   \* deletedAt[id]: Decided(id) when deleteTimer returned 0, or -1

vars == <<now, nextId, timer, heap, map, m_running, client, loop, current,
          deadline, fired, made, deletedAt>>
theLoop == <<loop, current, deadline>>

Timer == [nextTimeout : Nat, intervalMsec : Nat, repeatCount : Int, isValid : BOOLEAN]

Init ==
    /\ now = 0
    /\ nextId = 1
    /\ timer = [id \in Ids |-> [nextTimeout |-> 0, intervalMsec |-> 0,
                                repeatCount |-> 0, isValid |-> TRUE]]
    /\ heap = {} /\ map = {}
    /\ m_running = FALSE
    /\ client = [c \in Clients |-> [pc |-> "idle", id |-> 0]]
    /\ loop = "out" /\ current = 0 /\ deadline = NoDeadline
    /\ fired = [id \in Ids |-> 0]
    /\ made = [id \in Ids |-> [due |-> 0, repeat |-> 0]]
    /\ deletedAt = [id \in Ids |-> -1]

(* The loop holds the mutex between two steps only while about to block.   *)
MutexFree == loop # "blocking"

(* notify_one and notify_all: only the loop ever waits.                    *)
Notified == IF loop = "waiting" THEN "woken" ELSE loop

Tick ==
    /\ now < MaxTime
    /\ now' = now + 1
    /\ UNCHANGED <<nextId, timer, heap, map, m_running, client, theLoop,
                   fired, made, deletedAt>>
-----------------------------------------------------------------------------
(* createTimer, with a callback: the timer is filled in and takes its id,  *)
(* is entered under the mutex, and the loop is notified before the caller  *)
(* learns the id.                                                          *)
CallCreate(c) ==
    /\ client[c].pc = "idle" /\ nextId <= MaxTimers
    /\ \E delay \in Delays, skew \in Skews, repeat \in Repeats :
        /\ timer' = [timer EXCEPT ![nextId] =
                        [nextTimeout |-> now + skew, intervalMsec |-> delay,
                         repeatCount |-> repeat, isValid |-> TRUE]]
        /\ made' = [made EXCEPT ![nextId] = [due |-> now + skew, repeat |-> repeat]]
    /\ nextId' = nextId + 1
    /\ client' = [client EXCEPT ![c] = [pc |-> "inserting", id |-> nextId]]
    /\ UNCHANGED <<now, heap, map, m_running, theLoop, fired, deletedAt>>

(* Definitions marked "Variant" are what a plausible slip would make of the *)
(* definition after them; no specification uses one. Variant: the timer is *)
(* entered without taking the mutex.                                       *)
InsertTimer_NoLock(c) ==
    /\ client[c].pc = "inserting"
    /\ heap' = heap \cup {client[c].id}
    /\ map' = map \cup {client[c].id}
    /\ client' = [client EXCEPT ![c].pc = "notifying"]
    /\ UNCHANGED <<now, nextId, timer, m_running, theLoop, fired, made, deletedAt>>

InsertTimer(c) ==
    /\ client[c].pc = "inserting" /\ MutexFree
    /\ heap' = heap \cup {client[c].id}
    /\ map' = map \cup {client[c].id}
    /\ client' = [client EXCEPT ![c].pc = "notifying"]
    /\ UNCHANGED <<now, nextId, timer, m_running, theLoop, fired, made, deletedAt>>

NotifyCreated(c) ==
    /\ client[c].pc = "notifying"
    /\ loop' = Notified
    /\ client' = [client EXCEPT ![c] = [pc |-> "idle", id |-> 0]]
    /\ UNCHANGED <<now, nextId, timer, heap, map, m_running, current, deadline,
                   fired, made, deletedAt>>

(* The calls of a timer that were begun, or that the loop will make because *)
(* it has seen isValid for the last time.                                  *)
Decided(id) == fired[id] + (IF loop = "committed" /\ current = id THEN 1 ELSE 0)

(* Variant: the timer is taken off the map and not marked.                 *)
DeleteTimer_Unmarked(c) ==
    /\ client[c].pc = "idle" /\ MutexFree
    /\ \E id \in map :
        /\ map' = map \ {id}
        /\ deletedAt' = [deletedAt EXCEPT ![id] = Decided(id)]
    /\ UNCHANGED <<now, nextId, timer, heap, m_running, client, theLoop, fired, made>>

(* deleteTimer of an id the map holds; of another it changes nothing. The  *)
(* timer stays in the heap.                                                *)
DeleteTimer(c) ==
    /\ client[c].pc = "idle" /\ MutexFree
    /\ \E id \in map :
        /\ timer' = [timer EXCEPT ![id].isValid = FALSE]
        /\ map' = map \ {id}
        /\ deletedAt' = [deletedAt EXCEPT ![id] = Decided(id)]
    /\ UNCHANGED <<now, nextId, heap, m_running, client, theLoop, fired, made>>

(* Variant: the loop is not notified.                                      *)
NotifyStop_Silent(c) ==
    /\ client[c].pc = "stopping"
    /\ client' = [client EXCEPT ![c] = [pc |-> "idle", id |-> 0]]
    /\ UNCHANGED <<now, nextId, timer, heap, map, m_running, theLoop, fired, made, deletedAt>>

(* stop(): m_running is cleared and the loop notified, with no mutex.      *)
CallStop(c) ==
    /\ client[c].pc = "idle"
    /\ m_running' = FALSE
    /\ client' = [client EXCEPT ![c].pc = "stopping"]
    /\ UNCHANGED <<now, nextId, timer, heap, map, theLoop, fired, made, deletedAt>>

NotifyStop(c) ==
    /\ client[c].pc = "stopping"
    /\ loop' = Notified
    /\ client' = [client EXCEPT ![c] = [pc |-> "idle", id |-> 0]]
    /\ UNCHANGED <<now, nextId, timer, heap, map, m_running, current, deadline,
                   fired, made, deletedAt>>
-----------------------------------------------------------------------------
(* runLoop()                                                               *)

RunLoop ==
    /\ loop = "out"
    /\ loop' = "testing"
    /\ m_running' = TRUE
    /\ UNCHANGED <<now, nextId, timer, heap, map, client, current, deadline,
                   fired, made, deletedAt>>

TestRunning ==
    /\ loop = "testing"
    /\ loop' = IF m_running THEN "locking" ELSE "ended"
    /\ UNCHANGED <<now, nextId, timer, heap, map, m_running, client, current,
                   deadline, fired, made, deletedAt>>

Valid(h) == {id \in h : timer[id].isValid}

(* The ids that may be on top of a heap: equal timeouts come in any order. *)
Tops(h) == {id \in h : \A other \in h : timer[id].nextTimeout <= timer[other].nextTimeout}

(* What cleanupInvalidTimers can leave of the heap: it removes invalid     *)
(* timers from the top until a valid one is there.                         *)
CleanedHeaps ==
    IF Valid(heap) = {} THEN {{}}
    ELSE {h \in SUBSET heap :
            /\ Valid(heap) \subseteq h
            /\ Valid(h) \cap Tops(h) # {}
            /\ \A id \in heap \ h, other \in h :
                timer[id].nextTimeout <= timer[other].nextTimeout}

(* The timers are at rest and their wait begins: until the first of them   *)
(* is due, or without a limit when there are none. The predicate of either *)
(* wait is tested before blocking, and a stop already seen ends it.        *)
Rest ==
    /\ loop = "locking"
    /\ \E h \in CleanedHeaps :
        /\ heap' = h
        /\ \/ /\ h = {}
              /\ loop' = IF m_running THEN "blocking" ELSE "testing"
              /\ deadline' = NoDeadline
           \/ \E id \in Tops(h) \cap Valid(h) :
              /\ timer[id].nextTimeout > now
              /\ IF m_running
                 THEN loop' = "blocking" /\ deadline' = timer[id].nextTimeout
                 ELSE loop' = "ended" /\ deadline' = NoDeadline
    /\ UNCHANGED <<now, nextId, timer, map, m_running, client, current, fired,
                   made, deletedAt>>

(* The timer after it was taken off the heap, and whether it goes back.    *)
CountedDown(t) ==
    IF t.repeatCount > 0 THEN [t EXCEPT !.repeatCount = @ - 1] ELSE t

(* Variant: there is one repetition too many.                              *)
Again_OnceMore(t) == t.repeatCount = -1 \/ t.repeatCount >= 1

Again(t) == t.repeatCount = -1 \/ t.repeatCount > 1

Rescheduled(t) == [CountedDown(t) EXCEPT !.nextTimeout = now + t.intervalMsec]

(* The timer on top is due: it is popped, put back for its next turn or    *)
(* taken off the map, and the mutex released.                              *)
TakeDue ==
    /\ loop = "locking"
    /\ \E h \in CleanedHeaps : \E id \in Tops(h) \cap Valid(h) :
        /\ timer[id].nextTimeout <= now
        /\ IF Again(timer[id])
           THEN /\ heap' = h /\ map' = map
                /\ timer' = [timer EXCEPT ![id] = Rescheduled(@)]
           ELSE /\ heap' = h \ {id} /\ map' = map \ {id}
                /\ timer' = [timer EXCEPT ![id] = CountedDown(@)]
        /\ current' = id
    /\ loop' = "calling"
    /\ UNCHANGED <<now, nextId, m_running, client, deadline, fired, made, deletedAt>>

(* isValid is read once more, without the mutex, before the call.          *)
ReadValid ==
    /\ loop = "calling"
    /\ IF timer[current].isValid
       THEN loop' = "committed" /\ current' = current
       ELSE loop' = "testing" /\ current' = 0
    /\ UNCHANGED <<now, nextId, timer, heap, map, m_running, client, deadline,
                   fired, made, deletedAt>>

BeginCallback ==
    /\ loop = "committed"
    /\ loop' = "callback"
    /\ fired' = [fired EXCEPT ![current] = @ + 1]
    /\ UNCHANGED <<now, nextId, timer, heap, map, m_running, client, current,
                   deadline, made, deletedAt>>

EndCallback ==
    /\ loop = "callback"
    /\ loop' = "testing"
    /\ current' = 0
    /\ UNCHANGED <<now, nextId, timer, heap, map, m_running, client, deadline,
                   fired, made, deletedAt>>

Block ==
    /\ loop = "blocking"
    /\ loop' = "waiting"
    /\ UNCHANGED <<now, nextId, timer, heap, map, m_running, client, current,
                   deadline, fired, made, deletedAt>>

(* A wait ends at its deadline or, as the standard allows, for no reason.  *)
Expire ==
    /\ loop = "waiting" /\ deadline # NoDeadline /\ now >= deadline
    /\ loop' = "woken"
    /\ UNCHANGED <<now, nextId, timer, heap, map, m_running, client, current,
                   deadline, fired, made, deletedAt>>

SpuriousWake ==
    /\ loop = "waiting"
    /\ loop' = "woken"
    /\ UNCHANGED <<now, nextId, timer, heap, map, m_running, client, current,
                   deadline, fired, made, deletedAt>>

(* Variant: the wait for a first timer ends only when the loop is stopped. *)
WaitOver_StopOnly == ~m_running \/ (deadline # NoDeadline /\ now >= deadline)

(* The timed wait looks at m_running alone: when a timer was added it goes *)
(* on to its deadline.                                                     *)
WaitOver ==
    \/ ~m_running
    \/ IF deadline = NoDeadline THEN heap # {} ELSE now >= deadline

(* The mutex is taken again and the predicate tested.                      *)
Awake ==
    /\ loop = "woken"
    /\ IF WaitOver
       THEN /\ loop' = IF ~m_running /\ deadline # NoDeadline THEN "ended" ELSE "testing"
            /\ deadline' = NoDeadline
       ELSE loop' = "blocking" /\ deadline' = deadline
    /\ UNCHANGED <<now, nextId, timer, heap, map, m_running, client, current,
                   fired, made, deletedAt>>

Loop == \/ TestRunning \/ Rest \/ TakeDue \/ ReadValid \/ BeginCallback \/ EndCallback
        \/ Block \/ Expire \/ Awake

Client(c) == \/ CallCreate(c) \/ InsertTimer(c) \/ NotifyCreated(c)
             \/ DeleteTimer(c) \/ CallStop(c) \/ NotifyStop(c)

Next ==
    \/ Tick
    \/ \E c \in Clients : Client(c)
    \/ RunLoop
    \/ Loop
    \/ SpuriousWake

Spec == Init /\ [][Next]_vars

(* Time passes, the thread of the loop is scheduled, callbacks return, and *)
(* a call that was begun on the queue goes on to its end.                  *)
Fairness ==
    /\ WF_vars(Tick)
    /\ WF_vars(Loop)
    /\ \A c \in Clients : /\ SF_vars(InsertTimer(c))
                          /\ WF_vars(NotifyCreated(c))
                          /\ WF_vars(NotifyStop(c))

FairSpec == Spec /\ Fairness
-----------------------------------------------------------------------------
TypeOK ==
    /\ now \in 0 .. MaxTime
    /\ nextId \in 1 .. MaxTimers + 1
    /\ timer \in [Ids -> Timer]
    /\ map \subseteq heap /\ heap \subseteq 1 .. nextId - 1
    /\ m_running \in BOOLEAN
    /\ client \in [Clients -> [pc : {"idle", "inserting", "notifying", "stopping"},
                               id : 0 .. MaxTimers]]
    /\ loop \in {"out", "testing", "locking", "blocking", "waiting", "woken",
                 "calling", "committed", "callback", "ended"}
    /\ current \in 0 .. MaxTimers
    /\ deadline \in Nat \cup {NoDeadline}
    /\ fired \in [Ids -> Nat]
    /\ made \in [Ids -> [due : Nat, repeat : Int]]
    /\ deletedAt \in [Ids -> Int]

(* The map and the heap tell the same story although deletion leaves       *)
(* timers in the heap: count() is the number of timers that will still be  *)
(* called, and every one of them has its turn in the heap.                 *)
MapIsValidHeap ==
    /\ TypeOK
    /\ map = Valid(heap)

(* A timer is called as often as was asked for and no more: once for a     *)
(* repeat of 0 or 1. What is left is counted down with each call begun.    *)
(* And no call comes early: the first not before the skew is over, and     *)
(* each of the others an interval after the one before; nor, once          *)
(* deleteTimer returned 0, any but the one the loop had decided upon.      *)
Turns(id) == IF made[id].repeat > 0 THEN made[id].repeat ELSE 1

CalledAsAsked ==
    \A id \in Ids :
        /\ made[id].repeat # -1 =>
            /\ fired[id] <= Turns(id)
            /\ id \notin map /\ deletedAt[id] = -1 /\ id < nextId =>
                \/ fired[id] = Turns(id)
                \/ loop \in {"calling", "committed"} /\ current = id
                \/ \E c \in Clients : client[c] = [pc |-> "inserting", id |-> id]
        /\ fired[id] > 0 =>
            now >= made[id].due + (fired[id] - 1) * timer[id].intervalMsec
        /\ deletedAt[id] # -1 => fired[id] <= deletedAt[id]

(* The loop does not sleep without a deadline while a timer waits for its  *)
(* turn, unless the caller that entered the timer is about to wake it.     *)
NoTimerForgotten ==
    loop \in {"blocking", "waiting"} /\ deadline = NoDeadline /\ Valid(heap) # {} =>
        \E c \in Clients : client[c].pc = "notifying"

(* A scheduled timer gets its call in the end, unless it is deleted or the *)
(* loop is stopped: also one that was added while the loop slept towards a *)
(* later timeout. What lies beyond the last reading of the clock is left   *)
(* out.                                                                    *)
Scheduled(id) ==
    /\ id \in map /\ m_running /\ timer[id].nextTimeout <= MaxTime
    /\ loop \in {"blocking", "waiting", "woken"} => deadline <= MaxTime
EveryTimerServed ==
    \A id \in Ids :
        Scheduled(id) ~>
            (loop = "callback" /\ current = id) \/ deletedAt[id] # -1 \/ ~m_running

(* A loop that is stopped ends, wherever stop() finds it, in a callback, at *)
(* a test or asleep, also among several calls of stop() and createTimer,   *)
(* and so the test that joins its thread after "timerQueue->stop();" goes  *)
(* on; but a notification that comes between the predicate of a wait and   *)
(* the wait is lost, since stop() takes no mutex.                          *)
Heard ==
    /\ ~m_running
    /\ loop \notin {"out", "blocking"}
    /\ loop = "waiting" => \E c \in Clients : client[c].pc = "stopping"
StopEndsLoop == Heard ~> loop = "ended"
=============================================================================
