-------------------------- MODULE TimerQueueProofs --------------------------
(* Theorems about the timer queue, for any number of threads, of timers    *)
(* and of calls: the map holds the valid timers of the heap, the loop does *)
(* not sleep on a timer nobody will wake it for, and a timer is called as  *)
(* often and no earlier than was asked for, and not after it was deleted.  *)
EXTENDS TimerQueue, TLAPS

(* Where a call of createTimer stands between taking its id and entering   *)
(* the timer: the id is in nobody else's hands and not in the heap, and    *)
(* the timer is valid.                                                     *)
Inserting(c) == client[c].pc = "inserting"

Entering ==
    /\ \A c \in Clients : Inserting(c) =>
        /\ client[c].id \in 1 .. nextId - 1
        /\ client[c].id \notin heap
        /\ timer[client[c].id].isValid
    /\ \A c, d \in Clients :
        Inserting(c) /\ Inserting(d) /\ client[c].id = client[d].id => c = d

(* What the loop has popped is a timer that was made.                      *)
Popped == loop \in {"calling", "committed", "callback"} => current \in 1 .. nextId - 1

(* The inductive invariant of the map and the heap.                        *)
Kept == MapIsValidHeap /\ Entering /\ Popped

(* The inductive invariant of the sleep: as long as the loop holds the     *)
(* mutex nobody enters a timer, and when it has none to wait for the heap  *)
(* is empty.                                                               *)
Watched ==
    /\ loop = "blocking" /\ deadline = NoDeadline => heap = {}
    /\ loop = "waiting" /\ deadline = NoDeadline /\ heap # {} =>
        \E c \in Clients : client[c].pc = "notifying"

(* The turns of a timer that were taken, the one included that may yet be  *)
(* dropped because the timer was deleted, and those that are left.         *)
Taken(id) == fired[id] + (IF loop \in {"calling", "committed"} /\ current = id THEN 1 ELSE 0)
Left(id) == IF made[id].repeat > 0 THEN timer[id].repeatCount ELSE 1

(* A timer that has its next turn before it, as somebody is about to enter *)
(* it or it is on the map.                                                 *)
Coming(id) == id \in map \/ \E c \in Clients : Inserting(c) /\ client[c].id = id

Unmade(id) == id >= nextId => fired[id] = 0 /\ deletedAt[id] = -1
Marked(id) == timer[id].isValid <=> deletedAt[id] = -1
Counted(id) ==
    /\ made[id].repeat >= -1
    /\ Coming(id) =>
        /\ made[id].repeat = -1 <=> timer[id].repeatCount = -1
        /\ made[id].repeat # -1 => Left(id) >= 1 /\ Taken(id) + Left(id) = Turns(id)
        /\ made[id].repeat = 0 => timer[id].repeatCount = 0
    /\ id < nextId /\ ~Coming(id) /\ made[id].repeat # -1 =>
        /\ Taken(id) <= Turns(id)
        /\ deletedAt[id] = -1 => Taken(id) = Turns(id)
InTime(id) ==
    /\ Coming(id) =>
        timer[id].nextTimeout >= made[id].due + Taken(id) * timer[id].intervalMsec
    /\ Taken(id) > 0 =>
        now >= made[id].due + (Taken(id) - 1) * timer[id].intervalMsec
NoneAfter(id) == deletedAt[id] # -1 => Decided(id) <= deletedAt[id]

(* The inductive invariant of the calls.                                   *)
Promised(id) == Unmade(id) /\ Marked(id) /\ Counted(id) /\ InTime(id) /\ NoneAfter(id)
Served == \A id \in Ids : Promised(id)
-----------------------------------------------------------------------------
(* The types of a queue without timers.                                    *)
LEMMA TypeInit == Init => TypeOK
<1>1. 0 \in 0 .. MaxTime /\ 1 \in 1 .. MaxTimers + 1 /\ 0 \in 0 .. MaxTimers /\ -1 \in Int
  BY TimerAssumption
<1> QED
  <2> SUFFICES ASSUME Init PROVE TypeOK
    OBVIOUS
  <2>1. /\ timer \in [Ids -> Timer] /\ fired \in [Ids -> Nat]
        /\ made \in [Ids -> [due : Nat, repeat : Int]] /\ deletedAt \in [Ids -> Int]
    BY DEF Init, Timer
  <2>2. client \in [Clients -> [pc : {"idle", "inserting", "notifying", "stopping"},
                                id : 0 .. MaxTimers]]
    BY <1>1 DEF Init
  <2> QED
    BY <1>1, <2>1, <2>2 DEF Init, TypeOK, NoDeadline

(* A timer counted down keeps its type, whether it is put back or not.     *)
LEMMA TimerTypes ==
  ASSUME NEW t \in Timer, now \in Nat
  PROVE /\ CountedDown(t) \in Timer /\ Rescheduled(t) \in Timer
        /\ CountedDown(t).isValid = t.isValid /\ Rescheduled(t).isValid = t.isValid
        /\ CountedDown(t).intervalMsec = t.intervalMsec
        /\ Rescheduled(t).intervalMsec = t.intervalMsec
        /\ Rescheduled(t).nextTimeout = now + t.intervalMsec
        /\ CountedDown(t).repeatCount =
             IF t.repeatCount > 0 THEN t.repeatCount - 1 ELSE t.repeatCount
        /\ Rescheduled(t).repeatCount = CountedDown(t).repeatCount
BY DEF Timer, CountedDown, Rescheduled

(* What is left of the heap when invalid timers were removed from its top  *)
(* is part of it and has its valid timers.                                 *)
LEMMA CleanedKeepsValid ==
  ASSUME NEW h \in CleanedHeaps
  PROVE h \subseteq heap /\ Valid(h) = Valid(heap)
<1>1. CASE Valid(heap) = {}
  BY <1>1 DEF CleanedHeaps, Valid
<1>2. CASE Valid(heap) # {}
  BY <1>2 DEF CleanedHeaps, Valid
<1> QED
  BY <1>1, <1>2

(* The steps that neither make, enter, delete nor take a timer.            *)
Quiet ==
    \/ Tick \/ RunLoop \/ TestRunning \/ EndCallback
    \/ Block \/ Expire \/ SpuriousWake \/ Awake
    \/ \E c \in Clients : NotifyCreated(c) \/ CallStop(c) \/ NotifyStop(c)
    \/ UNCHANGED vars

(* The steps of the queue, the quiet ones taken together.                  *)
LEMMA StepsOfQueue ==
  [Next]_vars =>
    \/ Quiet \/ Rest \/ TakeDue \/ ReadValid \/ BeginCallback
    \/ \E c \in Clients : CallCreate(c) \/ InsertTimer(c) \/ DeleteTimer(c)
BY DEF Next, Client, Loop, Quiet

(* Every step keeps the types, the heap and the map in step with each      *)
(* other, and an id in one caller's hands until its timer is entered.      *)
LEMMA KeptNext == Kept /\ [Next]_vars => Kept'
<1> SUFFICES ASSUME Kept, [Next]_vars PROVE Kept'
  OBVIOUS
<1>a. TypeOK /\ map = Valid(heap)
  BY DEF Kept, MapIsValidHeap
<1>b. Entering /\ Popped
  BY DEF Kept
<1>c. MaxTimers \in Nat /\ MaxTime \in Nat /\ Delays \subseteq Nat /\ Skews \subseteq Nat
      /\ Repeats \subseteq Int
  BY TimerAssumption
<1>d. now \in Nat /\ nextId \in Nat /\ 1 .. nextId - 1 \subseteq Ids /\ 0 \in 0 .. MaxTimers
  BY <1>a, <1>c DEF TypeOK, Ids
<1>1. CASE Quiet
  <2>1. TypeOK'
    <3>1. CASE Tick
      BY <3>1, <1>a, <1>c DEF TypeOK, Tick, theLoop
    <3>2. CASE RunLoop \/ TestRunning \/ EndCallback \/ Block \/ Expire \/ SpuriousWake \/ Awake
      BY <3>2, <1>a, <1>d DEF TypeOK, RunLoop, TestRunning, EndCallback, Block, Expire, SpuriousWake,
        Awake, NoDeadline
    <3>3. CASE \E c \in Clients : NotifyCreated(c) \/ CallStop(c) \/ NotifyStop(c)
      <4>1. client' \in [Clients -> [pc : {"idle", "inserting", "notifying", "stopping"},
                                    id : 0 .. MaxTimers]]
        BY <3>3, <1>a, <1>d DEF TypeOK, NotifyCreated, CallStop, NotifyStop
      <4> QED
        BY <3>3, <1>a, <4>1 DEF TypeOK, NotifyCreated, CallStop, NotifyStop, Notified, theLoop
    <3>4. CASE UNCHANGED vars
      BY <3>4, <1>a DEF TypeOK, vars
    <3> QED
      BY <1>1, <3>1, <3>2, <3>3, <3>4 DEF Quiet
  <2>2. heap' = heap /\ map' = map /\ timer' = timer /\ nextId' = nextId
    BY <1>1 DEF Quiet, Tick, RunLoop, TestRunning, EndCallback, Block,
      Expire, SpuriousWake, Awake, NotifyCreated, CallStop, NotifyStop, vars, theLoop
  <2>3. \A c \in Clients : Inserting(c)' => Inserting(c) /\ client'[c] = client[c]
    BY <1>1, <1>a DEF TypeOK, Inserting, Quiet, Tick, RunLoop, TestRunning, EndCallback, Block,
      Expire, SpuriousWake, Awake, NotifyCreated, CallStop, NotifyStop, vars, theLoop
  <2>4. Entering'
    BY <1>b, <2>2, <2>3 DEF Entering
  <2>5. Popped'
    BY <1>1, <1>b DEF Popped, Quiet, Tick, RunLoop, TestRunning, EndCallback, Block,
      Expire, SpuriousWake, Awake, NotifyCreated, CallStop, NotifyStop, vars, theLoop, Notified
  <2> QED
    BY <1>a, <2>1, <2>2, <2>4, <2>5 DEF Kept, MapIsValidHeap, Valid
<1>2. CASE Rest
  <2>1. PICK h \in CleanedHeaps : heap' = h
    BY <1>2 DEF Rest
  <2>2. h \subseteq heap /\ Valid(h) = Valid(heap)
    BY CleanedKeepsValid
  <2>3. deadline' \in Nat \cup {NoDeadline} /\ loop' \in {"blocking", "testing", "ended"}
    <3>1. \A id \in heap : timer[id].nextTimeout \in Nat
      BY <1>a, <1>d DEF TypeOK, Timer
    <3> QED
      BY <1>2, <3>1, CleanedKeepsValid DEF Rest, Tops
  <2>4. Entering' /\ Popped' /\ TypeOK'
    BY <1>2, <1>a, <1>b, <2>1, <2>2, <2>3 DEF Rest, Entering, Inserting, Popped, TypeOK, Valid
  <2> QED
    BY <1>2, <1>a, <2>1, <2>2, <2>4 DEF Rest, Kept, MapIsValidHeap, Valid
<1>3. CASE TakeDue
  <2>1. PICK h \in CleanedHeaps, id \in heap :
          /\ id \in Valid(h)
          /\ timer[id].nextTimeout <= now
          /\ IF Again(timer[id])
             THEN /\ heap' = h /\ map' = map
                  /\ timer' = [timer EXCEPT ![id] = Rescheduled(@)]
             ELSE /\ heap' = h \ {id} /\ map' = map \ {id}
                  /\ timer' = [timer EXCEPT ![id] = CountedDown(@)]
          /\ current' = id
    BY <1>3, CleanedKeepsValid DEF TakeDue, Valid
  <2>2. h \subseteq heap /\ Valid(h) = Valid(heap)
    BY CleanedKeepsValid
  <2>3. id \in Ids /\ timer[id] \in Timer /\ id \in 1 .. nextId - 1
    BY <1>a, <1>d, <2>1 DEF TypeOK
  <2>4. /\ timer' \in [Ids -> Timer]
        /\ \A i \in Ids : timer'[i].isValid = timer[i].isValid
    BY <1>a, <1>d, <2>1, <2>3, TimerTypes DEF TypeOK
  <2>5. map' \subseteq heap' /\ heap' \subseteq heap
    BY <1>a, <2>1, <2>2 DEF Valid
  <2>6. map' = {i \in heap' : timer'[i].isValid}
    <3>1. \A i \in heap' : timer'[i].isValid = timer[i].isValid
      BY <1>a, <1>d, <2>4, <2>5 DEF TypeOK
    <3> QED
      BY <1>a, <2>1, <2>2, <3>1 DEF Valid
  <2>7. TypeOK'
    BY <1>3, <1>a, <1>d, <2>1, <2>3, <2>4, <2>5 DEF TakeDue, TypeOK, Ids
  <2>8. Entering' /\ Popped'
    BY <1>3, <1>b, <1>d, <2>1, <2>3, <2>4, <2>5 DEF TakeDue, Entering, Inserting, Popped
  <2> QED
    BY <2>6, <2>7, <2>8 DEF Kept, MapIsValidHeap, Valid
<1>4. CASE ReadValid \/ BeginCallback
  <2>1. current \in Ids
    BY <1>4, <1>b, <1>d DEF ReadValid, BeginCallback, Popped
  <2>2. TypeOK'
    <3>1. CASE ReadValid
      BY <3>1, <1>a, <1>d, <2>1 DEF ReadValid, TypeOK
    <3>2. CASE BeginCallback
      <4>1. fired' \in [Ids -> Nat]
        BY <3>2, <1>a, <2>1 DEF BeginCallback, TypeOK
      <4> QED
        BY <3>2, <1>a, <4>1 DEF BeginCallback, TypeOK
    <3> QED
      BY <1>4, <3>1, <3>2
  <2>3. Entering' /\ Popped'
    BY <1>4, <1>b DEF ReadValid, BeginCallback, Entering, Inserting, Popped
  <2> QED
    BY <1>4, <1>a, <2>2, <2>3 DEF ReadValid, BeginCallback, Kept, MapIsValidHeap, Valid
<1>5. ASSUME NEW c \in Clients, CallCreate(c) PROVE Kept'
  <2>1. nextId \in Ids /\ nextId \notin heap
    BY <1>5, <1>a, <1>c, <1>d DEF CallCreate, TypeOK, Ids
  <2>2. /\ timer' \in [Ids -> Timer] /\ made' \in [Ids -> [due : Nat, repeat : Int]]
        /\ timer'[nextId].isValid
        /\ \A i \in Ids : i # nextId => timer'[i] = timer[i]
    BY <1>5, <1>a, <1>c, <1>d, <2>1 DEF CallCreate, TypeOK, Timer
  <2>3. TypeOK'
    <3>1. client' \in [Clients -> [pc : {"idle", "inserting", "notifying", "stopping"},
                                  id : 0 .. MaxTimers]]
      BY <1>5, <1>a, <2>1 DEF CallCreate, TypeOK, Ids
    <3>2. nextId' \in 1 .. MaxTimers + 1 /\ heap \subseteq 1 .. nextId' - 1
      BY <1>5, <1>a, <1>c, <1>d DEF CallCreate, TypeOK
    <3> QED
      BY <1>5, <1>a, <2>2, <3>1, <3>2 DEF CallCreate, TypeOK, theLoop
  <2>4. Entering'
    <3>1. /\ client' = [client EXCEPT ![c] = [pc |-> "inserting", id |-> nextId]]
          /\ heap' = heap /\ nextId' = nextId + 1
      BY <1>5 DEF CallCreate
    <3>2. client'[c].id = nextId /\ \A d \in Clients : d # c => client'[d] = client[d]
      BY <1>a, <3>1 DEF TypeOK
    <3>3. \A d \in Clients : Inserting(d) => client[d].id # nextId
      BY <1>b, <1>d DEF Entering
    <3>4. \A d \in Clients : Inserting(d)' => d = c \/ (Inserting(d) /\ client'[d] = client[d])
      BY <3>2 DEF Inserting
    <3>5. \A d \in Clients : Inserting(d) => timer'[client[d].id] = timer[client[d].id]
      BY <1>b, <1>d, <2>2, <3>3 DEF Entering
    <3> QED
      <4>1. ASSUME NEW d \in Clients, Inserting(d)'
            PROVE /\ client'[d].id \in 1 .. nextId' - 1
                  /\ client'[d].id \notin heap'
                  /\ timer'[client'[d].id].isValid
        <5>1. CASE d = c
          BY <1>d, <2>1, <2>2, <3>1, <3>2, <5>1 DEF Ids
        <5>2. CASE d # c
          BY <1>b, <1>d, <3>1, <3>4, <3>5, <4>1, <5>2 DEF Entering
        <5> QED
          BY <5>1, <5>2
      <4>2. ASSUME NEW d \in Clients, NEW e \in Clients, Inserting(d)', Inserting(e)',
                   client'[d].id = client'[e].id
            PROVE d = e
        BY <1>b, <3>2, <3>3, <3>4, <4>2 DEF Entering
      <4> QED
        BY <4>1, <4>2 DEF Entering
  <2>5. Popped'
    BY <1>5, <1>b, <1>d DEF CallCreate, Popped, theLoop
  <2>6. map' = {i \in heap' : timer'[i].isValid}
    BY <1>5, <1>a, <1>d, <2>1, <2>2 DEF CallCreate, Valid, TypeOK
  <2> QED
    BY <2>3, <2>4, <2>5, <2>6 DEF Kept, MapIsValidHeap, Valid
<1>6. ASSUME NEW c \in Clients, InsertTimer(c) PROVE Kept'
  <2>1. /\ Inserting(c) /\ client[c].id \in 1 .. nextId - 1 /\ timer[client[c].id].isValid
        /\ heap' = heap \cup {client[c].id} /\ map' = map \cup {client[c].id}
        /\ timer' = timer /\ nextId' = nextId
        /\ client' = [client EXCEPT ![c].pc = "notifying"]
    BY <1>6, <1>b DEF InsertTimer, Entering, Inserting
  <2>2. TypeOK'
    BY <1>6, <1>a, <1>d, <2>1 DEF InsertTimer, TypeOK, theLoop
  <2>3. \A d \in Clients : Inserting(d)' => Inserting(d) /\ d # c /\ client'[d] = client[d]
    BY <1>a, <2>1 DEF Inserting, TypeOK
  <2>4. Entering' /\ Popped'
    BY <1>6, <1>b, <2>1, <2>3 DEF InsertTimer, Entering, Popped, theLoop
  <2> QED
    BY <1>a, <2>1, <2>2, <2>4 DEF Kept, MapIsValidHeap, Valid
<1>7. ASSUME NEW c \in Clients, DeleteTimer(c) PROVE Kept'
  <2>1. PICK id \in map :
          /\ timer' = [timer EXCEPT ![id].isValid = FALSE] /\ map' = map \ {id}
          /\ deletedAt' = [deletedAt EXCEPT ![id] = Decided(id)]
    BY <1>7 DEF DeleteTimer
  <2>2. id \in heap /\ id \in Ids
    BY <1>a, <1>d DEF TypeOK
  <2>3. /\ timer' \in [Ids -> Timer] /\ ~timer'[id].isValid
        /\ \A i \in Ids : i # id => timer'[i] = timer[i]
    BY <1>a, <2>1, <2>2 DEF TypeOK, Timer
  <2>4. Decided(id) \in Int
    BY <1>a, <2>2 DEF TypeOK, Decided
  <2>5. TypeOK'
    BY <1>7, <1>a, <2>1, <2>2, <2>3, <2>4 DEF DeleteTimer, TypeOK, theLoop
  <2>6. Entering' /\ Popped'
    BY <1>7, <1>b, <1>d, <2>2, <2>3 DEF DeleteTimer, Entering, Inserting, Popped, theLoop
  <2>7. map' = {i \in heap' : timer'[i].isValid}
    BY <1>7, <1>a, <1>d, <2>1, <2>2, <2>3 DEF DeleteTimer, Valid, TypeOK
  <2> QED
    BY <2>5, <2>6, <2>7 DEF Kept, MapIsValidHeap, Valid
<1> QED
  BY <1>1, <1>2, <1>3, <1>4, <1>5, <1>6, <1>7, StepsOfQueue

(* The map holds the valid timers of the heap and no others, in every      *)
(* reachable state, although deleteTimer leaves its timer in the heap and  *)
(* the loop drops it later.                                                *)
THEOREM MapIsValidHeapCorrect == Spec => []MapIsValidHeap
<1>1. Init => Kept
  BY TypeInit DEF Init, Kept, MapIsValidHeap, Valid, Entering, Inserting, Popped
<1>2. Kept => MapIsValidHeap
  BY DEF Kept
<1> QED
  BY <1>1, <1>2, KeptNext, PTL DEF Spec

(* The same for the whole invariant, which the other proofs rest on.       *)
LEMMA KeptCorrect == Spec => []Kept
<1>1. Init => Kept
  BY TypeInit DEF Init, Kept, MapIsValidHeap, Valid, Entering, Inserting, Popped
<1> QED
  BY <1>1, KeptNext, PTL DEF Spec
-----------------------------------------------------------------------------
(* Every step keeps the sleep watched. Only Rest and Awake begin a sleep   *)
(* without a deadline, with an empty heap, and what InsertTimer then puts  *)
(* into the heap is announced by the notification that follows it.         *)
LEMMA WatchedNext == Kept /\ Watched /\ [Next]_vars => Watched'
<1> SUFFICES ASSUME Kept, Watched, [Next]_vars PROVE Watched'
  OBVIOUS
<1>a. TypeOK
  BY DEF Kept, MapIsValidHeap
<1>1. ASSUME NEW c \in Clients, CallCreate(c) \/ DeleteTimer(c) \/ CallStop(c) PROVE Watched'
  <2>1. UNCHANGED <<heap, loop, deadline>>
    BY <1>1 DEF CallCreate, DeleteTimer, CallStop, theLoop
  <2>2. \A d \in Clients : client[d].pc = "notifying" => client'[d] = client[d]
    BY <1>1, <1>a DEF CallCreate, DeleteTimer, CallStop, TypeOK
  <2> QED
    BY <2>1, <2>2 DEF Watched
<1>2. ASSUME NEW c \in Clients, InsertTimer(c) PROVE Watched'
  <2>1. loop' # "blocking" /\ client'[c].pc = "notifying"
    BY <1>2, <1>a DEF InsertTimer, MutexFree, theLoop, TypeOK
  <2> QED
    BY <2>1 DEF Watched
<1>3. ASSUME NEW c \in Clients, NotifyCreated(c) \/ NotifyStop(c) PROVE Watched'
  BY <1>3 DEF NotifyCreated, NotifyStop, Notified, Watched
<1>4. CASE Rest
  <2>1. PICK h \in CleanedHeaps :
          /\ heap' = h
          /\ \/ h = {}
             \/ \E id \in Tops(h) \cap Valid(h) :
                  IF m_running
                  THEN loop' = "blocking" /\ deadline' = timer[id].nextTimeout
                  ELSE loop' = "ended" /\ deadline' = NoDeadline
    BY <1>4 DEF Rest
  <2>2. \A id \in h : timer[id].nextTimeout # NoDeadline
    <3>1. h \subseteq Ids
      <4>1. h \subseteq heap
        BY CleanedKeepsValid
      <4> QED
        BY <1>a, <4>1, TimerAssumption DEF TypeOK, Ids
    <3> QED
      BY <1>a, <3>1 DEF TypeOK, Timer, NoDeadline
  <2> QED
    BY <1>4, <2>1, <2>2 DEF Rest, Watched, Tops
<1>5. CASE Tick \/ RunLoop \/ TestRunning \/ TakeDue \/ ReadValid \/ BeginCallback \/ EndCallback
  BY <1>5 DEF Tick, RunLoop, TestRunning, TakeDue, ReadValid, BeginCallback, EndCallback, Watched,
    theLoop
<1>6. CASE Block \/ Expire \/ SpuriousWake
  BY <1>6 DEF Block, Expire, SpuriousWake, Watched
<1>7. CASE Awake
  BY <1>7 DEF Awake, WaitOver, Watched
<1>8. CASE UNCHANGED vars
  BY <1>8 DEF vars, Watched
<1> QED
  BY <1>1, <1>2, <1>3, <1>4, <1>5, <1>6, <1>7, <1>8 DEF Next, Client, Loop

(* The loop never sleeps without a deadline while a timer waits for its    *)
(* turn, unless the caller who entered the timer is about to wake it.      *)
THEOREM NoTimerForgottenCorrect == Spec => []NoTimerForgotten
<1>1. Init => Watched
  BY DEF Init, Watched
<1>2. Watched => NoTimerForgotten
  BY DEF Watched, NoTimerForgotten, Valid
<1> QED
  BY <1>1, <1>2, KeptCorrect, WatchedNext, PTL DEF Spec
-----------------------------------------------------------------------------
(* One turn more is one interval more.                                     *)
LEMMA OneIntervalMore ==
  ASSUME NEW turns \in Int, NEW interval \in Int
  PROVE (turns + 1) * interval = turns * interval + interval
OBVIOUS

(* The numbers that are counted with.                                      *)
LEMMA Numbers ==
  ASSUME Kept, NEW id \in Ids
  PROVE /\ fired[id] \in Nat /\ Taken(id) \in Nat /\ Decided(id) \in Nat /\ now \in Nat
        /\ nextId \in Nat /\ id \in Nat /\ deletedAt[id] \in Int
        /\ made[id] \in [due : Nat, repeat : Int] /\ timer[id] \in Timer
        /\ 1 .. nextId - 1 \subseteq Ids
        /\ id >= nextId => ~Coming(id) /\ Taken(id) = fired[id] /\ Decided(id) = fired[id]
<1>1. /\ fired[id] \in Nat /\ now \in Nat /\ nextId \in Nat /\ id \in Nat /\ deletedAt[id] \in Int
      /\ made[id] \in [due : Nat, repeat : Int] /\ timer[id] \in Timer
      /\ 1 .. nextId - 1 \subseteq Ids
  BY TimerAssumption DEF Kept, MapIsValidHeap, TypeOK, Ids
<1>2. id >= nextId => ~Coming(id) /\ Taken(id) = fired[id] /\ Decided(id) = fired[id]
  BY <1>1 DEF Kept, MapIsValidHeap, TypeOK, Coming, Entering, Popped, Taken, Decided
<1> QED
  BY <1>1, <1>2 DEF Taken, Decided

(* A step that leaves a timer and its turns as they are keeps what was     *)
(* promised of it; time may pass.                                          *)
LEMMA OneStays ==
  ASSUME NEW id \in Ids, Kept, Kept', Promised(id),
         timer'[id] = timer[id], made'[id] = made[id], deletedAt'[id] = deletedAt[id],
         Taken(id)' = Taken(id), Coming(id)' <=> Coming(id),
         deletedAt[id] # -1 => Decided(id)' = Decided(id),
         id >= nextId' => fired'[id] = fired[id], nextId' >= nextId,
         id < nextId' => id < nextId, now' >= now
  PROVE Promised(id)'
<1>1. /\ fired[id] \in Nat /\ Taken(id) \in Nat /\ now \in Nat /\ nextId \in Nat /\ id \in Nat
      /\ made[id].due \in Nat /\ timer[id].intervalMsec \in Nat
  BY Numbers DEF Timer
<1>2. now' \in Nat /\ nextId' \in Nat
  BY TimerAssumption DEF Kept, MapIsValidHeap, TypeOK
<1>3. Unmade(id)' /\ Marked(id)' /\ NoneAfter(id)'
  BY <1>1, <1>2 DEF Promised, Unmade, Marked, NoneAfter
<1>4. Counted(id)'
  BY <1>1, <1>2 DEF Promised, Counted, Left, Turns
<1>5. InTime(id)'
  <2> DEFINE some == Taken(id) * timer[id].intervalMsec
             most == (Taken(id) - 1) * timer[id].intervalMsec
  <2>1. some \in Int /\ most \in Int
    BY <1>1
  <2>2. /\ Coming(id) => timer[id].nextTimeout >= made[id].due + some
        /\ Taken(id) > 0 => now >= made[id].due + most
    BY DEF Promised, InTime
  <2>3. some' = some /\ most' = most
    OBVIOUS
  <2> HIDE DEF some, most
  <2>4. Taken(id)' > 0 => now' >= made'[id].due + most'
    BY <1>1, <1>2, <2>1, <2>2, <2>3
  <2>5. Coming(id)' => timer'[id].nextTimeout >= made'[id].due + some'
    BY <2>2, <2>3
  <2> QED
    BY <2>4, <2>5 DEF InTime, some, most
<1> QED
  BY <1>3, <1>4, <1>5 DEF Promised

(* What is promised of a timer is kept when the loop takes it: one turn    *)
(* more is taken, one less is left, and the next is an interval away.      *)
LEMMA TakenKeepsPromise ==
  ASSUME Kept, Kept', NEW h \in CleanedHeaps, NEW id \in Valid(h), Promised(id),
         timer[id].nextTimeout <= now,
         IF Again(timer[id])
         THEN heap' = h /\ map' = map /\ timer' = [timer EXCEPT ![id] = Rescheduled(@)]
         ELSE heap' = h \ {id} /\ map' = map \ {id}
              /\ timer' = [timer EXCEPT ![id] = CountedDown(@)],
         current' = id, loop = "locking", loop' = "calling",
         UNCHANGED <<now, nextId, client, fired, made, deletedAt>>
  PROVE Promised(id)'
<1> DEFINE k == fired[id]  each == timer[id].intervalMsec  r == made[id].repeat
           left == timer[id].repeatCount
<1>1. id \in map /\ id \in heap /\ id \in Ids /\ timer[id].isValid
  <2>1. id \in Valid(heap)
    BY CleanedKeepsValid
  <2> QED
    BY <2>1, TimerAssumption DEF Kept, MapIsValidHeap, TypeOK, Ids, Valid
<1>2. /\ k \in Nat /\ each \in Nat /\ r \in Int /\ left \in Int /\ now \in Nat
      /\ made[id].due \in Nat /\ timer[id].nextTimeout \in Nat /\ timer[id] \in Timer
      /\ nextId \in Nat /\ id \in Nat
  BY <1>1, Numbers DEF Timer
<1>3. Taken(id) = k /\ Taken(id)' = k + 1 /\ Coming(id) /\ deletedAt[id] = -1
  <2>1. Taken(id) = k + 0 /\ Taken(id)' = k + 1
    BY DEF Taken
  <2>2. Coming(id) /\ deletedAt[id] = -1
    BY <1>1 DEF Coming, Promised, Marked
  <2> QED
    BY <1>2, <2>1, <2>2
<1>4. /\ timer'[id] = IF Again(timer[id]) THEN Rescheduled(timer[id]) ELSE CountedDown(timer[id])
      /\ timer'[id].isValid /\ timer'[id].intervalMsec = each
      /\ timer'[id].repeatCount = IF left > 0 THEN left - 1 ELSE left
      /\ Again(timer[id]) => timer'[id].nextTimeout = now + each
  <2>1. timer'[id] = IF Again(timer[id]) THEN Rescheduled(timer[id]) ELSE CountedDown(timer[id])
    BY <1>1 DEF Kept, MapIsValidHeap, TypeOK
  <2> QED
    BY <1>1, <1>2, <2>1, TimerTypes
<1>5. Coming(id)' <=> Again(timer[id])
  <2>1. \A c \in Clients : Inserting(c)' => client'[c].id # id
    BY <1>1 DEF Kept, Entering, Inserting
  <2> QED
    BY <1>1, <2>1 DEF Coming
<1>6. Unmade(id)' /\ Marked(id)' /\ NoneAfter(id)'
  BY <1>1, <1>3, <1>4 DEF Promised, Unmade, Marked, NoneAfter
<1>7. Counted(id)'
  <2>1. /\ r >= -1 /\ (r = -1 <=> left = -1) /\ (r = 0 => left = 0)
        /\ r # -1 => Left(id) >= 1 /\ k + Left(id) = Turns(id)
    BY <1>3 DEF Promised, Counted
  <2>2. Left(id) = (IF r > 0 THEN left ELSE 1) /\ Turns(id) = (IF r > 0 THEN r ELSE 1)
        /\ Left(id)' = (IF r > 0 THEN timer'[id].repeatCount ELSE 1) /\ Turns(id)' = Turns(id)
    BY DEF Left, Turns
  <2>3. Again(timer[id]) <=> left = -1 \/ left > 1
    BY DEF Again
  <2> HIDE DEF k, each, r, left
  <2>4. CASE Again(timer[id])
    <3>1. r = -1 <=> timer'[id].repeatCount = -1
      BY <1>2, <1>4, <2>1, <2>3, <2>4
    <3>2. r = 0 => timer'[id].repeatCount = 0
      BY <1>2, <1>4, <2>1
    <3>3. r # -1 => Left(id)' >= 1 /\ Taken(id)' + Left(id)' = Turns(id)'
      BY <1>2, <1>3, <1>4, <2>1, <2>2, <2>3, <2>4
    <3> QED
      BY <1>5, <2>1, <2>4, <3>1, <3>2, <3>3 DEF Counted, r
  <2>5. CASE ~Again(timer[id])
    <3>1. r # -1 => Taken(id)' = Turns(id)' /\ Turns(id)' \in Int
      BY <1>2, <1>3, <1>4, <2>1, <2>2, <2>3, <2>5
    <3> QED
      BY <1>5, <2>1, <2>5, <3>1 DEF Counted, r
  <2> QED
    BY <2>4, <2>5
<1>8. InTime(id)'
  <2> DEFINE some == k * each
  <2>1. some \in Int /\ (k + 1) * each = some + each /\ (k + 1 - 1) * each = some
    BY <1>2, OneIntervalMore
  <2>2. now >= made[id].due + some
    <3>1. timer[id].nextTimeout >= made[id].due + some
      BY <1>3 DEF Promised, InTime
    <3> HIDE DEF some, each, k
    <3> QED
      BY <1>2, <2>1, <3>1
  <2>3. Again(timer[id]) => timer'[id].nextTimeout >= made[id].due + (k + 1) * each
    <3> HIDE DEF some, each, k
    <3> QED
      BY <1>2, <1>4, <2>1, <2>2
  <2>4. Taken(id)' * timer'[id].intervalMsec = (k + 1) * each
        /\ (Taken(id)' - 1) * timer'[id].intervalMsec = some
    <3>1. Taken(id)' = k + 1 /\ timer'[id].intervalMsec = each
      BY <1>3, <1>4
    <3>2. Taken(id)' * timer'[id].intervalMsec = (k + 1) * each
      BY <3>1
    <3>3. (Taken(id)' - 1) * timer'[id].intervalMsec = (k + 1 - 1) * each
      BY <1>2, <3>1
    <3> QED
      BY <2>1, <3>2, <3>3
  <2>5. UNCHANGED <<now, made>>
    OBVIOUS
  <2> QED
    BY <1>4, <1>5, <2>2, <2>3, <2>4, <2>5 DEF InTime
<1> QED
  BY <1>6, <1>7, <1>8 DEF Promised

(* Every step keeps what was promised of every timer.                      *)
LEMMA ServedNext == Kept /\ Kept' /\ Served /\ [Next]_vars => Served'
<1> SUFFICES ASSUME Kept, Kept', Served, [Next]_vars, NEW id \in Ids PROVE Promised(id)'
  BY DEF Served
<1>a. TypeOK /\ Entering /\ Popped /\ map = Valid(heap)
  BY DEF Kept, MapIsValidHeap
<1>b. Promised(id)
  BY DEF Served
<1>c. /\ fired[id] \in Nat /\ Taken(id) \in Nat /\ Decided(id) \in Nat /\ now \in Nat
      /\ nextId \in Nat /\ id \in Nat /\ deletedAt[id] \in Int
      /\ made[id] \in [due : Nat, repeat : Int] /\ timer[id] \in Timer
      /\ 1 .. nextId - 1 \subseteq Ids
      /\ id >= nextId => ~Coming(id) /\ Taken(id) = fired[id] /\ Decided(id) = fired[id]
  BY Numbers
<1>1. CASE Quiet \/ Rest
  <2>1. /\ UNCHANGED <<timer, made, deletedAt, fired, nextId, map>> /\ now' >= now
        /\ \/ UNCHANGED <<loop, current>>
           \/ loop \notin {"calling", "committed"} /\ loop' \notin {"calling", "committed"}
    BY <1>1, <1>c DEF Quiet, Tick, RunLoop, TestRunning, EndCallback, Block, Rest, Notified,
      Expire, SpuriousWake, Awake, NotifyCreated, CallStop, NotifyStop, vars, theLoop
  <2>2. \A c \in Clients : (Inserting(c)' <=> Inserting(c)) /\ (Inserting(c) => client'[c] = client[c])
    BY <1>1, <1>a DEF TypeOK, Inserting, Quiet, Tick, RunLoop, TestRunning, EndCallback, Block, Rest,
      Expire, SpuriousWake, Awake, NotifyCreated, CallStop, NotifyStop, vars, theLoop
  <2>3. Taken(id)' = Taken(id) /\ Decided(id)' = Decided(id)
    BY <2>1 DEF Taken, Decided
  <2>4. Coming(id)' <=> Coming(id)
    BY <2>1, <2>2 DEF Coming
  <2> QED
    BY <1>b, <1>c, <2>1, <2>3, <2>4, OneStays
<1>2. CASE TakeDue
  <2>1. PICK h \in CleanedHeaps, top \in heap :
          /\ top \in Valid(h)
          /\ timer[top].nextTimeout <= now
          /\ IF Again(timer[top])
             THEN /\ heap' = h /\ map' = map
                  /\ timer' = [timer EXCEPT ![top] = Rescheduled(@)]
             ELSE /\ heap' = h \ {top} /\ map' = map \ {top}
                  /\ timer' = [timer EXCEPT ![top] = CountedDown(@)]
          /\ current' = top
    BY <1>2, CleanedKeepsValid DEF TakeDue, Valid
  <2>2. /\ loop = "locking" /\ loop' = "calling"
        /\ UNCHANGED <<now, nextId, client, fired, made, deletedAt>>
    BY <1>2 DEF TakeDue
  <2>3. CASE id = top
    BY <1>b, <2>1, <2>2, <2>3, TakenKeepsPromise
  <2>4. CASE id # top
    <3>1. timer'[id] = timer[id] /\ (id \in map' <=> id \in map)
      BY <1>a, <2>1, <2>4 DEF TypeOK
    <3>2. Taken(id)' = Taken(id) /\ Decided(id)' = Decided(id)
      BY <2>1, <2>2, <2>4 DEF Taken, Decided
    <3>3. Coming(id)' <=> Coming(id)
      BY <2>2, <3>1 DEF Coming, Inserting
    <3> QED
      BY <1>b, <1>c, <2>2, <3>1, <3>2, <3>3, OneStays
  <2> QED
    BY <2>3, <2>4
<1>3. CASE ReadValid
  <2>1. UNCHANGED <<now, nextId, timer, map, client, fired, made, deletedAt>> /\ loop = "calling"
    BY <1>3 DEF ReadValid
  <2>2. Coming(id)' <=> Coming(id)
    BY <2>1 DEF Coming, Inserting
  <2>3. CASE id # current \/ timer[id].isValid
    <3>1. Taken(id)' = Taken(id)
      BY <1>3, <1>a, <1>c, <2>1, <2>3 DEF ReadValid, Taken, Popped
    <3>2. deletedAt[id] # -1 => Decided(id)' = Decided(id)
      BY <1>3, <1>a, <1>b, <1>c, <2>3 DEF ReadValid, Decided, Popped, Promised, Marked
    <3> QED
      BY <1>b, <1>c, <2>1, <2>2, <3>1, <3>2, OneStays
  <2>4. CASE id = current /\ ~timer[id].isValid
    <3>1. Taken(id) = fired[id] + 1 /\ Taken(id)' = fired[id] /\ Decided(id)' = Decided(id)
      BY <1>3, <1>c, <2>1, <2>4 DEF ReadValid, Taken, Decided
    <3>2. ~Coming(id)
      BY <1>a, <2>4 DEF Coming, Valid, Entering
    <3>3. Unmade(id)' /\ Marked(id)' /\ NoneAfter(id)'
      BY <1>b, <2>1, <3>1 DEF Promised, Unmade, Marked, NoneAfter
    <3>4. Counted(id)'
      <4>1. deletedAt[id] # -1 /\ Turns(id)' = Turns(id) /\ Turns(id) \in Int
        BY <1>b, <1>c, <2>1, <2>4 DEF Promised, Marked, Turns
      <4> QED
        BY <1>b, <1>c, <2>1, <2>2, <3>1, <3>2, <4>1 DEF Promised, Counted
    <3>5. InTime(id)'
      <4> DEFINE some == fired[id] * timer[id].intervalMsec
                 fewer == (fired[id] - 1) * timer[id].intervalMsec
      <4>1. timer[id].intervalMsec \in Nat /\ made[id].due \in Nat
        BY <1>c DEF Timer
      <4>2. some \in Int /\ fewer \in Int /\ some = fewer + timer[id].intervalMsec
        <5>1. fired[id] \in Int /\ fired[id] - 1 \in Int /\ fired[id] - 1 + 1 = fired[id]
          BY <1>c
        <5>2. (fired[id] - 1 + 1) * timer[id].intervalMsec = fewer + timer[id].intervalMsec
          BY <4>1, <5>1, OneIntervalMore
        <5> QED
          BY <4>1, <5>1, <5>2
      <4>3. now >= made[id].due + some
        <5>1. fired[id] + 1 > 0 /\ fired[id] + 1 - 1 = fired[id]
          BY <1>c
        <5>2. Taken(id) > 0 => now >= made[id].due + (Taken(id) - 1) * timer[id].intervalMsec
          BY <1>b DEF Promised, InTime
        <5> QED
          <6>1. Taken(id) > 0 /\ Taken(id) - 1 = fired[id]
            BY <1>c, <3>1, <5>1
          <6> QED
            BY <5>2, <6>1
      <4>4. now >= made[id].due + fewer
        <5> HIDE DEF some, fewer
        <5> QED
          BY <1>c, <4>1, <4>2, <4>3
      <4> QED
        BY <2>1, <2>2, <3>1, <3>2, <4>4 DEF InTime
    <3> QED
      BY <3>3, <3>4, <3>5 DEF Promised
  <2> QED
    BY <2>3, <2>4
<1>4. CASE BeginCallback
  <2>1. /\ UNCHANGED <<now, nextId, timer, map, client, current, made, deletedAt>>
        /\ loop = "committed" /\ loop' = "callback"
        /\ fired' = [fired EXCEPT ![current] = @ + 1]
    BY <1>4 DEF BeginCallback
  <2>2. fired'[id] = IF id = current THEN fired[id] + 1 ELSE fired[id]
    BY <1>a, <2>1 DEF TypeOK
  <2>3. Taken(id)' = Taken(id) /\ Decided(id)' = Decided(id)
    BY <1>c, <2>1, <2>2 DEF Taken, Decided
  <2>4. Coming(id)' <=> Coming(id)
    BY <2>1 DEF Coming, Inserting
  <2>5. id >= nextId => fired'[id] = fired[id]
    BY <1>a, <1>c, <2>1, <2>2 DEF Popped
  <2> QED
    BY <1>b, <1>c, <2>1, <2>3, <2>4, <2>5, OneStays
<1>5. ASSUME NEW c \in Clients, CallCreate(c) PROVE Promised(id)'
  <2>1. PICK delay \in Delays, skew \in Skews, repeat \in Repeats :
          /\ timer' = [timer EXCEPT ![nextId] = [nextTimeout |-> now + skew, intervalMsec |-> delay,
                                                repeatCount |-> repeat, isValid |-> TRUE]]
          /\ made' = [made EXCEPT ![nextId] = [due |-> now + skew, repeat |-> repeat]]
    BY <1>5 DEF CallCreate
  <2>2. /\ client[c].pc = "idle" /\ nextId' = nextId + 1
        /\ client' = [client EXCEPT ![c] = [pc |-> "inserting", id |-> nextId]]
        /\ UNCHANGED <<now, map, loop, current, fired, deletedAt>>
    BY <1>5 DEF CallCreate, theLoop
  <2>3. Taken(id)' = Taken(id) /\ Decided(id)' = Decided(id)
    BY <2>2 DEF Taken, Decided
  <2>4. client'[c] = [pc |-> "inserting", id |-> nextId]
        /\ \A d \in Clients : d # c => client'[d] = client[d]
    BY <1>a, <2>2 DEF TypeOK
  <2>5. CASE id # nextId
    <3>1. timer'[id] = timer[id] /\ made'[id] = made[id]
      BY <1>a, <2>1, <2>5 DEF TypeOK
    <3>2. Coming(id)' <=> Coming(id)
      <4>1. \A d \in Clients : (Inserting(d) /\ client[d].id = id)'
                                <=> Inserting(d) /\ client[d].id = id
        BY <2>2, <2>4, <2>5 DEF Inserting
      <4> QED
        BY <2>2, <4>1 DEF Coming
    <3> QED
      BY <1>b, <1>c, <2>2, <2>3, <2>5, <3>1, <3>2, OneStays
  <2>6. CASE id = nextId
    <3>1. fired[id] = 0 /\ deletedAt[id] = -1 /\ Taken(id)' = 0
      BY <1>b, <1>c, <2>3, <2>6 DEF Promised, Unmade
    <3>2. /\ timer'[id] = [nextTimeout |-> now + skew, intervalMsec |-> delay,
                           repeatCount |-> repeat, isValid |-> TRUE]
          /\ made'[id] = [due |-> now + skew, repeat |-> repeat]
      BY <1>a, <2>1, <2>6 DEF TypeOK
    <3>3. Coming(id)'
      BY <2>4, <2>6 DEF Coming, Inserting
    <3>4. skew \in Nat /\ delay \in Nat /\ repeat \in {-1} \cup Nat
      BY TimerAssumption
    <3>5. Unmade(id)' /\ Marked(id)' /\ NoneAfter(id)'
      BY <1>c, <2>2, <2>6, <3>1, <3>2 DEF Unmade, Marked, NoneAfter
    <3>6. Counted(id)'
      <4>1. Left(id)' = (IF repeat > 0 THEN repeat ELSE 1) /\ Turns(id)' = Left(id)'
        BY <3>2 DEF Left, Turns
      <4> QED
        BY <3>1, <3>2, <3>3, <3>4, <4>1 DEF Counted
    <3>7. InTime(id)'
      <4>1. 0 * delay = 0
        BY <3>4
      <4> QED
        BY <1>c, <3>1, <3>2, <3>4, <4>1 DEF InTime
    <3> QED
      BY <3>5, <3>6, <3>7 DEF Promised
  <2> QED
    BY <2>5, <2>6
<1>6. ASSUME NEW c \in Clients, InsertTimer(c) PROVE Promised(id)'
  <2>1. /\ Inserting(c) /\ map' = map \cup {client[c].id}
        /\ client' = [client EXCEPT ![c].pc = "notifying"]
        /\ UNCHANGED <<now, nextId, timer, loop, current, fired, made, deletedAt>>
    BY <1>6 DEF InsertTimer, Inserting, theLoop
  <2>2. Taken(id)' = Taken(id) /\ Decided(id)' = Decided(id)
    BY <2>1 DEF Taken, Decided
  <2>3. client'[c].pc = "notifying" /\ \A d \in Clients : d # c => client'[d] = client[d]
    BY <1>a, <2>1 DEF TypeOK
  <2>4. Coming(id)' <=> Coming(id)
    BY <2>1, <2>3 DEF Coming, Inserting
  <2> QED
    BY <1>b, <1>c, <2>1, <2>2, <2>4, OneStays
<1>7. ASSUME NEW c \in Clients, DeleteTimer(c) PROVE Promised(id)'
  <2>1. PICK gone \in map :
          /\ timer' = [timer EXCEPT ![gone].isValid = FALSE] /\ map' = map \ {gone}
          /\ deletedAt' = [deletedAt EXCEPT ![gone] = Decided(gone)]
    BY <1>7 DEF DeleteTimer
  <2>2. UNCHANGED <<now, nextId, client, loop, current, fired, made>>
    BY <1>7 DEF DeleteTimer, theLoop
  <2>3. Taken(id)' = Taken(id) /\ Decided(id)' = Decided(id)
    BY <2>2 DEF Taken, Decided
  <2>4. CASE id # gone
    <3>1. timer'[id] = timer[id] /\ deletedAt'[id] = deletedAt[id] /\ (id \in map' <=> id \in map)
      BY <1>a, <2>1, <2>4 DEF TypeOK
    <3>2. Coming(id)' <=> Coming(id)
      BY <2>2, <3>1 DEF Coming, Inserting
    <3> QED
      BY <1>b, <1>c, <2>2, <2>3, <3>1, <3>2, OneStays
  <2>5. CASE id = gone
    <3>1. /\ timer'[id] = [timer[id] EXCEPT !.isValid = FALSE]
          /\ deletedAt'[id] = Decided(id) /\ deletedAt'[id] # -1
      BY <1>a, <1>c, <2>1, <2>5 DEF TypeOK
    <3>2. ~timer'[id].isValid /\ timer'[id].repeatCount = timer[id].repeatCount
          /\ timer'[id].intervalMsec = timer[id].intervalMsec
      BY <1>c, <3>1 DEF Timer
    <3>3. Coming(id) /\ ~Coming(id)'
      <4>1. id \in heap /\ \A d \in Clients : Inserting(d)' => client'[d].id # id
        BY <1>a, <2>2, <2>5 DEF Entering, Inserting, TypeOK
      <4> QED
        BY <2>1, <2>5, <4>1 DEF Coming
    <3>4. Unmade(id)' /\ Marked(id)' /\ NoneAfter(id)'
      <4>1. id < nextId
        BY <1>c, <3>3
      <4> QED
        BY <1>c, <2>2, <2>3, <3>1, <3>2, <4>1 DEF Unmade, Marked, NoneAfter
    <3>5. Counted(id)'
      <4>1. /\ made[id].repeat >= -1
            /\ made[id].repeat # -1 => Left(id) >= 1 /\ Taken(id) + Left(id) = Turns(id)
        BY <1>b, <3>3 DEF Promised, Counted
      <4>2. Left(id) \in Int /\ Turns(id) \in Int /\ Turns(id)' = Turns(id)
        BY <1>c, <2>2 DEF Left, Turns, Timer
      <4>3. made[id].repeat # -1 => Taken(id) <= Turns(id)
        BY <1>c, <4>1, <4>2
      <4> QED
        BY <2>2, <2>3, <3>1, <3>3, <4>1, <4>2, <4>3 DEF Counted
    <3>6. InTime(id)'
      BY <1>b, <2>2, <2>3, <3>2, <3>3 DEF Promised, InTime
    <3> QED
      BY <3>4, <3>5, <3>6 DEF Promised
  <2> QED
    BY <2>4, <2>5
<1> QED
  BY <1>1, <1>2, <1>3, <1>4, <1>5, <1>6, <1>7, StepsOfQueue

(* A timer is called as often as was asked for and no more, no call comes  *)
(* before its time, and none but one the loop had decided upon comes after *)
(* deleteTimer returned; however the calls of createTimer, deleteTimer and *)
(* stop fall among the steps of the loop.                                  *)
THEOREM CalledAsAskedCorrect == Spec => []CalledAsAsked
<1>1. Init => Served
  <2> SUFFICES ASSUME Init, NEW id \in Ids PROVE Promised(id)
    BY DEF Served
  <2>1. ~Coming(id) /\ Taken(id) = 0
    BY DEF Init, Coming, Inserting, Taken
  <2>2. /\ fired[id] = 0 /\ made[id] = [due |-> 0, repeat |-> 0] /\ deletedAt[id] = -1
        /\ timer[id] = [nextTimeout |-> 0, intervalMsec |-> 0, repeatCount |-> 0, isValid |-> TRUE]
    BY DEF Init
  <2>3. nextId = 1 /\ id >= nextId
    BY DEF Init, Ids
  <2>4. Unmade(id) /\ Marked(id) /\ NoneAfter(id) /\ InTime(id)
    BY <2>1, <2>2 DEF Unmade, Marked, NoneAfter, InTime
  <2>5. Counted(id)
    <3>1. id \in Int /\ ~(id < nextId)
      BY <2>3 DEF Ids
    <3> QED
      BY <2>1, <2>2, <3>1 DEF Counted
  <2> QED
    BY <2>4, <2>5 DEF Promised
<1>2. Kept /\ Served => CalledAsAsked
  <2> SUFFICES ASSUME Kept, Served, NEW id \in Ids
               PROVE /\ made[id].repeat # -1 =>
                         /\ fired[id] <= Turns(id)
                         /\ id \notin map /\ deletedAt[id] = -1 /\ id < nextId =>
                             \/ fired[id] = Turns(id)
                             \/ loop \in {"calling", "committed"} /\ current = id
                             \/ \E c \in Clients : client[c] = [pc |-> "inserting", id |-> id]
                     /\ fired[id] > 0 =>
                         now >= made[id].due + (fired[id] - 1) * timer[id].intervalMsec
                     /\ deletedAt[id] # -1 => fired[id] <= deletedAt[id]
    BY DEF CalledAsAsked
  <2>1. /\ fired[id] \in Nat /\ Taken(id) \in Nat /\ now \in Nat /\ nextId \in Nat /\ id \in Nat
        /\ made[id].due \in Nat /\ made[id].repeat \in Int /\ timer[id].intervalMsec \in Nat
        /\ timer[id].repeatCount \in Int
        /\ deletedAt[id] \in Int /\ Decided(id) \in Nat
        /\ id >= nextId => ~Coming(id)
    BY Numbers DEF Timer
  <2>2. \/ Taken(id) = fired[id]
        \/ Taken(id) = fired[id] + 1 /\ loop \in {"calling", "committed"} /\ current = id
    <3>1. fired[id] + 0 = fired[id]
      BY <2>1
    <3> QED
      BY <3>1 DEF Taken
  <2>3. Unmade(id) /\ Counted(id) /\ InTime(id) /\ NoneAfter(id)
    BY DEF Served, Promised
  <2>4. Turns(id) \in Nat /\ Turns(id) >= 1 /\ Left(id) \in Int
    BY <2>1 DEF Turns, Left
  <2>5. made[id].repeat # -1 => fired[id] <= Turns(id)
    <3>1. made[id].repeat # -1 /\ id < nextId => Taken(id) <= Turns(id)
      BY <2>1, <2>3, <2>4 DEF Counted
    <3> QED
      BY <2>1, <2>2, <2>3, <2>4, <3>1 DEF Unmade
  <2>6. ASSUME made[id].repeat # -1, id \notin map, deletedAt[id] = -1, id < nextId
        PROVE \/ fired[id] = Turns(id)
              \/ loop \in {"calling", "committed"} /\ current = id
              \/ \E c \in Clients : client[c] = [pc |-> "inserting", id |-> id]
    <3>1. CASE Coming(id)
      <4>1. PICK c \in Clients : Inserting(c) /\ client[c].id = id
        BY <2>6, <3>1 DEF Coming
      <4>2. client[c] = [pc |-> "inserting", id |-> id]
        BY <4>1 DEF Kept, MapIsValidHeap, TypeOK, Inserting
      <4> QED
        BY <4>2
    <3>2. CASE ~Coming(id)
      BY <2>2, <2>3, <2>6, <3>2 DEF Counted
    <3> QED
      BY <3>1, <3>2
  <2>7. fired[id] > 0 => now >= made[id].due + (fired[id] - 1) * timer[id].intervalMsec
    <3> DEFINE some == fired[id] * timer[id].intervalMsec
               fewer == (fired[id] - 1) * timer[id].intervalMsec
    <3>1. some \in Int /\ fewer \in Int /\ some = fewer + timer[id].intervalMsec
      <4>1. (fired[id] - 1 + 1) * timer[id].intervalMsec = fewer + timer[id].intervalMsec
        BY <2>1, OneIntervalMore
      <4>2. fired[id] - 1 + 1 = fired[id]
        BY <2>1
      <4> QED
        BY <2>1, <4>1, <4>2
    <3>2. Taken(id) > 0 => now >= made[id].due + (Taken(id) - 1) * timer[id].intervalMsec
      BY <2>3 DEF InTime
    <3>3. CASE Taken(id) = fired[id]
      BY <3>2, <3>3
    <3>4. CASE Taken(id) = fired[id] + 1
      <4>1. Taken(id) > 0 /\ Taken(id) - 1 = fired[id]
        BY <2>1, <3>4
      <4>2. now >= made[id].due + some
        BY <3>2, <4>1
      <4> HIDE DEF some, fewer
      <4>3. now >= made[id].due + fewer
        BY <2>1, <3>1, <4>2
      <4> QED
        BY <4>3 DEF fewer
    <3> QED
      BY <2>2, <3>3, <3>4
  <2>8. deletedAt[id] # -1 => fired[id] <= deletedAt[id]
    BY <2>1, <2>3 DEF NoneAfter, Decided
  <2> QED
    BY <2>5, <2>6, <2>7, <2>8
<1> QED
  BY <1>1, <1>2, KeptCorrect, KeptNext, ServedNext, PTL DEF Spec
=============================================================================
