--------------------------- MODULE InferencePipe ---------------------------
(***************************************************************************)
(* otl::InferencePipe (otl_pipeline.h) with the WorkerPools that drive it  *)
(* (otl_thread_queue.h): frames pass through three queues, each emptied by *)
(* the threads of one pool, which hand them on to the next queue.          *)
(*                                                                         *)
(* The queues are taken at the level of BoundedChannel, which the module   *)
(* BlockingQueue is shown to implement: a call on one is a step, and a     *)
(* call that would wait is one that is not enabled. The batch push keeps   *)
(* the mutex until the queue is full, so that it stores what fits at once. *)
(***************************************************************************)
EXTENDS Integers, Sequences, FiniteSets, SequencesExt

CONSTANTS
    QueueSize,     \* QueueSize[s]: the limit of the queue of stage s
    ThreadNum,     \* ThreadNum[s]: the threads of the pool of stage s
    BatchNum,      \* m_param.batch_num
    MaxPop,        \* the max_pop_num of the last two pools (8 in the code)
    MaxFrames      \* bound: how many frames are pushed

Preprocess == 1
Forward == 2
Postprocess == 3
Stages == {Preprocess, Forward, Postprocess}

(* init() checks none of this. A batch larger than the first queue would   *)
(* leave the source waiting for room and the workers for a batch.          *)
ASSUME PipeAssumption ==
    /\ QueueSize \in [Stages -> Nat \ {0}]
    /\ ThreadNum \in [Stages -> Nat \ {0}]
    /\ BatchNum \in 1 .. QueueSize[Preprocess]
    /\ MaxPop \in Nat \ {0}
    /\ MaxFrames \in Nat

Workers == UNION {{s} \X (1 .. ThreadNum[s]) : s \in Stages}
WorkersOf(s) == {w \in Workers : w[1] = s}

VARIABLES
    queue,      \* queue[s]: the frames that wait for stage s
    stopped,    \* m_stop of the queue of the first stage
    pushed,     \* how many frames push_frame was called with
    flushedAt,  \* the value of pushed at the first flush_frame
    pc,         \* pc[w]: what worker w is doing
    items,      \* items[w]: the frames in the hands of worker w
    done,       \* the frames postprocess() returned for, in that order
    destroying  \* ~InferencePipe has freed the StatTools and joins the last pool

pvars == <<queue, stopped, pushed, flushedAt, pc, items, done, destroying>>

Frames == 1 .. MaxFrames

(* The threads of the forward pool call the delegate's initialize() first. *)
Init ==
    /\ queue = [s \in Stages |-> <<>>]
    /\ stopped = FALSE
    /\ pushed = 0
    /\ flushedAt = 0
    /\ pc = [w \in Workers |-> IF w[1] = Forward THEN "starting" ELSE "popping"]
    /\ items = [w \in Workers |-> <<>>]
    /\ done = <<>>
    /\ destroying = FALSE

(* Definitions marked "Variant" are what a plausible slip would make of the *)
(* definition after them; no specification uses one. Variant: flush stops  *)
(* the queues of all three pools.                                          *)
IsStopped_All(s) == stopped /\ s \in Stages

(* Only the first pool is ever flushed, and so no other queue is stopped.  *)
IsStopped(s) == stopped /\ s = Preprocess

(* Variant: the queues are made without a limit.                           *)
Room_Unlimited(s) == IF s \in Stages THEN MaxFrames ELSE 0

Room(s) == IF IsStopped(s) THEN MaxFrames ELSE QueueSize[s] - Len(queue[s])

MinPop(s) == IF s = Preprocess THEN BatchNum ELSE 1
MostPop(s) == IF s = Preprocess THEN BatchNum ELSE MaxPop

(* Variant: what remains below a batch is left behind by a flush.          *)
Ready_IgnoresStop(s) == Len(queue[s]) >= MinPop(s) \/ (stopped /\ queue[s] = <<>>)

Ready(s) == Len(queue[s]) >= MinPop(s) \/ IsStopped(s)
-----------------------------------------------------------------------------
PushFrame ==
    /\ ~destroying
    /\ pushed < MaxFrames /\ Room(Preprocess) > 0
    /\ pushed' = pushed + 1
    /\ queue' = [queue EXCEPT ![Preprocess] = Append(@, pushed + 1)]
    /\ UNCHANGED <<stopped, flushedAt, pc, items, done, destroying>>

(* flush_frame stops the first queue, for good.                            *)
FlushFrame ==
    /\ ~destroying
    /\ stopped' = TRUE
    /\ flushedAt' = IF stopped THEN flushedAt ELSE pushed
    /\ UNCHANGED <<queue, pushed, pc, items, done, destroying>>

FirstWork(w) ==
    /\ pc[w] = "starting"
    /\ pc' = [pc EXCEPT ![w] = "popping"]
    /\ UNCHANGED <<queue, stopped, pushed, flushedAt, items, done, destroying>>

Least(a, b) == IF a < b THEN a ELSE b

(* pop_front, which waits for a batch unless the queue was stopped. A      *)
(* thread that comes away with nothing ends.                               *)
PopItems(w) ==
    LET s == w[1]
        n == Least(Len(queue[s]), MostPop(s))
    IN /\ pc[w] = "popping" /\ Ready(s)
       /\ items' = [items EXCEPT ![w] = SubSeq(queue[s], 1, n)]
       /\ queue' = [queue EXCEPT ![s] = SubSeq(@, n + 1, Len(@))]
       /\ pc' = [pc EXCEPT ![w] = IF n = 0 THEN "ended" ELSE "working"]
       /\ UNCHANGED <<stopped, pushed, flushedAt, done, destroying>>

(* Where a worker is after the update() of its pool's StatTool. Once the   *)
(* destructor has freed the tools the call is undefined: it returns as     *)
(* before, or the worker is heard of no more.                              *)
AfterUpdate(next) == {next} \cup (IF destroying THEN {"lost"} ELSE {})

(* The delegate's preprocess() or forward() is over, and is counted.       *)
Update(w) ==
    /\ pc[w] = "working" /\ w[1] # Postprocess
    /\ \E after \in AfterUpdate("pushing") : pc' = [pc EXCEPT ![w] = after]
    /\ UNCHANGED <<queue, stopped, pushed, flushedAt, items, done, destroying>>

(* Variant: what the next queue has no room for is thrown away.            *)
HandOn_DropsRest(w) ==
    LET next == w[1] + 1
        n == Least(Len(items[w]), Room(next))
    IN /\ pc[w] = "pushing" /\ w[1] # Postprocess
       /\ queue' = [queue EXCEPT ![next] = @ \o SubSeq(items[w], 1, n)]
       /\ items' = [items EXCEPT ![w] = <<>>]
       /\ pc' = [pc EXCEPT ![w] = "popping"]
       /\ UNCHANGED <<stopped, pushed, flushedAt, done, destroying>>

(* Variant: the push starts with the last of the items.                    *)
HandOn_LastFirst(w) ==
    LET next == w[1] + 1
        n == Least(Len(items[w]), Room(next))
        m == Len(items[w]) - n
    IN /\ pc[w] = "pushing" /\ w[1] # Postprocess
       /\ n > 0
       /\ queue' = [queue EXCEPT ![next] = @ \o SubSeq(items[w], m + 1, m + n)]
       /\ items' = [items EXCEPT ![w] = SubSeq(@, 1, m)]
       /\ pc' = [pc EXCEPT ![w] = IF m = 0 THEN "popping" ELSE "pushing"]
       /\ UNCHANGED <<stopped, pushed, flushedAt, done, destroying>>

(* The items go to the next queue, as many as it has room for at a time.   *)
(* The push goes on until the last item: nobody stops the queues it fills. *)
HandOn(w) ==
    LET next == w[1] + 1
        n == Least(Len(items[w]), Room(next))
    IN /\ pc[w] = "pushing" /\ w[1] # Postprocess
       /\ n > 0
       /\ queue' = [queue EXCEPT ![next] = @ \o SubSeq(items[w], 1, n)]
       /\ items' = [items EXCEPT ![w] = SubSeq(@, n + 1, Len(@))]
       /\ pc' = [pc EXCEPT ![w] = IF n = Len(items[w]) THEN "popping" ELSE "pushing"]
       /\ UNCHANGED <<stopped, pushed, flushedAt, done, destroying>>

(* The delegate's postprocess() is over and counted, and the round ends.   *)
Finish(w) ==
    /\ pc[w] = "working" /\ w[1] = Postprocess
    /\ done' = done \o items[w]
    /\ items' = [items EXCEPT ![w] = <<>>]
    /\ \E after \in AfterUpdate("popping") : pc' = [pc EXCEPT ![w] = after]
    /\ UNCHANGED <<queue, stopped, pushed, flushedAt, destroying>>

(* ~InferencePipe stops no queue. The members go in the reverse of their   *)
(* order: first the three StatTools, which the workers still update, and   *)
(* then it joins every thread of the last pool.                            *)
Destroy ==
    /\ ~destroying
    /\ destroying' = TRUE
    /\ UNCHANGED <<queue, stopped, pushed, flushedAt, pc, items, done>>

Next ==
    \/ PushFrame
    \/ FlushFrame
    \/ \E w \in Workers : FirstWork(w) \/ PopItems(w) \/ Update(w) \/ HandOn(w) \/ Finish(w)
    \/ Destroy

Spec == Init /\ [][Next]_pvars

(* The delegate's calls return. What a queue promises is what the runs of  *)
(* BlockingQueue check: a batch is taken by one or another thread of the   *)
(* pool, a push returns while the threads of the next pool keep calling,   *)
(* and after stop every call returns.                                      *)
Fairness ==
    /\ \A s \in Stages : WF_pvars(\E w \in WorkersOf(s) : PopItems(w))
    /\ \A w \in Workers : /\ WF_pvars(FirstWork(w))
                          /\ WF_pvars(IsStopped(w[1]) /\ PopItems(w))
                          /\ WF_pvars(Update(w))
                          /\ SF_pvars(HandOn(w))
                          /\ WF_pvars(Finish(w))

FairSpec == Spec /\ Fairness
-----------------------------------------------------------------------------
(* Where a worker has items in its hands; one of the last pool is done     *)
(* with them when it updates its tool.                                     *)
Holding(w) ==
    {"working"} \cup (IF w[1] = Postprocess THEN {} ELSE {"pushing", "lost"})

TypeOK ==
    /\ queue \in [Stages -> Seq(Frames)]
    /\ stopped \in BOOLEAN
    /\ pushed \in 0 .. MaxFrames
    /\ flushedAt \in 0 .. pushed
    /\ pc \in [Workers -> {"starting", "popping", "working", "pushing", "lost", "ended"}]
    /\ items \in [Workers -> Seq(Frames)]
    /\ \A w \in Workers : pc[w] \in Holding(w) <=> items[w] # <<>>
    /\ done \in Seq(Frames)
    /\ destroying \in BOOLEAN

(* Every frame handed to push_frame is in one place, once: it waits in one *)
(* of the queues, or one worker has it, or postprocess() is done with it.  *)
(* No interleaving of the pools loses, copies or makes up a frame.         *)
Places == ({"queue"} \X Stages) \cup ({"hands"} \X Workers) \cup {<<"done", Postprocess>>}

Contents ==
    [p \in Places |-> CASE p[1] = "queue" -> queue[p[2]]
                        [] p[1] = "hands" -> items[p[2]]
                        [] p[1] = "done" -> done]

InOnePlaceEach(contents, n) ==
    /\ UNION {ToSet(contents[p]) : p \in Places} = 1 .. n
    /\ \A p, q \in Places : \A i \in 1 .. Len(contents[p]), j \in 1 .. Len(contents[q]) :
          contents[p][i] = contents[q][j] => p = q /\ i = j

FramesAccounted == InOnePlaceEach(Contents, pushed)

(* Until the pipe is flushed, what left the first queue is a whole number  *)
(* of batches, however many threads take from it. Batches may overtake     *)
(* each other between the threads of the first pool, but when the later    *)
(* pools have a thread each, the frames of one batch come out in order,    *)
(* and with a single thread in the first pool too all of them do. (Frames  *)
(* pushed after a flush are not counted in batches.)                       *)
SameBatch(f, g) ==
    ThreadNum[Preprocess] = 1 \/ (f - 1) \div BatchNum = (g - 1) \div BatchNum

BatchesInOrder ==
    /\ ~stopped => (pushed - Len(queue[Preprocess])) % BatchNum = 0
    /\ ThreadNum[Forward] = 1 /\ ThreadNum[Postprocess] = 1 =>
        \A i, j \in 1 .. Len(done) :
            /\ i < j /\ SameBatch(done[i], done[j])
            /\ stopped => {done[i], done[j]} \subseteq 1 .. flushedAt
            => done[i] < done[j]

(* A source that pushes faster than the pipe works is held back: each      *)
(* queue keeps its limit until it is stopped, and a worker takes no more   *)
(* than its share, so that what is between the source and the end of the   *)
(* pipe is bounded by the limits and shares together.                      *)
BackPressure ==
    /\ \A s \in Stages : IsStopped(s) \/ Len(queue[s]) <= QueueSize[s]
    /\ \A w \in Workers : Len(items[w]) <= MostPop(w[1])

(* The threads of the last two pools never end, whatever is called: the    *)
(* destructor, which joins them and stops nothing, does not return.        *)
LaterPoolsNeverEnd == \A w \in Workers : pc[w] = "ended" => w[1] = Preprocess

(* As long as the pipe is not destroyed, every frame of a complete batch   *)
(* reaches postprocess() without a flush, and with one also those of the   *)
(* batch that is not complete, if they were pushed before it. Of a pipe    *)
(* that is destroyed with frames in it nothing is promised: its workers    *)
(* go on with what was freed.                                              *)
InFullBatch(f) == ~stopped /\ f <= pushed - (pushed % BatchNum)

FramesReachTheEnd ==
    \A f \in Frames :
        InFullBatch(f) \/ (stopped /\ f <= flushedAt) ~> f \in ToSet(done) \/ destroying
=============================================================================
