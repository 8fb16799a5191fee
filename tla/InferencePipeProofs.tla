------------------------ MODULE InferencePipeProofs ------------------------
(* Theorems about the pipe, for any queue sizes, thread counts and batch.  *)
EXTENDS InferencePipe, SequenceTheorems, TLAPS

(* What is cut off either end of a sequence is a sequence.                 *)
LEMMA SubSeqType ==
  ASSUME NEW S, NEW s \in Seq(S), NEW m \in 1 .. Len(s) + 1, NEW n \in 0 .. Len(s)
  PROVE /\ SubSeq(s, m, n) \in Seq(S)
        /\ Len(SubSeq(s, m, n)) = IF m <= n THEN n - m + 1 ELSE 0
<1>1. CASE m <= n
  BY <1>1, SubSeqProperties
<1>2. CASE ~(m <= n)
  <2>1. SubSeq(s, m, n) = <<>>
    BY <1>2
  <2> QED
    BY <1>2, <2>1
<1> QED
  BY <1>1, <1>2

(* A worker belongs to a stage, and every constant has its type.           *)
LEMMA WorkerStage ==
  ASSUME NEW w \in Workers
  PROVE /\ w[1] \in Stages
        /\ w[1] # Postprocess => w[1] + 1 \in Stages
BY DEF Workers, Stages, Preprocess, Forward, Postprocess

(* The pools start with empty queues and empty hands.                      *)
LEMMA TypeInit == Init => TypeOK
<1> SUFFICES ASSUME Init PROVE TypeOK
  OBVIOUS
<1>1. <<>> \in Seq(Frames)
  OBVIOUS
<1>2. pushed \in 0 .. MaxFrames /\ flushedAt \in 0 .. pushed
  BY PipeAssumption DEF Init
<1>3. /\ pc \in [Workers -> {"starting", "popping", "working", "pushing", "lost", "ended"}]
      /\ items \in [Workers -> Seq(Frames)]
      /\ \A w \in Workers : pc[w] \in Holding(w) <=> items[w] # <<>>
  BY <1>1 DEF Init, Holding
<1> QED
  BY <1>1, <1>2, <1>3 DEF Init, TypeOK

(* Every call on the pipe and every round of a worker keeps the types, and *)
(* a worker has items in its hands exactly when it works on them.          *)
LEMMA TypeNext == TypeOK /\ [Next]_pvars => TypeOK'
<1> SUFFICES ASSUME TypeOK, [Next]_pvars PROVE TypeOK'
  OBVIOUS
<1> USE PipeAssumption
<1>1. CASE PushFrame
  <2>1. pushed' \in 0 .. MaxFrames /\ flushedAt \in 0 .. pushed' /\ pushed + 1 \in Frames
    BY <1>1 DEF PushFrame, TypeOK, Frames
  <2>2. Append(queue[Preprocess], pushed + 1) \in Seq(Frames)
    BY <2>1 DEF TypeOK, Stages
  <2>3. queue' \in [Stages -> Seq(Frames)]
    BY <1>1, <2>2 DEF PushFrame, TypeOK
  <2> QED
    BY <1>1, <2>1, <2>3 DEF PushFrame, TypeOK
<1>2. CASE FlushFrame
  BY <1>2 DEF FlushFrame, TypeOK
<1>3. ASSUME NEW w \in Workers, FirstWork(w) PROVE TypeOK'
  BY <1>3 DEF FirstWork, TypeOK, Holding
<1>4. ASSUME NEW w \in Workers, PopItems(w) PROVE TypeOK'
  <2> DEFINE s == w[1]
             n == Least(Len(queue[s]), MostPop(s))
  <2>1. s \in Stages /\ queue[s] \in Seq(Frames) /\ Len(queue[s]) \in Nat
    BY WorkerStage DEF TypeOK
  <2>2. MostPop(s) \in Nat \ {0}
    BY DEF MostPop, Preprocess, Stages
  <2>3. n \in 0 .. Len(queue[s])
    BY <2>1, <2>2 DEF Least
  <2> HIDE DEF n
  <2>4. /\ SubSeq(queue[s], 1, n) \in Seq(Frames)
        /\ Len(SubSeq(queue[s], 1, n)) = n
        /\ SubSeq(queue[s], n + 1, Len(queue[s])) \in Seq(Frames)
    BY <2>1, <2>3, SubSeqType
  <2>5. /\ pc[w] = "popping"
        /\ items' = [items EXCEPT ![w] = SubSeq(queue[s], 1, n)]
        /\ queue' = [queue EXCEPT ![s] = SubSeq(queue[s], n + 1, Len(queue[s]))]
        /\ pc' = [pc EXCEPT ![w] = IF n = 0 THEN "ended" ELSE "working"]
        /\ UNCHANGED <<stopped, pushed, flushedAt, done, destroying>>
    BY <1>4 DEF PopItems, n, TypeOK
  <2>6. queue' \in [Stages -> Seq(Frames)] /\ items' \in [Workers -> Seq(Frames)]
    BY <2>1, <2>4, <2>5 DEF TypeOK
  <2>7. items'[w] = <<>> <=> n = 0
    BY <2>4, <2>5, EmptySeq DEF TypeOK
  <2>8. \A v \in Workers : pc'[v] \in Holding(v) <=> items'[v] # <<>>
    BY <2>5, <2>7 DEF TypeOK, Holding
  <2> QED
    BY <2>5, <2>6, <2>8 DEF TypeOK
<1>5. ASSUME NEW w \in Workers, HandOn(w) PROVE TypeOK'
  <2> DEFINE next == w[1] + 1
             n == Least(Len(items[w]), Room(next))
  <2>1. next \in Stages /\ queue[next] \in Seq(Frames) /\ items[w] \in Seq(Frames)
    BY <1>5, WorkerStage DEF TypeOK, HandOn
  <2>2. Room(next) \in Int
    BY <2>1, PipeAssumption, LenProperties DEF Room
  <2>3. n \in 1 .. Len(items[w])
    BY <1>5, <2>1, <2>2, LenProperties DEF HandOn, Least
  <2> HIDE DEF n
  <2>4. /\ SubSeq(items[w], 1, n) \in Seq(Frames)
        /\ SubSeq(items[w], n + 1, Len(items[w])) \in Seq(Frames)
        /\ Len(SubSeq(items[w], n + 1, Len(items[w]))) = Len(items[w]) - n
    BY <2>1, <2>3, SubSeqType
  <2>5. queue[next] \o SubSeq(items[w], 1, n) \in Seq(Frames)
    BY <2>1, <2>4
  <2>6. /\ pc[w] = "pushing" /\ w[1] # Postprocess
        /\ items' = [items EXCEPT ![w] = SubSeq(items[w], n + 1, Len(items[w]))]
        /\ queue' = [queue EXCEPT ![next] = queue[next] \o SubSeq(items[w], 1, n)]
        /\ pc' = [pc EXCEPT ![w] = IF n = Len(items[w]) THEN "popping" ELSE "pushing"]
        /\ UNCHANGED <<stopped, pushed, flushedAt, done, destroying>>
    BY <1>5 DEF HandOn, n, TypeOK
  <2>7. queue' \in [Stages -> Seq(Frames)] /\ items' \in [Workers -> Seq(Frames)]
    BY <2>1, <2>4, <2>5, <2>6 DEF TypeOK
  <2>8. items'[w] = <<>> <=> n = Len(items[w])
    <3>1. items'[w] = SubSeq(items[w], n + 1, Len(items[w]))
      BY <2>6 DEF TypeOK
    <3>2. Len(items'[w]) = Len(items[w]) - n /\ items'[w] \in Seq(Frames)
      BY <2>4, <3>1
    <3>3. items'[w] = <<>> <=> Len(items'[w]) = 0
      BY <3>2, EmptySeq
    <3>4. Len(items[w]) - n = 0 <=> n = Len(items[w])
      BY <2>1, <2>3, LenProperties
    <3> QED
      BY <3>2, <3>3, <3>4
  <2>9. \A v \in Workers : pc'[v] \in Holding(v) <=> items'[v] # <<>>
    BY <2>6, <2>8 DEF TypeOK, Holding
  <2> QED
    BY <2>6, <2>7, <2>9 DEF TypeOK
<1>6. ASSUME NEW w \in Workers, Finish(w) PROVE TypeOK'
  <2>1. done \o items[w] \in Seq(Frames) /\ <<>> \in Seq(Frames)
    BY DEF TypeOK
  <2>2. done' \in Seq(Frames) /\ items' \in [Workers -> Seq(Frames)]
    BY <1>6, <2>1 DEF Finish, TypeOK
  <2>3. \A v \in Workers : pc'[v] \in Holding(v) <=> items'[v] # <<>>
    BY <1>6 DEF Finish, AfterUpdate, TypeOK, Holding
  <2> QED
    BY <1>6, <2>2, <2>3 DEF Finish, AfterUpdate, TypeOK
<1>7. CASE Destroy
  BY <1>7 DEF Destroy, TypeOK
<1>8. CASE UNCHANGED pvars
  BY <1>8 DEF pvars, TypeOK
<1>9. ASSUME NEW w \in Workers, Update(w) PROVE TypeOK'
  BY <1>9 DEF Update, AfterUpdate, Holding, TypeOK
<1> QED
  BY <1>1, <1>2, <1>3, <1>4, <1>5, <1>6, <1>7, <1>8, <1>9 DEF Next

(* Every reachable state of the pipe has its type.                         *)
THEOREM PipeTypeCorrect == Spec => []TypeOK
BY TypeInit, TypeNext, PTL DEF Spec

(* A thread of a later pool comes away from pop_front with something: its  *)
(* queue is never stopped.                                                 *)
LEMMA LaterPoolsNext == TypeOK /\ LaterPoolsNeverEnd /\ [Next]_pvars => LaterPoolsNeverEnd'
<1> SUFFICES ASSUME TypeOK, LaterPoolsNeverEnd, [Next]_pvars PROVE LaterPoolsNeverEnd'
  OBVIOUS
<1>1. ASSUME NEW w \in Workers, PopItems(w) PROVE LaterPoolsNeverEnd'
  <2> DEFINE n == Least(Len(queue[w[1]]), MostPop(w[1]))
  <2>1. w[1] # Preprocess => n # 0
    <3> SUFFICES ASSUME w[1] # Preprocess PROVE n # 0
      OBVIOUS
    <3>1. Len(queue[w[1]]) \in Nat /\ MostPop(w[1]) \in Nat \ {0}
      BY WorkerStage, PipeAssumption DEF TypeOK, MostPop
    <3>2. Len(queue[w[1]]) >= 1
      BY <1>1 DEF PopItems, Ready, IsStopped, MinPop
    <3> QED
      BY <3>1, <3>2 DEF Least
  <2>2. pc' = [pc EXCEPT ![w] = IF n = 0 THEN "ended" ELSE "working"]
    BY <1>1 DEF PopItems
  <2> HIDE DEF n
  <2> QED
    BY <2>1, <2>2 DEF LaterPoolsNeverEnd, TypeOK
<1>2. ASSUME NEW w \in Workers, FirstWork(w) \/ Update(w) \/ HandOn(w) \/ Finish(w)
      PROVE LaterPoolsNeverEnd'
  BY <1>2 DEF FirstWork, Update, AfterUpdate, HandOn, Finish, LaterPoolsNeverEnd, TypeOK
<1>3. CASE PushFrame \/ FlushFrame \/ Destroy \/ UNCHANGED pvars
  BY <1>3 DEF PushFrame, FlushFrame, Destroy, pvars, LaterPoolsNeverEnd
<1> QED
  BY <1>1, <1>2, <1>3 DEF Next

(* Whatever is called, the threads of the last two pools never end, so     *)
(* that the destructor, which joins them, does not return.                 *)
THEOREM LaterPoolsCorrect == Spec => []LaterPoolsNeverEnd
<1>1. Init => LaterPoolsNeverEnd
  BY DEF Init, LaterPoolsNeverEnd
<1> QED
  BY <1>1, PipeTypeCorrect, LaterPoolsNext, PTL DEF Spec
-----------------------------------------------------------------------------
(* A queue that is not stopped takes no more than it has room for, and one *)
(* once stopped stays so; a worker begins with its share at most.          *)
LEMMA BackPressureNext == TypeOK /\ BackPressure /\ [Next]_pvars => BackPressure'
<1> SUFFICES ASSUME TypeOK, BackPressure, [Next]_pvars PROVE BackPressure'
  OBVIOUS
<1> USE PipeAssumption
<1>0. /\ \A s \in Stages : /\ queue[s] \in Seq(Frames) /\ Len(queue[s]) \in Nat
                            /\ QueueSize[s] \in Nat \ {0} /\ MostPop(s) \in Nat \ {0}
      /\ \A w \in Workers : items[w] \in Seq(Frames) /\ Len(items[w]) \in Nat
  BY DEF TypeOK, MostPop, Stages
<1>1. CASE PushFrame
  <2>1. Preprocess \in Stages
    BY DEF Stages
  <2>2. /\ queue' = [queue EXCEPT ![Preprocess] = Append(queue[Preprocess], pushed + 1)]
        /\ UNCHANGED <<stopped, items>>
        /\ Len(queue'[Preprocess]) = Len(queue[Preprocess]) + 1
    BY <1>0, <1>1, <2>1, AppendProperties DEF PushFrame, TypeOK
  <2>3. IsStopped(Preprocess) \/ Len(queue'[Preprocess]) <= QueueSize[Preprocess]
    BY <1>0, <1>1, <2>1, <2>2 DEF PushFrame, Room
  <2>4. \A s \in Stages \ {Preprocess} : queue'[s] = queue[s]
    BY <2>2 DEF TypeOK
  <2> QED
    BY <2>2, <2>3, <2>4 DEF BackPressure, IsStopped, TypeOK
<1>2. ASSUME NEW w \in Workers, PopItems(w) PROVE BackPressure'
  <2> DEFINE s == w[1]
             n == Least(Len(queue[s]), MostPop(s))
  <2>1. s \in Stages
    BY WorkerStage
  <2>2. n \in 0 .. Len(queue[s]) /\ n <= MostPop(s)
    BY <1>0, <2>1 DEF Least
  <2> HIDE DEF n
  <2>3. /\ Len(SubSeq(queue[s], 1, n)) = n
        /\ Len(SubSeq(queue[s], n + 1, Len(queue[s]))) = Len(queue[s]) - n
    BY <1>0, <2>1, <2>2, SubSeqType
  <2>4. /\ items' = [items EXCEPT ![w] = SubSeq(queue[s], 1, n)]
        /\ queue' = [queue EXCEPT ![s] = SubSeq(queue[s], n + 1, Len(queue[s]))]
        /\ stopped' = stopped
    BY <1>2 DEF PopItems, n, TypeOK
  <2>5. \A t \in Stages : Len(queue'[t]) <= Len(queue[t]) /\ Len(queue'[t]) \in Nat
    BY <1>0, <2>1, <2>2, <2>3, <2>4 DEF TypeOK
  <2>6. \A v \in Workers : items'[v] = items[v] \/ (v = w /\ Len(items'[v]) = n)
    BY <2>3, <2>4 DEF TypeOK
  <2> QED
    BY <1>0, <2>2, <2>4, <2>5, <2>6 DEF BackPressure, IsStopped, MostPop
<1>3. ASSUME NEW w \in Workers, HandOn(w) PROVE BackPressure'
  <2> DEFINE next == w[1] + 1
             n == Least(Len(items[w]), Room(next))
  <2>1. next \in Stages /\ next # Preprocess /\ items[w] \in Seq(Frames)
    <3>1. w[1] \in Stages /\ w[1] # Postprocess
      BY <1>3, WorkerStage DEF HandOn
    <3> QED
      BY <1>0, <3>1 DEF Stages, Preprocess, Forward, Postprocess
  <2>2. Room(next) = QueueSize[next] - Len(queue[next]) /\ Room(next) \in Int
    BY <1>0, <2>1 DEF Room, IsStopped
  <2>3. n \in 1 .. Len(items[w]) /\ n <= Room(next)
    <3>1. n > 0
      BY <1>3 DEF HandOn
    <3> QED
      BY <2>1, <2>2, <3>1, LenProperties DEF Least
  <2> HIDE DEF n
  <2>4. /\ SubSeq(items[w], 1, n) \in Seq(Frames) /\ Len(SubSeq(items[w], 1, n)) = n
        /\ Len(SubSeq(items[w], n + 1, Len(items[w]))) = Len(items[w]) - n
    BY <2>1, <2>3, SubSeqType
  <2>5. Len(queue[next] \o SubSeq(items[w], 1, n)) = Len(queue[next]) + n
    BY <1>0, <2>1, <2>4, ConcatProperties
  <2>6. /\ items' = [items EXCEPT ![w] = SubSeq(items[w], n + 1, Len(items[w]))]
        /\ queue' = [queue EXCEPT ![next] = queue[next] \o SubSeq(items[w], 1, n)]
        /\ stopped' = stopped
    BY <1>3 DEF HandOn, n, TypeOK
  <2>7. \A t \in Stages : queue'[t] = queue[t] \/ (t = next /\ Len(queue'[t]) <= QueueSize[t])
    BY <1>0, <2>1, <2>2, <2>3, <2>5, <2>6 DEF TypeOK
  <2>8. \A v \in Workers : Len(items'[v]) <= Len(items[v]) /\ Len(items'[v]) \in Nat
    BY <1>0, <2>3, <2>4, <2>6 DEF TypeOK
  <2> QED
    <3>1. \A v \in Workers : Len(items'[v]) <= MostPop(v[1])
      <4> SUFFICES ASSUME NEW v \in Workers PROVE Len(items'[v]) <= MostPop(v[1])
        OBVIOUS
      <4>1. MostPop(v[1]) \in Nat
        BY <1>0, WorkerStage
      <4>2. Len(items[v]) <= MostPop(v[1]) /\ Len(items[v]) \in Nat
        BY <1>0 DEF BackPressure
      <4> QED
        BY <2>8, <4>1, <4>2
    <3> QED
      BY <2>6, <2>7, <3>1 DEF BackPressure, IsStopped, MostPop
<1>4. ASSUME NEW w \in Workers, Finish(w) PROVE BackPressure'
  <2>1. \A v \in Workers : Len(items'[v]) <= Len(items[v]) /\ Len(items'[v]) \in Nat
    BY <1>0, <1>4, EmptySeq DEF Finish, TypeOK
  <2> QED
    BY <1>0, <1>4, <2>1, WorkerStage DEF Finish, BackPressure, IsStopped, MostPop
<1>5. CASE FlushFrame
  BY <1>5 DEF FlushFrame, BackPressure, IsStopped, MostPop
<1>6. ASSUME UNCHANGED <<queue, items, stopped>> PROVE BackPressure'
  BY <1>6 DEF BackPressure, IsStopped, MostPop
<1>7. ASSUME NEW w \in Workers, FirstWork(w) \/ Update(w) PROVE BackPressure'
  BY <1>6, <1>7 DEF FirstWork, Update
<1>8. CASE Destroy \/ UNCHANGED pvars
  BY <1>6, <1>8 DEF Destroy, pvars
<1> QED
  BY <1>1, <1>2, <1>3, <1>4, <1>5, <1>7, <1>8 DEF Next

(* The source is held back: every queue that was not stopped keeps its     *)
(* limit and every worker its share, for all limits and thread counts.     *)
THEOREM BackPressureCorrect == Spec => []BackPressure
<1>1. Init => BackPressure
  <2> SUFFICES ASSUME Init PROVE BackPressure
    OBVIOUS
  <2>1. \A w \in Workers : MostPop(w[1]) \in Nat
    BY PipeAssumption, WorkerStage DEF MostPop
  <2>2. \A s \in Stages : QueueSize[s] \in Nat
    BY PipeAssumption
  <2> QED
    BY <2>1, <2>2, EmptySeq DEF Init, BackPressure
<1> QED
  BY <1>1, PipeTypeCorrect, BackPressureNext, PTL DEF Spec
-----------------------------------------------------------------------------
(* What every round of a worker does: the first n items of one place go,   *)
(* in their order, to the end of another.                                  *)
Moved(c, a, b, n) ==
    [c EXCEPT ![a] = SubSeq(c[a], n + 1, Len(c[a])), ![b] = c[b] \o SubSeq(c[a], 1, n)]

PlaceContents == [Places -> Seq(Frames)]

(* Where the items of a concatenation are.                                 *)
LEMMA ConcatItems ==
  ASSUME NEW S, NEW s \in Seq(S), NEW t \in Seq(S)
  PROVE /\ \A i \in 1 .. Len(s) : (s \o t)[i] = s[i]
        /\ \A i \in 1 .. Len(t) : (s \o t)[Len(s) + i] = t[i]
<1> DEFINE both == s \o t
<1>1. \A i \in 1 .. Len(s) + Len(t) : both[i] = IF i <= Len(s) THEN s[i] ELSE t[i - Len(s)]
  BY ConcatProperties
<1>2. Len(s) \in Nat /\ Len(t) \in Nat
  OBVIOUS
<1> HIDE DEF both
<1>3. ASSUME NEW i \in 1 .. Len(t) PROVE both[Len(s) + i] = t[i]
  <2>1. /\ Len(s) + i \in 1 .. Len(s) + Len(t) /\ ~(Len(s) + i <= Len(s))
        /\ (Len(s) + i) - Len(s) = i
    BY <1>2
  <2> QED
    BY <1>1, <2>1
<1>4. ASSUME NEW i \in 1 .. Len(s) PROVE both[i] = s[i]
  BY <1>1, <1>2
<1> QED
  BY <1>3, <1>4 DEF both

(* Where an item of the new contents comes from: from the place it is in,  *)
(* or from the front of the place that was moved.                          *)
LEMMA MovedItems ==
  ASSUME NEW c \in PlaceContents, NEW a \in Places, NEW b \in Places, a # b,
         NEW n \in 0 .. Len(c[a])
  PROVE /\ Moved(c, a, b, n) \in PlaceContents
        /\ \A p \in Places \ {a, b} : Moved(c, a, b, n)[p] = c[p]
        /\ Len(Moved(c, a, b, n)[a]) = Len(c[a]) - n
        /\ Len(Moved(c, a, b, n)[b]) = Len(c[b]) + n
        /\ \A i \in 1 .. Len(c[a]) - n : Moved(c, a, b, n)[a][i] = c[a][i + n]
        /\ \A i \in 1 .. Len(c[b]) : Moved(c, a, b, n)[b][i] = c[b][i]
        /\ \A i \in 1 .. n : Moved(c, a, b, n)[b][Len(c[b]) + i] = c[a][i]
<1> DEFINE rest == SubSeq(c[a], n + 1, Len(c[a]))
           front == SubSeq(c[a], 1, n)
           d == Moved(c, a, b, n)
<1>1. c[a] \in Seq(Frames) /\ c[b] \in Seq(Frames) /\ Len(c[a]) \in Nat /\ Len(c[b]) \in Nat
  BY DEF PlaceContents
<1>2. /\ rest \in Seq(Frames) /\ front \in Seq(Frames)
      /\ Len(rest) = Len(c[a]) - n /\ Len(front) = n
  BY <1>1, SubSeqType
<1>3. /\ \A i \in 1 .. Len(c[a]) - n : rest[i] = c[a][i + n]
      /\ \A i \in 1 .. n : front[i] = c[a][i]
  BY <1>1
<1> HIDE DEF rest, front
<1>4. c[b] \o front \in Seq(Frames) /\ Len(c[b] \o front) = Len(c[b]) + n
  BY <1>1, <1>2, ConcatProperties
<1>5. /\ \A i \in 1 .. Len(c[b]) : (c[b] \o front)[i] = c[b][i]
      /\ \A i \in 1 .. n : (c[b] \o front)[Len(c[b]) + i] = front[i]
  BY <1>1, <1>2, ConcatItems
<1>6. /\ DOMAIN d = Places /\ d[a] = rest /\ d[b] = c[b] \o front
      /\ \A p \in Places \ {a, b} : d[p] = c[p]
  BY DEF Moved, PlaceContents, rest, front
<1>7. d \in PlaceContents
  <2>1. \A p \in Places : d[p] \in Seq(Frames)
    BY <1>2, <1>4, <1>6 DEF PlaceContents
  <2>2. d = [p \in Places |-> d[p]]
    BY <1>6 DEF Moved, PlaceContents
  <2> QED
    BY <2>1, <2>2 DEF PlaceContents
<1> QED
  BY <1>2, <1>3, <1>4, <1>5, <1>6, <1>7

(* The place and index an item of the new contents had in the old ones.    *)
Came(c, a, b, n, p, i) ==
    IF p = a THEN <<a, i + n>>
    ELSE IF p = b /\ i > Len(c[b]) THEN <<a, i - Len(c[b])>>
    ELSE <<p, i>>

(* No two items of the new contents come from the same spot, and the spot  *)
(* held the same frame.                                                    *)
LEMMA CameFrom ==
  ASSUME NEW c \in PlaceContents, NEW a \in Places, NEW b \in Places, a # b,
         NEW n \in 0 .. Len(c[a]),
         NEW p \in Places, NEW i \in 1 .. Len(Moved(c, a, b, n)[p])
  PROVE /\ Came(c, a, b, n, p, i)[1] \in Places
        /\ Came(c, a, b, n, p, i)[2] \in 1 .. Len(c[Came(c, a, b, n, p, i)[1]])
        /\ Moved(c, a, b, n)[p][i] =
              c[Came(c, a, b, n, p, i)[1]][Came(c, a, b, n, p, i)[2]]
<1> DEFINE d == Moved(c, a, b, n)
<1>1. Len(c[a]) \in Nat /\ Len(c[b]) \in Nat
  BY DEF PlaceContents
<1>2. CASE p = a
  <2>1. i \in 1 .. Len(c[a]) - n /\ i + n \in 1 .. Len(c[a]) /\ d[p][i] = c[a][i + n]
    BY <1>1, <1>2, MovedItems
  <2> QED
    BY <1>2, <2>1 DEF Came
<1>3. CASE p = b /\ i > Len(c[b])
  <2> DEFINE k == i - Len(c[b])
  <2>1. i \in 1 .. Len(c[b]) + n
    BY <1>3, MovedItems
  <2>2. k \in 1 .. n /\ i = Len(c[b]) + k
    BY <1>1, <1>3, <2>1
  <2>3. d[b][Len(c[b]) + k] = c[a][k]
    BY <2>2, MovedItems
  <2>4. k \in 1 .. Len(c[a])
    BY <1>1, <2>2
  <2> QED
    BY <1>3, <2>2, <2>3, <2>4 DEF Came
<1>4. CASE p = b /\ ~(i > Len(c[b]))
  <2>1. i \in 1 .. Len(c[b]) + n
    BY <1>4, MovedItems
  <2>2. i \in 1 .. Len(c[b])
    BY <1>1, <1>4, <2>1
  <2>3. d[b][i] = c[b][i]
    BY <2>2, MovedItems
  <2> QED
    BY <1>4, <2>2, <2>3 DEF Came
<1>5. CASE p \notin {a, b}
  <2>1. d[p] = c[p]
    BY <1>5, MovedItems
  <2> QED
    BY <1>5, <2>1 DEF Came
<1> QED
  BY <1>2, <1>3, <1>4, <1>5

(* Moving items leaves every frame in one place.                           *)
LEMMA MovedAccounted ==
  ASSUME NEW c \in PlaceContents, NEW a \in Places, NEW b \in Places, a # b,
         NEW n \in 0 .. Len(c[a]), NEW k \in Nat, InOnePlaceEach(c, k)
  PROVE InOnePlaceEach(Moved(c, a, b, n), k)
<1> DEFINE d == Moved(c, a, b, n)
           Old(p, i) == Came(c, a, b, n, p, i)
<1>0. /\ d \in PlaceContents
      /\ Len(c[a]) \in Nat /\ Len(c[b]) \in Nat
      /\ \A p \in Places : Len(d[p]) \in Nat /\ Len(c[p]) \in Nat
      /\ \A p \in Places : ToSet(d[p]) = {d[p][i] : i \in 1 .. Len(d[p])}
      /\ \A p \in Places : ToSet(c[p]) = {c[p][i] : i \in 1 .. Len(c[p])}
  <2>1. d \in PlaceContents
    BY MovedItems
  <2>2. \A p \in Places : d[p] \in Seq(Frames) /\ c[p] \in Seq(Frames)
    BY <2>1 DEF PlaceContents
  <2> HIDE DEF d
  <2> QED
    BY <2>1, <2>2, LenProperties DEF ToSet
<1>1. ASSUME NEW p \in Places, NEW q \in Places, NEW i \in 1 .. Len(d[p]), NEW j \in 1 .. Len(d[q]),
             d[p][i] = d[q][j]
      PROVE p = q /\ i = j
  <2>1. /\ Old(p, i)[1] \in Places /\ Old(p, i)[2] \in 1 .. Len(c[Old(p, i)[1]])
        /\ d[p][i] = c[Old(p, i)[1]][Old(p, i)[2]]
    BY CameFrom
  <2>2. /\ Old(q, j)[1] \in Places /\ Old(q, j)[2] \in 1 .. Len(c[Old(q, j)[1]])
        /\ d[q][j] = c[Old(q, j)[1]][Old(q, j)[2]]
    BY CameFrom
  <2>3. Old(p, i)[1] = Old(q, j)[1] /\ Old(p, i)[2] = Old(q, j)[2]
    <3> DEFINE p1 == Old(p, i)[1]
               i1 == Old(p, i)[2]
               q1 == Old(q, j)[1]
               j1 == Old(q, j)[2]
    <3>1. /\ p1 \in Places /\ i1 \in 1 .. Len(c[p1]) /\ q1 \in Places /\ j1 \in 1 .. Len(c[q1])
          /\ c[p1][i1] = c[q1][j1]
      BY <1>1, <2>1, <2>2
    <3> HIDE DEF p1, i1, q1, j1, d
    <3>2. p1 = q1 /\ i1 = j1
      BY <3>1 DEF InOnePlaceEach
    <3> QED
      BY <3>2 DEF p1, i1, q1, j1
  <2>4. p = b /\ i > Len(c[b]) => i - Len(c[b]) <= n
    <3> SUFFICES ASSUME p = b, i > Len(c[b]) PROVE i - Len(c[b]) <= n
      OBVIOUS
    <3>1. i \in 1 .. Len(c[b]) + n
      BY MovedItems
    <3> QED
      BY <1>0, <3>1
  <2>5. q = b /\ j > Len(c[b]) => j - Len(c[b]) <= n
    <3> SUFFICES ASSUME q = b, j > Len(c[b]) PROVE j - Len(c[b]) <= n
      OBVIOUS
    <3>1. j \in 1 .. Len(c[b]) + n
      BY MovedItems
    <3> QED
      BY <1>0, <3>1
  <2>6. i \in Nat /\ j \in Nat /\ i > 0 /\ j > 0 /\ n \in Nat
    BY <1>0
  <2> HIDE DEF d
  <2> QED
    BY <1>0, <2>3, <2>4, <2>5, <2>6 DEF Came
<1>2. ASSUME NEW f, NEW p \in Places, f \in ToSet(d[p])
      PROVE f \in 1 .. k
  <2>1. PICK i \in 1 .. Len(d[p]) : f = d[p][i]
    BY <1>0, <1>2
  <2>2. PICK q \in Places : \E j \in 1 .. Len(c[q]) : f = c[q][j]
    <3> DEFINE p1 == Old(p, i)[1]
               i1 == Old(p, i)[2]
    <3>1. p1 \in Places /\ i1 \in 1 .. Len(c[p1]) /\ d[p][i] = c[p1][i1]
      BY CameFrom
    <3> HIDE DEF p1, i1, d
    <3> QED
      BY <2>1, <3>1
  <2>3. f \in ToSet(c[q])
    BY <1>0, <2>2
  <2> QED
    BY <2>3 DEF InOnePlaceEach
<1>3. ASSUME NEW f \in 1 .. k
      PROVE \E p \in Places : f \in ToSet(d[p])
  <2>1. PICK q \in Places : f \in ToSet(c[q])
    <3>1. f \in UNION {ToSet(c[p]) : p \in Places}
      BY Zenon DEF InOnePlaceEach
    <3> QED
      BY <3>1
  <2>2. PICK j \in 1 .. Len(c[q]) : f = c[q][j]
    BY <1>0, <2>1
  <2>3. \A p \in Places : \A i \in 1 .. Len(d[p]) : d[p][i] = f => f \in ToSet(d[p])
    BY <1>0
  <2>4. CASE q \notin {a, b}
    BY <2>1, <2>4, MovedItems
  <2>5. CASE q = b
    <3>1. j \in 1 .. Len(d[b]) /\ d[b][j] = f
      BY <1>0, <2>2, <2>5, MovedItems
    <3> QED
      BY <2>3, <3>1
  <2>6. CASE q = a /\ j <= n
    <3>1. Len(c[b]) + j \in 1 .. Len(d[b]) /\ d[b][Len(c[b]) + j] = f
      BY <1>0, <2>2, <2>6, MovedItems
    <3> QED
      BY <2>3, <3>1
  <2>7. CASE q = a /\ j > n
    <3> DEFINE i == j - n
    <3>1. i \in 1 .. Len(c[a]) - n /\ j = i + n
      BY <1>0, <2>2, <2>7
    <3> HIDE DEF i
    <3>2. i \in 1 .. Len(d[a]) /\ d[a][i] = c[a][i + n]
      BY <3>1, MovedItems
    <3> QED
      BY <2>2, <2>3, <2>7, <3>1, <3>2
  <2> QED
    BY <1>0, <2>2, <2>4, <2>5, <2>6, <2>7
<1> HIDE DEF d
<1>4. UNION {ToSet(d[p]) : p \in Places} = 1 .. k
  BY <1>2, <1>3
<1> QED
  BY <1>1, <1>4 DEF InOnePlaceEach, d

Waits(s) == <<"queue", s>>
Held(w) == <<"hands", w>>
Over == <<"done", Postprocess>>

(* What each place holds.                                                  *)
LEMMA ContentsAt ==
  /\ \A s \in Stages : Waits(s) \in Places /\ Contents[Waits(s)] = queue[s]
  /\ \A w \in Workers : Held(w) \in Places /\ Contents[Held(w)] = items[w]
  /\ Over \in Places /\ Contents[Over] = done
  /\ \A p \in Places : \/ \E s \in Stages : p = Waits(s)
                       \/ \E w \in Workers : p = Held(w)
                       \/ p = Over
<1>1. ASSUME NEW s \in Stages PROVE Waits(s) \in Places /\ Contents[Waits(s)] = queue[s]
  <2>1. Waits(s) \in Places
    BY DEF Places, Waits
  <2>2. Waits(s)[1] = "queue" /\ Waits(s)[2] = s
    BY DEF Waits
  <2> QED
    BY <2>1, <2>2 DEF Contents
<1>2. ASSUME NEW w \in Workers PROVE Held(w) \in Places /\ Contents[Held(w)] = items[w]
  <2>1. Held(w) \in Places
    BY DEF Places, Held
  <2>2. Held(w)[1] = "hands" /\ Held(w)[2] = w
    BY DEF Held
  <2> QED
    BY <2>1, <2>2 DEF Contents
<1>3. Over \in Places /\ Contents[Over] = done
  <2>1. Over \in Places
    BY DEF Places, Over
  <2>2. Over[1] = "done"
    BY DEF Over
  <2> QED
    BY <2>1, <2>2 DEF Contents
<1>4. ASSUME NEW p \in Places
      PROVE \/ \E s \in Stages : p = Waits(s)
            \/ \E w \in Workers : p = Held(w)
            \/ p = Over
  <2>1. CASE p \in {"queue"} \X Stages
    BY <2>1 DEF Waits
  <2>2. CASE p \in {"hands"} \X Workers
    BY <2>2 DEF Held
  <2>3. CASE p = Over
    BY <2>3
  <2> QED
    BY <2>1, <2>2, <2>3 DEF Places, Over
<1> QED
  BY <1>1, <1>2, <1>3, <1>4

(* The places hold sequences of frames.                                    *)
LEMMA ContentsType == TypeOK => Contents \in PlaceContents
<1> SUFFICES ASSUME TypeOK PROVE Contents \in PlaceContents
  OBVIOUS
<1>1. \A p \in Places : Contents[p] \in Seq(Frames)
  BY ContentsAt DEF TypeOK
<1> DEFINE held(p) == CASE p[1] = "queue" -> queue[p[2]]
                        [] p[1] = "hands" -> items[p[2]]
                        [] p[1] = "done" -> done
<1>2. Contents = [p \in Places |-> held(p)]
  BY DEF Contents
<1> HIDE DEF held
<1>3. \A p \in Places : held(p) = Contents[p]
  BY <1>2
<1> QED
  BY <1>1, <1>2, <1>3 DEF PlaceContents

(* The same, of the next state.                                            *)
LEMMA ContentsTypeNext == TypeOK' => Contents' \in PlaceContents
<1>1. (TypeOK => Contents \in PlaceContents)'
  BY ContentsType, PTL
<1> QED
  BY <1>1 DEF PlaceContents, Places

(* The contents of each place after a step, place by place.               *)
LEMMA ContentsAtNext ==
  /\ \A s \in Stages : Contents'[Waits(s)] = queue'[s]
  /\ \A w \in Workers : Contents'[Held(w)] = items'[w]
  /\ Contents'[Over] = done'
<1> DEFINE At == /\ \A s \in Stages : Contents[Waits(s)] = queue[s]
                 /\ \A w \in Workers : Contents[Held(w)] = items[w]
                 /\ Contents[Over] = done
<1>1. At
  BY ContentsAt
<1>2. At'
  BY <1>1, PTL
<1> QED
  BY <1>2

(* A function on the places is known by what it holds at each.             *)
LEMMA SameContents ==
  ASSUME NEW c \in PlaceContents, Contents' \in PlaceContents,
         \A s \in Stages : queue'[s] = c[Waits(s)],
         \A w \in Workers : items'[w] = c[Held(w)],
         done' = c[Over]
  PROVE Contents' = c
<1>1. \A p \in Places : Contents'[p] = c[p]
  BY ContentsAt, ContentsAtNext
<1> QED
  BY <1>1 DEF PlaceContents

(* The rounds of the workers move items from a place to the next.          *)
LEMMA PopMoves ==
  ASSUME TypeOK, TypeOK', NEW w \in Workers, PopItems(w)
  PROVE /\ Least(Len(queue[w[1]]), MostPop(w[1])) \in 0 .. Len(Contents[Waits(w[1])])
        /\ Contents' = Moved(Contents, Waits(w[1]), Held(w),
                             Least(Len(queue[w[1]]), MostPop(w[1])))
        /\ items[w] = <<>>
<1> DEFINE s == w[1]
           n == Least(Len(queue[s]), MostPop(s))
           a == Waits(s)
           b == Held(w)
           c == Moved(Contents, a, b, n)
<1>1. s \in Stages /\ queue[s] \in Seq(Frames) /\ Len(queue[s]) \in Nat
  BY WorkerStage DEF TypeOK
<1>2. MostPop(s) \in Nat \ {0}
  BY <1>1, PipeAssumption DEF MostPop, Preprocess, Stages
<1>3. /\ a \in Places /\ b \in Places /\ a # b
      /\ Contents[a] = queue[s] /\ Contents[b] = items[w]
  BY <1>1, ContentsAt DEF Waits, Held
<1>4. n \in 0 .. Len(Contents[a])
  BY <1>1, <1>2, <1>3 DEF Least
<1>5. Contents \in PlaceContents /\ Contents' \in PlaceContents
  BY ContentsType, ContentsTypeNext
<1>6. pc[w] = "popping"
  BY <1>1 DEF PopItems
<1>7. items[w] = <<>>
  BY <1>6 DEF TypeOK, Holding
<1> HIDE DEF n
<1>8. /\ items' = [items EXCEPT ![w] = SubSeq(queue[s], 1, n)]
      /\ queue' = [queue EXCEPT ![s] = SubSeq(queue[s], n + 1, Len(queue[s]))]
      /\ done' = done
  BY DEF PopItems, n, TypeOK
<1>9. c \in PlaceContents
  BY <1>3, <1>4, <1>5, MovedItems
<1>10. /\ c[a] = SubSeq(queue[s], n + 1, Len(queue[s]))
       /\ c[b] = <<>> \o SubSeq(queue[s], 1, n)
       /\ \A p \in Places \ {a, b} : c[p] = Contents[p]
  BY <1>3, <1>5, <1>7 DEF Moved, PlaceContents
<1>11. c[b] = SubSeq(queue[s], 1, n)
  <2>1. SubSeq(queue[s], 1, n) \in Seq(Frames)
    BY <1>1, <1>3, <1>4, SubSeqType
  <2> QED
    BY <1>10, <2>1, ConcatEmptySeq
<1> HIDE DEF c
<1>12. \A t \in Stages : queue'[t] = c[Waits(t)]
  <2>1. \A t \in Stages : t # s => Waits(t) \in Places \ {a, b}
    BY ContentsAt DEF Waits, Held
  <2> QED
    BY <1>1, <1>8, <1>10, <2>1, ContentsAt DEF TypeOK
<1>13. \A v \in Workers : items'[v] = c[Held(v)]
  <2>1. \A v \in Workers : v # w => Held(v) \in Places \ {a, b}
    BY ContentsAt DEF Waits, Held
  <2> QED
    BY <1>8, <1>10, <1>11, <2>1, ContentsAt DEF TypeOK
<1>14. done' = c[Over]
  <2>1. Over \in Places \ {a, b}
    BY ContentsAt DEF Waits, Held, Over
  <2> QED
    BY <1>8, <1>10, <2>1, ContentsAt
<1>15. Contents' = c
  BY <1>5, <1>9, <1>12, <1>13, <1>14, SameContents
<1> QED
  BY <1>4, <1>7, <1>15 DEF c, n

(* preprocess() or forward() is over: a worker moves items to the next     *)
(* queue.                                                                  *)
LEMMA HandMoves ==
  ASSUME TypeOK, TypeOK', NEW w \in Workers, HandOn(w)
  PROVE /\ w[1] + 1 \in Stages
        /\ Least(Len(items[w]), Room(w[1] + 1)) \in 0 .. Len(Contents[Held(w)])
        /\ Contents' = Moved(Contents, Held(w), Waits(w[1] + 1),
                             Least(Len(items[w]), Room(w[1] + 1)))
<1> DEFINE next == w[1] + 1
           n == Least(Len(items[w]), Room(next))
           a == Held(w)
           b == Waits(next)
           c == Moved(Contents, a, b, n)
<1>1. next \in Stages /\ items[w] \in Seq(Frames) /\ Len(items[w]) \in Nat
  BY WorkerStage DEF HandOn, TypeOK
<1>2. Room(next) \in Int /\ n > 0
  <2>1. queue[next] \in Seq(Frames) /\ QueueSize[next] \in Int /\ MaxFrames \in Int
    BY <1>1, PipeAssumption DEF TypeOK
  <2>2. Room(next) \in Int
    BY <2>1, LenProperties DEF Room
  <2> QED
    BY <2>2 DEF HandOn
<1>3. /\ a \in Places /\ b \in Places /\ a # b
      /\ Contents[a] = items[w] /\ Contents[b] = queue[next]
  BY <1>1, ContentsAt DEF Waits, Held
<1>4. n \in 0 .. Len(Contents[a])
  BY <1>1, <1>2, <1>3 DEF Least
<1>5. Contents \in PlaceContents /\ Contents' \in PlaceContents
  BY ContentsType, ContentsTypeNext
<1> HIDE DEF n
<1>6. /\ items' = [items EXCEPT ![w] = SubSeq(items[w], n + 1, Len(items[w]))]
      /\ queue' = [queue EXCEPT ![next] = queue[next] \o SubSeq(items[w], 1, n)]
      /\ done' = done
  BY DEF HandOn, n, TypeOK
<1>7. c \in PlaceContents
  BY <1>3, <1>4, <1>5, MovedItems
<1>8. /\ c[a] = SubSeq(items[w], n + 1, Len(items[w]))
      /\ c[b] = queue[next] \o SubSeq(items[w], 1, n)
      /\ \A p \in Places \ {a, b} : c[p] = Contents[p]
  BY <1>3, <1>5 DEF Moved, PlaceContents
<1> HIDE DEF c
<1>9. \A t \in Stages : queue'[t] = c[Waits(t)]
  <2>1. \A t \in Stages : t # next => Waits(t) \in Places \ {a, b}
    BY ContentsAt DEF Waits, Held
  <2> QED
    BY <1>1, <1>6, <1>8, <2>1, ContentsAt DEF TypeOK
<1>10. \A v \in Workers : items'[v] = c[Held(v)]
  <2>1. \A v \in Workers : v # w => Held(v) \in Places \ {a, b}
    BY ContentsAt DEF Waits, Held
  <2> QED
    BY <1>6, <1>8, <2>1, ContentsAt DEF TypeOK
<1>11. done' = c[Over]
  <2>1. Over \in Places \ {a, b}
    BY ContentsAt DEF Waits, Held, Over
  <2> QED
    BY <1>6, <1>8, <2>1, ContentsAt
<1>12. Contents' = c
  BY <1>5, <1>7, <1>9, <1>10, <1>11, SameContents
<1> QED
  BY <1>1, <1>4, <1>12 DEF c, n

(* postprocess() is over: a worker moves all it has to the end.            *)
LEMMA FinishMoves ==
  ASSUME TypeOK, TypeOK', NEW w \in Workers, Finish(w)
  PROVE /\ Len(items[w]) \in 0 .. Len(Contents[Held(w)])
        /\ Contents' = Moved(Contents, Held(w), Over, Len(items[w]))
<1> DEFINE n == Len(items[w])
           a == Held(w)
           b == Over
           c == Moved(Contents, a, b, n)
<1>1. items[w] \in Seq(Frames) /\ n \in Nat
  BY DEF TypeOK
<1>2. /\ a \in Places /\ b \in Places /\ a # b
      /\ Contents[a] = items[w] /\ Contents[b] = done
  BY ContentsAt DEF Over, Held
<1>3. n \in 0 .. Len(Contents[a])
  BY <1>1, <1>2
<1>4. Contents \in PlaceContents /\ Contents' \in PlaceContents
  BY ContentsType, ContentsTypeNext
<1>5. /\ items' = [items EXCEPT ![w] = <<>>]
      /\ done' = done \o items[w]
      /\ queue' = queue
  BY DEF Finish, TypeOK
<1>6. c \in PlaceContents
  BY <1>2, <1>3, <1>4, MovedItems
<1>7. /\ SubSeq(items[w], n + 1, Len(items[w])) = <<>>
      /\ SubSeq(items[w], 1, n) = items[w]
  <2>1. SubSeq(items[w], n + 1, Len(items[w])) \in Seq(Frames)
        /\ Len(SubSeq(items[w], n + 1, Len(items[w]))) = 0
    BY <1>1, SubSeqType
  <2> QED
    BY <1>1, <2>1, SubSeqFull, EmptySeq
<1>8. /\ c[a] = <<>>
      /\ c[b] = done \o items[w]
      /\ \A p \in Places \ {a, b} : c[p] = Contents[p]
  BY <1>2, <1>4, <1>7 DEF Moved, PlaceContents
<1> HIDE DEF c
<1>9. \A t \in Stages : queue'[t] = c[Waits(t)]
  <2>1. \A t \in Stages : Waits(t) \in Places \ {a, b}
    <3>1. /\ \A t \in Stages : Waits(t)[1] = "queue"
          /\ a[1] = "hands" /\ b[1] = "done"
      BY DEF Waits, Held, Over
    <3> HIDE DEF a, b
    <3> QED
      BY <3>1, ContentsAt
  <2> QED
    BY <1>5, <1>8, <2>1, ContentsAt
<1>10. \A v \in Workers : items'[v] = c[Held(v)]
  <2>1. \A v \in Workers : v # w => Held(v) \in Places \ {a, b}
    BY ContentsAt DEF Held, Over
  <2> QED
    BY <1>5, <1>8, <2>1, ContentsAt DEF TypeOK
<1>11. done' = c[Over]
  BY <1>5, <1>8
<1>12. Contents' = c
  BY <1>4, <1>6, <1>9, <1>10, <1>11, SameContents
<1> QED
  BY <1>3, <1>12 DEF c

(* Every other step of a worker leaves the frames where they are.          *)
LEMMA OthersKeep ==
  ASSUME TypeOK, TypeOK', UNCHANGED <<queue, items, done>>
  PROVE Contents' = Contents
BY ContentsType, ContentsTypeNext, ContentsAt, SameContents

(* push_frame puts one more frame at the end of the first queue.           *)
Added(c, a, f) == [c EXCEPT ![a] = Append(c[a], f)]

(* What the places hold after a frame was added to one of them.            *)
LEMMA AddedItems ==
  ASSUME NEW c \in PlaceContents, NEW a \in Places, NEW f \in Frames
  PROVE /\ Added(c, a, f) \in PlaceContents
        /\ \A p \in Places \ {a} : Added(c, a, f)[p] = c[p]
        /\ Len(Added(c, a, f)[a]) = Len(c[a]) + 1
        /\ \A i \in 1 .. Len(c[a]) : Added(c, a, f)[a][i] = c[a][i]
        /\ Added(c, a, f)[a][Len(c[a]) + 1] = f
<1>1. c[a] \in Seq(Frames)
  BY DEF PlaceContents
<1>2. /\ Append(c[a], f) \in Seq(Frames) /\ Len(Append(c[a], f)) = Len(c[a]) + 1
      /\ \A i \in 1 .. Len(c[a]) : Append(c[a], f)[i] = c[a][i]
      /\ Append(c[a], f)[Len(c[a]) + 1] = f
  BY <1>1, AppendProperties
<1> QED
  BY <1>2 DEF Added, PlaceContents

(* Every frame is still in one place when the next one is added.           *)
LEMMA AddedAccounted ==
  ASSUME NEW c \in PlaceContents, NEW a \in Places, NEW k \in Nat, k + 1 \in Frames,
         InOnePlaceEach(c, k)
  PROVE InOnePlaceEach(Added(c, a, k + 1), k + 1)
<1> DEFINE d == Added(c, a, k + 1)
<1>0. /\ d \in PlaceContents
      /\ \A p \in Places : Len(d[p]) \in Nat /\ Len(c[p]) \in Nat
      /\ \A p \in Places : ToSet(d[p]) = {d[p][i] : i \in 1 .. Len(d[p])}
      /\ \A p \in Places : ToSet(c[p]) = {c[p][i] : i \in 1 .. Len(c[p])}
  <2>1. d \in PlaceContents
    BY AddedItems
  <2>2. \A p \in Places : d[p] \in Seq(Frames) /\ c[p] \in Seq(Frames)
    BY <2>1 DEF PlaceContents
  <2> HIDE DEF d
  <2> QED
    BY <2>1, <2>2, LenProperties DEF ToSet
<1>1. /\ \A p \in Places \ {a} : d[p] = c[p]
      /\ Len(d[a]) = Len(c[a]) + 1
      /\ \A i \in 1 .. Len(c[a]) : d[a][i] = c[a][i]
      /\ d[a][Len(c[a]) + 1] = k + 1
  BY AddedItems
<1> HIDE DEF d
<1>2. \A p \in Places : \A i \in 1 .. Len(d[p]) :
        \/ i \in 1 .. Len(c[p]) /\ d[p][i] = c[p][i]
        \/ p = a /\ i = Len(c[a]) + 1 /\ d[p][i] = k + 1
  BY <1>0, <1>1
<1>3. \A p \in Places : \A i \in 1 .. Len(c[p]) : c[p][i] \in 1 .. k
  <2> SUFFICES ASSUME NEW p \in Places, NEW i \in 1 .. Len(c[p]) PROVE c[p][i] \in 1 .. k
    OBVIOUS
  <2>1. c[p][i] \in ToSet(c[p])
    BY <1>0
  <2>2. c[p][i] \in UNION {ToSet(c[q]) : q \in Places}
    BY <2>1
  <2> QED
    BY <2>2, Zenon DEF InOnePlaceEach
<1>4. ASSUME NEW p \in Places, NEW q \in Places, NEW i \in 1 .. Len(d[p]), NEW j \in 1 .. Len(d[q]),
             d[p][i] = d[q][j]
      PROVE p = q /\ i = j
  <2>1. CASE i \in 1 .. Len(c[p]) /\ d[p][i] = c[p][i] /\ j \in 1 .. Len(c[q]) /\ d[q][j] = c[q][j]
    <3>1. c[p][i] = c[q][j]
      BY <1>4, <2>1
    <3> QED
      BY <2>1, <3>1 DEF InOnePlaceEach
  <2>2. CASE ~(i \in 1 .. Len(c[p]) /\ d[p][i] = c[p][i])
    <3>1. p = a /\ i = Len(c[a]) + 1 /\ d[p][i] = k + 1
      BY <1>2, <2>2
    <3>2. ~(j \in 1 .. Len(c[q]) /\ d[q][j] = c[q][j])
      BY <1>3, <1>4, <3>1
    <3>3. q = a /\ j = Len(c[a]) + 1
      BY <1>2, <3>2
    <3> QED
      BY <3>1, <3>3
  <2>3. CASE ~(j \in 1 .. Len(c[q]) /\ d[q][j] = c[q][j])
    <3>1. q = a /\ j = Len(c[a]) + 1 /\ d[q][j] = k + 1
      BY <1>2, <2>3
    <3>2. ~(i \in 1 .. Len(c[p]) /\ d[p][i] = c[p][i])
      BY <1>3, <1>4, <3>1
    <3>3. p = a /\ i = Len(c[a]) + 1
      BY <1>2, <3>2
    <3> QED
      BY <3>1, <3>3
  <2> QED
    BY <2>1, <2>2, <2>3
<1>5. ASSUME NEW p \in Places, NEW f \in ToSet(d[p]) PROVE f \in 1 .. k + 1
  <2>1. PICK i \in 1 .. Len(d[p]) : f = d[p][i]
    BY <1>0
  <2> QED
    <3>1. CASE i \in 1 .. Len(c[p]) /\ d[p][i] = c[p][i]
      <4>1. f \in 1 .. k
        BY <1>3, <2>1, <3>1
      <4> QED
        BY <4>1
    <3>2. CASE d[p][i] = k + 1
      BY <2>1, <3>2
    <3> QED
      BY <1>2, <3>1, <3>2
<1>6. ASSUME NEW f \in 1 .. k + 1 PROVE \E p \in Places : f \in ToSet(d[p])
  <2>1. CASE f = k + 1
    <3>1. Len(c[a]) + 1 \in 1 .. Len(d[a])
      BY <1>0, <1>1
    <3> QED
      BY <1>0, <1>1, <2>1, <3>1
  <2>2. CASE f # k + 1
    <3>1. f \in 1 .. k
      BY <2>2
    <3>2. f \in UNION {ToSet(c[p]) : p \in Places}
      BY <3>1, Zenon DEF InOnePlaceEach
    <3>3. PICK p \in Places : f \in ToSet(c[p])
      BY <3>2
    <3>4. PICK i \in 1 .. Len(c[p]) : f = c[p][i]
      BY <1>0, <3>3
    <3>5. i \in 1 .. Len(d[p]) /\ d[p][i] = f
      BY <1>0, <1>1, <3>4
    <3> QED
      BY <1>0, <3>5
  <2> QED
    BY <2>1, <2>2
<1>7. UNION {ToSet(d[p]) : p \in Places} = 1 .. k + 1
  BY <1>5, <1>6
<1> QED
  BY <1>4, <1>7 DEF InOnePlaceEach, d

(* push_frame in terms of the places.                                      *)
LEMMA PushAdds ==
  ASSUME TypeOK, TypeOK', PushFrame
  PROVE /\ pushed + 1 \in Frames /\ Waits(Preprocess) \in Places
        /\ Contents' = Added(Contents, Waits(Preprocess), pushed + 1)
<1> DEFINE a == Waits(Preprocess)
           c == Added(Contents, a, pushed + 1)
<1>1. Preprocess \in Stages /\ a \in Places /\ Contents[a] = queue[Preprocess]
  BY ContentsAt DEF Stages
<1>2. pushed + 1 \in Frames
  BY PipeAssumption DEF PushFrame, TypeOK, Frames
<1>3. Contents \in PlaceContents /\ Contents' \in PlaceContents
  BY ContentsType, ContentsTypeNext
<1>4. c \in PlaceContents
  BY <1>1, <1>2, <1>3, AddedItems
<1>5. c[a] = Append(queue[Preprocess], pushed + 1) /\ \A p \in Places \ {a} : c[p] = Contents[p]
  BY <1>1, <1>3 DEF Added, PlaceContents
<1>6. /\ queue' = [queue EXCEPT ![Preprocess] = Append(queue[Preprocess], pushed + 1)]
      /\ UNCHANGED <<items, done>>
  BY DEF PushFrame
<1> HIDE DEF c
<1>7. \A t \in Stages : queue'[t] = c[Waits(t)]
  <2>1. \A t \in Stages : t # Preprocess => Waits(t) \in Places \ {a}
    BY ContentsAt DEF Waits
  <2> QED
    BY <1>1, <1>5, <1>6, <2>1, ContentsAt DEF TypeOK
<1>8. \A v \in Workers : items'[v] = c[Held(v)]
  <2>1. \A v \in Workers : Held(v) \in Places \ {a}
    <3>1. a[1] = "queue" /\ \A v \in Workers : Held(v)[1] = "hands"
      BY DEF Waits, Held
    <3> HIDE DEF a
    <3> QED
      BY <3>1, ContentsAt
  <2> QED
    BY <1>5, <1>6, <2>1, ContentsAt
<1>9. done' = c[Over]
  <2>1. Over \in Places \ {a}
    BY ContentsAt DEF Waits, Over
  <2> QED
    BY <1>5, <1>6, <2>1, ContentsAt
<1>10. Contents' = c
  BY <1>3, <1>4, <1>7, <1>8, <1>9, SameContents
<1> QED
  BY <1>1, <1>2, <1>10 DEF c

(* No step loses, copies or makes up a frame.                              *)
LEMMA AccountedNext == TypeOK /\ TypeOK' /\ FramesAccounted /\ [Next]_pvars => FramesAccounted'
<1> SUFFICES ASSUME TypeOK, TypeOK', FramesAccounted, [Next]_pvars PROVE FramesAccounted'
  OBVIOUS
<1>0. /\ Contents \in PlaceContents /\ pushed \in Nat /\ InOnePlaceEach(Contents, pushed)
      /\ FramesAccounted' <=> InOnePlaceEach(Contents', pushed')
  <2>1. FramesAccounted' <=> InOnePlaceEach(Contents', pushed')
    BY DEF FramesAccounted, InOnePlaceEach, Places, ToSet
  <2> QED
    BY <2>1, ContentsType DEF FramesAccounted, TypeOK
<1>1. CASE PushFrame
  <2>1. pushed' = pushed + 1
    BY <1>1 DEF PushFrame
  <2> QED
    BY <1>0, <1>1, <2>1, PushAdds, AddedAccounted
<1>2. ASSUME NEW w \in Workers, PopItems(w) PROVE FramesAccounted'
  <2> DEFINE a == Waits(w[1])
             b == Held(w)
             n == Least(Len(queue[w[1]]), MostPop(w[1]))
  <2>1. a \in Places /\ b \in Places /\ a # b
    BY ContentsAt, WorkerStage DEF Waits, Held
  <2>2. n \in 0 .. Len(Contents[a]) /\ Contents' = Moved(Contents, a, b, n)
    BY <1>2, PopMoves
  <2>3. pushed' = pushed
    BY <1>2 DEF PopItems
  <2> HIDE DEF a, b, n
  <2> QED
    BY <1>0, <2>1, <2>2, <2>3, MovedAccounted
<1>3. ASSUME NEW w \in Workers, HandOn(w) PROVE FramesAccounted'
  <2> DEFINE a == Held(w)
             b == Waits(w[1] + 1)
             n == Least(Len(items[w]), Room(w[1] + 1))
  <2>1. /\ w[1] + 1 \in Stages
        /\ n \in 0 .. Len(Contents[a]) /\ Contents' = Moved(Contents, a, b, n)
    BY <1>3, HandMoves
  <2>2. a \in Places /\ b \in Places /\ a # b
    BY <2>1, ContentsAt DEF Waits, Held
  <2>3. pushed' = pushed
    BY <1>3 DEF HandOn
  <2> HIDE DEF a, b, n
  <2> QED
    BY <1>0, <2>1, <2>2, <2>3, MovedAccounted
<1>4. ASSUME NEW w \in Workers, Finish(w) PROVE FramesAccounted'
  <2> DEFINE a == Held(w)
             b == Over
             n == Len(items[w])
  <2>1. n \in 0 .. Len(Contents[a]) /\ Contents' = Moved(Contents, a, b, n)
    BY <1>4, FinishMoves
  <2>2. a \in Places /\ b \in Places /\ a # b
    BY ContentsAt DEF Over, Held
  <2>3. pushed' = pushed
    BY <1>4 DEF Finish
  <2> HIDE DEF a, b, n
  <2> QED
    BY <1>0, <2>1, <2>2, <2>3, MovedAccounted
<1>5. ASSUME UNCHANGED <<queue, items, done, pushed>> PROVE FramesAccounted'
  BY <1>0, <1>5, OthersKeep
<1>6. ASSUME NEW w \in Workers, FirstWork(w) \/ Update(w) PROVE FramesAccounted'
  BY <1>5, <1>6 DEF FirstWork, Update
<1>7. CASE FlushFrame \/ Destroy \/ UNCHANGED pvars
  BY <1>5, <1>7 DEF FlushFrame, Destroy, pvars
<1> QED
  BY <1>1, <1>2, <1>3, <1>4, <1>6, <1>7 DEF Next

(* Every frame handed to push_frame is in exactly one place of the pipe,   *)
(* for any number of threads, any limits and any batch.                    *)
THEOREM FramesAccountedCorrect == Spec => []FramesAccounted
<1>1. Init => FramesAccounted
  <2> SUFFICES ASSUME Init PROVE FramesAccounted
    OBVIOUS
  <2>1. \A p \in Places : Contents[p] = <<>>
    BY ContentsAt DEF Init
  <2>2. \A p \in Places : ToSet(Contents[p]) = {} /\ Len(Contents[p]) = 0
    BY <2>1 DEF ToSet
  <2>3. UNION {ToSet(Contents[p]) : p \in Places} = 1 .. pushed
    BY <2>2 DEF Init
  <2> QED
    BY <2>2, <2>3 DEF FramesAccounted, InOnePlaceEach
<1> QED
  BY <1>1, PipeTypeCorrect, AccountedNext, PTL DEF Spec
-----------------------------------------------------------------------------
(* How far along the pipe a place is.                                      *)
Depth(p) ==
    CASE p[1] = "queue" -> 2 * p[2] - 1
      [] p[1] = "hands" -> 2 * p[2][1]
      [] p[1] = "done" -> 7

(* The frames whose order BatchesInOrder speaks of.                        *)
Bound(f, g) == SameBatch(f, g) /\ (stopped => {f, g} \subseteq 1 .. flushedAt)

(* Of two such frames the earlier one is further along, or before the      *)
(* other in the same place.                                                *)
Ahead(c) ==
    \A p, q \in Places : \A i \in 1 .. Len(c[p]), j \in 1 .. Len(c[q]) :
        c[p][i] < c[q][j] /\ Bound(c[p][i], c[q][j]) =>
            Depth(p) > Depth(q) \/ (p = q /\ i < j)

(* How many frames left the first queue: those that wait there are the     *)
(* last that were pushed, and all the others came before them.             *)
Gone == pushed - Len(queue[Preprocess])

Contiguous ==
    /\ Gone \in Nat
    /\ \A i \in 1 .. Len(queue[Preprocess]) : queue[Preprocess][i] = Gone + i
    /\ \A p \in Places \ {Waits(Preprocess)} : \A i \in 1 .. Len(Contents[p]) :
          Contents[p][i] <= Gone

(* They left it in whole batches, until the flush, and after it until only *)
(* frames that came too late are there.                                    *)
Aligned == ~stopped \/ Gone < flushedAt => Gone % BatchNum = 0

OneEach == ThreadNum[Forward] = 1 /\ ThreadNum[Postprocess] = 1

Lined == Contiguous /\ Aligned /\ (OneEach => Ahead(Contents))

(* Depths are numbers, and the end is the deepest.                         *)
LEMMA DepthType ==
  /\ \A s \in Stages : Depth(Waits(s)) = 2 * s - 1
  /\ \A w \in Workers : Depth(Held(w)) = 2 * w[1]
  /\ Depth(Over) = 7
  /\ \A p \in Places : Depth(p) \in 1 .. 7
<1>1. ASSUME NEW s \in Stages PROVE Depth(Waits(s)) = 2 * s - 1
  <2>1. Waits(s)[1] = "queue" /\ Waits(s)[2] = s
    BY DEF Waits
  <2> QED
    BY <2>1 DEF Depth
<1>2. ASSUME NEW w \in Workers PROVE Depth(Held(w)) = 2 * w[1]
  <2>1. Held(w)[1] = "hands" /\ Held(w)[2] = w
    BY DEF Held
  <2> QED
    BY <2>1 DEF Depth
<1>3. Depth(Over) = 7
  <2>1. Over[1] = "done"
    BY DEF Over
  <2> QED
    BY <2>1 DEF Depth
<1>4. ASSUME NEW p \in Places PROVE Depth(p) \in 1 .. 7
  <2>1. \A s \in Stages : 2 * s - 1 \in 1 .. 7 /\ 2 * s \in 1 .. 7
    BY DEF Stages, Preprocess, Forward, Postprocess
  <2> QED
    BY <1>1, <1>2, <1>3, <2>1, ContentsAt, WorkerStage
<1> QED
  BY <1>1, <1>2, <1>3, <1>4

(* Moving items one place along keeps the order, when no other place at    *)
(* that depth holds a frame that must stay ahead of one that moves.        *)
LEMMA MovedAhead ==
  ASSUME NEW c \in PlaceContents, NEW a \in Places, NEW b \in Places, a # b,
         NEW n \in 0 .. Len(c[a]), Ahead(c), Depth(b) = Depth(a) + 1,
         \A p \in Places \ {b} : Depth(p) = Depth(b) =>
            \A i \in 1 .. Len(c[p]), j \in 1 .. n :
               ~(c[p][i] < c[a][j] /\ Bound(c[p][i], c[a][j]))
  PROVE Ahead(Moved(c, a, b, n))
<1> DEFINE d == Moved(c, a, b, n)
<1> SUFFICES ASSUME NEW p \in Places, NEW q \in Places,
                    NEW i \in 1 .. Len(d[p]), NEW j \in 1 .. Len(d[q]),
                    d[p][i] < d[q][j], Bound(d[p][i], d[q][j])
             PROVE Depth(p) > Depth(q) \/ (p = q /\ i < j)
  BY DEF Ahead
<1> DEFINE p1 == Came(c, a, b, n, p, i)[1]
           i1 == Came(c, a, b, n, p, i)[2]
           q1 == Came(c, a, b, n, q, j)[1]
           j1 == Came(c, a, b, n, q, j)[2]
<1>1. /\ p1 \in Places /\ i1 \in 1 .. Len(c[p1]) /\ d[p][i] = c[p1][i1]
      /\ q1 \in Places /\ j1 \in 1 .. Len(c[q1]) /\ d[q][j] = c[q1][j1]
  BY CameFrom
<1>2. /\ \/ p = a /\ p1 = a /\ i1 = i + n
         \/ p = b /\ i > Len(c[b]) /\ p1 = a /\ i1 = i - Len(c[b])
         \/ p # a /\ ~(p = b /\ i > Len(c[b])) /\ p1 = p /\ i1 = i
      /\ \/ q = a /\ q1 = a /\ j1 = j + n
         \/ q = b /\ j > Len(c[b]) /\ q1 = a /\ j1 = j - Len(c[b])
         \/ q # a /\ ~(q = b /\ j > Len(c[b])) /\ q1 = q /\ j1 = j
  BY DEF Came
<1>3. /\ p = b => i \in 1 .. Len(c[b]) + n
      /\ q = b => j \in 1 .. Len(c[b]) + n
      /\ p = a => i \in 1 .. Len(c[a]) - n
      /\ q = a => j \in 1 .. Len(c[a]) - n
      /\ Len(c[a]) \in Nat /\ Len(c[b]) \in Nat
      /\ i \in Nat /\ j \in Nat
  <2>1. Len(d[a]) = Len(c[a]) - n /\ Len(d[b]) = Len(c[b]) + n
    BY MovedItems
  <2>2. Len(c[a]) \in Nat /\ Len(c[b]) \in Nat /\ i \in Nat /\ j \in Nat
    BY DEF PlaceContents
  <2> HIDE DEF d
  <2> QED
    BY <2>1, <2>2
<1>4. c[p1][i1] < c[q1][j1] /\ Bound(c[p1][i1], c[q1][j1])
  BY <1>1
<1> HIDE DEF d, p1, i1, q1, j1
<1>5. Depth(p1) > Depth(q1) \/ (p1 = q1 /\ i1 < j1)
  BY <1>1, <1>4 DEF Ahead
<1>6. \A r \in Places : Depth(r) \in Nat
  <2> SUFFICES ASSUME NEW r \in Places PROVE Depth(r) \in Nat
    OBVIOUS
  <2>1. Depth(r) \in 1 .. 7
    BY DepthType
  <2> QED
    BY <2>1
<1>7. CASE q1 = a /\ q = b
  <2>1. j1 \in 1 .. n /\ j > Len(c[b]) /\ j = j1 + Len(c[b])
    <3>1. j > Len(c[b]) /\ j1 = j - Len(c[b])
      BY <1>2, <1>7
    <3> QED
      BY <1>3, <1>7, <3>1
  <2>2. CASE p1 = a
    <3>1. i1 < j1
      BY <1>5, <1>6, <1>7, <2>2
    <3>2. p = b /\ i1 = i - Len(c[b])
      BY <1>2, <1>3, <2>1, <2>2, <3>1
    <3>3. j1 = j - Len(c[b])
      BY <1>3, <2>1
    <3>4. i < j
      BY <1>3, <3>1, <3>2, <3>3
    <3> QED
      BY <1>7, <3>2, <3>4
  <2>3. CASE p1 # a
    <3>1. Depth(p1) > Depth(a) /\ p = p1 /\ i = i1
      BY <1>2, <1>5, <1>7, <2>3
    <3>2. CASE p = b
      <4>1. ~(i > Len(c[b]))
        BY <1>2, <2>3, <3>2
      <4> QED
        BY <1>3, <1>7, <2>1, <3>2, <4>1
    <3>3. CASE p # b
      <4>1. c[p][i] < c[a][j1] /\ Bound(c[p][i], c[a][j1]) /\ i \in 1 .. Len(c[p])
        BY <1>1, <1>4, <1>7, <3>1
      <4>2. Depth(p) # Depth(b)
        BY <2>1, <3>3, <4>1
      <4> QED
        BY <1>6, <1>7, <3>1, <4>2
    <3> QED
      BY <3>2, <3>3
  <2> QED
    BY <2>2, <2>3
<1>8. CASE q1 = a /\ q = a
  <2>1. CASE p1 = a /\ p = b
    BY <1>6, <1>8, <2>1
  <2>2. CASE p1 = a /\ p = a
    BY <1>2, <1>3, <1>5, <1>6, <1>8, <2>2
  <2>3. CASE p1 # a
    BY <1>2, <1>5, <1>8, <2>3
  <2> QED
    BY <1>2, <2>1, <2>2, <2>3
<1>9. CASE q1 # a
  <2>1. q = q1 /\ j = j1
    BY <1>2, <1>9
  <2>2. CASE p1 = a
    <3>1. Depth(a) > Depth(q)
      BY <1>5, <1>9, <2>1, <2>2
    <3> QED
      BY <1>2, <1>6, <2>2, <3>1
  <2>3. CASE p1 # a
    BY <1>2, <1>5, <2>1, <2>3
  <2> QED
    BY <2>2, <2>3
<1> QED
  BY <1>2, <1>7, <1>8, <1>9

(* Only the workers of one stage share a depth.                            *)
LEMMA SameDepth ==
  ASSUME NEW p \in Places
  PROVE /\ \A s \in Stages : Depth(p) = 2 * s - 1 => p = Waits(s)
        /\ \A s \in Stages : Depth(p) = 2 * s => \E v \in Workers : v[1] = s /\ p = Held(v)
        /\ Depth(p) = 7 => p = Over
<1>1. CASE \E s \in Stages : p = Waits(s)
  BY <1>1, DepthType DEF Stages, Preprocess, Forward, Postprocess
<1>2. CASE \E w \in Workers : p = Held(w)
  <2>1. PICK w \in Workers : p = Held(w)
    BY <1>2
  <2>2. Depth(p) = 2 * w[1] /\ w[1] \in {1, 2, 3}
    BY <2>1, DepthType, WorkerStage DEF Stages, Preprocess, Forward, Postprocess
  <2> QED
    BY <2>1, <2>2 DEF Stages, Preprocess, Forward, Postprocess
<1>3. CASE p = Over
  BY <1>3, DepthType DEF Stages, Preprocess, Forward, Postprocess
<1> QED
  BY <1>1, <1>2, <1>3, ContentsAt

(* A pool of one thread has one worker.                                    *)
LEMMA OnlyWorker ==
  ASSUME NEW s \in Stages, ThreadNum[s] = 1, NEW v \in Workers, NEW w \in Workers,
         v[1] = s, w[1] = s
  PROVE v = w
<1>1. ASSUME NEW u \in Workers, u[1] = s PROVE u = <<s, 1>>
  <2>1. PICK t \in Stages : u \in {t} \X (1 .. ThreadNum[t])
    BY DEF Workers
  <2>2. t = s /\ u[2] \in 1 .. 1 /\ u = <<u[1], u[2]>>
    BY <1>1, <2>1
  <2> QED
    BY <1>1, <2>2
<1> QED
  BY <1>1

(* What is the batch times a number is a multiple of it.                   *)
LEMMA Multiple ==
  ASSUME NEW x \in Int, NEW b \in Nat \ {0}, NEW k \in Int, x = b * k
  PROVE x % b = 0
OBVIOUS

(* One batch more than a multiple is a multiple.                           *)
LEMMA OneBatchMore ==
  ASSUME NEW x \in Nat, NEW b \in Nat \ {0}, x % b = 0
  PROVE (x + b) % b = 0
<1> DEFINE m == x \div b
<1>1. x = b * m /\ m \in Int
  OBVIOUS
<1> HIDE DEF m
<1>2. x + b = b * (m + 1) /\ x + b \in Int /\ m + 1 \in Int
  BY <1>1
<1> QED
  BY <1>2, Multiple

(* A multiple of the batch size parts batches from batches.                *)
LEMMA BatchesApart ==
  ASSUME NEW k \in Nat, NEW b \in Nat \ {0}, k % b = 0,
         NEW f \in Nat \ {0}, NEW g \in Nat, f <= k, k < g
  PROVE (f - 1) \div b # (g - 1) \div b
<1> DEFINE m == k \div b
           x == (f - 1) \div b
           y == (g - 1) \div b
<1>1. k = b * m /\ m \in Int
  OBVIOUS
<1>2. b * x <= f - 1 /\ x \in Int
  OBVIOUS
<1>3. g - 1 < b * (y + 1) /\ y \in Int
  OBVIOUS
<1> HIDE DEF m, x, y
<1>4. b * x < b * m /\ b * m < b * (y + 1)
  BY <1>1, <1>2, <1>3
<1>5. \A i, j \in Int : b * i < b * j => i < j
  OBVIOUS
<1>6. x < m /\ m < y + 1
  BY <1>1, <1>2, <1>3, <1>4, <1>5
<1> QED
  BY <1>1, <1>2, <1>3, <1>6 DEF x, y

(* While nobody flushes, Ahead says the same before and after a step.      *)
LEMMA AheadAfter ==
  ASSUME UNCHANGED <<stopped, flushedAt>>, Ahead(Contents')
  PROVE Ahead(Contents)'
BY DEF Ahead, Bound, SameBatch, Depth, Places

(* Every frame in the pipe is a positive number up to pushed.              *)
LEMMA FrameNumbers ==
  ASSUME TypeOK, Contiguous, NEW p \in Places, NEW i \in 1 .. Len(Contents[p])
  PROVE Contents[p][i] \in 1 .. pushed /\ Contents[p][i] \in Nat \ {0}
<1>1. Contents[p] \in Seq(Frames)
  BY ContentsType DEF PlaceContents
<1>2. Contents[p][i] \in Frames
  BY <1>1, ElementOfSeq
<1>3. Contents[p][i] \in Nat \ {0}
  BY <1>2, PipeAssumption DEF Frames
<1>4. Gone \in Nat /\ Len(queue[Preprocess]) \in Nat /\ pushed \in Nat
  BY PipeAssumption DEF Contiguous, TypeOK, Stages
<1>5. Contents[p][i] <= pushed
  <2>1. CASE p = Waits(Preprocess)
    <3>1. Contents[p] = queue[Preprocess]
      BY <2>1, ContentsAt DEF Stages
    <3>2. i \in 1 .. Len(queue[Preprocess]) /\ queue[Preprocess][i] = Gone + i
      BY <3>1 DEF Contiguous
    <3> QED
      BY <1>4, <3>1, <3>2 DEF Gone
  <2>2. CASE p # Waits(Preprocess)
    <3>1. Contents[p][i] <= Gone
      BY <2>2 DEF Contiguous
    <3>2. Gone <= pushed
      BY <1>4 DEF Gone
    <3> QED
      BY <1>3, <1>4, <3>1, <3>2
  <2> QED
    BY <2>1, <2>2
<1> QED
  BY <1>3, <1>4, <1>5

(* A move between later places concerns neither the first queue nor what   *)
(* is known of the rest.                                                   *)
LEMMA LaterMove ==
  ASSUME TypeOK, TypeOK', Contiguous, Aligned, UNCHANGED <<stopped, pushed, flushedAt>>,
         queue'[Preprocess] = queue[Preprocess],
         NEW a \in Places, NEW b \in Places, a # b,
         a # Waits(Preprocess), b # Waits(Preprocess),
         NEW n \in 0 .. Len(Contents[a]), Contents' = Moved(Contents, a, b, n)
  PROVE Contiguous' /\ Aligned'
<1>1. Gone' = Gone
  BY DEF Gone
<1>2. ASSUME NEW p \in Places \ {Waits(Preprocess)}, NEW i \in 1 .. Len(Contents'[p])
      PROVE Contents'[p][i] <= Gone
  <2> DEFINE p1 == Came(Contents, a, b, n, p, i)[1]
             i1 == Came(Contents, a, b, n, p, i)[2]
  <2>1. Contents \in PlaceContents
    BY ContentsType
  <2>2. p1 \in Places /\ i1 \in 1 .. Len(Contents[p1]) /\ Contents'[p][i] = Contents[p1][i1]
    BY <2>1, CameFrom
  <2>3. p1 # Waits(Preprocess)
    BY DEF Came
  <2> HIDE DEF p1, i1
  <2> QED
    BY <2>2, <2>3 DEF Contiguous
<1>3. Contiguous'
  <2>1. Contiguous' <=>
          /\ Gone' \in Nat
          /\ \A i \in 1 .. Len(queue'[Preprocess]) : queue'[Preprocess][i] = Gone' + i
          /\ \A p \in Places \ {Waits(Preprocess)} : \A i \in 1 .. Len(Contents'[p]) :
                Contents'[p][i] <= Gone'
    BY DEF Contiguous, Places, Waits
  <2> QED
    BY <1>1, <1>2, <2>1 DEF Contiguous
<1>4. Aligned'
  BY <1>1 DEF Aligned
<1> QED
  BY <1>3, <1>4

(* Taking a batch, or what remains, from the first queue keeps the count   *)
(* and the numbering.                                                      *)
LEMMA PopLined ==
  ASSUME TypeOK, TypeOK', Lined, NEW w \in Workers, PopItems(w)
  PROVE Lined'
<1> DEFINE s == w[1]
           n == Least(Len(queue[s]), MostPop(s))
           a == Waits(s)
           b == Held(w)
<1>1. /\ s \in Stages /\ a \in Places /\ b \in Places /\ a # b
      /\ Contents[a] = queue[s] /\ b # Waits(Preprocess)
  BY ContentsAt, WorkerStage DEF Waits, Held
<1>2. /\ Contents \in PlaceContents
      /\ n \in 0 .. Len(Contents[a]) /\ Contents' = Moved(Contents, a, b, n)
      /\ items[w] = <<>>
  BY PopMoves, ContentsType
<1>3. UNCHANGED <<stopped, pushed, flushedAt>>
  BY DEF PopItems
<1>4. /\ Preprocess \in Stages /\ Waits(Preprocess) \in Places
      /\ Contents[Waits(Preprocess)] = queue[Preprocess]
      /\ Contents'[Waits(Preprocess)] = queue'[Preprocess]
      /\ Len(queue[Preprocess]) \in Nat /\ pushed \in Nat /\ flushedAt \in 0 .. pushed
      /\ BatchNum \in Nat \ {0}
  BY ContentsAt, ContentsAtNext, PipeAssumption DEF Stages, TypeOK
<1>5. Gone \in Nat /\ Contiguous /\ Aligned
  BY DEF Lined, Contiguous
<1>6. CASE s = Preprocess
  <2>1. n = Least(Len(queue[Preprocess]), BatchNum) /\ a = Waits(Preprocess)
    BY <1>6 DEF MostPop
  <2> HIDE DEF n, a, b
  <2>2. n \in Nat /\ n <= Len(queue[Preprocess])
    BY <1>1, <1>2, <1>6
  <2>3. Len(queue'[Preprocess]) = Len(queue[Preprocess]) - n
    BY <1>1, <1>2, <1>4, <2>1, MovedItems
  <2>4. Gone' = Gone + n
    BY <1>3, <1>4, <2>2, <2>3 DEF Gone
  <2>5. Contiguous'
    <3>1. Gone' \in Nat
      BY <1>5, <2>2, <2>4
    <3>2. ASSUME NEW i \in 1 .. Len(queue'[Preprocess])
          PROVE queue'[Preprocess][i] = Gone' + i
      <4>1. i \in 1 .. Len(queue[Preprocess]) - n /\ i + n \in 1 .. Len(queue[Preprocess])
        BY <1>4, <2>2, <2>3
      <4>2. queue'[Preprocess][i] = queue[Preprocess][i + n]
        <5>1. \A k \in 1 .. Len(Contents[a]) - n : Contents'[a][k] = Contents[a][k + n]
          BY <1>1, <1>2, MovedItems
        <5>2. Contents[a] = queue[Preprocess] /\ Contents'[a] = queue'[Preprocess]
          BY <1>4, <2>1
        <5> QED
          BY <4>1, <5>1, <5>2
      <4>3. queue[Preprocess][i + n] = Gone + (i + n)
        BY <1>5, <4>1 DEF Contiguous
      <4> QED
        BY <1>5, <2>2, <2>4, <4>1, <4>2, <4>3
    <3>3. ASSUME NEW p \in Places \ {Waits(Preprocess)}, NEW i \in 1 .. Len(Contents'[p])
          PROVE Contents'[p][i] <= Gone'
      <4>1. CASE p # b
        <5>1. Contents'[p] = Contents[p]
          BY <1>1, <1>2, <2>1, <4>1, MovedItems
        <5>2. Contents[p][i] <= Gone /\ Contents[p][i] \in Nat
          BY <1>5, <5>1, FrameNumbers DEF Contiguous
        <5> QED
          BY <1>5, <2>2, <2>4, <5>1, <5>2
      <4>2. CASE p = b
        <5>1. Contents[b] = <<>> /\ Len(Contents[b]) = 0
          BY <1>2, ContentsAt DEF b
        <5>2. i \in 1 .. n /\ Contents'[b][i] = Contents[a][i]
          <6>1. Len(Contents'[b]) = Len(Contents[b]) + n
            BY <1>1, <1>2, MovedItems
          <6>2. i \in 1 .. n
            BY <2>2, <4>2, <5>1, <6>1
          <6>3. Contents'[b][Len(Contents[b]) + i] = Contents[a][i]
            BY <1>1, <1>2, <6>2, MovedItems
          <6>4. Len(Contents[b]) + i = i
            BY <2>2, <5>1, <6>2
          <6> QED
            BY <6>2, <6>3, <6>4
        <5>3. Contents[a][i] = Gone + i
          BY <1>1, <1>4, <1>5, <1>6, <2>2, <5>2 DEF Contiguous
        <5> QED
          BY <1>5, <2>2, <2>4, <4>2, <5>2, <5>3
      <4> QED
        BY <4>1, <4>2
    <3> QED
      BY <3>1, <3>2, <3>3 DEF Contiguous, Places, Waits, Held
  <2>6. Aligned'
    <3> SUFFICES ASSUME ~stopped \/ Gone' < flushedAt PROVE Gone' % BatchNum = 0
      BY <1>3 DEF Aligned
    <3>1. n = BatchNum
      <4>1. CASE ~stopped
        <5>1. Len(queue[Preprocess]) >= BatchNum
          BY <1>6, <4>1 DEF PopItems, Ready, IsStopped, MinPop
        <5> QED
          BY <1>4, <2>1, <5>1 DEF Least
      <4>2. CASE Gone' < flushedAt
        <5>0. Gone' = (pushed - Len(queue[Preprocess])) + n
          BY <2>4 DEF Gone
        <5>1. n # Len(queue[Preprocess])
          <6> SUFFICES ASSUME n = Len(queue[Preprocess]) PROVE FALSE
            OBVIOUS
          <6>1. Gone' = pushed
            BY <1>4, <5>0
          <6> QED
            BY <1>4, <4>2, <6>1
        <5> QED
          BY <1>4, <2>1, <5>1 DEF Least
      <4> QED
        BY <4>1, <4>2
    <3>2. ~stopped \/ Gone < flushedAt
      BY <1>4, <1>5, <2>2, <2>4
    <3>3. Gone % BatchNum = 0
      BY <1>5, <3>2 DEF Aligned
    <3> QED
      BY <1>4, <1>5, <2>4, <3>1, <3>3, OneBatchMore
  <2>7. ASSUME OneEach PROVE Ahead(Contents')
    <3>1. ASSUME NEW p \in Places \ {b}, Depth(p) = Depth(b),
                 NEW i \in 1 .. Len(Contents[p]), NEW j \in 1 .. n,
                 Contents[p][i] < Contents[a][j], Bound(Contents[p][i], Contents[a][j])
          PROVE FALSE
      <4>1. Depth(b) = 2 * s
        BY DepthType DEF b
      <4>2. PICK v \in Workers : v[1] = s /\ p = Held(v)
        <5>1. p \in Places /\ Depth(p) = 2 * s
          BY <3>1, <4>1
        <5> QED
          BY <1>1, <5>1, SameDepth
      <4>3. p # Waits(Preprocess)
        BY <4>2 DEF Held, Waits
      <4>4. Contents[p][i] <= Gone /\ Contents[p][i] \in Nat \ {0}
        BY <1>5, <4>3, FrameNumbers DEF Contiguous
      <4>5. Contents[a][j] = Gone + j /\ j \in Nat \ {0}
        BY <1>1, <1>4, <1>5, <1>6, <2>2 DEF Contiguous
      <4>6. ThreadNum[Preprocess] # 1
        BY <1>1, <1>6, <4>2, OnlyWorker DEF b
      <4>7. (Contents[p][i] - 1) \div BatchNum = (Contents[a][j] - 1) \div BatchNum
        BY <3>1, <4>6 DEF Bound, SameBatch
      <4>8. ~stopped \/ Gone < flushedAt
        BY <1>4, <1>5, <3>1, <4>5 DEF Bound
      <4>9. Gone % BatchNum = 0
        BY <1>5, <4>8 DEF Aligned
      <4>10. Gone < Contents[a][j] /\ Contents[a][j] \in Nat
        BY <1>5, <4>5
      <4> QED
        BY <1>4, <1>5, <4>4, <4>7, <4>9, <4>10, BatchesApart
    <3>2. Depth(b) = Depth(a) + 1
      BY <1>1, DepthType DEF a, b
    <3>3. Ahead(Contents)
      BY <2>7 DEF Lined
    <3> QED
      BY <1>1, <1>2, <3>1, <3>2, <3>3, MovedAhead
  <2>8. OneEach => Ahead(Contents)'
    BY <1>3, <2>7, AheadAfter
  <2> QED
    BY <2>5, <2>6, <2>8 DEF Lined, OneEach
<1>7. CASE s # Preprocess
  <2> HIDE DEF n
  <2>1. queue'[Preprocess] = queue[Preprocess]
    BY <1>4, <1>7 DEF PopItems, TypeOK
  <2>2. a # Waits(Preprocess)
    BY <1>7 DEF Waits
  <2>3. Contiguous' /\ Aligned'
    BY <1>1, <1>2, <1>3, <1>4, <2>1, <2>2, LaterMove DEF Lined
  <2>4. ASSUME OneEach PROVE Ahead(Contents')
    <3>1. ThreadNum[s] = 1
      BY <1>1, <1>7, <2>4 DEF OneEach, Stages
    <3>2. ASSUME NEW p \in Places \ {b} PROVE Depth(p) # Depth(b)
      BY <1>1, <3>1, DepthType, SameDepth, OnlyWorker
    <3>3. Depth(b) = Depth(a) + 1
      BY <1>1, DepthType
    <3>4. Ahead(Contents)
      BY <2>4 DEF Lined
    <3> QED
      BY <1>1, <1>2, <3>2, <3>3, <3>4, MovedAhead
  <2>5. OneEach => Ahead(Contents)'
    BY <1>3, <2>4, AheadAfter
  <2> QED
    BY <2>3, <2>5 DEF Lined, OneEach
<1> QED
  BY <1>6, <1>7

(* Handing items on appends them to a queue that is alone at its depth.    *)
LEMMA HandLined ==
  ASSUME TypeOK, TypeOK', Lined, NEW w \in Workers, HandOn(w)
  PROVE Lined'
<1> DEFINE next == w[1] + 1
           n == Least(Len(items[w]), Room(next))
           a == Held(w)
           b == Waits(next)
<1>1. /\ next \in Stages
      /\ n \in 0 .. Len(Contents[a]) /\ Contents' = Moved(Contents, a, b, n)
      /\ Contents \in PlaceContents
  BY HandMoves, ContentsType
<1>2. next # Preprocess
  BY <1>1, WorkerStage DEF Stages, Preprocess, Forward, Postprocess
<1>3. /\ a \in Places /\ b \in Places /\ a # b
      /\ a # Waits(Preprocess) /\ b # Waits(Preprocess)
  BY <1>1, <1>2, ContentsAt DEF Waits, Held
<1>4. UNCHANGED <<stopped, pushed, flushedAt>> /\ queue'[Preprocess] = queue[Preprocess]
  BY <1>1, <1>2 DEF HandOn, TypeOK, Stages
<1> HIDE DEF n
<1>5. Contiguous' /\ Aligned'
  BY <1>1, <1>3, <1>4, LaterMove DEF Lined
<1>6. ASSUME OneEach PROVE Ahead(Contents')
  <2>1. Depth(b) = 2 * next - 1 /\ Depth(a) = 2 * w[1]
    BY <1>1, DepthType
  <2>2. Depth(b) = Depth(a) + 1
    BY <2>1, WorkerStage DEF Stages, Preprocess, Forward, Postprocess
  <2>3. ASSUME NEW p \in Places \ {b} PROVE Depth(p) # Depth(b)
    BY <1>1, <2>1, SameDepth
  <2>4. Ahead(Contents)
    BY <1>6 DEF Lined
  <2> QED
    BY <1>1, <1>3, <2>2, <2>3, <2>4, MovedAhead
<1>7. OneEach => Ahead(Contents)'
  BY <1>4, <1>6, AheadAfter
<1> QED
  BY <1>5, <1>7 DEF Lined, OneEach

(* Finishing appends them to what is done, the only place that deep.       *)
LEMMA FinishLined ==
  ASSUME TypeOK, TypeOK', Lined, NEW w \in Workers, Finish(w)
  PROVE Lined'
<1> DEFINE n == Len(items[w])
           a == Held(w)
           b == Over
<1>1. /\ n \in 0 .. Len(Contents[a]) /\ Contents' = Moved(Contents, a, b, n)
      /\ Contents \in PlaceContents
  BY FinishMoves, ContentsType
<1>2. /\ a \in Places /\ b \in Places /\ a # b
      /\ a # Waits(Preprocess) /\ b # Waits(Preprocess)
  BY ContentsAt DEF Waits, Held, Over
<1>3. UNCHANGED <<stopped, pushed, flushedAt>> /\ queue'[Preprocess] = queue[Preprocess]
  BY DEF Finish
<1> HIDE DEF n
<1>4. Contiguous' /\ Aligned'
  BY <1>1, <1>2, <1>3, LaterMove DEF Lined
<1>5. ASSUME OneEach PROVE Ahead(Contents')
  <2>1. Depth(b) = 7 /\ Depth(a) = 2 * w[1] /\ w[1] = Postprocess
    BY DepthType DEF Finish
  <2>2. Depth(b) = Depth(a) + 1
    BY <2>1 DEF Postprocess
  <2>3. ASSUME NEW p \in Places \ {b} PROVE Depth(p) # Depth(b)
    BY <2>1, SameDepth
  <2>4. Ahead(Contents)
    BY <1>5 DEF Lined
  <2> QED
    BY <1>1, <1>2, <2>2, <2>3, <2>4, MovedAhead
<1>6. OneEach => Ahead(Contents)'
  BY <1>3, <1>5, AheadAfter
<1> QED
  BY <1>4, <1>6 DEF Lined, OneEach

(* A new frame goes behind all the others.                                 *)
LEMMA PushLined ==
  ASSUME TypeOK, TypeOK', Lined, PushFrame
  PROVE Lined'
<1> DEFINE a == Waits(Preprocess)
           f == pushed + 1
<1>1. /\ f \in Frames /\ a \in Places /\ Contents' = Added(Contents, a, f)
      /\ Contents \in PlaceContents
  BY PushAdds, ContentsType
<1>2. UNCHANGED <<stopped, flushedAt>> /\ pushed' = f
  BY DEF PushFrame
<1>3. /\ Contents[a] = queue[Preprocess] /\ Contents'[a] = queue'[Preprocess]
      /\ Len(queue[Preprocess]) \in Nat /\ pushed \in Nat
  BY ContentsAt, ContentsAtNext, PipeAssumption DEF Stages, TypeOK
<1>4. Contiguous /\ Gone \in Nat /\ Aligned
  BY DEF Lined, Contiguous
<1> HIDE DEF a, f
<1>5. /\ \A p \in Places \ {a} : Contents'[p] = Contents[p]
      /\ Len(Contents'[a]) = Len(Contents[a]) + 1
      /\ \A i \in 1 .. Len(Contents[a]) : Contents'[a][i] = Contents[a][i]
      /\ Contents'[a][Len(Contents[a]) + 1] = f
  BY <1>1, AddedItems
<1>6. Gone' = Gone /\ f = pushed + 1 /\ Gone + Len(queue[Preprocess]) = pushed
  BY <1>2, <1>3, <1>5 DEF Gone, f
<1>7. Contiguous'
  <2>1. ASSUME NEW i \in 1 .. Len(queue'[Preprocess])
        PROVE queue'[Preprocess][i] = Gone + i
    <3>1. CASE i \in 1 .. Len(queue[Preprocess])
      BY <1>3, <1>4, <1>5, <3>1 DEF Contiguous
    <3>2. CASE i = Len(queue[Preprocess]) + 1
      <4>1. Gone + i = f
        BY <1>3, <1>4, <1>6, <3>2
      <4> QED
        BY <1>3, <1>5, <3>2, <4>1
    <3> QED
      BY <1>3, <1>5, <3>1, <3>2
  <2>2. \A p \in Places \ {a} : \A i \in 1 .. Len(Contents'[p]) : Contents'[p][i] <= Gone
    BY <1>4, <1>5 DEF Contiguous, a
  <2>3. Contiguous' <=>
          /\ Gone' \in Nat
          /\ \A i \in 1 .. Len(queue'[Preprocess]) : queue'[Preprocess][i] = Gone' + i
          /\ \A p \in Places \ {a} : \A i \in 1 .. Len(Contents'[p]) :
                Contents'[p][i] <= Gone'
    BY DEF Contiguous, Places, Waits, a
  <2> QED
    BY <1>4, <1>6, <2>1, <2>2, <2>3
<1>8. Aligned'
  BY <1>2, <1>4, <1>6 DEF Aligned
<1>9. ASSUME OneEach PROVE Ahead(Contents')
  <2> SUFFICES ASSUME NEW p \in Places, NEW q \in Places,
                      NEW i \in 1 .. Len(Contents'[p]), NEW j \in 1 .. Len(Contents'[q]),
                      Contents'[p][i] < Contents'[q][j],
                      Bound(Contents'[p][i], Contents'[q][j])
               PROVE Depth(p) > Depth(q) \/ (p = q /\ i < j)
    BY DEF Ahead
  <2>1. /\ \/ i \in 1 .. Len(Contents[p]) /\ Contents'[p][i] = Contents[p][i]
           \/ p = a /\ i = Len(Contents[a]) + 1 /\ Contents'[p][i] = f
        /\ \/ j \in 1 .. Len(Contents[q]) /\ Contents'[q][j] = Contents[q][j]
           \/ q = a /\ j = Len(Contents[a]) + 1 /\ Contents'[q][j] = f
    BY <1>3, <1>5
  <2>2. CASE /\ i \in 1 .. Len(Contents[p]) /\ Contents'[p][i] = Contents[p][i]
             /\ j \in 1 .. Len(Contents[q]) /\ Contents'[q][j] = Contents[q][j]
    <3>1. Contents[p][i] < Contents[q][j] /\ Bound(Contents[p][i], Contents[q][j])
      BY <2>2
    <3>2. Ahead(Contents)
      BY <1>9 DEF Lined
    <3> QED
      BY <2>2, <3>1, <3>2 DEF Ahead
  <2>3. CASE p = a /\ i = Len(Contents[a]) + 1 /\ Contents'[p][i] = f
    <3>1. CASE j \in 1 .. Len(Contents[q]) /\ Contents'[q][j] = Contents[q][j]
      <4>1. Contents[q][j] \in 1 .. pushed
        BY <1>4, <3>1, FrameNumbers
      <4> QED
        BY <1>3, <1>6, <2>3, <3>1, <4>1
    <3>2. CASE Contents'[q][j] = f
      BY <1>3, <1>6, <2>3, <3>2
    <3> QED
      BY <2>1, <3>1, <3>2
  <2>4. CASE /\ i \in 1 .. Len(Contents[p]) /\ Contents'[p][i] = Contents[p][i]
             /\ q = a /\ j = Len(Contents[a]) + 1
    <3>1. CASE p = a
      BY <1>3, <2>4, <3>1
    <3>2. CASE p # a
      <4>1. Depth(a) = 1 /\ Preprocess \in Stages
        BY DepthType DEF Stages, Preprocess, a
      <4>2. Depth(p) \in 1 .. 7
        BY DepthType
      <4>3. Depth(p) # 1
        BY <3>2, <4>1, SameDepth DEF Preprocess, a
      <4> QED
        BY <2>4, <4>1, <4>2, <4>3
    <3> QED
      BY <3>1, <3>2
  <2> QED
    BY <2>1, <2>2, <2>3, <2>4
<1>10. OneEach => Ahead(Contents)'
  BY <1>2, <1>9, AheadAfter
<1> QED
  BY <1>7, <1>8, <1>10 DEF Lined, OneEach

(* A flush leaves every frame where it is, and narrows what is promised to *)
(* the frames pushed before it.                                            *)
LEMMA FlushLined ==
  ASSUME TypeOK, TypeOK', Lined, FlushFrame
  PROVE Lined'
<1>1. /\ UNCHANGED <<queue, pushed, items, done>> /\ stopped'
      /\ flushedAt' = IF stopped THEN flushedAt ELSE pushed
  BY DEF FlushFrame
<1>2. Contents' = Contents /\ Gone' = Gone
  BY <1>1, OthersKeep DEF Gone
<1>3. Contiguous'
  BY <1>1, <1>2 DEF Lined, Contiguous, Places, Waits
<1>4. Aligned'
  BY <1>1, <1>2 DEF Lined, Aligned
<1>5. ASSUME OneEach PROVE Ahead(Contents)'
  <2> DEFINE Bound2(f, g) == SameBatch(f, g) /\ {f, g} \subseteq 1 .. flushedAt'
  <2>1. ASSUME NEW f, NEW g, Bound2(f, g) PROVE Bound(f, g)
    BY <1>1, <2>1 DEF Bound
  <2>2. \A p, q \in Places : \A i \in 1 .. Len(Contents[p]), j \in 1 .. Len(Contents[q]) :
          Contents[p][i] < Contents[q][j] /\ Bound2(Contents[p][i], Contents[q][j]) =>
            Depth(p) > Depth(q) \/ (p = q /\ i < j)
    BY <1>5, <2>1 DEF Lined, Ahead
  <2> QED
    BY <1>1, <1>2, <2>2 DEF Ahead, Bound, SameBatch, Depth, Places
<1> QED
  BY <1>3, <1>4, <1>5 DEF Lined, OneEach

(* No step upsets the order.                                               *)
LEMMA LinedNext == TypeOK /\ TypeOK' /\ Lined /\ [Next]_pvars => Lined'
<1> SUFFICES ASSUME TypeOK, TypeOK', Lined, [Next]_pvars PROVE Lined'
  OBVIOUS
<1>1. ASSUME UNCHANGED <<queue, items, done, pushed, stopped, flushedAt>> PROVE Lined'
  <2>1. Contents' = Contents /\ Gone' = Gone
    BY <1>1, OthersKeep DEF Gone
  <2>2. Contiguous' /\ Aligned'
    BY <1>1, <2>1 DEF Lined, Contiguous, Aligned, Places, Waits
  <2>3. OneEach => Ahead(Contents)'
    BY <1>1, <2>1, AheadAfter DEF Lined
  <2> QED
    BY <2>2, <2>3 DEF Lined, OneEach
<1>2. ASSUME NEW w \in Workers, FirstWork(w) \/ Update(w) PROVE Lined'
  BY <1>1, <1>2 DEF FirstWork, Update
<1>3. CASE Destroy \/ UNCHANGED pvars
  BY <1>1, <1>3 DEF Destroy, pvars
<1>4. ASSUME NEW w \in Workers, PopItems(w) \/ HandOn(w) \/ Finish(w) PROVE Lined'
  BY <1>4, PopLined, HandLined, FinishLined
<1> QED
  BY <1>2, <1>3, <1>4, PushLined, FlushLined DEF Next

(* Until the flush whole batches leave the first queue; and behind one     *)
(* thread per later pool the frames of a batch, and with one thread per    *)
(* pool all frames, come out of postprocess() in the order they were       *)
(* pushed in.                                                              *)
THEOREM BatchesInOrderCorrect == Spec => []BatchesInOrder
<1>1. Init => Lined
  <2> SUFFICES ASSUME Init PROVE Lined
    OBVIOUS
  <2>1. \A p \in Places : Contents[p] = <<>> /\ Len(Contents[p]) = 0
    BY ContentsAt DEF Init
  <2>2. Gone = 0 /\ Len(queue[Preprocess]) = 0
    <3>1. queue[Preprocess] = <<>> /\ pushed = 0
      BY DEF Init, Stages
    <3>2. Len(queue[Preprocess]) = 0
      BY <3>1
    <3>3. Gone = 0 - 0
      BY <3>1, <3>2 DEF Gone
    <3> QED
      BY <3>2, <3>3
  <2>3. Contiguous
    BY <2>1, <2>2 DEF Contiguous
  <2>4. 0 % BatchNum = 0
    BY PipeAssumption
  <2>5. Aligned
    BY <2>2, <2>4 DEF Aligned
  <2>6. Ahead(Contents)
    BY <2>1 DEF Ahead
  <2> QED
    BY <2>3, <2>5, <2>6 DEF Lined
<1>2. TypeOK /\ Lined /\ FramesAccounted => BatchesInOrder
  <2> SUFFICES ASSUME TypeOK, Lined, FramesAccounted PROVE BatchesInOrder
    OBVIOUS
  <2>1. ~stopped => (pushed - Len(queue[Preprocess])) % BatchNum = 0
    BY DEF Lined, Aligned, Gone
  <2>2. ASSUME OneEach, NEW i \in 1 .. Len(done), NEW j \in 1 .. Len(done), i < j,
               SameBatch(done[i], done[j]),
               stopped => {done[i], done[j]} \subseteq 1 .. flushedAt
        PROVE done[i] < done[j]
    <3>1. Over \in Places /\ Contents[Over] = done
      BY ContentsAt
    <3>2. done[i] \in Nat /\ done[j] \in Nat
      BY <3>1, FrameNumbers DEF Lined
    <3>3. done[i] # done[j]
      BY <2>2, <3>1 DEF FramesAccounted, InOnePlaceEach
    <3>4. ~(done[j] < done[i])
      <4> SUFFICES ASSUME done[j] < done[i] PROVE FALSE
        OBVIOUS
      <4>1. Bound(done[j], done[i])
        BY <2>2 DEF Bound, SameBatch
      <4>2. Depth(Over) > Depth(Over) \/ j < i
        BY <2>2, <3>1, <4>1 DEF Lined, Ahead
      <4>3. Depth(Over) = 7
        BY DepthType
      <4> QED
        BY <2>2, <4>2, <4>3
    <3> QED
      BY <3>2, <3>3, <3>4
  <2> QED
    BY <2>1, <2>2 DEF BatchesInOrder, OneEach
<1> QED
  BY <1>1, <1>2, PipeTypeCorrect, FramesAccountedCorrect, LinedNext, PTL DEF Spec
=============================================================================
