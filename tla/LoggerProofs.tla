---------------------------- MODULE LoggerProofs ----------------------------
(* Theorems about the logger, for any number of threads, levels, messages  *)
(* and sessions and any size of the queue: every message is in one place,  *)
(* those of the queue reach the file in the order they were logged in, and *)
(* what was logged before deinit was called is dealt with when it returns. *)
EXTENDS Logger, TLAPS

(* A thread holds a message with a number while it writes it past the      *)
(* queue, and no other; and past the queue went none of those in it.       *)
Past ==
    /\ \A t \in Threads : log[t].at = "direct" <=> log[t].msg.id # 0
    /\ InThreads \subseteq direct
    /\ (InQueue \cup InHand) \cap direct = {}

(* Where the worker can be while the owner is on, or about to stop it; and *)
(* that what was logged before deinit was called is on its way to the file,*)
(* and has come to its end when the worker has. And init has room for one  *)
(* more session once it has begun.                                         *)
Dealt ==
    /\ owner = "new" => sessions < MaxSessions
    /\ owner \in {"off", "new"} => worker = "none"
    /\ owner \in {"on", "stop"} => ~stopped /\ worker # "ended"
    /\ early \subseteq InQueue \cup InHand \cup InFile \cup skipped
    /\ owner \in {"off", "new"} \/ worker = "ended" => early \subseteq InFile \cup skipped
-----------------------------------------------------------------------------
(* The numbers of the messages in a sequence, and what it is to be in      *)
(* order but for those of a set.                                           *)
Ids(msgs) == {msgs[i].id : i \in DOMAIN msgs}

Ordered(msgs, but) ==
    \A i, j \in DOMAIN msgs :
        i < j /\ {msgs[i].id, msgs[j].id} \cap but = {} => msgs[i].id < msgs[j].id

(* A message at the end of a sequence.                                     *)
LEMMA AppendMessage ==
  ASSUME NEW msgs \in Seq(Message), NEW m \in Message
  PROVE  LET new == Append(msgs, m)
         IN /\ new \in Seq(Message) /\ Len(new) = Len(msgs) + 1
            /\ Ids(new) = Ids(msgs) \cup {m.id}
            /\ Once(msgs) /\ m.id \notin Ids(msgs) => Once(new)
            /\ \A but : Ordered(msgs, but) /\ (m.id \in but \/ \A n \in Ids(msgs) \ but : n < m.id)
                  => Ordered(new, but)
<1> DEFINE new == Append(msgs, m)
<1>1. /\ new \in Seq(Message) /\ Len(new) = Len(msgs) + 1 /\ Len(msgs) \in Nat
      /\ DOMAIN new = 1 .. Len(msgs) + 1 /\ DOMAIN msgs = 1 .. Len(msgs)
      /\ new[Len(msgs) + 1] = m /\ \A i \in 1 .. Len(msgs) : new[i] = msgs[i]
  OBVIOUS
<1> HIDE DEF new
<1>2. \A i \in DOMAIN new :
        \/ i \in DOMAIN msgs /\ new[i] = msgs[i]
        \/ i = Len(msgs) + 1 /\ new[i] = m
  BY <1>1
<1>3. Ids(new) = Ids(msgs) \cup {m.id}
  BY <1>1, <1>2 DEF Ids
<1>4. ASSUME Once(msgs), m.id \notin Ids(msgs) PROVE Once(new)
  BY <1>1, <1>2, <1>4 DEF Once, Ids
<1>5. ASSUME NEW but, Ordered(msgs, but), m.id \in but \/ \A n \in Ids(msgs) \ but : n < m.id
      PROVE  Ordered(new, but)
  <2> SUFFICES ASSUME NEW i \in DOMAIN new, NEW j \in DOMAIN new, i < j,
                      new[i].id \notin but, new[j].id \notin but
               PROVE  new[i].id < new[j].id
    BY DEF Ordered
  <2>1. i \in DOMAIN msgs /\ new[i] = msgs[i]
    BY <1>1
  <2>2. CASE j \in DOMAIN msgs
    BY <1>1, <1>5, <2>1, <2>2 DEF Ordered
  <2>3. CASE j = Len(msgs) + 1
    BY <1>1, <1>5, <2>1, <2>3 DEF Ids
  <2> QED
    BY <1>1, <2>2, <2>3
<1> QED
  BY <1>1, <1>3, <1>4, <1>5 DEF new

(* The first message of a sequence, and the others.                        *)
LEMMA FirstMessage ==
  ASSUME NEW msgs \in Seq(Message), msgs # <<>>
  PROVE  /\ Head(msgs) \in Message /\ Tail(msgs) \in Seq(Message) /\ Len(Tail(msgs)) = Len(msgs) - 1
         /\ Ids(msgs) = Ids(Tail(msgs)) \cup {Head(msgs).id}
         /\ Once(msgs) => Once(Tail(msgs)) /\ Head(msgs).id \notin Ids(Tail(msgs))
         /\ \A but : Ordered(msgs, but) => Ordered(Tail(msgs), but)
         /\ Ordered(msgs, {}) => \A n \in Ids(Tail(msgs)) : Head(msgs).id < n
<1> DEFINE rest == Tail(msgs)
<1>1. /\ Head(msgs) = msgs[1] /\ rest \in Seq(Message) /\ Len(rest) = Len(msgs) - 1
      /\ Len(msgs) \in Nat /\ Len(msgs) >= 1 /\ Head(msgs) \in Message
      /\ DOMAIN msgs = 1 .. Len(msgs) /\ DOMAIN rest = 1 .. Len(msgs) - 1
      /\ \A i \in 1 .. Len(msgs) - 1 : rest[i] = msgs[i + 1]
  OBVIOUS
<1> HIDE DEF rest
<1>2. \A i \in DOMAIN rest : i + 1 \in DOMAIN msgs /\ i + 1 # 1 /\ rest[i] = msgs[i + 1]
  BY <1>1
<1>3. Ids(msgs) = Ids(rest) \cup {Head(msgs).id}
  <2>1. \A i \in DOMAIN msgs : i = 1 \/ (i - 1 \in DOMAIN rest /\ rest[i - 1] = msgs[i])
    BY <1>1
  <2>2. 1 \in DOMAIN msgs
    BY <1>1
  <2>3. \A i \in DOMAIN msgs : msgs[i].id = Head(msgs).id \/ msgs[i].id \in Ids(rest)
    BY <1>1, <2>1 DEF Ids
  <2>4. \A i \in DOMAIN rest : rest[i].id \in Ids(msgs)
    BY <1>2 DEF Ids
  <2>5. Head(msgs).id \in Ids(msgs)
    BY <1>1, <2>2 DEF Ids
  <2> QED
    BY <2>3, <2>4, <2>5 DEF Ids
<1>4. ASSUME Once(msgs) PROVE Once(rest) /\ Head(msgs).id \notin Ids(rest)
  <2>1. Once(rest)
    BY <1>1, <1>2, <1>4 DEF Once
  <2>2. \A i \in DOMAIN rest : rest[i].id # Head(msgs).id
    <3>1. 1 \in DOMAIN msgs
      BY <1>1
    <3> QED
      BY <1>1, <1>2, <1>4, <3>1 DEF Once
  <2> QED
    BY <2>1, <2>2 DEF Ids
<1>5. ASSUME NEW but, Ordered(msgs, but) PROVE Ordered(rest, but)
  <2> SUFFICES ASSUME NEW i \in DOMAIN rest, NEW j \in DOMAIN rest, i < j,
                      {rest[i].id, rest[j].id} \cap but = {}
               PROVE  rest[i].id < rest[j].id
    BY DEF Ordered
  <2>1. i + 1 < j + 1
    BY <1>1
  <2> QED
    BY <1>2, <1>5, <2>1 DEF Ordered
<1>6. ASSUME Ordered(msgs, {}) PROVE \A n \in Ids(rest) : Head(msgs).id < n
  <2> SUFFICES ASSUME NEW i \in DOMAIN rest PROVE Head(msgs).id < rest[i].id
    BY DEF Ids
  <2>1. 1 \in DOMAIN msgs /\ 1 < i + 1
    BY <1>1
  <2> QED
    BY <1>1, <1>2, <1>6, <2>1 DEF Ordered
<1> QED
  BY <1>1, <1>3, <1>4, <1>5, <1>6 DEF rest

(* Messages are in one place each.                                         *)
Apart ==
    /\ InQueue \cap (InFile \cup InHand \cup InThreads \cup skipped \cup lost) = {}
    /\ InFile \cap (InHand \cup InThreads \cup skipped \cup lost) = {}
    /\ InHand \cap (InThreads \cup skipped \cup lost) = {}
    /\ InThreads \cap (skipped \cup lost) = {}
    /\ skipped \cap lost = {}
Everywhere == InQueue \cup InFile \cup InHand \cup InThreads \cup skipped \cup lost

(* The six places of Places, named one by one: apart, and what they hold. *)
LEMMA SixPlaces ==
  /\ (\A p, q \in DOMAIN Places : p # q => Places[p] \cap Places[q] = {}) <=> Apart
  /\ UNION {Places[p] : p \in DOMAIN Places} = Everywhere
<1>1. /\ DOMAIN Places = 1 .. 6
      /\ Places[1] = InQueue /\ Places[2] = InFile /\ Places[3] = InHand
      /\ Places[4] = InThreads /\ Places[5] = skipped /\ Places[6] = lost
  BY DEF Places
<1>2. \A p \in 1 .. 6 : p = 1 \/ p = 2 \/ p = 3 \/ p = 4 \/ p = 5 \/ p = 6
  OBVIOUS
<1>3. UNION {Places[p] : p \in DOMAIN Places} = Everywhere
  BY <1>1, <1>2 DEF Everywhere
<1>4. ASSUME \A p, q \in DOMAIN Places : p # q => Places[p] \cap Places[q] = {} PROVE Apart
  <2>1. InQueue \cap InFile = {} /\ InQueue \cap InHand = {} /\ InQueue \cap InThreads = {}
        /\ InQueue \cap skipped = {} /\ InQueue \cap lost = {}
    BY <1>1, <1>4
  <2>2. InFile \cap InHand = {} /\ InFile \cap InThreads = {}
        /\ InFile \cap skipped = {} /\ InFile \cap lost = {}
    BY <1>1, <1>4
  <2>3. InHand \cap InThreads = {} /\ InHand \cap skipped = {} /\ InHand \cap lost = {}
    BY <1>1, <1>4
  <2>4. InThreads \cap skipped = {} /\ InThreads \cap lost = {} /\ skipped \cap lost = {}
    BY <1>1, <1>4
  <2> QED
    BY <2>1, <2>2, <2>3, <2>4 DEF Apart
<1>5. ASSUME Apart, NEW p \in DOMAIN Places, NEW q \in DOMAIN Places, p # q
      PROVE Places[p] \cap Places[q] = {}
  BY <1>1, <1>2, <1>5 DEF Apart
<1> QED
  BY <1>3, <1>4, <1>5

(* The inductive invariant: where the messages are, in which order the     *)
(* file has them, and what was done with those of before deinit.           *)
Settled ==
    /\ TypeOK /\ Past /\ Dealt
    /\ Everywhere = 1 .. count /\ Apart
    /\ Once(queue) /\ Once(file)
    /\ \A t, u \in Threads : log[t].msg.id = log[u].msg.id => t = u \/ log[t].msg.id = 0
    /\ Len(queue) <= QueueSize
    /\ Ordered(file, direct) /\ Ordered(queue, {})
    /\ \A f \in InFile \ direct, n \in InHand \cup InQueue : f < n
    /\ \A n \in InQueue : hand.id < n

(* The inductive invariant is what the properties of the queue and the    *)
(* file say, with what init and deinit leave.                             *)
LEMMA SettledMeans == Settled <=> MessagesAccounted /\ Past /\ QueuedInOrder /\ Dealt
<1>1. Ordered(queue, {}) <=> \A i, j \in DOMAIN queue : i < j => queue[i].id < queue[j].id
  BY DEF Ordered
<1> QED
  BY <1>1, SixPlaces DEF Settled, MessagesAccounted, QueuedInOrder, Ordered

(* The messages of the queue and of the file, as the ids of a sequence.   *)
LEMMA InSequences == InQueue = Ids(queue) /\ InFile = Ids(file)
BY DEF InQueue, InFile, Ids

(* The levels, and the message that stands for none.                       *)
LEMMA FatalIsLevel == LOG_FATAL \in Levels /\ Nothing = [id |-> 0, level |-> LOG_FATAL]
BY LoggerAssumption DEF LOG_FATAL, Nothing

(* A step that moves no message.                                           *)
LEMMA NothingMoves ==
  ASSUME Settled, TypeOK', Dealt',
         UNCHANGED <<queue, hand, file, skipped, lost, direct, count>>,
         \A t \in Threads : log'[t] = log[t]
            \/ (log[t].msg.id = 0 /\ log'[t].msg.id = 0 /\ log'[t].at # "direct")
  PROVE  Settled'
<1>1. \A t \in Threads : log'[t].msg.id = log[t].msg.id
  OBVIOUS
<1>2. InThreads' = InThreads
  BY <1>1 DEF InThreads
<1>3. UNCHANGED <<InQueue, InFile, InHand>>
  BY DEF InQueue, InFile, InHand
<1>4. Past'
  BY <1>1, <1>2, <1>3 DEF Settled, Past
<1>5. Everywhere' = Everywhere /\ (Apart <=> Apart')
  BY <1>2, <1>3 DEF Everywhere, Apart
<1> QED
  BY <1>1, <1>3, <1>4, <1>5 DEF Settled, Ordered, Once

(* The numbers of the messages, of the levels and of the places.           *)
LEMMA Numbers ==
  ASSUME Settled
  PROVE  /\ TypeOK /\ count \in Nat /\ MaxMessages \in Nat /\ count <= MaxMessages
         /\ Nothing \in [id : 0 .. MaxMessages, level : Levels]
         /\ Idle \in [at : {"idle", "push", "direct"}, msg : [id : 0 .. MaxMessages, level : Levels]]
         /\ Idle.at = "idle" /\ Idle.msg.id = 0 /\ Nothing.id = 0 /\ LOG_FATAL \in Levels
         /\ InQueue \subseteq 1 .. count /\ InFile \subseteq 1 .. count
         /\ InHand \subseteq 1 .. count /\ InThreads \subseteq 1 .. count
         /\ skipped \subseteq 1 .. count /\ lost \subseteq 1 .. count
         /\ direct \subseteq 1 .. count /\ early \subseteq 1 .. count
         /\ hand \in [id : 0 .. MaxMessages, level : Levels]
         /\ \A m \in Message : m.id # 0 /\ m # Nothing
<1>1. TypeOK /\ Everywhere = 1 .. count
  BY DEF Settled
<1>2. count \in Nat /\ MaxMessages \in Nat /\ count <= MaxMessages /\ 0 \in 0 .. MaxMessages
  BY <1>1, LoggerAssumption DEF TypeOK
<1>3. Nothing \in [id : 0 .. MaxMessages, level : Levels] /\ Nothing.id = 0 /\ LOG_FATAL \in Levels
  BY <1>2, FatalIsLevel
<1>4. Idle \in [at : {"idle", "push", "direct"}, msg : [id : 0 .. MaxMessages, level : Levels]]
      /\ Idle.at = "idle" /\ Idle.msg.id = 0
  BY <1>3 DEF Idle
<1>5. \A m \in Message : m.id # 0 /\ m # Nothing /\ m \in [id : 0 .. MaxMessages, level : Levels]
  BY <1>2, <1>3 DEF Message
<1>6. hand \in [id : 0 .. MaxMessages, level : Levels]
  BY <1>1, <1>3, <1>5 DEF TypeOK
<1>7. /\ InQueue \subseteq 1 .. count /\ InFile \subseteq 1 .. count
      /\ InHand \subseteq 1 .. count /\ InThreads \subseteq 1 .. count
  BY <1>1 DEF Everywhere
<1>8. /\ skipped \subseteq 1 .. count /\ lost \subseteq 1 .. count
      /\ direct \subseteq 1 .. count /\ early \subseteq 1 .. count
  BY <1>1 DEF TypeOK
<1> QED
  BY <1>1, <1>2, <1>3, <1>4, <1>5, <1>6, <1>7, <1>8

(* What a thread has in its hands when it goes on to another message, or   *)
(* to none.                                                                *)
LEMMA ThreadGoesOn ==
  ASSUME Settled, NEW t \in Threads,
         NEW next \in [at : {"idle", "push", "direct"}, msg : [id : 0 .. MaxMessages, level : Levels]],
         log' = [log EXCEPT ![t] = next]
  PROVE  /\ log' \in [Threads -> [at : {"idle", "push", "direct"},
                                  msg : [id : 0 .. MaxMessages, level : Levels]]]
         /\ log'[t] = next /\ \A u \in Threads : u # t => log'[u] = log[u]
         /\ InThreads' = (InThreads \ {log[t].msg.id}) \cup ({next.msg.id} \ {0})
<1>1. TypeOK
  BY DEF Settled
<1>2. /\ log' \in [Threads -> [at : {"idle", "push", "direct"},
                                msg : [id : 0 .. MaxMessages, level : Levels]]]
      /\ log'[t] = next /\ \A u \in Threads : u # t => log'[u] = log[u]
  BY <1>1 DEF TypeOK
<1>3. \A u \in Threads : log[u].msg.id = log[t].msg.id => t = u \/ log[u].msg.id = 0
  BY DEF Settled
<1>4. \A n \in InThreads' : n \in (InThreads \ {log[t].msg.id}) \cup ({next.msg.id} \ {0})
  <2> SUFFICES ASSUME NEW u \in Threads, log'[u].msg.id # 0
               PROVE log'[u].msg.id \in (InThreads \ {log[t].msg.id}) \cup ({next.msg.id} \ {0})
    BY DEF InThreads
  <2>1. CASE u = t
    BY <1>2, <2>1
  <2>2. CASE u # t
    BY <1>2, <1>3, <2>2 DEF InThreads
  <2> QED
    BY <2>1, <2>2
<1>5. \A n \in InThreads \ {log[t].msg.id} : n \in InThreads'
  BY <1>2 DEF InThreads
<1>6. \A n \in {next.msg.id} \ {0} : n \in InThreads'
  BY <1>2 DEF InThreads
<1> QED
  BY <1>2, <1>4, <1>5, <1>6

(* The steps that move no message.                                         *)
LEMMA QuietSteps ==
  ASSUME Settled,
         \/ \E t \in Threads, l \in Levels : Filter(t, l)
         \/ TestRunning \/ Deinit \/ StopQueue \/ JoinWorker \/ BeginInit \/ UpdateConfig
         \/ UNCHANGED vars
  PROVE  Settled'
<1>a. TypeOK /\ Dealt
  BY DEF Settled
<1>b. ASSUME UNCHANGED <<queue, hand, log, outputs, lost, direct, count>>, TypeOK', Dealt' PROVE Settled'
  BY <1>b, NothingMoves DEF outputs
<1>c. ASSUME UNCHANGED <<queue, hand, outputs>> PROVE UNCHANGED <<InQueue, InHand, InFile, skipped>>
  BY <1>c DEF outputs, InQueue, InHand, InFile
<1>1. ASSUME NEW t \in Threads, NEW l \in Levels, Filter(t, l) PROVE Settled'
  <2> DEFINE next == [at |-> "push", msg |-> [id |-> 0, level |-> l]]
  <2>1. /\ next \in [at : {"idle", "push", "direct"}, msg : [id : 0 .. MaxMessages, level : Levels]]
        /\ next.at = "push" /\ next.msg.id = 0
    BY LoggerAssumption
  <2>2. log[t] = Idle /\ log' = [log EXCEPT ![t] = next]
    BY <1>1 DEF Filter
  <2> HIDE DEF next
  <2>3. /\ log' \in [Threads -> [at : {"idle", "push", "direct"},
                                 msg : [id : 0 .. MaxMessages, level : Levels]]]
        /\ log'[t] = next /\ \A u \in Threads : u # t => log'[u] = log[u]
    BY <2>1, <2>2, ThreadGoesOn
  <2>4. UNCHANGED <<queue, hand, outputs, lost, direct, count, early, worker, owner, stopped>>
    BY <1>1 DEF Filter
  <2>5. TypeOK'
    BY <1>1, <1>a, <2>3 DEF Filter, TypeOK, config, outputs
  <2>6. Dealt'
    BY <1>1, <1>a, <1>c, <2>4 DEF Dealt, Filter
  <2> QED
    BY <2>1, <2>2, <2>3, <2>4, <2>5, <2>6, Numbers, NothingMoves DEF outputs
<1>2. CASE TestRunning
  <2>1. TypeOK' /\ UNCHANGED <<queue, hand, log, outputs, lost, direct, count>>
    BY <1>2, <1>a DEF TestRunning, TypeOK, config, outputs
  <2>2. Dealt'
    BY <1>2, <1>a, <1>c, <2>1 DEF TestRunning, Dealt
  <2> QED
    BY <1>b, <2>1, <2>2
<1>3. CASE Deinit
  <2>1. early' = early \cup InQueue
    BY <1>3 DEF Deinit, InQueue
  <2>2. TypeOK' /\ UNCHANGED <<queue, hand, log, outputs, lost, direct, count>>
    BY <1>3, <1>a, <2>1, Numbers DEF Deinit, TypeOK, config, outputs
  <2>3. Dealt'
    BY <1>3, <1>a, <1>c, <2>1, <2>2 DEF Deinit, Dealt
  <2> QED
    BY <1>b, <2>2, <2>3
<1>4. CASE StopQueue \/ BeginInit
  <2>1. TypeOK' /\ UNCHANGED <<queue, hand, log, outputs, lost, direct, count>>
    BY <1>4, <1>a DEF StopQueue, BeginInit, TypeOK, config, outputs
  <2>2. Dealt'
    BY <1>4, <1>a, <1>c, <2>1 DEF StopQueue, BeginInit, Dealt
  <2> QED
    BY <1>b, <2>1, <2>2
<1>5. CASE JoinWorker
  <2>1. TypeOK' /\ UNCHANGED <<queue, hand, log, outputs, lost, direct, count>>
    BY <1>5, <1>a DEF JoinWorker, TypeOK, outputs
  <2>2. Dealt'
    BY <1>5, <1>a, <1>c, <2>1 DEF JoinWorker, Dealt
  <2> QED
    BY <1>b, <2>1, <2>2
<1>6. CASE UpdateConfig
  <2>1. stream' \in {"closed", "open", "failed"}
    BY <1>6, <1>a DEF UpdateConfig, Reopened, TypeOK
  <2>2. TypeOK' /\ UNCHANGED <<queue, hand, log, outputs, lost, direct, count>>
    BY <1>6, <1>a, <2>1 DEF UpdateConfig, TypeOK, outputs
  <2>3. Dealt'
    BY <1>6, <1>a, <1>c, <2>2 DEF UpdateConfig, Dealt
  <2> QED
    BY <1>b, <2>2, <2>3
<1>7. CASE UNCHANGED vars
  <2>1. TypeOK' /\ UNCHANGED <<queue, hand, log, outputs, lost, direct, count>>
    BY <1>7, <1>a DEF vars, TypeOK, config, outputs
  <2>2. Dealt'
    BY <1>7, <1>a, <1>c, <2>1 DEF vars, Dealt
  <2> QED
    BY <1>b, <2>1, <2>2
<1> QED
  BY <1>1, <1>2, <1>3, <1>4, <1>5, <1>6, <1>7

(* A thread's hand that had no message, or none any more, holds no two     *)
(* threads to one message.                                                 *)
LEMMA HandsApart ==
  ASSUME Settled, NEW t \in Threads,
         \A u \in Threads : u # t => log'[u] = log[u],
         log'[t].msg.id = 0 \/ log'[t].msg.id \notin InThreads
  PROVE  \A u, v \in Threads : log'[u].msg.id = log'[v].msg.id => u = v \/ log'[u].msg.id = 0
<1>1. \A u \in Threads : log[u].msg.id = 0 \/ log[u].msg.id \in InThreads
  BY DEF InThreads
<1>2. \A u, v \in Threads : log[u].msg.id = log[v].msg.id => u = v \/ log[u].msg.id = 0
  BY DEF Settled
<1> QED
  BY <1>1, <1>2

(* A message goes to the end of the queue, as the youngest, or past it.    *)
LEMMA PushSteps == ASSUME Settled, NEW t \in Threads, Push(t) PROVE Settled'
<1> DEFINE m == [id |-> count + 1, level |-> log[t].msg.level]
<1>a. TypeOK /\ Past /\ Dealt
  BY DEF Settled
<1>b. count \in Nat /\ count < MaxMessages /\ MaxMessages \in Nat /\ count' = count + 1
  BY Numbers DEF Push
<1>c. m \in Message /\ m.id = count + 1 /\ count + 1 \in 0 .. MaxMessages /\ count + 1 # 0
      /\ m \in [id : 0 .. MaxMessages, level : Levels]
  <2>1. log[t].msg.level \in Levels /\ count + 1 \in 1 .. MaxMessages
    BY <1>a, <1>b DEF TypeOK
  <2> QED
    BY <1>b, <2>1 DEF Message
<1>d. log[t].msg.id = 0
  BY <1>a DEF Push, TypeOK, Past
<1>e. 1 .. count + 1 = (1 .. count) \cup {count + 1} /\ count + 1 \notin 1 .. count
      /\ \A n \in 1 .. count : n < count + 1
  BY <1>b
<1>f. Apart /\ Everywhere = 1 .. count
  BY DEF Settled
<1>g. UNCHANGED <<stopped, running, level, toFile, stream, worker, hand, owner, file, skipped, lost,
                  early, sessions, aborted>> /\ InFile' = InFile /\ InHand' = InHand
  BY DEF Push, config, outputs, InFile, InHand
<1>h. 0 \notin InThreads
  BY DEF InThreads
<1>1. CASE Len(queue) < QueueSize
  <2>1. queue' = Append(queue, m) /\ direct' = direct /\ log' = [log EXCEPT ![t] = Idle]
    BY <1>1 DEF Push
  <2> HIDE DEF m
  <2>2. queue \in Seq(Message) /\ InQueue = Ids(queue) /\ InQueue' = Ids(queue')
    BY <1>a DEF TypeOK, InQueue, Ids
  <2>3. /\ queue' \in Seq(Message) /\ Len(queue') = Len(queue) + 1
        /\ InQueue' = InQueue \cup {count + 1}
        /\ Once(queue) /\ m.id \notin Ids(queue) => Once(queue')
        /\ Ordered(queue, {}) /\ (\A n \in Ids(queue) \ {} : n < m.id) => Ordered(queue', {})
    BY <1>c, <2>1, <2>2, AppendMessage
  <2>4. /\ log' \in [Threads -> [at : {"idle", "push", "direct"},
                                 msg : [id : 0 .. MaxMessages, level : Levels]]]
        /\ log'[t] = Idle /\ \A u \in Threads : u # t => log'[u] = log[u]
        /\ InThreads' = (InThreads \ {0}) \cup ({0} \ {0})
    BY <1>d, <2>1, ThreadGoesOn, Numbers
  <2>5. InThreads' = InThreads
    BY <1>h, <2>4
  <2>6. TypeOK'
    BY <1>a, <1>b, <1>e, <1>g, <2>1, <2>3, <2>4 DEF TypeOK
  <2>7. Past'
    <3>1. count + 1 \notin direct
      BY <1>e, Numbers
    <3>2. \A u \in Threads : log'[u].at = "direct" <=> log'[u].msg.id # 0
      BY <1>a, <2>4, Numbers DEF Past
    <3> QED
      BY <1>a, <1>g, <2>1, <2>3, <2>5, <3>1, <3>2 DEF Past
  <2>8. Dealt'
    BY <1>a, <1>g, <2>3 DEF Dealt
  <2>9. Apart'
    BY <1>e, <1>f, <1>g, <2>3, <2>5, Numbers DEF Apart
  <2>10. Everywhere' = 1 .. count'
    BY <1>b, <1>e, <1>f, <1>g, <2>3, <2>5 DEF Everywhere
  <2>11. \A u, v \in Threads : log'[u].msg.id = log'[v].msg.id => u = v \/ log'[u].msg.id = 0
    BY <2>4, HandsApart, Numbers
  <2>12. Once(queue') /\ Ordered(queue', {})
    BY <1>c, <1>e, <2>2, <2>3, Numbers DEF Settled
  <2>13. Len(queue') <= QueueSize
    BY <1>1, <2>2, <2>3, LoggerAssumption
  <2>14. Once(file') /\ Ordered(file', direct')
    BY <1>g, <2>1 DEF Settled
  <2>15. \A f \in InFile' \ direct', n \in InHand' \cup InQueue' : f < n
    BY <1>e, <1>g, <2>1, <2>3, Numbers DEF Settled
  <2>16. \A n \in InQueue' : hand'.id < n
    <3>1. hand.id \in {0} \cup 1 .. count
      BY Numbers DEF InHand
    <3>2. hand.id < count + 1
      BY <1>b, <1>e, <3>1
    <3> QED
      BY <1>g, <2>3, <3>2 DEF Settled
  <2> QED
    BY <2>6, <2>7, <2>8, <2>9, <2>10, <2>11, <2>12, <2>13, <2>14, <2>15, <2>16 DEF Settled
<1>2. CASE ~(Len(queue) < QueueSize)
  <2> DEFINE next == [at |-> "direct", msg |-> m]
  <2>1. queue' = queue /\ direct' = direct \cup {count + 1} /\ log' = [log EXCEPT ![t] = next]
    BY <1>2, <1>c DEF Push
  <2>2. /\ next \in [at : {"idle", "push", "direct"}, msg : [id : 0 .. MaxMessages, level : Levels]]
        /\ next.at = "direct" /\ next.msg.id = count + 1
    BY <1>c
  <2> HIDE DEF m, next
  <2>3. /\ log' \in [Threads -> [at : {"idle", "push", "direct"},
                                 msg : [id : 0 .. MaxMessages, level : Levels]]]
        /\ log'[t] = next /\ \A u \in Threads : u # t => log'[u] = log[u]
        /\ InThreads' = (InThreads \ {0}) \cup ({count + 1} \ {0})
    BY <1>d, <2>1, <2>2, ThreadGoesOn
  <2>4. InThreads' = InThreads \cup {count + 1} /\ InQueue' = InQueue
    BY <1>c, <1>h, <2>1, <2>3 DEF InQueue
  <2>5. TypeOK'
    BY <1>a, <1>b, <1>e, <1>g, <2>1, <2>3 DEF TypeOK
  <2>6. Past'
    <3>1. (InQueue \cup InHand) \cap {count + 1} = {}
      BY <1>e, Numbers
    <3>2. \A u \in Threads : log'[u].at = "direct" <=> log'[u].msg.id # 0
      BY <1>a, <1>c, <2>2, <2>3 DEF Past
    <3> QED
      BY <1>a, <1>g, <2>1, <2>4, <3>1, <3>2 DEF Past
  <2>7. Dealt'
    BY <1>a, <1>g, <2>4 DEF Dealt
  <2>8. Apart'
    BY <1>e, <1>f, <1>g, <2>4, Numbers DEF Apart
  <2>9. Everywhere' = 1 .. count'
    BY <1>b, <1>e, <1>f, <1>g, <2>4 DEF Everywhere
  <2>10. \A u, v \in Threads : log'[u].msg.id = log'[v].msg.id => u = v \/ log'[u].msg.id = 0
    BY <1>e, <2>2, <2>3, HandsApart, Numbers
  <2>11. Ordered(file', direct')
    BY <1>g, <2>1 DEF Settled, Ordered
  <2> QED
    BY <1>g, <2>1, <2>4, <2>5, <2>6, <2>7, <2>8, <2>9, <2>10, <2>11 DEF Settled, Once
<1> QED
  BY <1>1, <1>2

(* What write_to_file does with a message that was in neither output: it   *)
(* is in one of them, at the end if in the file.                           *)
LEMMA OneMoreWritten ==
  ASSUME Settled, NEW m \in Message, Written(m), m.id \notin InFile, m.id \in 1 .. count
  PROVE  /\ file' \in Seq(Message) /\ skipped' \subseteq 1 .. count
         /\ InFile' \cup skipped' = InFile \cup skipped \cup {m.id}
         /\ InFile \subseteq InFile' /\ skipped \subseteq skipped'
         /\ m.id \notin skipped => InFile' \cap skipped' = InFile \cap skipped
         /\ InFile' \subseteq InFile \cup {m.id} /\ skipped' \subseteq skipped \cup {m.id}
         /\ Once(file')
         /\ m.id \in direct \/ (\A f \in InFile \ direct : f < m.id) => Ordered(file', direct)
<1>1. file \in Seq(Message) /\ Once(file) /\ Ordered(file, direct) /\ skipped \subseteq 1 .. count
  BY DEF Settled, TypeOK
<1>2. InFile = Ids(file) /\ InFile' = Ids(file')
  BY DEF InFile, Ids
<1>3. CASE toFile /\ stream = "open"
  <2>1. file' = Append(file, m) /\ skipped' = skipped
    BY <1>3 DEF Written
  <2>2. /\ file' \in Seq(Message) /\ Ids(file') = Ids(file) \cup {m.id}
        /\ Once(file) /\ m.id \notin Ids(file) => Once(file')
        /\ Ordered(file, direct) /\ (m.id \in direct \/ \A n \in Ids(file) \ direct : n < m.id)
             => Ordered(file', direct)
    BY <1>1, <2>1, AppendMessage
  <2> QED
    BY <1>1, <1>2, <2>1, <2>2
<1>4. CASE ~(toFile /\ stream = "open")
  BY <1>1, <1>2, <1>4 DEF Written
<1> QED
  BY <1>3, <1>4

(* A message goes past the queue into the file, among those of the queue.  *)
LEMMA WriteDirectSteps == ASSUME Settled, NEW t \in Threads, WriteDirect(t) PROVE Settled'
<1> DEFINE m == log[t].msg
<1>a. TypeOK /\ Past /\ Dealt /\ Apart /\ Everywhere = 1 .. count
  BY DEF Settled
<1>b. m.id # 0 /\ m.id \in InThreads
  BY <1>a DEF WriteDirect, Past, InThreads
<1>c. /\ m.id \in 1 .. count /\ m.id \in direct
      /\ m.id \notin InFile \cup skipped \cup InQueue \cup InHand \cup lost
  BY <1>a, <1>b, Numbers DEF Past, Apart
<1>d. m \in Message
  <2>1. m \in [id : 0 .. MaxMessages, level : Levels] /\ m.id \in 1 .. MaxMessages
    BY <1>a, <1>c, Numbers DEF TypeOK
  <2> QED
    BY <2>1 DEF Message
<1>e. Written(m) /\ log' = [log EXCEPT ![t] = Idle]
  BY DEF WriteDirect
<1>f. UNCHANGED <<queue, stopped, running, level, toFile, stream, worker, hand, owner, lost, direct,
                  early, count, sessions>> /\ InQueue' = InQueue /\ InHand' = InHand
  BY DEF WriteDirect, config, InQueue, InHand
<1>g. aborted' \in BOOLEAN
  BY DEF WriteDirect
<1>1. /\ log' \in [Threads -> [at : {"idle", "push", "direct"},
                               msg : [id : 0 .. MaxMessages, level : Levels]]]
      /\ log'[t] = Idle /\ \A u \in Threads : u # t => log'[u] = log[u]
      /\ InThreads' = (InThreads \ {m.id}) \cup ({0} \ {0})
  <2>1. /\ Idle \in [at : {"idle", "push", "direct"}, msg : [id : 0 .. MaxMessages, level : Levels]]
        /\ Idle.msg.id = 0
    BY Numbers
  <2>2. /\ log' \in [Threads -> [at : {"idle", "push", "direct"},
                                 msg : [id : 0 .. MaxMessages, level : Levels]]]
        /\ log'[t] = Idle /\ \A u \in Threads : u # t => log'[u] = log[u]
        /\ InThreads' = (InThreads \ {log[t].msg.id}) \cup ({Idle.msg.id} \ {0})
    BY <1>e, <2>1, ThreadGoesOn
  <2> QED
    BY <2>1, <2>2
<1> HIDE DEF m
<1>2. /\ file' \in Seq(Message) /\ skipped' \subseteq 1 .. count
      /\ InFile' \cup skipped' = InFile \cup skipped \cup {m.id}
      /\ InFile \subseteq InFile' /\ skipped \subseteq skipped'
      /\ InFile' \cap skipped' = InFile \cap skipped
      /\ InFile' \subseteq InFile \cup {m.id}
      /\ Once(file') /\ Ordered(file', direct)
  BY <1>c, <1>d, <1>e, OneMoreWritten
<1>3. InThreads' = InThreads \ {m.id}
  BY <1>1
<1>4. TypeOK'
  BY <1>a, <1>f, <1>g, <1>1, <1>2 DEF TypeOK
<1>5. Past'
  <2>1. \A u \in Threads : log'[u].at = "direct" <=> log'[u].msg.id # 0
    BY <1>a, <1>1, Numbers DEF Past
  <2> QED
    BY <1>a, <1>f, <1>3, <2>1 DEF Past
<1>6. Dealt'
  BY <1>a, <1>f, <1>2 DEF Dealt
<1>7. Apart'
  <2>1. InFile \cap skipped = {}
    BY <1>a DEF Apart
  <2>2. /\ InQueue \cap (InFile' \cup skipped') = {} /\ InHand \cap (InFile' \cup skipped') = {}
        /\ InThreads' \cap (InFile' \cup skipped') = {} /\ lost \cap (InFile' \cup skipped') = {}
    BY <1>a, <1>c, <1>2, <1>3 DEF Apart
  <2> QED
    BY <1>a, <1>f, <1>2, <1>3, <2>1, <2>2 DEF Apart
<1>8. Everywhere' = 1 .. count'
  BY <1>a, <1>b, <1>f, <1>2, <1>3 DEF Everywhere
<1>9. \A u, v \in Threads : log'[u].msg.id = log'[v].msg.id => u = v \/ log'[u].msg.id = 0
  BY <1>1, HandsApart, Numbers
<1>10. \A f \in InFile' \ direct', n \in InHand' \cup InQueue' : f < n
  BY <1>c, <1>f, <1>2 DEF Settled
<1> QED
  BY <1>f, <1>2, <1>4, <1>5, <1>6, <1>7, <1>8, <1>9, <1>10 DEF Settled, Once, Ordered

(* The worker takes the first message of the queue, the oldest there.      *)
LEMMA PopSteps == ASSUME Settled, Pop PROVE Settled'
<1>a. TypeOK /\ Past /\ Dealt /\ Apart /\ Everywhere = 1 .. count
  BY DEF Settled
<1>b. hand = Nothing /\ InHand = {} /\ hand.id = 0
  BY <1>a, Numbers DEF Pop, TypeOK, InHand
<1>c. UNCHANGED <<stopped, running, level, toFile, stream, log, owner, file, skipped, lost, direct,
                  early, count, sessions, aborted>> /\ InFile' = InFile /\ InThreads' = InThreads
  BY DEF Pop, config, outputs, InFile, InThreads
<1>1. CASE queue = <<>>
  <2>1. UNCHANGED <<queue, hand>> /\ InQueue' = InQueue /\ InHand' = InHand /\ InQueue = {}
    BY <1>1 DEF Pop, InQueue, InHand
  <2>2. worker' \in {"flush", "ended"} /\ stopped
    BY <1>1 DEF Pop
  <2>3. TypeOK'
    BY <1>a, <1>b, <1>c, <2>1, <2>2 DEF TypeOK
  <2>4. Dealt'
    BY <1>a, <1>b, <1>c, <2>1, <2>2 DEF Dealt, Pop
  <2> QED
    BY <1>c, <2>1, <2>3, <2>4, NothingMoves
<1>2. CASE queue # <<>>
  <2> DEFINE m == Head(queue)
  <2>1. hand' = m /\ queue' = Tail(queue)
        /\ worker' = (IF worker = "pop" THEN "write" ELSE "flushWrite")
    BY <1>2 DEF Pop
  <2>2. queue \in Seq(Message) /\ InQueue = Ids(queue) /\ InQueue' = Ids(queue')
        /\ Once(queue) /\ Ordered(queue, {}) /\ Len(queue) <= QueueSize
    BY <1>a DEF TypeOK, InQueue, Ids, Settled
  <2>3. /\ m \in Message /\ queue' \in Seq(Message) /\ Len(queue') = Len(queue) - 1
        /\ InQueue = InQueue' \cup {m.id} /\ Once(queue') /\ m.id \notin InQueue'
        /\ Ordered(queue', {}) /\ \A n \in InQueue' : m.id < n
    BY <1>2, <2>1, <2>2, FirstMessage
  <2> HIDE DEF m
  <2>4. m.id # 0 /\ m # Nothing /\ InHand' = {m.id}
    BY <2>1, <2>3, Numbers DEF InHand
  <2>5. TypeOK'
    BY <1>a, <1>c, <2>1, <2>3, <2>4 DEF TypeOK, Pop
  <2>6. Past'
    BY <1>a, <1>c, <2>3, <2>4 DEF Past
  <2>7. Dealt'
    BY <1>a, <1>b, <1>c, <2>1, <2>3, <2>4 DEF Dealt, Pop
  <2>8. Apart'
    BY <1>a, <1>b, <1>c, <2>3, <2>4 DEF Apart
  <2>9. Everywhere' = 1 .. count'
    BY <1>a, <1>b, <1>c, <2>3, <2>4 DEF Everywhere
  <2>10. Len(queue') <= QueueSize
    BY <2>2, <2>3, LoggerAssumption
  <2>11. \A f \in InFile' \ direct', n \in InHand' \cup InQueue' : f < n
    BY <1>c, <2>3, <2>4 DEF Settled
  <2>12. \A n \in InQueue' : hand'.id < n
    BY <2>1, <2>3
  <2>13. Once(file') /\ Ordered(file', direct')
    BY <1>c DEF Settled
  <2>14. \A u, v \in Threads : log'[u].msg.id = log'[v].msg.id => u = v \/ log'[u].msg.id = 0
    BY <1>c DEF Settled
  <2> QED
    BY <2>3, <2>5, <2>6, <2>7, <2>8, <2>9, <2>10, <2>11, <2>12, <2>13, <2>14 DEF Settled
<1> QED
  BY <1>1, <1>2

(* The worker writes the message it holds behind those it wrote before.    *)
LEMMA WriteSteps == ASSUME Settled, Write PROVE Settled'
<1>a. TypeOK /\ Past /\ Dealt /\ Apart /\ Everywhere = 1 .. count
  BY DEF Settled
<1>b. hand \in Message /\ hand.id # 0 /\ InHand = {hand.id}
  BY <1>a, Numbers DEF Write, TypeOK, InHand
<1>c. hand.id \in 1 .. count /\ hand.id \notin InFile \cup skipped \cup InQueue \cup InThreads \cup lost
      /\ hand.id \notin direct
  BY <1>a, <1>b, Numbers DEF Apart, Past
<1>d. /\ Written(hand) /\ hand' = Nothing
      /\ worker' = (IF worker = "write" THEN "test" ELSE "flush") /\ aborted' \in BOOLEAN
  BY DEF Write
<1>e. UNCHANGED <<queue, stopped, running, level, toFile, stream, log, owner, lost, direct, early,
                  count, sessions>> /\ InQueue' = InQueue /\ InThreads' = InThreads
  BY DEF Write, config, InQueue, InThreads
<1>f. \A f \in InFile \ direct : f < hand.id
  BY <1>b DEF Settled
<1>1. /\ file' \in Seq(Message) /\ skipped' \subseteq 1 .. count
      /\ InFile' \cup skipped' = InFile \cup skipped \cup {hand.id}
      /\ InFile' \cap skipped' = InFile \cap skipped
      /\ InFile \subseteq InFile' /\ skipped \subseteq skipped'
      /\ InFile' \subseteq InFile \cup {hand.id}
      /\ Once(file') /\ Ordered(file', direct)
  BY <1>b, <1>c, <1>d, <1>f, OneMoreWritten
<1>2. InHand' = {} /\ hand'.id = 0
  BY <1>d, Numbers DEF InHand
<1>3. TypeOK'
  BY <1>a, <1>d, <1>e, <1>1 DEF TypeOK
<1>4. Past'
  BY <1>a, <1>e, <1>2 DEF Past
<1>5. Dealt'
  <2>1. worker' \in {"test", "flush"} /\ worker \in {"write", "flushWrite"}
    BY <1>d DEF Write
  <2> QED
    BY <1>a, <1>b, <1>e, <1>1, <1>2, <2>1 DEF Dealt
<1>6. Apart'
  <2>1. InFile \cap skipped = {}
    BY <1>a DEF Apart
  <2>2. /\ InQueue \cap (InFile' \cup skipped') = {} /\ InThreads \cap (InFile' \cup skipped') = {}
        /\ lost \cap (InFile' \cup skipped') = {}
    BY <1>a, <1>c, <1>1 DEF Apart
  <2> QED
    BY <1>a, <1>e, <1>1, <1>2, <2>1, <2>2 DEF Apart
<1>7. Everywhere' = 1 .. count'
  BY <1>a, <1>b, <1>e, <1>1, <1>2 DEF Everywhere
<1>8. \A f \in InFile' \ direct', n \in InHand' \cup InQueue' : f < n
  BY <1>b, <1>e, <1>1, <1>2 DEF Settled
<1>9. \A n \in InQueue' : hand'.id < n
  <2>1. \A n \in 1 .. count : 0 < n
    BY Numbers
  <2> QED
    BY <1>e, <1>2, <2>1, Numbers
<1>10. Len(queue') <= QueueSize /\ Once(queue') /\ Ordered(queue', {})
  BY <1>e DEF Settled
<1>11. \A u, v \in Threads : log'[u].msg.id = log'[v].msg.id => u = v \/ log'[u].msg.id = 0
  BY <1>e DEF Settled
<1> QED
  BY <1>e, <1>1, <1>3, <1>4, <1>5, <1>6, <1>7, <1>8, <1>9, <1>10, <1>11 DEF Settled

(* init drops the queue, which no message of before deinit is in any more. *)
LEMMA FinishInitSteps == ASSUME Settled, FinishInit PROVE Settled'
<1>a. TypeOK /\ Past /\ Dealt /\ Apart /\ Everywhere = 1 .. count
  BY DEF Settled
<1>b. hand = Nothing /\ InHand = {}
  BY <1>a, Numbers DEF FinishInit, Dealt, TypeOK, InHand
<1>c. /\ lost' = lost \cup InQueue /\ queue' = <<>> /\ hand' = Nothing /\ owner' = "on" /\ worker' = "test"
      /\ stopped' = FALSE /\ running' = TRUE /\ level' \in Levels /\ toFile' \in BOOLEAN
      /\ sessions' = sessions + 1 /\ sessions < MaxSessions
  <2>1. sessions < MaxSessions
    BY <1>a DEF FinishInit, Dealt
  <2> QED
    BY <2>1 DEF FinishInit, InQueue
<1>d. UNCHANGED <<log, file, skipped, direct, early, count, aborted>> /\ InFile' = InFile /\ InThreads' = InThreads
  BY DEF FinishInit, outputs, InFile, InThreads
<1>e. stream' \in {"closed", "open", "failed"}
  BY <1>a DEF FinishInit, Reopened, TypeOK
<1>f. sessions' \in 0 .. MaxSessions
  BY <1>a, <1>c, LoggerAssumption DEF TypeOK
<1>g. /\ queue' \in Seq(Message) /\ InQueue' = {} /\ Len(queue') = 0 /\ DOMAIN queue' = {}
  BY <1>c DEF InQueue
<1>h. InHand' = {} /\ hand'.id = 0
  BY <1>c, Numbers DEF InHand
<1>1. TypeOK'
  <2>1. lost' \subseteq 1 .. count'
    BY <1>c, <1>d, Numbers
  <2>2. hand' \in Message \cup {Nothing} /\ (hand' # Nothing <=> worker' \in {"write", "flushWrite"})
    BY <1>c
  <2> QED
    BY <1>a, <1>c, <1>d, <1>e, <1>f, <1>g, <2>1, <2>2 DEF TypeOK
<1>2. Past'
  BY <1>a, <1>d, <1>g, <1>h DEF Past
<1>3. Dealt'
  <2>1. early \subseteq InFile \cup skipped
    BY <1>a DEF FinishInit, Dealt
  <2> QED
    BY <1>c, <1>d, <2>1 DEF Dealt
<1>4. Apart'
  BY <1>a, <1>c, <1>d, <1>g, <1>h DEF Apart
<1>5. Everywhere' = 1 .. count'
  BY <1>a, <1>b, <1>c, <1>d, <1>g, <1>h DEF Everywhere
<1>6. Once(queue') /\ Ordered(queue', {}) /\ Len(queue') <= QueueSize
  BY <1>g, LoggerAssumption DEF Once, Ordered
<1>7. Once(file') /\ Ordered(file', direct')
  BY <1>d DEF Settled
<1>8. \A u, v \in Threads : log'[u].msg.id = log'[v].msg.id => u = v \/ log'[u].msg.id = 0
  BY <1>d DEF Settled
<1> QED
  BY <1>1, <1>2, <1>3, <1>4, <1>5, <1>6, <1>7, <1>8, <1>g, <1>h DEF Settled

(* It holds before the first init, and every step keeps it.                *)
LEMMA SettledInit == ASSUME Init PROVE Settled
<1>1. /\ queue = <<>> /\ file = <<>> /\ skipped = {} /\ lost = {} /\ direct = {} /\ early = {}
      /\ count = 0 /\ sessions = 0 /\ hand = Nothing /\ worker = "none" /\ owner = "off"
      /\ \A t \in Threads : log[t] = Idle
  BY DEF Init
<1>2. /\ Nothing.id = 0 /\ Idle.at = "idle" /\ Idle.msg.id = 0
      /\ 0 \in 0 .. MaxMessages /\ 0 \in 0 .. MaxSessions
      /\ Idle \in [at : {"idle", "push", "direct"}, msg : [id : 0 .. MaxMessages, level : Levels]]
  <2>1. LOG_FATAL \in Levels /\ Nothing = [id |-> 0, level |-> LOG_FATAL]
    BY FatalIsLevel
  <2>2. 0 \in 0 .. MaxMessages /\ 0 \in 0 .. MaxSessions
    BY LoggerAssumption
  <2> QED
    BY <2>1, <2>2 DEF Idle
<1>3. InQueue = {} /\ InFile = {} /\ InHand = {} /\ InThreads = {}
  BY <1>1, <1>2 DEF InQueue, InFile, InHand, InThreads
<1>4. TypeOK
  <2>1. log \in [Threads -> [at : {"idle", "push", "direct"},
                              msg : [id : 0 .. MaxMessages, level : Levels]]]
    BY <1>2 DEF Init
  <2>2. queue \in Seq(Message) /\ file \in Seq(Message)
    BY <1>1
  <2> QED
    BY <1>1, <1>2, <2>1, <2>2 DEF Init, TypeOK
<1>5. Past /\ Dealt /\ Apart
  BY <1>1, <1>2, <1>3 DEF Past, Dealt, Apart
<1>6. Everywhere = 1 .. count
  BY <1>1, <1>3 DEF Everywhere
<1>7. Once(queue) /\ Once(file) /\ Ordered(file, direct) /\ Ordered(queue, {}) /\ Len(queue) <= QueueSize
  BY <1>1, LoggerAssumption DEF Once, Ordered
<1>8. \A t \in Threads : log[t].msg.id = 0
  BY <1>1, <1>2
<1> QED
  BY <1>3, <1>4, <1>5, <1>6, <1>7, <1>8 DEF Settled

(* Every step of a thread, of the worker and of the owner keeps it.       *)
LEMMA SettledNext == Settled /\ [Next]_vars => Settled'
<1> SUFFICES ASSUME Settled, [Next]_vars PROVE Settled'
  OBVIOUS
<1>1. CASE \E t \in Threads, l \in Levels : Filter(t, l)
  BY <1>1, QuietSteps
<1>2. CASE \E t \in Threads : Push(t)
  BY <1>2, PushSteps
<1>3. CASE \E t \in Threads : WriteDirect(t)
  BY <1>3, WriteDirectSteps
<1>4. CASE Pop
  BY <1>4, PopSteps
<1>5. CASE Write
  BY <1>5, WriteSteps
<1>6. CASE FinishInit
  BY <1>6, FinishInitSteps
<1>7. CASE TestRunning \/ Deinit \/ StopQueue \/ JoinWorker \/ BeginInit \/ UpdateConfig
           \/ UNCHANGED vars
  BY <1>7, QuietSteps
<1> QED
  BY <1>1, <1>2, <1>3, <1>4, <1>5, <1>6, <1>7 DEF Next, Logging, Worker, OwnerStep

(* It holds in every state.                                               *)
LEMMA SettledCorrect == Spec => []Settled
<1>1. Init => Settled
  BY SettledInit
<1>2. Settled /\ [Next]_vars => Settled'
  BY SettledNext
<1> QED
  BY <1>1, <1>2, PTL DEF Spec

(* Every message that passed the level is in the queue, in the hands of    *)
(* the worker or of the one thread that logs it, in the file once, or was  *)
(* skipped for want of a file or dropped with the queue of before init.    *)
THEOREM MessagesAccountedCorrect == Spec => []MessagesAccounted
<1>1. Settled => MessagesAccounted
  BY SettledMeans
<1> QED
  BY <1>1, SettledCorrect, PTL

(* The queue keeps its limit, and the worker writes the messages of the    *)
(* queue in the order they were put there, whatever the threads write past *)
(* it in between.                                                          *)
THEOREM QueuedInOrderCorrect == Spec => []QueuedInOrder
<1>1. Settled => QueuedInOrder
  BY SettledMeans
<1> QED
  BY <1>1, SettledCorrect, PTL

(* What was in the queue when deinit was called is written, or skipped for *)
(* want of a file, when deinit returns.                                    *)
THEOREM EarlyMessagesHandledCorrect == Spec => []EarlyMessagesHandled
<1>1. Settled => EarlyMessagesHandled
  BY DEF Settled, Dealt, EarlyMessagesHandled
<1> QED
  BY <1>1, SettledCorrect, PTL
=============================================================================
