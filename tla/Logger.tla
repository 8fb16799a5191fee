------------------------------- MODULE Logger -------------------------------
(***************************************************************************)
(* The asynchronous logger of otl_log.cpp: threads put messages into a     *)
(* bounded queue, a worker writes them to the log file, and a thread whose *)
(* message finds the queue full writes it itself. One owner calls init,    *)
(* deinit and updateConfig. The console gets what the file gets, and       *)
(* without a lock; the telnet console is the module TelnetConsole.         *)
(*                                                                         *)
(* A message is numbered when it is put into the queue or found not to     *)
(* fit. Nobody logs while init makes a new queue: that would be a use of   *)
(* the old one after its end.                                              *)
(***************************************************************************)
EXTENDS Integers, Sequences

CONSTANTS
    Threads,        \* the threads that log
    Levels,         \* the levels, up to LOG_FATAL
    QueueSize,      \* config.queueSize
    AbortOnFatal,   \* config.abortOnFatal
    MaxMessages,    \* bound: the messages that pass the level
    MaxSessions     \* bound: the calls of init

ASSUME LoggerAssumption ==
    /\ Levels \subseteq Nat /\ \E l \in Levels : \A k \in Levels : k <= l
    /\ QueueSize \in Nat /\ MaxMessages \in Nat /\ MaxSessions \in Nat
    /\ AbortOnFatal \in BOOLEAN

LOG_FATAL == CHOOSE l \in Levels : \A k \in Levels : k <= l

Message == [id : 1 .. MaxMessages, level : Levels]
Nothing == [id |-> 0, level |-> LOG_FATAL]

VARIABLES
    queue, stopped, \* g_logger.queue: its messages and m_stopped
    running,        \* g_logger.running
    level,          \* g_logger.config.level
    toFile,         \* g_logger.config.targets & OutputTarget::File
    stream,         \* g_logger.fileStream: closed, open, or failed when opened twice
    worker,         \* where log_worker is
    hand,           \* the message it has popped
    log,            \* what each thread is doing with which message
    owner,          \* where init or deinit is
    file,           \* the messages in the log file, in their order
    skipped,        \* those that were not written since there was no file
    lost,           \* those that were in a queue when init replaced it
    direct,         \* those that did not fit into the queue
    early,          \* those that were in the queue when deinit was called
    count, sessions,
    aborted         \* std::abort() was called

outputs == <<file, skipped>>
config == <<level, toFile, stream>>
vars == <<queue, stopped, running, config, worker, hand, log, owner, outputs,
          lost, direct, early, count, sessions, aborted>>

Idle == [at |-> "idle", msg |-> Nothing]

(* Before the first init there is no queue; nobody logs then.              *)
Init ==
    /\ queue = <<>> /\ stopped = TRUE /\ running = FALSE
    /\ level \in Levels /\ toFile = FALSE /\ stream = "closed"
    /\ worker = "none" /\ hand = Nothing
    /\ log = [t \in Threads |-> Idle]
    /\ owner = "off"
    /\ file = <<>> /\ skipped = {} /\ lost = {} /\ direct = {} /\ early = {}
    /\ count = 0 /\ sessions = 0
    /\ aborted = FALSE
-----------------------------------------------------------------------------
(* LogStream::~LogStream and LogPrintf: a message below the level goes no  *)
(* further, a fatal one always does ...                                    *)
Filter(t, l) ==
    /\ ~aborted /\ log[t] = Idle /\ owner # "new" /\ sessions > 0
    /\ l >= level \/ l = LOG_FATAL
    /\ log' = [log EXCEPT ![t] = [at |-> "push", msg |-> [id |-> 0, level |-> l]]]
    /\ UNCHANGED <<queue, stopped, running, config, worker, hand, owner, outputs,
                   lost, direct, early, count, sessions, aborted>>

(* Definitions marked "Variant" are what a plausible slip would make of the *)
(* definition after them; no specification uses one. Variant: when the     *)
(* queue is full its first message makes room.                             *)
Push_Overwrites(t) ==
    LET msg == [id |-> count + 1, level |-> log[t].msg.level]
    IN /\ ~aborted /\ log[t].at = "push" /\ count < MaxMessages
       /\ count' = count + 1
       /\ queue' = Append(IF Len(queue) < QueueSize THEN queue ELSE Tail(queue), msg)
       /\ log' = [log EXCEPT ![t] = Idle]
       /\ UNCHANGED <<stopped, running, config, worker, hand, owner, outputs,
                      lost, direct, early, sessions, aborted>>

(* Variant: the limit is passed by one.                                    *)
Push_OneTooMany(t) ==
    LET msg == [id |-> count + 1, level |-> log[t].msg.level]
    IN /\ ~aborted /\ log[t].at = "push" /\ count < MaxMessages
       /\ count' = count + 1
       /\ IF Len(queue) <= QueueSize
          THEN /\ queue' = Append(queue, msg) /\ direct' = direct
               /\ log' = [log EXCEPT ![t] = Idle]
          ELSE /\ queue' = queue /\ direct' = direct \cup {msg.id}
               /\ log' = [log EXCEPT ![t] = [at |-> "direct", msg |-> msg]]
       /\ UNCHANGED <<stopped, running, config, worker, hand, owner, outputs,
                      lost, early, sessions, aborted>>

(* ... and is put into the queue, unless that is full.                     *)
Push(t) ==
    LET msg == [id |-> count + 1, level |-> log[t].msg.level]
    IN /\ ~aborted /\ log[t].at = "push" /\ count < MaxMessages
       /\ count' = count + 1
       /\ IF Len(queue) < QueueSize
          THEN /\ queue' = Append(queue, msg) /\ direct' = direct
               /\ log' = [log EXCEPT ![t] = Idle]
          ELSE /\ queue' = queue /\ direct' = direct \cup {msg.id}
               /\ log' = [log EXCEPT ![t] = [at |-> "direct", msg |-> msg]]
       /\ UNCHANGED <<stopped, running, config, worker, hand, owner, outputs,
                      lost, early, sessions, aborted>>

(* write_to_file, which finds the file open or not. The stream tells nobody *)
(* of a write that failed.                                                 *)
Written(msg) ==
    IF toFile /\ stream = "open"
    THEN file' = Append(file, msg) /\ skipped' = skipped
    ELSE skipped' = skipped \cup {msg.id} /\ file' = file

WriteDirect(t) ==
    /\ ~aborted /\ log[t].at = "direct"
    /\ Written(log[t].msg)
    /\ aborted' = (AbortOnFatal /\ log[t].msg.level = LOG_FATAL)
    /\ log' = [log EXCEPT ![t] = Idle]
    /\ UNCHANGED <<queue, stopped, running, config, worker, hand, owner,
                   lost, direct, early, count, sessions>>
-----------------------------------------------------------------------------
(* log_worker: its loop, and the second one once running is false.         *)
TestRunning ==
    /\ ~aborted /\ worker = "test"
    /\ worker' = IF running THEN "pop" ELSE "flush"
    /\ UNCHANGED <<queue, stopped, running, config, hand, log, owner, outputs,
                   lost, direct, early, count, sessions, aborted>>

(* Variant: once the queue is stopped nothing is popped any more.          *)
Pop_StopsAtOnce ==
    /\ ~aborted /\ worker \in {"pop", "flush"}
    /\ queue # <<>> \/ stopped
    /\ IF stopped
       THEN /\ worker' = IF worker = "pop" THEN "flush" ELSE "ended"
            /\ UNCHANGED <<queue, hand>>
       ELSE /\ hand' = Head(queue) /\ queue' = Tail(queue)
            /\ worker' = IF worker = "pop" THEN "write" ELSE "flushWrite"
    /\ UNCHANGED <<stopped, running, config, log, owner, outputs,
                   lost, direct, early, count, sessions, aborted>>

(* LogQueue::pop waits for a message or for stop; messages go before stop. *)
Pop ==
    /\ ~aborted /\ worker \in {"pop", "flush"}
    /\ queue # <<>> \/ stopped
    /\ IF queue = <<>>
       THEN /\ worker' = IF worker = "pop" THEN "flush" ELSE "ended"
            /\ UNCHANGED <<queue, hand>>
       ELSE /\ hand' = Head(queue) /\ queue' = Tail(queue)
            /\ worker' = IF worker = "pop" THEN "write" ELSE "flushWrite"
    /\ UNCHANGED <<stopped, running, config, log, owner, outputs,
                   lost, direct, early, count, sessions, aborted>>

(* Only the first loop looks at the level of what it has written.          *)
Write ==
    /\ ~aborted /\ worker \in {"write", "flushWrite"}
    /\ Written(hand)
    /\ hand' = Nothing
    /\ aborted' = (worker = "write" /\ AbortOnFatal /\ hand.level = LOG_FATAL)
    /\ worker' = IF worker = "write" THEN "test" ELSE "flush"
    /\ UNCHANGED <<queue, stopped, running, config, log, owner,
                   lost, direct, early, count, sessions>>

Worker == TestRunning \/ Pop \/ Write
-----------------------------------------------------------------------------
(* deinit: running is cleared, then the queue stopped, the worker joined   *)
(* and the file closed; init calls it first.                               *)
Deinit ==
    /\ ~aborted /\ owner = "on"
    /\ running' = FALSE
    /\ early' = early \cup {queue[i].id : i \in DOMAIN queue}
    /\ owner' = "stop"
    /\ UNCHANGED <<queue, stopped, config, worker, hand, log, outputs,
                   lost, direct, count, sessions, aborted>>

(* Variant: the queue is not stopped.                                      *)
StopQueue_Forgotten ==
    /\ ~aborted /\ owner = "stop"
    /\ owner' = "join"
    /\ UNCHANGED <<queue, stopped, running, config, worker, hand, log, outputs,
                   lost, direct, early, count, sessions, aborted>>

StopQueue ==
    /\ ~aborted /\ owner = "stop"
    /\ stopped' = TRUE
    /\ owner' = "join"
    /\ UNCHANGED <<queue, running, config, worker, hand, log, outputs,
                   lost, direct, early, count, sessions, aborted>>

JoinWorker ==
    /\ ~aborted /\ owner = "join" /\ worker = "ended"
    /\ worker' = "none" /\ stream' = "closed"
    /\ owner' = "off"
    /\ UNCHANGED <<queue, stopped, running, level, toFile, hand, log, outputs,
                   lost, direct, early, count, sessions, aborted>>

(* What opening the file, which may fail, makes of the stream.             *)
Reopened == IF stream = "closed" THEN {"open", "closed"} ELSE {"failed"}

(* The rest of init, while nobody logs: a message that came after the end  *)
(* of the last worker is dropped with its queue.                           *)
BeginInit ==
    /\ ~aborted /\ owner = "off" /\ sessions < MaxSessions
    /\ \A t \in Threads : log[t] = Idle
    /\ owner' = "new"
    /\ UNCHANGED <<queue, stopped, running, config, worker, hand, log, outputs,
                   lost, direct, early, count, sessions, aborted>>

FinishInit ==
    /\ ~aborted /\ owner = "new"
    /\ sessions' = sessions + 1
    /\ lost' = lost \cup {queue[i].id : i \in DOMAIN queue}
    /\ queue' = <<>> /\ stopped' = FALSE /\ running' = TRUE
    /\ level' \in Levels /\ toFile' \in BOOLEAN
    /\ IF toFile' THEN stream' \in Reopened ELSE stream' = stream
    /\ worker' = "test" /\ hand' = Nothing
    /\ owner' = "on"
    /\ UNCHANGED <<log, outputs, direct, early, count, aborted>>

(* updateConfig, and setLevel, which leaves the target as it is; the file  *)
(* is opened or closed under its lock.                                     *)
UpdateConfig ==
    /\ ~aborted /\ owner \in {"on", "off"} /\ sessions > 0
    /\ level' \in Levels /\ toFile' \in BOOLEAN
    /\ stream' \in IF ~toFile' THEN {"closed"}
                   ELSE IF stream = "closed" THEN Reopened ELSE {stream}
    /\ UNCHANGED <<queue, stopped, running, worker, hand, log, owner, outputs,
                   lost, direct, early, count, sessions, aborted>>

OwnerStep == StopQueue \/ JoinWorker

Logging == \E t \in Threads : (\E l \in Levels : Filter(t, l)) \/ Push(t) \/ WriteDirect(t)

Next ==
    \/ Logging
    \/ Worker
    \/ Deinit \/ OwnerStep \/ BeginInit \/ FinishInit \/ UpdateConfig

Spec == Init /\ [][Next]_vars

(* The worker is scheduled, and an owner who began to stop goes on.        *)
FairSpec == Spec /\ WF_vars(Worker) /\ WF_vars(OwnerStep)
-----------------------------------------------------------------------------
InQueue == {queue[i].id : i \in DOMAIN queue}
InFile == {file[i].id : i \in DOMAIN file}
InHand == {hand.id} \ {0}
InThreads == {log[t].msg.id : t \in Threads} \ {0}

TypeOK ==
    /\ queue \in Seq(Message) /\ stopped \in BOOLEAN /\ running \in BOOLEAN
    /\ level \in Levels /\ toFile \in BOOLEAN /\ stream \in {"closed", "open", "failed"}
    /\ worker \in {"none", "test", "pop", "write", "flush", "flushWrite", "ended"}
    /\ hand \in Message \cup {Nothing}
    /\ hand # Nothing <=> worker \in {"write", "flushWrite"}
    /\ log \in [Threads -> [at : {"idle", "push", "direct"},
                            msg : [id : 0 .. MaxMessages, level : Levels]]]
    /\ owner \in {"on", "stop", "join", "off", "new"}
    /\ file \in Seq(Message)
    /\ skipped \subseteq 1 .. count /\ lost \subseteq 1 .. count
    /\ direct \subseteq 1 .. count /\ early \subseteq 1 .. count
    /\ count \in 0 .. MaxMessages /\ sessions \in 0 .. MaxSessions
    /\ aborted \in BOOLEAN

(* A message that passed the level is in exactly one place, and in the     *)
(* file once, whether it went through the queue or past it, and through    *)
(* every stop and restart of the logger.                                   *)
Places == <<InQueue, InFile, InHand, InThreads, skipped, lost>>

Once(msgs) == \A i, j \in DOMAIN msgs : msgs[i].id = msgs[j].id => i = j

MessagesAccounted ==
    /\ TypeOK
    /\ UNION {Places[p] : p \in DOMAIN Places} = 1 .. count
    /\ \A p, q \in DOMAIN Places : p # q => Places[p] \cap Places[q] = {}
    /\ Once(queue) /\ Once(file)
    /\ \A t, u \in Threads : log[t].msg.id = log[u].msg.id => t = u \/ log[t].msg.id = 0

(* The queue keeps its limit, and those of its messages that reach the     *)
(* file do so in the order they were logged in, whatever was written past  *)
(* the queue in between.                                                   *)
QueuedInOrder ==
    /\ Len(queue) <= QueueSize
    /\ \A i, j \in DOMAIN file :
          i < j /\ {file[i].id, file[j].id} \cap direct = {} => file[i].id < file[j].id
    /\ \A f \in InFile \ direct, n \in InHand \cup InQueue : f < n
    /\ \A n \in InQueue : hand.id < n
    /\ \A i, j \in DOMAIN queue : i < j => queue[i].id < queue[j].id

(* What was logged before deinit was called has been dealt with when it    *)
(* returns: the worker empties the queue before it ends.                   *)
EarlyMessagesHandled ==
    owner \in {"off", "new"} => early \subseteq InFile \cup skipped

(* deinit returns, although the worker may be waiting in pop or about to   *)
(* look at running when running is cleared and the queue stopped.          *)
DeinitReturns == owner = "stop" ~> owner = "off" \/ aborted
=============================================================================
