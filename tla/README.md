# A verification of otl

This directory models the parts of otl that are hard to test: its queue and
thread pools, the inference pipe, the timer queue, the classes for streams
(demuxer, both decoders, encoder, outputer, user data), the byte buffer, the
asynchronous logger and its telnet console. Each part is a TLA+ module written
from the source; TLC checks small instances of it, and TLAPS proves some of the
results for every value of the constants. `PROJECT.json` lists components, runs,
mutants, theorems, hazards and the lines of code behind each definition.

To check a module: `tlc -config MCTimerQueue.cfg MCTimerQueue.tla`.
To check the proofs: `tlapm BlockingQueueProofs.tla`.

## 1. The system

| Part | State | Operations | Talks to | What is hard | When it is correct |
|---|---|---|---|---|---|
| `otl::BlockingQueue` (otl_thread_queue.h) | items (deque or vector), `m_stop`, one mutex, two condition variables | `push` (one, many), `pop_front` (batch, deadline), `stop`, `drop`, shedding half when full | used by `WorkerPool`, `InferencePipe` | lost wake-ups, batches that wait in the middle, deadline against arrival, a read after the unlock | order, conservation and limit hold, nobody sleeps without a reason, every call returns |
| `internal::BlockingQueue` (same file) | a queue, `m_shutdown` | `push`, timed `pop`, `shutdown`, `reset` | used by `FfmpegOutputer` | what comes after `shutdown` | see the outputer |
| `WorkerPool`, `InferencePipe` (otl_thread_queue.h, otl_pipeline.h) | three queues, their threads, what each thread holds | `push_frame`, `flush_frame`, the pools' loops, destructor | the delegate's callbacks | several threads per pool, back pressure, the end | every frame reaches `postprocess()` once; batches stay whole |
| `TimerQueueImpl` (otl_timer.cpp) | heap, map, `m_running`, mutex, condition variable | `createTimer`, `deleteTimer`, `runLoop`, `stop`, `count` | callbacks | notification against wait, deletion against a call under way | timers are called as often as asked, never early, and in the end |
| `StatTool` (otl_timer.cpp) | a ring of records, a count, the time of the last record | `update`, `reset`, `getSpeed` | the clock; used by `InferencePipe` | a ring that goes round, a reset in the middle, a field that is not initialised | the speed is that of the window, and never one by 0 |
| `TimestampSmoother` (timestamp_smoother.h) | history, base, offset, counters | `smoothTimestamp`, `reset` | used by `FfmpegOutputer` | jumps, repetitions, missing timestamps in any order | outputs increase; a regular stream is not touched |
| `FfmpegOutputer` (stream_pusher.h) | packet queue, three plain state fields, an output context, a thread | `openOutputStream`, `inputPacket`, `closeOutputStream`, the parameters of the smoother | FFmpeg, the smoother | the fields are shared without a lock | a stream that writes in order and once and loses only what comes while it closes; timestamps of a session start at 0 and increase; closing ends the thread |
| `StreamDemuxer` (stream_demuxer.cpp) | three plain state fields, an input context, a thread | `openStream`, `closeStream`, destructor, the states of the thread | FFmpeg, an observer | the same, with reconnection | the observer is called in order and not after `closeStream` |
| `StreamDecoder` (stream_decode_hw.cpp) | codec, list of packets, filter graph | the demuxer's callbacks, `openStream`, `closeStream` | demuxer, FFmpeg, an observer | pairing frames with packets, leftovers of an earlier stream | a frame goes out with its packet |
| `StreamDecoder` (stream_decode.cpp) | codec, list of packets | the same | the same | the same, with one frame taken per packet | the same |
| `StreamEncoder` (stream_encoder.cpp) | codec context, request for a key frame, count | `init`, `encode` (one packet, all packets), `requestKeyFrame` | FFmpeg, other threads | a codec that is full, a request that comes while a frame is handed over | no frame and no request is lost |
| SEI (stream_sei.cpp) | none | `h264SeiPacketWrite`, `h264SeiPacketRead`, the same for H.265 | decoders, applications | sizes in bytes of 255, two forms of packets that are guessed | what is written is found |
| `ByteBuffer`, `Detection` (otl_baseclass.cpp) | memory, capacity, two offsets | `push_back`, `pop`, `pop_front`; `toByteBuffer`, `fromByteBuffer` | applications | both ends, byte order, growth | a value comes back as it was pushed |
| Logger (otl_log.cpp) | bounded queue, `running`, configuration, file, worker | logging, `init`, `deinit`, `updateConfig`, `setLevel` | file, console, telnet | the end of the worker against late messages, a full queue | no message vanishes; those of the queue keep their order; `deinit` returns |
| Telnet console (otl_log.cpp) | server thread, handlers, connections, `telnetMutex`, `fileMutex` | commands, `startTelnetServer`, `stopTelnetServer`, `updateConfig` | logger, sockets | joins and sends under a mutex | places are given back; calls return |
| `Perf`, strings, images, FFmpeg helpers, stopwatch | - | - | - | - | - |

`InferencePipe` owns three queues and pools; frames go from one to the next by
the pools' callbacks, which count them in a `StatTool`. `StreamDecoder`, either of
the two, owns a `StreamDemuxer` and is its observer; everything it does happens in
the demuxer's thread. It looks for user data in each packet. An application hands
decoded frames to a `StreamEncoder` and its packets to an `FfmpegOutputer`, which
has its own thread and queue, and a smoother that its thread uses. The logger's worker copies its lines to the telnet
connections, and telnet commands call the logger's configuration functions.

## 2. The modules

| Module | Models | Checked through |
|---|---|---|
| `BoundedChannel` | what a queue promises its users, without locks (abstract) | `BlockingQueue` implements it |
| `BlockingQueue` | `otl::BlockingQueue` with mutex and condition variables | `MCBlockingQueue`, and `MCSheddingQueue` for queues that shed |
| `InferencePipe` | `InferencePipe` and its `WorkerPool`s, over queues at the level of `BoundedChannel` | `MCInferencePipe` |
| `TimerQueue` | `TimerQueueImpl` | `MCTimerQueue` |
| `StatTool` | `StatToolImpl` | `MCParts` |
| `TimestampSmoother` | `TimestampSmoother` | `MCParts`, `MCTimestampSmoother` |
| `PacketStream` | what an outputer promises those who hand it packets (abstract) | `FfmpegOutputer` implements it |
| `FfmpegOutputer` | `FfmpegOutputer` with its packet queue | `MCOutputSession` |
| `OutputSession` | the outputer with its smoother: extends `FfmpegOutputer`, composed with `Smoother(p) == INSTANCE TimestampSmoother` for the parameters `p` of the moment | `MCOutputSession` |
| `StreamDemuxer` | `StreamDemuxer` | `MCStreamDemuxer` |
| `StreamDecoder` | the decoder with hardware and filters: extends `StreamDemuxer`, whose steps it takes | `MCStreamDecoder` |
| `SoftwareDecoder` | the decoder of stream_decode.cpp, composed with `Demuxer == INSTANCE StreamDemuxer` | `MCStreamDecoder` |
| `StreamEncoder` | `FfmpegStreamEncoder` | `MCParts` |
| `SeiMessage` | writing and reading of user data, as operators on byte sequences | `MCParts` |
| `ByteBuffer` | `ByteBuffer` and `Detection`, bytes as places of a sequence | `MCParts` |
| `Logger` | queue, worker, `init`, `deinit`, configuration | `MCLogger` |
| `TelnetConsole` | server, handlers, commands, the two mutexes | `MCTelnetConsole` |
| `BlockingQueueProofs` | theorems about the abstract channel and the queue that implements it | TLAPS |
| `InferencePipeProofs`, `TimerQueueProofs`, `LoggerProofs`, `TelnetConsoleProofs` | theorems about the module of that name | TLAPS |
| `OutputSessionProofs` | theorems about the outputer, by itself and with its smoother | TLAPS |
| `StreamDecoderProofs` | theorems about the demuxer and both decoders | TLAPS |
| `PartsProofs` | theorems about the smoother, the encoder, the byte buffer, the user data and the `StatTool` | TLAPS |

Variables and actions bear the names of the code's fields and functions where
there is one. A variable `pc`, `loop`, `thread`, `reader`, `owner` or `worker`
says where a thread is; others that the code does not have (`delivered`,
`written`, `calm`, `exact`, ...) record history for the properties and are never
read by a guard of the program. The definitions whose comment says *Variant* are
slips of a plausible kind; no specification uses them. `PROJECT.json` names for
each property the variant that breaks it, which shows that the property depends
on the code.

**How fine the steps are.** A section under a mutex is one step, unless it waits
inside or something it does not lock against can come between (the batch push,
the instant between a predicate and its wait in `TimerQueue`). Where fields are
plain and shared (outputer, demuxer) every access is a step, and two stores
without anything between them may be seen in either order. FFmpeg, sockets and
the callbacks of users are external: they may fail, be slow or, for a codec,
answer in any order.

**What is assumed.**
- `BlockingQueue`: all consumers of a queue pass the same `min_num` and `max_num`.
- `InferencePipe`: queues have a limit, `batch_num` is not larger than the first
  one, and the delegate returns the frames it was given. `init` checks none of it;
  with a larger batch the source and the first pool would wait for each other.
- `TimerQueue`: delays are positive; a delay of 0 that repeats runs without end.
- `TimestampSmoother`: the minimal increment is positive, which `setSmoothingParameters`
  does not check. Integers have no width: the timestamps would have to come near 2^63.
- `FfmpegOutputer`, `StreamDemuxer`, both decoders: one owner opens and closes, and
  the owner of the decoder with hardware closes before it opens again or destroys. One
  who does not makes it free the filter graph while the thread uses it
  (stream_decode_hw.cpp:93).
- `OutputSession`: a packet is smoothed with the parameters of one moment; each field
  of them is stored at once, as the machines this is built for do.
- `StreamEncoder`: one thread encodes and initialises; the codec refuses a frame
  only while a packet is ready, which is what FFmpeg promises.
- `SeiMessage`: the reader's buffer is large enough; FFmpeg keeps zeros behind a packet.
  The other units are as the standards have them, without a start code inside and
  without a zero at the end; those of H.265 begin with two bytes of header; and what is
  behind the header of one that a reader looks into is not marked with our UUID. Each
  length fits an `int`. Of our own user data nothing is assumed.
- `ByteBuffer`: the bytes pushed are all different, so that a byte in the wrong place is
  seen, and the machine stores the least significant byte first.
- `StatTool`: one thread uses it. Several threads of a pool do (otl_pipeline.h:123),
  and then its counts may be anything.
- `Logger`: nobody logs while `init` replaces the queue; the console is written like the file.
- `TelnetConsole`: `accept` returns the lowest number that is free, and a number that was
  closed goes to no other file and no listening socket; the program ignores SIGPIPE, with
  which the worker's `send()` to a connection that its client has reset (otl_log.cpp:268)
  would end it, and which nothing in the repository does; the main thread calls only `init`
  while the logger is off; `stopTelnetServer` tests and clears `telnetRunning` in one step.

## 3. What TLC checks

| Run | Instance | Shows |
|---|---|---|
| `queue_blocking` | 2 producers, 2 consumers (one with a deadline), limit 2, batches of 2, 2 items each | refinement of the channel, which keeps order, items and limit; justified waiting of both sides, results of `pop_front`; after `stop` and while consumers call every call returns, which takes that a batch that is there is taken |
| `queue_dropping` | limits 1, 2, 3 and 4, one of them in each behaviour, 3 items each, shedding on | refinement of the channel for a queue that sheds, with order, conservation and limit: it is full with 1, 2, 3 or 4 items, an odd and an even number |
| `pipe` | limits 2, 2, 1; threads 2, 1, 1; batches of 2; 4 frames | no frame lost or doubled, whole and ordered batches, back pressure, every full or flushed frame at the end unless the pipe is destroyed first, pools that never end |
| `timer` | 2 clients, 2 timers, 3 readings of the clock, repeats -1, 0 and 2 | map and heap agree, number and time of calls, deletion, no timer overlooked, every timer served; a loop that hears `stop()` ends |
| `outputer` | the outputer with its smoother: 3 packets with any of 3 timestamps or none, 3 sessions, 2 presets that are mixed field by field | refinement of the packet stream; contexts, closing, writing; the timestamps of each session start at 0 and increase |
| `demuxer` | 3 calls of `openStream`, files and live streams | order of the observer's calls, closing, reconnection |
| `decoder` | either build of the decoder: 2 calls of `openStream`, 4 packets, any codec, with software one of its own or from outside | pairing in both, leftovers in the one with hardware |
| `logger` | 2 threads, queue of 2, 3 messages, 2 levels, 2 sessions, fatal messages end the process | accounting, order, `deinit` |
| `telnet` | 2 connections of which 1 is admitted at a time, 2 descriptors that are used again, all calls and commands, clients that stall | places, although descriptors are closed twice; with quiet clients `init` and `deinit` return and leave nothing |
| `parts` | one of: the smoother with 6 packets, timestamps -1 to 8 or missing, jump above 2, history of 3; the encoder with 4 frames, 2 requests, all packets taken; packets of up to 3 units in both codecs and forms, with user data of 0, 1, 4, 238, 239 and 494 bytes among foreign messages, slices, parameter sets with zeros in them and headers alone; a buffer of 8 bytes of 2 and 8-byte numbers over a first capacity of 3, and Detections of 0 and 1 boxes; a `StatTool` with a ring of 3 and 12 times of which 2 make a second | outputs increase and a regular stream is unchanged; no frame and no request lost; the first user data found; every value comes back; the speed is that of the window |
| `smoother_rebase` | the smoother, 4 packets | **violated**: see below |
| `telnet_disable` | a client and the main thread's test calls | **violated**: see below |

`parts` is five small systems beside each other: a behaviour picks one in its first
state and stays with it, so that each of its properties is about that one alone. The
other module that holds two is `MCStreamDecoder`, since only one of the two decoders
is compiled. The outputer is checked as it is used, with its smoother inside: the
steps of `FfmpegOutputer` are those of `OutputSession` but for what is smoothed.

`queue_dropping` replaces the limit of `BlockingQueue` by one that each behaviour has
for itself (`Queue(l) == INSTANCE BlockingQueue WITH Limit <- l`). The channel says of
shedding only that of neighbours one goes and one stays, the oldest among them
(`Spared`), and not by which formula, so that keeping the wrong half is seen.

`TypeOK` is the first conjunct of an invariant that says more, but for the queue, the
pipe and the smoother, where it is proved by itself. What the
table of section 1 promises and no run names follows from one that is named: the
order, the conservation and the limit of a queue from its refinement of the channel.

**Why the bounds are enough.** The bounds name how often something may be
begun, not how it may interleave. Two actors of each kind meet in every order; a
limit of 2 with batches of 2 lets a batch stop in the middle, which is the case
the batch push is difficult for; a history of 3 lets the smoother forget; two
sessions let a second start meet what the first left; two timers are the fewest
for which the order of the heap matters; 4 packets let a codec hold back two while
it hands out a third; 4 frames fill a codec and leave one to be refused; 2-byte and
8-byte numbers are the two ways bytes are exchanged, and a first capacity of 3 grows
twice and by more than one doubling; a ring of 3 records goes round and begins
again; the user data have the lengths at which their size takes one byte
more. Counters have no other effect on guards than these bounds.
Deadlock is checked for the queues and for the smoother by itself; elsewhere the
program may legitimately stop (a destroyed demuxer, a process that ended, a pipe
without frames, a packet that was read) and the cfg says which.

**Fairness.** Threads are scheduled (WF for each thread's steps) and a thread
that competes for a mutex gets it in the end (SF), since others may take it first
any number of times. Calls that have begun go on. Consumers of a queue call
again, as the loop of `WorkerPool` does. Nothing else has to happen: nobody must
push, open, close, connect, log, stop or hang up; no deadline has to pass;
no opening has to succeed. Where a property needs more it says so:
the second part of the demuxer's `CloseReturns` supposes that files open in the end and have an end, the
properties of `TelnetConsole` that clients read. In `TimerQueue` time passes up
to the bound, and what lies beyond is left out of `EveryTimerServed`. The pipe's
fairness is what the queue was shown to promise: a batch is taken by one thread
or another, a push returns, and a stopped queue lets every caller go.

## 4. What the code does that its texts do not say

Two disagreements are kept as runs, each against a line of the repository:

- `telnet_disable`: the command `disable` runs under `telnetMutex` and joins the
  server thread (otl_log.cpp:706), which takes `telnetMutex` before it ends
  (otl_log.cpp:1399). test_telnet.cpp:72 expects the command to return.
- `smoother_rebase`: a packet's timestamp is compared with the last *output*
  (timestamp_smoother.h:154), so that a stream that starts far from 0 is taken
  for one that jumped, against timestamp_smoother.h:40 and 153. The outputs still increase.

Others came to light while the models were written. Each is a behaviour of the
model, and the properties are stated so as to be true beside it:

- `stop()` of the timer queue takes no mutex (otl_timer.cpp:284). Loop: tests
  `m_running`; `stop`: clears it and notifies; loop: waits. Without a timer it does
  not end, and timer_performance_test.cpp:67 joins it. `StopEndsLoop` is about a
  stop that finds the loop anywhere but between that test and its wait.
- `outputDown` frees the packets that wait (stream_pusher.h:105) under a comment
  that says they are processed; `PacketStream` lets them be lost while the owner closes.
- A fatal message written by the worker's second loop does not end the process
  (otl_log.cpp:279), although `abortOnFatal` (otl_log.h:61) does not say so.
- A request for a key frame is taken back before the frame is sent
  (stream_encoder.cpp:104). With one packet taken per frame a codec that gives out
  several fills up and refuses a frame, and the call succeeds; the frame and the
  request for "the next frame" (stream_encoder.h:65) are gone. `NothingLost` is about
  the call that takes all packets.
- A packet in AVCC whose first unit is 256 to 511 bytes long begins with 00 00 01 and
  is taken for Annex B (stream_sei.cpp:150), although stream_decode_hw.cpp:302 relies
  on both forms; `FirstFound` excepts these packets.
- `check_underflow` compares with the offset of the back alone (otl_baseclass.cpp:28),
  so that `pop` returns bytes that `pop_front` has taken and `size()` turns negative,
  against the comment one line above; `ValuesComeBack` is checked for callers who
  pop no more than `size()` bytes.
- A loop that sleeps towards a late timeout sleeps on when an earlier timer is
  created (otl_timer.cpp:229), although optimized_timer.cpp:165 says "until a new
  timer is added".
- `closeOutputStream` stores `m_repeat` and then `m_outputState`. A thread that
  sees the second store first goes back to `Init` and `Service`, and the join
  lasts for ever; `CloseReturns` is about the other order. The demuxer's
  `closeStream` stores in the order that has this outcome by itself
  (stream_demuxer.cpp:198), and a store that falls into `doInitialize` is
  overwritten (stream_demuxer.cpp:55): its `CloseReturns` is about closes that
  fall into `doService`, and about files, which have an end.
- `help`, `cmdshow` and `quit` are registered with a null handler which
  `processTelnetCommand` calls (otl_log.cpp:970): the process ends.
- The worker's `send()` waits for a client that does not read, under
  `telnetMutex` (otl_log.cpp:268), where a comment says it does not block.
- Nobody stops the pipe's second and third queue: `~InferencePipe` does not
  return (`LaterPoolsNeverEnd`, proved). Before that it destroys the three StatTools,
  its last members (otl_pipeline.h:90), which workers still update (otl_pipeline.h:123,
  130 and 141): a worker may be lost with its frames then, and `FramesReachTheEnd`
  promises nothing of a pipe that is being destroyed.
- Where a close of the outputer is seen in the wrong order, the thread opens its output
  once more. If that fails it may go on to write a trailer to a context without a header
  (stream_pusher.h:109); `ContextAlive` says that this takes a close seen so, and that
  packets are never written to such a context.
- `openOutputStreamWithCodec` without parameters returns before it resets the smoother
  (stream_pusher.h:232), unlike its other failures; the next opening resets it.
- "exit" closes the connection's descriptor (otl_log.cpp:1060), and the handler goes on
  with it and takes its entry off and closes it again when it ends (otl_log.cpp:1206); a
  server that stops closes those of handlers that still run (otl_log.cpp:1406). When
  `accept` has returned the number again meanwhile, a connection is closed by another's
  handler, or is served by two, or loses its entry while it is served, so that there are
  more clients than otl_log.h:50 allows. `PlacesServed` says what is left: the list itself
  keeps its limit, and its places come back, because for each entry there is a handler of
  its number.
- A decoder for a device looks for a codec by name and dereferences what it did not find
  (stream_decode_hw.cpp:575): the process ends, which is not in the model.
- A decoder without a codec dereferences it with the next packet
  (stream_decode_hw.cpp:298), as only raw h264 waits for a key frame. After a codec
  has lost a packet or given out two frames at once, the following frames go
  out with other packets until the stream ends or is opened again. In the software
  decoder an error of `avcodec_receive_frame` does the same (stream_decode.cpp:36).
- A frame marked as a key frame stays marked (stream_encoder.cpp:105), which a caller
  who hands it over again will notice; user data in H.265 that are a unit of their
  own are read with the reader for H.264 (stream_decode.cpp:165) and not delivered;
  user data are written without emulation prevention (stream_sei.cpp:89); a Detection
  read from a short buffer gets boxes of whatever was in memory (otl_baseclass.h:287).
  None of these is in a model.

## 5. What is proved

All safety properties of the runs are theorems (`ShedsAsPromised` is that of the queue for
a few limits at once, `QueueImplementsChannel` and `QueueCorrect`). All proofs are for any
values of the constants under the modules' named assumptions (`QueueAssumption`, `PipeAssumption`, `TimerAssumption`,
`SmootherAssumption`, `OutputerAssumption`, `SessionAssumption`,
`DemuxerAssumption`, `DecoderAssumption`, `LoggerAssumption`, `PartsAssumption`,
`ConsoleAssumption`), which say of what kind the constants are and repeat what
section 2 assumes: TLC evaluates each of them for its run. Two theorems say one thing
more in their statement, without which they are false (section 4): that of the encoder
assumes that all packets are taken (`Apis = {"all"}`), that of the byte buffer that
nobody pops more bytes than there are (`Careful`).

- **The channel** (`BlockingQueueProofs`, where `Channel` is the instance that the
  queue implements). `ChannelCorrect`: order, conservation and capacity are invariant.
  The inductive invariant `CInv` is their conjunction with the types: order needs
  conservation, since an item is the youngest of its producer only because what is in
  the history was sent. Shedding is the hard case: the lemmas take what stays as
  positions in the queue and show that whatever `Spared` allows keeps the order and splits the set (`SparedThins`,
  `SendSheddingKeeps`).
- **The queue** (`BlockingQueueProofs`). `TypeCorrect`; then `StepRefines` shows
  that under `TypeOK` each step is a step of the channel or a stutter, which gives
  `QueueImplementsChannel`, and with it `QueueCorrect` (Fifo, Conserved, Capacity)
  carries over. The code's formula for what shedding keeps is one that the channel allows
  for every length (`HalfIsSpared`). `PushWaitersCorrect`: `PushWaitersJustified` is inductive together
  with `TypeOK`. `PopWaitersCorrect`: no wake-up is lost though a batch push signals
  one consumer per item; the argument counts, for every number of consumers, the
  running ones against the items beyond an incomplete batch. `PopResultCorrect`: its
  invariant `PopSound` says of each place of `pop_front` what has been taken so far and
  why the call is there, since the result alone says nothing of a call under way.
- **The pipe** (`InferencePipeProofs`). `PipeTypeCorrect`, and `LaterPoolsCorrect`:
  a thread ends only if it comes away with nothing, which takes a stopped queue.
  `BackPressureCorrect`: a worker takes no more than its share from a queue that has
  its limit. `FramesAccountedCorrect`: the queues, the hands and the result are
  places of one function, and each step moves a run of frames from the end of one place to
  another (`Moved`), which keeps every frame in one position of one place; one
  lemma then serves all steps; a worker that is lost keeps the frames it has.
  `BatchesInOrderCorrect` needs to know where
  in the pipe a frame may be behind another: what waits in the first queue is the
  rest of what was pushed, in its order (`Contiguous`), the others left it in whole
  batches (`Aligned`), and with one thread in each later pool what is
  further down the pipe, or earlier in the same place, is older (`Ahead`).
- **The smoother** (`PartsProofs`). `HistoryCorrect` and `SmootherCorrect`: outputs
  increase. The inductive invariant is `TypeOK` with `HistoryIncreases`: the last
  entry of the history is the last output, and the average of an increasing history
  is positive, so that the increment is. `RegularStreamsKept`: while a stream is
  regular, base and offset stay 0 and nothing is corrected (`Untouched`), so that a
  packet within the threshold goes through as it is.
- **The encoder** (`PartsProofs`). `NothingLostCorrect`. Two facts make it inductive:
  no packet is ready when a call begins, since the call before took all (`Drained`),
  so that the codec cannot refuse the frame; and the frame in hand and those to come
  have no fate yet (`Unsent`). The packets are counted with the theorems on finite
  sets.
- **The byte buffer** (`PartsProofs`). `ValuesComeBackCorrect`, for any kinds of
  numbers, any first capacity and any numbers of bytes and boxes. `Stocked` says that the
  buffer holds the bytes it should between its two marks, within its memory, and that
  what was sent for each Detection is what those bytes begin with. How the capacity
  doubles, and what a Detection of any number of boxes writes and reads, are recursive
  functions: `Least`, `Induct` and `Recursion` derive induction over the natural
  numbers from the least element of a set of them, since the library's own theorems
  cannot be used here. `WritingMeans` and `ReadingMeans` are the two directions, field
  by field.
- **The user data** (`PartsProofs`). `FirstFoundCorrect`, for any user data, any other
  units and any number of them. `Composed` says that a packet is its units, one behind the
  other, at the offsets `Offsets`, each with a length or a start code in front of it; so it
  stays while units are put in. That the readers find what there is has two sides. What a unit
  is to a reader is said by `IsUnit`: either its user data count and are read as they were
  written (`OwnFound`), or it is passed over, since it has no start code in it and is not
  marked as ours (`OtherMeans`; `EmptyMeans` is the case of user data without a byte, which
  do not count in H.264). And a reader is a recursive function from offset to offset: `Search`
  shows that it is defined, `UnitByUnit` that one which goes from unit to unit comes upon
  the first user data, by induction from the last unit (`Downward`). Each reader has its own
  step: in AVCC by the lengths (`AvccStep`), in H.264 from code to code (`H264Step`). H.265's
  passes over four bytes after two zeros and may so end one byte inside the next start
  code, where it still reads a code of three bytes (`H265Walk`, `H265Step`); this is why its
  own user data need the code of four bytes that the writers put there. `GuessMeans` shows
  that no first unit is taken for the other form but those of the lengths `Ambiguous` names.
- **The StatTool** (`PartsProofs`). `SpeedCorrect`. `Ring` says where the record made
  the j-th before last is (`Place`), for a ring that is still filling and for one that
  goes round, and that the time of the last record is the one remembered, which
  `SpeedOfWindow` does not mention and without which records could be too close.
- **The outputer** (`OutputSessionProofs`). `ContextCorrect`: `Alive` adds to
  `ContextAlive` that between two turns of the thread its flag and its state tell what the
  context is like (`TurnsAlive`), that until the owner closes the thread serves
  (`ServesUntilClosed`), and that the thread can come to close
  one only after stores seen the other way round (`SwappedFirst`). `OutputerImplementsStream`: each step
  is one of `PacketStream` or a stutter, from an invariant that says where a packet
  can be lost; it needs that only an owner who closes ends a session
  (`ClosedByOwner`), since the packets that wait then are freed. `SessionIsOutputer`
  shows that with the smoother inside the outputer takes the same steps, and
  `SessionCorrect` carries both over. `SessionsTimedCorrect`: outputs increase within a
  session though the parameters change between packets, as the history increases
  under any parameters; the first is 0 because an opening resets the smoother;
  `Latest` ties the last stamp to the smoother's last output.
- **The timer queue** (`TimerQueueProofs`). `MapIsValidHeapCorrect` (`Kept`: the timer
  a client is about to enter is valid, in nobody else's hands and not in the heap);
  `NoTimerForgottenCorrect` (`Watched`: a loop that is about to wait and has no deadline
  has seen an empty heap, deleted timers included, and holds the mutex); `CalledAsAskedCorrect`
  (`Served`: calls made, the one decided upon and what is left add up to what was
  asked for, for every timer at every place of the loop).
- **The demuxer and the decoders** (`StreamDecoderProofs`). `DemuxerProtocolCorrect`:
  `Protocol` adds to `ObserverProtocol` in which states a store of the owner or of the
  thread can find the thread, and that what its two fields lead to next fits what the
  observer was told. `DecoderIsDemuxer` shows that the decoder's steps are the demuxer's, and
  the protocol carries over; with it `NothingLeftOverCorrect` (`Cleared`) and
  `FramesPairedCorrect`, an action property: the packets that wait are in order and
  newer than the last handed on, and with an exact codec they are those the codec
  holds (`Waiting`). `SoftwareFramesPairedCorrect` is the same for the other build
  (`Matched`), whose steps `SoftwareSteps` shows to be the demuxer's too.
- **The logger** (`LoggerProofs`). `MessagesAccountedCorrect`, `QueuedInOrderCorrect`
  and `EarlyMessagesHandledCorrect` from one invariant, `Settled`: the six places a
  message can be in are apart and hold all of them; file and queue are in
  order but for what went past the queue; what went past it can only be what a thread
  holds (`Past`); and what was logged before `deinit` was called is on its way to the
  file, and there when the worker has ended (`Dealt`).
- **The console** (`TelnetConsoleProofs`). `PlacesServedCorrect`. An entry cannot be
  tied to its own handler, since an old handler may take it off. `Served` counts instead:
  of each number there are no more entries than handlers. A handler that ends takes one
  entry of its number with it, if there is one (`ServedLeave`), a connection that is
  admitted brings both (`ServedAdmit`), and no other step takes a handler away
  (`OtherSteps`); for that, connections to come have no handler (`Newcomers`), and whoever
  holds a mutex is in a call that gives it back (`Holders`). `NothingAfterDeinitCorrect`
  has a premise about the
  whole behaviour, that nobody changes the configuration; a step that begins and ends
  so preserves `Closed`: only the main thread starts and stops the server, there is
  none when it has none to stop, and one that has ended has closed its connections.

Only model-checked: liveness (`EveryCallReturns`, `FramesReachTheEnd`,
`EveryTimerServed`, `StopEndsLoop`, `CloseReturns`, `EveryPacketWritten`,
`LiveReconnects`, `DeinitReturns`, `CallsReturn`), which is beyond the prover.

## 6. What is not modelled

- Of the encoder: which codec a name stands for, its parameters, `getFps`. Of the
  buffer: the constructor that adopts memory, which nothing in the repository calls,
  and `append` of raw bytes. Of both decoders: the calls that deliver user data (the
  readers themselves are modelled), and of the one with hardware what the options say.
- The delegate's work, image and string helpers, `Perf`, the stopwatch (not in the
  build): no state of their own that a model could say something about.
- The end of a process by SIGPIPE or by a codec that is not found by name (section 4).
- `WorkerPool::stopWork` and `post_work`: without a caller in the repository.
- Texts, parsing of the command line and formatting of log lines.

## 7. Plan

All parts that keep state are modelled. What is left, in the order of its weight:

1. A session protocol (opened, frames, closed) for the demuxer's observer as an
   abstract specification that both decoders rely on.
2. The logger's worker together with the console, so that `deinit` of the one is
   checked against the sends of the other.
3. The readers of user data with a buffer that is too small for them, and the calls of
   the decoders that deliver what was found.
