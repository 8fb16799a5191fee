-------------------------- MODULE FfmpegOutputer --------------------------
(***************************************************************************)
(* otl::FfmpegOutputer (stream_pusher.h): packets enter an unbounded queue *)
(* (otl::internal::BlockingQueue of otl_thread_queue.h) and an output      *)
(* thread writes them to a stream, until the owner closes it. The states   *)
(* the thread goes through are kept in plain fields that the owner writes  *)
(* without a lock: each access is a step. A call on the queue, which has a *)
(* lock of its own, is a step too.                                         *)
(***************************************************************************)
EXTENDS Integers, Sequences, SequencesExt

CONSTANTS
    MaxPackets,     \* bound: the packets handed to inputPacket
    MaxSessions     \* bound: the calls of openOutputStream

ASSUME OutputerAssumption == MaxPackets \in Nat /\ MaxSessions \in Nat

Packets == 1 .. MaxPackets
NoPacket == 0

VARIABLES
    m_outputState, m_repeat, m_threadOutputIsRunning,
    swapped,        \* the thread sees the stores of this close the other way round
    queue, shut,    \* m_packetQueue: the packets, and its m_shutdown
    ctx,            \* m_ofmtCtx: none, allocated, header or trailer written
    thread,         \* where outputProcessThreadProc is
    hand,           \* the packet the output thread has popped
    owner,          \* where the owner's closeOutputStream is
    opened,         \* how often openOutputStream was called
    input,          \* how many packets were handed to inputPacket
    written,        \* the packets passed to av_interleaved_write_frame
    discarded,      \* the packets freed without being written
    leaked          \* the packets that are neither written nor freed

states == <<m_outputState, m_repeat, m_threadOutputIsRunning, swapped>>
packets == <<queue, hand, input, written, discarded, leaked>>
vars == <<states, packets, shut, ctx, thread, owner, opened>>

(* m_outputState is first set by openOutputStream.                         *)
Init ==
    /\ m_outputState \in {"Init", "Service", "Down"}
    /\ m_repeat = TRUE
    /\ m_threadOutputIsRunning = FALSE
    /\ swapped = FALSE
    /\ queue = <<>> /\ shut = FALSE
    /\ ctx = "none"
    /\ thread = "none" /\ hand = NoPacket
    /\ owner = "idle"
    /\ opened = 0
    /\ input = 0
    /\ written = <<>> /\ discarded = {} /\ leaked = {}
-----------------------------------------------------------------------------
(* Definitions marked "Variant" are what a plausible slip would make of the *)
(* definition after them; no specification uses one. Variant: a packet is  *)
(* put in front of those that wait.                                        *)
InputPacket_AtFront ==
    /\ input < MaxPackets
    /\ input' = input + 1
    /\ IF shut THEN leaked' = leaked \cup {input + 1} /\ queue' = queue
               ELSE queue' = <<input + 1>> \o queue /\ leaked' = leaked
    /\ UNCHANGED <<states, hand, written, discarded, shut, ctx, thread, owner, opened>>

(* inputPacket, at any time: a queue that was shut down forgets the copy.  *)
InputPacket ==
    /\ input < MaxPackets
    /\ input' = input + 1
    /\ IF shut THEN leaked' = leaked \cup {input + 1} /\ queue' = queue
               ELSE queue' = Append(queue, input + 1) /\ leaked' = leaked
    /\ UNCHANGED <<states, hand, written, discarded, shut, ctx, thread, owner, opened>>

(* openOutputStream, either of them. It may fail before the context is     *)
(* made or after, when the output cannot be opened or the header not be    *)
(* written; a context that is there already is used again. The owner opens *)
(* no stream before closing the last one.                                  *)
MayOpen == owner = "idle" /\ thread = "none" /\ opened < MaxSessions

OpenFails ==
    /\ MayOpen
    /\ opened' = opened + 1
    /\ ctx' \in {ctx, "allocated"}
    /\ UNCHANGED <<states, packets, shut, thread, owner>>

Open ==
    /\ MayOpen
    /\ opened' = opened + 1
    /\ ctx' = "header"
    /\ m_outputState' = "Service"
    /\ thread' = "starting"
    /\ UNCHANGED <<m_repeat, m_threadOutputIsRunning, swapped, packets, shut, owner>>

(* closeOutputStream stores into m_repeat and then into m_outputState. The *)
(* two are plain fields, so that the build may let the thread see the      *)
(* second store before the first.                                          *)
CloseBegin ==
    /\ owner = "idle"
    /\ \/ /\ m_repeat' = FALSE /\ swapped' = FALSE
          /\ owner' = "repeatOff" /\ m_outputState' = m_outputState
       \/ /\ m_outputState' = "Down" /\ swapped' = TRUE
          /\ owner' = "stateDown" /\ m_repeat' = m_repeat
    /\ UNCHANGED <<m_threadOutputIsRunning, packets, shut, ctx, thread, opened>>

(* Variant: the state is left to the thread.                               *)
CloseStored_RepeatOnly ==
    /\ owner \in {"repeatOff", "stateDown"}
    /\ m_repeat' = FALSE
    /\ owner' = "shutting"
    /\ UNCHANGED <<m_outputState, m_threadOutputIsRunning, swapped, packets, shut, ctx, thread, opened>>

CloseStored ==
    /\ owner \in {"repeatOff", "stateDown"}
    /\ m_outputState' = IF owner = "repeatOff" THEN "Down" ELSE m_outputState
    /\ m_repeat' = FALSE
    /\ owner' = "shutting"
    /\ UNCHANGED <<m_threadOutputIsRunning, swapped, packets, shut, ctx, thread, opened>>

CloseQueue ==
    /\ owner = "shutting"
    /\ shut' = TRUE
    /\ owner' = "joining"
    /\ UNCHANGED <<states, packets, ctx, thread, opened>>

(* Variant: the thread is left to itself.                                  *)
CloseEnd_NoJoin ==
    /\ owner = "joining"
    /\ leaked' = leaked \cup ToSet(queue)
    /\ queue' = <<>> /\ shut' = FALSE
    /\ ctx' = "none"
    /\ owner' = "idle"
    /\ UNCHANGED <<states, hand, input, written, discarded, thread, opened>>

(* Once the thread has ended, the queue is emptied for its next use, which *)
(* frees no packet, and the context is freed.                              *)
CloseEnd ==
    /\ owner = "joining" /\ thread \in {"none", "ended"}
    /\ thread' = "none"
    /\ leaked' = leaked \cup ToSet(queue)
    /\ queue' = <<>> /\ shut' = FALSE
    /\ ctx' = "none"
    /\ owner' = "idle" /\ swapped' = FALSE
    /\ UNCHANGED <<m_outputState, m_repeat, m_threadOutputIsRunning, hand, input, written, discarded, opened>>
-----------------------------------------------------------------------------
(* The output thread.                                                      *)

Start ==
    /\ thread = "starting"
    /\ m_threadOutputIsRunning' = TRUE
    /\ thread' = "turn"
    /\ UNCHANGED <<m_outputState, m_repeat, swapped, packets, shut, ctx, owner, opened>>

Turn ==
    /\ thread = "turn"
    /\ thread' = IF ~m_threadOutputIsRunning THEN "ended"
                 ELSE IF m_outputState = "Service" THEN "service"
                 ELSE IF m_outputState = "Init" THEN "initialize" ELSE "down"
    /\ UNCHANGED <<states, packets, shut, ctx, owner, opened>>

(* outputInitialize from within the thread: when the output cannot be      *)
(* opened or the header not be written the context is without one, also if *)
(* it had one before, and the loop sends the thread to outputDown.         *)
Reinitialize ==
    /\ thread = "initialize"
    /\ \/ ctx' = "header" /\ m_outputState' = "Service"
       \/ ctx' = "allocated" /\ m_outputState' = "Down"
    /\ thread' = "turn"

(* outputDown up to its test of m_repeat. A stream that is to be repeated  *)
(* is only initialized again.                                              *)
TestRepeat ==
    /\ thread = "down"
    /\ IF m_repeat THEN m_outputState' = "Init" /\ thread' = "turn"
       ELSE m_outputState' = m_outputState /\ thread' = "draining"
    /\ ctx' = ctx

ChangeState ==
    /\ Reinitialize \/ TestRepeat
    /\ UNCHANGED <<m_repeat, m_threadOutputIsRunning, swapped, packets, shut, owner, opened>>

(* outputService: a packet is awaited for 10 ms ...                        *)
PopPacket ==
    /\ thread = "service"
    /\ IF queue = <<>>
       THEN UNCHANGED <<queue, hand>> /\ thread' = "turn"
       ELSE /\ hand' = Head(queue) /\ queue' = Tail(queue)
            /\ thread' = "writing"
    /\ UNCHANGED <<states, input, written, discarded, leaked, shut, ctx, owner, opened>>

(* Variant: the packet is freed and not written.                           *)
WritePacket_Loses ==
    /\ thread = "writing"
    /\ discarded' = discarded \cup {hand}
    /\ hand' = NoPacket
    /\ thread' = "turn"
    /\ UNCHANGED <<states, queue, input, written, leaked, shut, ctx, owner, opened>>

(* ... and written, whatever comes of it, and freed.                       *)
WritePacket ==
    /\ thread = "writing"
    /\ written' = Append(written, hand)
    /\ hand' = NoPacket
    /\ thread' = "turn"
    /\ UNCHANGED <<states, queue, input, discarded, leaked, shut, ctx, owner, opened>>

(* outputDown, after its test: the packets that remain are freed one by    *)
(* one, the trailer is written, the queue shut down and the loop left. Of  *)
(* a context without a header the call is undefined: it returns as well,   *)
(* or the thread is heard of no more.                                      *)
Drain ==
    /\ thread = "draining" /\ queue # <<>>
    /\ discarded' = discarded \cup {Head(queue)}
    /\ queue' = Tail(queue)
    /\ UNCHANGED <<states, hand, input, written, leaked, shut, ctx, thread, owner, opened>>

WriteTrailer ==
    /\ thread = "draining" /\ queue = <<>>
    /\ \/ ctx' = "trailer" /\ thread' = "leaving"
       \/ ctx # "header" /\ thread' = "undefined" /\ ctx' = ctx
    /\ UNCHANGED <<states, packets, shut, owner, opened>>

Leave ==
    /\ thread = "leaving"
    /\ shut' = TRUE
    /\ m_threadOutputIsRunning' = FALSE
    /\ thread' = "turn"
    /\ UNCHANGED <<m_outputState, m_repeat, swapped, packets, ctx, owner, opened>>

OutputBesideWriting == \/ Start \/ Turn \/ ChangeState \/ PopPacket
                       \/ Drain \/ WriteTrailer \/ Leave
Output == WritePacket \/ OutputBesideWriting

CloseStep == CloseStored \/ CloseQueue \/ CloseEnd

Next ==
    \/ InputPacket
    \/ OpenFails \/ Open
    \/ CloseBegin \/ CloseStep
    \/ Output

Spec == Init /\ [][Next]_vars

(* The output thread is scheduled and FFmpeg's calls return; an owner who  *)
(* began to close goes on. Nobody has to open, to close or to send.        *)
FairSpec == Spec /\ WF_vars(Output) /\ WF_vars(CloseStep)
-----------------------------------------------------------------------------
TypeOK ==
    /\ m_outputState \in {"Init", "Service", "Down"}
    /\ m_repeat \in BOOLEAN /\ m_threadOutputIsRunning \in BOOLEAN /\ swapped \in BOOLEAN
    /\ queue \in Seq(Packets) /\ shut \in BOOLEAN
    /\ ctx \in {"none", "allocated", "header", "trailer"}
    /\ thread \in {"none", "starting", "turn", "initialize", "service", "writing",
                   "down", "draining", "leaving", "ended", "undefined"}
    /\ hand \in Packets \cup {NoPacket}
    /\ hand # NoPacket <=> thread = "writing"
    /\ owner \in {"idle", "repeatOff", "stateDown", "shutting", "joining"}
    /\ opened \in 0 .. MaxSessions
    /\ input \in 0 .. MaxPackets
    /\ written \in Seq(Packets) /\ discarded \subseteq Packets /\ leaked \subseteq Packets

(* The outputer is a stream of packets: over all its sessions packets are  *)
(* written in the order they came in, each once, and none is lost, freed   *)
(* or forgotten in a queue that was shut down, unless the owner has begun  *)
(* to close and has not returned.                                          *)
Stream == INSTANCE PacketStream WITH
    waiting <- (IF hand = NoPacket THEN <<>> ELSE <<hand>>) \o queue,
    lost <- discarded \cup leaked,
    closing <- owner # "idle"

ImplementsStream == Stream!Spec

(* A packet is written only to a context that has its header and not yet   *)
(* its trailer, the context is not freed under the thread, and the trailer *)
(* is written once and ends the thread's use of it, however the end of the *)
(* thread, its second outputInitialize, which may fail, and the owner's    *)
(* stores interleave. A trailer without a header is written, and the       *)
(* thread lost, only in a close whose stores are seen the other way round. *)
ContextAlive ==
    /\ TypeOK
    /\ thread \in {"starting", "service", "writing"} => ctx = "header"
    /\ thread \in {"initialize", "down", "draining"} => ctx \in {"allocated", "header"}
    /\ thread \in {"leaving", "ended"} => ctx = "trailer"
    /\ thread = "undefined" \/ (thread = "draining" /\ ctx # "header") => swapped

(* Closing returns, although the state and the flag that decide how the    *)
(* thread leaves its loop are two fields and the thread may write to one   *)
(* of them in between, as long as the thread sees the stores in their      *)
(* order. When it sees the state first it may go back to "Service" with a  *)
(* flag that is still set, and no close follows.                           *)
CloseReturns == owner = "repeatOff" ~> owner = "idle"

(* A packet handed over while the stream is open is written, unless the    *)
(* stream is closed.                                                       *)
EveryPacketWritten ==
    \A k \in Packets :
        k \in ToSet(queue) /\ thread # "none" ~>
            k \in ToSet(written) \/ owner # "idle"
=============================================================================
