--------------------------- MODULE StreamDecoder ---------------------------
(***************************************************************************)
(* otl::StreamDecoder (stream_decode_hw.cpp), the observer of its own      *)
(* demuxer: packets go to a codec, and each frame that comes out is handed *)
(* on with the first of the packets that wait in a list. Every callback    *)
(* happens within a step of the demuxer, whose module this one extends.    *)
(* The codec is external: it holds packets back and gives out frames as it *)
(* likes, in any order, several at a time, or an error. A filter gives out *)
(* each frame at once or passes it by; what the options say of the codec   *)
(* is left out.                                                            *)
(*                                                                         *)
(* The owner closes the stream before it opens the next one or destroys    *)
(* the decoder: what it frees then is used by the reading thread.          *)
(***************************************************************************)
EXTENDS StreamDemuxer, Sequences, FiniteSetsExt

CONSTANT MaxPackets     \* bound: the packets that reach the codec

ASSUME DecoderAssumption == MaxPackets \in Nat

VARIABLES
    external,       \* mExternalDecCtx was given to the constructor
    decoder,        \* the codec's context: null, closed, open; crashed
    mIsWaitingIframe,
    mListPackets,   \* the packets that wait for a frame
    held,           \* the packets whose frames the codec has not given out
    mEnableFilter, mFilterInited,
    mFilterGraph,   \* whether there is one
    packet,         \* the packets that reached the codec so far
    out,            \* the packet and the frame handed on last
    exact           \* the codec gave out its frames one by one, in order

codec == <<external, decoder, mIsWaitingIframe, held>>
filter == <<mEnableFilter, mFilterInited, mFilterGraph>>
pairing == <<mListPackets, packet, out, exact>>
dvars == <<vars, codec, filter, pairing>>

Packets == 1 .. MaxPackets
Blank == 0      \* a frame without a picture; no packet

DInit ==
    /\ Init
    /\ external \in BOOLEAN
    /\ decoder = IF external THEN "open" ELSE "null"
    /\ mIsWaitingIframe = TRUE
    /\ held = {}
    /\ mEnableFilter = FALSE /\ mFilterInited = FALSE /\ mFilterGraph = FALSE
    /\ mListPackets = <<>>
    /\ packet = 0 /\ out = [packet |-> Blank, frame |-> Blank] /\ exact = TRUE
-----------------------------------------------------------------------------
(* The owner. The options of openStream may ask for a filter.              *)
OpenStream ==
    /\ CallOpen /\ reader = "none"
    /\ mEnableFilter' \in BOOLEAN
    /\ mFilterGraph' = FALSE /\ mFilterInited' = FALSE
    /\ UNCHANGED <<codec, pairing>>

(* The destructor, and that of the demuxer that follows.                   *)
DestroyDecoder ==
    /\ CallDestroy /\ reader = "none"
    /\ mFilterGraph' = FALSE
    /\ mFilterInited' = (mFilterInited /\ ~mFilterGraph)
    /\ mEnableFilter' = (mEnableFilter /\ ~mFilterGraph)
    /\ UNCHANGED <<codec, pairing>>

CloseStream == CallClose /\ UNCHANGED <<codec, filter, pairing>>

OwnerStep ==
    /\ CloseStep \/ OpenAsync \/ Destroy
    /\ UNCHANGED <<codec, filter, pairing>>
-----------------------------------------------------------------------------
(* createVideoDecoder may find no codec, or not open the one it found. Left *)
(* out: with a device, a codec that is not found by the name of its kind   *)
(* is dereferenced first, and the process ends.                            *)
CreateVideoDecoder == decoder' \in {decoder, "closed", "open"}

(* Only a raw h264 stream is waited with for a key frame.                  *)
OnAvformatOpened ==
    /\ OpenSucceeds
    /\ IF external THEN decoder' = decoder ELSE CreateVideoDecoder
    /\ mIsWaitingIframe' \in {FALSE, mIsWaitingIframe}
    /\ exact' = (held = {})
    /\ UNCHANGED <<external, held, filter, mListPackets, packet, out>>

(* Definitions marked "Variant" are what a plausible slip would make of the *)
(* definition after them; no specification uses one. Variant: the graph is *)
(* kept for the next stream.                                               *)
OnAvformatClosed_KeepsGraph ==
    /\ Down
    /\ mListPackets' = <<>>
    /\ decoder' = IF external THEN decoder ELSE "null"
    /\ held' = IF external THEN held ELSE {}
    /\ exact' = (held' = {})
    /\ UNCHANGED <<external, mIsWaitingIframe, filter, packet, out>>

(* The decoder of its own is freed with all it holds.                      *)
OnAvformatClosed ==
    /\ Down
    /\ mListPackets' = <<>>
    /\ mFilterGraph' = FALSE
    /\ mFilterInited' = (mFilterInited /\ ~mFilterGraph)
    /\ decoder' = IF external THEN decoder ELSE "null"
    /\ held' = IF external THEN held ELSE {}
    /\ exact' = (held' = {})
    /\ UNCHANGED <<external, mIsWaitingIframe, mEnableFilter, packet, out>>

(* The frames that the codec still holds are not asked for.                *)
DecoderOnReadEof ==
    /\ OnReadEof
    /\ mListPackets' = <<>>
    /\ exact' = (exact /\ held = {})
    /\ UNCHANGED <<codec, filter, packet, out>>
-----------------------------------------------------------------------------
(* onReadFrame: a packet of another stream, or before the first key frame.*)
SkipPacket ==
    /\ ReadFrame
    /\ UNCHANGED <<codec, filter, pairing>>

(* A packet that reaches the codec. isKeyFrame is false without a codec.   *)
NextPacket ==
    /\ ReadFrame
    /\ packet < MaxPackets
    /\ packet' = packet + 1
    /\ mIsWaitingIframe => decoder # "null"
    /\ mIsWaitingIframe' = FALSE

(* Without a codec the null pointer is dereferenced.                       *)
Dereference ==
    /\ NextPacket
    /\ decoder = "null"
    /\ decoder' = "crashed"
    /\ UNCHANGED <<external, held, filter, mListPackets, out, exact>>

(* decodeFrame with an error. It may be that of an earlier packet, and the *)
(* packet goes to the codec all the same; the list does not see it.        *)
FailDecode ==
    /\ NextPacket
    /\ decoder \in {"closed", "open"}
    /\ held' \in SUBSET (held \cup {packet'})
    /\ decoder = "closed" => held' = held
    /\ exact' = (exact /\ held' = held)
    /\ UNCHANGED <<external, decoder, filter, mListPackets, out>>

(* The filter graph is built for the first frame; if that fails nothing is *)
(* filtered any more.                                                      *)
ApplyFilter ==
    IF mEnableFilter /\ ~mFilterInited
    THEN \/ mFilterGraph' = TRUE /\ mFilterInited' = TRUE /\ UNCHANGED mEnableFilter
         \/ mFilterGraph' = FALSE /\ mEnableFilter' = FALSE /\ UNCHANGED mFilterInited
    ELSE UNCHANGED filter

(* Variant: the youngest packet goes with the frame.                       *)
HandOn_Youngest(f) ==
    /\ out' = [packet |-> packet', frame |-> f]
    /\ UNCHANGED mListPackets

(* putPacket, getPacket, and the observer's call.                          *)
HandOn(f) ==
    /\ out' = [packet |-> Head(Append(mListPackets, packet')), frame |-> f]
    /\ mListPackets' = Tail(Append(mListPackets, packet'))

(* decodeFrame without an error. A codec that is full gives out frames     *)
(* until it takes the packet, and those are lost: the frame is left blank. *)
(* Of the frames that follow the last one stays.                           *)
Decode ==
    /\ NextPacket
    /\ decoder = "open"
    /\ \E early \in SUBSET held :
        LET given == (held \ early) \cup {packet'}
        IN \E late \in SUBSET given :
            /\ held' = given \ late
            /\ exact' = (exact /\ early = {} /\ late \subseteq {Min(given)})
            /\ IF early \cup late = {}
               THEN /\ mListPackets' = Append(mListPackets, packet')
                    /\ UNCHANGED <<out, filter>>
               ELSE /\ \E f \in IF late = {} THEN {Blank} ELSE late : HandOn(f)
                    /\ ApplyFilter
    /\ UNCHANGED <<external, decoder>>

DReader ==
    \/ OnAvformatOpened \/ OnAvformatClosed \/ DecoderOnReadEof
    \/ SkipPacket \/ Dereference \/ FailDecode \/ Decode
    \/ /\ \/ Turn \/ OpenFails \/ TestService
          \/ ReadEof \/ TestRepeat \/ Again \/ Leave
       /\ UNCHANGED <<codec, filter, pairing>>

DNext ==
    /\ decoder # "crashed"
    /\ DReader \/ OpenStream \/ DestroyDecoder \/ CloseStream \/ OwnerStep

DSpec == DInit /\ [][DNext]_dvars
-----------------------------------------------------------------------------
Increases(ps) == \A i, j \in 1 .. Len(ps) : i < j => ps[i] < ps[j]

DTypeOK ==
    /\ external \in BOOLEAN
    /\ decoder \in {"null", "closed", "open", "crashed"}
    /\ external => decoder = "open"
    /\ decoder # "open" => held = {}
    /\ mIsWaitingIframe \in BOOLEAN
    /\ held \subseteq Packets /\ mListPackets \in Seq(Packets)
    /\ mEnableFilter \in BOOLEAN /\ mFilterInited \in BOOLEAN /\ mFilterGraph \in BOOLEAN
    /\ mFilterInited = mFilterGraph
    /\ packet \in 0 .. MaxPackets
    /\ out \in [packet : 0 .. MaxPackets, frame : 0 .. MaxPackets]
    /\ exact \in BOOLEAN

(* As long as the codec takes each packet or loses it at once, and gives   *)
(* out the frames in order and one at a time, whatever its delay, a frame  *)
(* goes out with its own packet; and a stream that was opened again starts *)
(* anew, whatever went wrong before. No packet is handed on twice or       *)
(* before an older one, whatever the codec does and however often the      *)
(* stream ends and is opened again.                                        *)
FramesPaired ==
    [][out' # out => /\ out'.packet > out.packet
                     /\ exact' => out'.packet = out'.frame]_dvars

(* While no stream is open nothing of the last one is left: no packet that *)
(* the first frame of the next would be paired with, no graph made for its *)
(* frames, and no codec but the owner's.                                   *)
NothingLeftOver ==
    /\ DTypeOK
    /\ reader \in {"none", "initialize", "again", "leave", "exited"} =>
        /\ mListPackets = <<>>
        /\ ~mFilterGraph /\ ~mFilterInited
        /\ ~external => decoder = "null" /\ held = {}
=============================================================================
