-------------------------- MODULE SoftwareDecoder --------------------------
(***************************************************************************)
(* otl::StreamDecoder as stream_decode.cpp has it, which the build takes   *)
(* instead of the one with hardware: the observer of its own demuxer, the  *)
(* module it is composed with. Of each packet at most one frame is taken   *)
(* from the codec, which may hold more. The codec is external: it delays   *)
(* frames as it likes, gives them out in any order, loses some, or refuses *)
(* a packet, as it does when it is full. A stream may be opened again and  *)
(* the decoder destroyed without closing first: the demuxer closes it.     *)
(***************************************************************************)
EXTENDS Naturals, Sequences, FiniteSetsExt

CONSTANTS
    MaxOpens,       \* bound: the calls of openStream
    MaxPackets      \* bound: the packets that reach the codec

VARIABLES
    m_workState, m_repeat, m_keepRunning, m_isFileUrl, url, ctx, isOpen,
    reader, owner, after, calm, opens

Demuxer == INSTANCE StreamDemuxer
demuxer == <<m_workState, m_repeat, m_keepRunning, m_isFileUrl, url, ctx, isOpen,
             reader, owner, after, calm, opens>>

VARIABLES
    external,       \* mExternalDecCtx was given to the constructor
    decoder,        \* the codec's context: null, closed, open; crashed
    mIsWaitingIframe,
    mListPackets,   \* the packets that wait for a frame
    held,           \* the packets whose frames are still in the codec
    packet,         \* the packets that reached the codec so far
    orderly,        \* the codec lost no frame it held, and keeps their order
    out             \* what was handed on last, and whether orderly was true

codec == <<external, decoder, mIsWaitingIframe, held>>
pairing == <<mListPackets, packet, orderly, out>>
vars == <<demuxer, codec, pairing>>

Packets == 1 .. MaxPackets

Init ==
    /\ Demuxer!Init
    /\ external \in BOOLEAN
    /\ decoder = IF external THEN "open" ELSE "null"
    /\ mIsWaitingIframe = TRUE
    /\ held = {} /\ mListPackets = <<>>
    /\ packet = 0 /\ orderly = TRUE
    /\ out = [packet |-> 0, frame |-> 0, orderly |-> TRUE]
-----------------------------------------------------------------------------
OwnerStep ==
    /\ \/ Demuxer!CallOpen \/ Demuxer!CallClose \/ Demuxer!CallDestroy
       \/ Demuxer!CloseStep \/ Demuxer!OpenAsync \/ Demuxer!Destroy
    /\ UNCHANGED <<codec, pairing>>

(* createVideoDecoder may find no codec, or not open the one it found, and *)
(* the opening goes on. Only a raw h264 stream waits for a key frame.      *)
OnAvformatOpened ==
    /\ Demuxer!OpenSucceeds
    /\ decoder' \in IF external THEN {decoder} ELSE {decoder, "closed", "open"}
    /\ mIsWaitingIframe' \in {FALSE, mIsWaitingIframe}
    /\ orderly' = (held = {})
    /\ UNCHANGED <<external, held, mListPackets, packet, out>>

(* Definitions marked "Variant" are what a plausible slip would make of the *)
(* definition after them; no specification uses one. Variant: the packets  *)
(* are cleared at the end of the stream alone.                             *)
OnAvformatClosed_KeepsPackets ==
    /\ Demuxer!Down
    /\ IF external THEN UNCHANGED <<decoder, held>>
                   ELSE decoder' = "null" /\ held' = {}
    /\ UNCHANGED <<external, mIsWaitingIframe, pairing>>

(* The decoder of its own is freed with all it holds.                      *)
OnAvformatClosed ==
    /\ Demuxer!Down
    /\ mListPackets' = <<>>
    /\ IF external THEN UNCHANGED <<decoder, held>>
                   ELSE decoder' = "null" /\ held' = {}
    /\ UNCHANGED <<external, mIsWaitingIframe, packet, orderly, out>>

(* The frames that the codec still holds are not asked for.                *)
OnReadEof ==
    /\ Demuxer!OnReadEof
    /\ mListPackets' = <<>>
    /\ orderly' = (orderly /\ held = {})
    /\ UNCHANGED <<codec, packet, out>>
-----------------------------------------------------------------------------
(* onReadFrame: a packet of another stream, or before the first key frame. *)
SkipPacket ==
    /\ Demuxer!ReadFrame
    /\ UNCHANGED <<codec, pairing>>

NextPacket ==
    /\ Demuxer!ReadFrame
    /\ packet < MaxPackets
    /\ packet' = packet + 1
    /\ mIsWaitingIframe' = FALSE
    /\ UNCHANGED external

(* Without a codec the null pointer is dereferenced, by isKeyFrame or by   *)
(* the test of the codec's id.                                             *)
Dereference ==
    /\ NextPacket
    /\ decoder = "null"
    /\ decoder' = "crashed"
    /\ UNCHANGED <<held, mListPackets, orderly, out>>

(* avcodec_send_packet fails: a codec that is full does not take the       *)
(* packet; the error of another may cost any frame. The list does not see  *)
(* the packet, which is lost in any case if the codec is closed or full.   *)
FailDecode ==
    /\ NextPacket
    /\ decoder \in {"closed", "open"}
    /\ held' \in SUBSET (held \cup {packet'})
    /\ decoder = "closed" => held' = held
    /\ orderly' = (orderly /\ held' = held)
    /\ UNCHANGED <<decoder, mListPackets, out>>

(* avcodec_receive_frame gives no frame: the codec needs more packets, or  *)
(* it reports an error, which is taken for the same. The packet is listed. *)
NoFrame ==
    /\ NextPacket
    /\ decoder = "open"
    /\ held' \in SUBSET (held \cup {packet'})
    /\ orderly' = (orderly /\ held' = held \cup {packet'})
    /\ mListPackets' = Append(mListPackets, packet')
    /\ UNCHANGED <<decoder, out>>

(* Variant: the packet that came last is handed on, and the list kept.     *)
HandOn_Youngest(f) ==
    /\ mListPackets' = Append(mListPackets, packet')
    /\ out' = [packet |-> packet', frame |-> f, orderly |-> orderly']

(* putPacket, getPacket, and the observer's call.                          *)
HandOn(f) ==
    /\ out' = [packet |-> Head(Append(mListPackets, packet')), frame |-> f, orderly |-> orderly']
    /\ mListPackets' = Tail(Append(mListPackets, packet'))

(* One frame; what else the codec could give out stays in it.              *)
Decode ==
    /\ NextPacket
    /\ decoder = "open"
    /\ LET given == held \cup {packet'}
       IN \E f \in given :
            /\ held' = given \ {f}
            /\ orderly' = (orderly /\ f = Min(given))
            /\ HandOn(f)
    /\ UNCHANGED decoder

Reader ==
    \/ OnAvformatOpened \/ OnAvformatClosed \/ OnReadEof
    \/ SkipPacket \/ Dereference \/ FailDecode \/ NoFrame \/ Decode
    \/ /\ \/ Demuxer!Turn \/ Demuxer!OpenFails \/ Demuxer!TestService
          \/ Demuxer!ReadEof \/ Demuxer!TestRepeat \/ Demuxer!Again \/ Demuxer!Leave
       /\ UNCHANGED <<codec, pairing>>

Next == decoder # "crashed" /\ (Reader \/ OwnerStep)

Spec == Init /\ [][Next]_vars
-----------------------------------------------------------------------------
TypeOK ==
    /\ external \in BOOLEAN
    /\ decoder \in {"null", "closed", "open", "crashed"}
    /\ external => decoder = "open"
    /\ decoder # "open" => held = {}
    /\ mIsWaitingIframe \in BOOLEAN
    /\ held \subseteq Packets /\ mListPackets \in Seq(Packets)
    /\ packet \in 0 .. MaxPackets /\ orderly \in BOOLEAN
    /\ out \in [packet : 0 .. MaxPackets, frame : 0 .. MaxPackets, orderly : BOOLEAN]

(* A frame goes out with its own packet as long as the codec, since the    *)
(* stream was opened, kept the order and lost no frame but that of a       *)
(* packet it refused, whatever its delay and however the streams before    *)
(* ended; and with any codec the packets go out in order and once, those   *)
(* that wait after the one handed on last.                                 *)
FramesPaired ==
    /\ TypeOK
    /\ out.orderly => out.packet = out.frame
    /\ LET all == <<out.packet>> \o mListPackets
       IN \A i, j \in 1 .. Len(all) : i < j => all[i] < all[j]
=============================================================================
