------------------------- MODULE StreamDecoderProofs ------------------------
(* Theorems about the demuxer and the decoder that observes it, for any    *)
(* number of openings and packets: the demuxer keeps to its protocol, the  *)
(* decoder is an observer that leaves the demuxer as it is, nothing of a   *)
(* stream is left when the next one is opened, and packets are paired with *)
(* frames in order, with a codec that is exact each with its own.          *)
(* The same pairing is shown of the decoder that the build takes instead.  *)
EXTENDS MCStreamDecoder, TLAPS

(* The inductive invariant of the demuxer: in which states a store of the  *)
(* owner or of the thread can find the thread. While it reads, nothing     *)
(* sets m_workState back to Initialize or clears m_keepRunning; and in its *)
(* loop, what these two lead to next fits what the observer was told.      *)
Protocol ==
    /\ ObserverProtocol
    /\ Reading \/ reader = "down" => m_keepRunning /\ m_workState # "Initialize"
    /\ reader \in {"initialize", "down", "again", "leave"} => m_keepRunning /\ m_workState # "Service"
    /\ reader = "top" =>
        /\ m_keepRunning /\ m_workState = "Service" => isOpen
        /\ ~m_keepRunning \/ m_workState = "Initialize" => ~isOpen

(* Nothing of the last stream is left; and the inductive invariant of that *)
Fresh ==
    /\ mListPackets = <<>>
    /\ ~mFilterGraph /\ ~mFilterInited
    /\ ~external => decoder = "null" /\ held = {}

Cleared ==
    /\ NothingLeftOver
    /\ reader = "top" /\ (~m_keepRunning \/ m_workState = "Initialize") => Fresh

(* The packets that wait come after the one handed on last, in their order; *)
(* and while the codec is exact they are those it holds.                   *)
Items(ps) == {ps[i] : i \in 1 .. Len(ps)}
Listed == Items(mListPackets)

Waiting ==
    /\ Increases(mListPackets)
    /\ \A p \in Listed : out.packet < p /\ p <= packet
    /\ out.packet <= packet
    /\ held \subseteq 1 .. packet
    /\ exact => held = Listed
-----------------------------------------------------------------------------
(* A demuxer that was just made.                                           *)
LEMMA ProtocolInit == Init => Protocol
<1>1. 0 \in 0 .. MaxOpens
  BY DemuxerAssumption
<1>2. Init => TypeOK
  BY <1>1 DEF Init, TypeOK, Urls
<1> QED
  BY <1>2 DEF Init, Protocol, ObserverProtocol, Reading

(* Each step of the reading thread, and of the owner, keeps the protocol.  *)
LEMMA ProtocolReader == Protocol /\ Reader => Protocol'
<1> SUFFICES ASSUME Protocol, Reader PROVE Protocol'
  OBVIOUS
<1> USE DEF Protocol, ObserverProtocol, TypeOK, Reading, flags, stream, call
<1>1. CASE Turn
  BY <1>1 DEF Turn
<1>2. CASE OpenFails
  BY <1>2 DEF OpenFails, FailInitialize
<1>3. CASE OpenSucceeds
  <2>1. TypeOK'
    BY <1>3 DEF OpenSucceeds, SucceedInitialize
  <2>2. Protocol'
    BY <1>3, <2>1 DEF OpenSucceeds, SucceedInitialize
  <2> QED
    BY <2>2
<1>4. CASE TestService \/ ReadFrame \/ ReadEof
  BY <1>4 DEF TestService, ReadFrame, ReadEof
<1>5. CASE TestRepeat \/ OnReadEof
  BY <1>5 DEF TestRepeat, OnReadEof
<1>6. CASE Down
  BY <1>6 DEF Down
<1>7. CASE Again \/ Leave
  <2>1. CASE Again
    BY <2>1 DEF Again
  <2>2. CASE Leave
    BY <2>2 DEF Leave
  <2> QED
    BY <1>7, <2>1, <2>2
<1> QED
  BY <1>1, <1>2, <1>3, <1>4, <1>5, <1>6, <1>7 DEF Reader

(* The steps of the owner's calls keep the protocol.                      *)
LEMMA ProtocolOwner ==
  ASSUME Protocol,
         \/ CallClose \/ CallOpen \/ CallDestroy \/ CloseStep
         \/ OpenAsync \/ OpenSync \/ Destroy
  PROVE  Protocol'
<1> USE DEF Protocol, ObserverProtocol, TypeOK, Reading, flags, stream, call
<1>1. CASE CallClose \/ CallDestroy
  <2>1. CASE CallClose
    BY <2>1 DEF CallClose
  <2>2. CASE CallDestroy
    BY <2>2 DEF CallDestroy
  <2> QED
    BY <1>1, <2>1, <2>2
<1>2. CASE CallOpen
  BY <1>2, DemuxerAssumption DEF CallOpen
<1>3. CASE StoreDown \/ StoreNoRepeat
  <2>1. CASE StoreDown
    BY <2>1 DEF StoreDown
  <2>2. CASE StoreNoRepeat
    BY <2>2 DEF StoreNoRepeat
  <2> QED
    BY <1>3, <2>1, <2>2
<1>4. CASE Join
  BY <1>4 DEF Join
<1>5. CASE OpenAsync
  BY <1>5 DEF OpenAsync
<1>6. CASE OpenSync
  <2>1. CASE SucceedInitialize(url') /\ m_keepRunning' = TRUE /\ reader' = "top"
    BY <1>6, <2>1 DEF OpenSync, SucceedInitialize
  <2>2. CASE /\ FailInitialize(url') /\ m_workState' = "Initialize"
             /\ UNCHANGED <<m_keepRunning, reader>>
    BY <1>6, <2>2 DEF OpenSync, FailInitialize
  <2> QED
    BY <1>6, <2>1, <2>2 DEF OpenSync
<1>7. CASE Destroy
  BY <1>7 DEF Destroy
<1> QED
  BY <1>1, <1>2, <1>3, <1>4, <1>5, <1>6, <1>7 DEF CloseStep

(* Every step of the demuxer keeps it.                                    *)
LEMMA ProtocolNext == Protocol /\ [Next]_vars => Protocol'
<1>1. ASSUME Protocol, UNCHANGED vars PROVE Protocol'
  BY <1>1 DEF Protocol, ObserverProtocol, TypeOK, Reading, vars, flags, stream,
    call
<1> QED
  BY <1>1, ProtocolReader, ProtocolOwner DEF Next

(* The observer of a demuxer is told what it may rely on, in the order it  *)
(* may rely on, however the stores of closeStream fall among the steps of  *)
(* the reading thread and in whichever order they come: frames and an end  *)
(* only between onAvformatOpened and onAvformatClosed, and nothing any     *)
(* more once closeStream has returned.                                     *)
THEOREM DemuxerProtocolCorrect == Spec => []ObserverProtocol
<1>1. Protocol => ObserverProtocol
  BY DEF Protocol
<1> QED
  BY <1>1, ProtocolInit, ProtocolNext, PTL DEF Spec
-----------------------------------------------------------------------------
(* Every step of the decoder is one of its demuxer, or none.               *)
LEMMA StepsOfDemuxer == [DNext]_dvars => [Next]_vars
<1>1. ASSUME DReader PROVE Next
  BY <1>1 DEF DReader, OnAvformatOpened, OnAvformatClosed, DecoderOnReadEof, SkipPacket, Dereference,
    FailDecode, Decode, NextPacket, Next, Reader
<1>2. ASSUME OpenStream \/ DestroyDecoder \/ CloseStream \/ OwnerStep PROVE Next
  BY <1>2 DEF OpenStream, DestroyDecoder, CloseStream, OwnerStep, Next
<1>3. UNCHANGED dvars => UNCHANGED vars
  BY DEF dvars, vars, flags, stream, call
<1> QED
  BY <1>1, <1>2, <1>3 DEF DNext

(* The decoder leaves its demuxer as it is: what it does in a callback     *)
(* adds nothing to the demuxer's steps.                                    *)
THEOREM DecoderIsDemuxer == DSpec => Spec
<1>1. DInit => Init
  BY DEF DInit
<1> QED
  BY <1>1, StepsOfDemuxer, PTL DEF DSpec, Spec

(* It holds of the demuxer inside the decoder.                            *)
LEMMA DecoderProtocol == DSpec => []Protocol
<1>1. DInit => Protocol
  BY ProtocolInit DEF DInit
<1> QED
  BY <1>1, StepsOfDemuxer, ProtocolNext, PTL DEF DSpec
-----------------------------------------------------------------------------
(* The packet that comes goes behind those that wait, and the first leaves.*)
LEMMA OneMoreListed ==
  ASSUME NEW ps \in Seq(Packets), NEW p \in Packets, Increases(ps), \A q \in Items(ps) : q < p
  PROVE  LET new == Append(ps, p)
         IN /\ new \in Seq(Packets) /\ Increases(new) /\ Items(new) = Items(ps) \cup {p}
            /\ Head(new) \in Packets /\ Tail(new) \in Seq(Packets)
            /\ Increases(Tail(new)) /\ Items(Tail(new)) = Items(new) \ {Head(new)}
            /\ Head(new) \in Items(new) /\ \A q \in Items(new) : Head(new) <= q
            /\ \A q \in Items(Tail(new)) : Head(new) < q
<1> DEFINE new == Append(ps, p)
<1>0. Packets \subseteq Nat
  BY DEF Packets
<1>1. /\ new \in Seq(Packets) /\ Len(new) = Len(ps) + 1 /\ Len(ps) \in Nat
      /\ new[Len(ps) + 1] = p /\ \A i \in 1 .. Len(ps) : new[i] = ps[i]
  OBVIOUS
<1>2. Items(new) = Items(ps) \cup {p}
  BY <1>1 DEF Items
<1>3. Increases(new)
  <2> SUFFICES ASSUME NEW i \in 1 .. Len(new), NEW j \in 1 .. Len(new), i < j PROVE new[i] < new[j]
    BY DEF Increases
  <2>1. i \in 1 .. Len(ps) /\ new[i] = ps[i] /\ ps[i] \in Items(ps)
    BY <1>1 DEF Items
  <2>2. CASE j \in 1 .. Len(ps)
    BY <1>1, <2>1, <2>2 DEF Increases
  <2>3. CASE j = Len(ps) + 1
    BY <1>1, <2>1, <2>3
  <2> QED
    BY <1>1, <2>2, <2>3
<1> HIDE DEF new
<1>4. /\ Head(new) = new[1] /\ Tail(new) \in Seq(Packets) /\ Len(Tail(new)) = Len(new) - 1
      /\ \A i \in 1 .. Len(new) - 1 : Tail(new)[i] = new[i + 1]
      /\ Len(new) \in Nat /\ Len(new) >= 1
      /\ \A i \in 1 .. Len(new) : new[i] \in Packets
  BY <1>1
<1>5. Increases(Tail(new))
  <2> SUFFICES ASSUME NEW i \in 1 .. Len(new) - 1, NEW j \in 1 .. Len(new) - 1, i < j
               PROVE Tail(new)[i] < Tail(new)[j]
    BY <1>4 DEF Increases
  <2>1. i + 1 \in 1 .. Len(new) /\ j + 1 \in 1 .. Len(new) /\ i + 1 < j + 1
    BY <1>4
  <2> QED
    BY <1>3, <1>4, <2>1 DEF Increases
<1>6. \A i \in 1 .. Len(new) - 1 : i + 1 \in 1 .. Len(new) /\ Head(new) < new[i + 1]
  BY <1>3, <1>4 DEF Increases
<1>7. \A q \in Items(Tail(new)) : Head(new) < q /\ q \in Items(new)
  BY <1>4, <1>6 DEF Items
<1>8. Head(new) \in Items(new) /\ Head(new) \in Packets
  BY <1>4 DEF Items
<1>9. \A q \in Items(new) : q = Head(new) \/ q \in Items(Tail(new))
  <2> SUFFICES ASSUME NEW i \in 1 .. Len(new) PROVE new[i] = Head(new) \/ new[i] \in Items(Tail(new))
    BY DEF Items
  <2>1. CASE i = 1
    BY <1>4, <2>1
  <2>2. CASE i # 1
    <3>1. i - 1 \in 1 .. Len(new) - 1 /\ i - 1 + 1 = i
      BY <1>4, <2>2
    <3> QED
      BY <1>4, <3>1 DEF Items
  <2> QED
    BY <2>1, <2>2
<1>12. Head(new) \in Nat /\ \A q \in Items(new) : q \in Nat
  <2>1. Items(new) \subseteq Packets
    BY <1>4 DEF Items
  <2> QED
    BY <1>0, <1>8, <2>1
<1>10. Items(Tail(new)) = Items(new) \ {Head(new)}
  BY <1>7, <1>9, <1>12
<1>11. \A q \in Items(new) : Head(new) <= q
  BY <1>7, <1>9, <1>12
<1> QED
  BY <1>1, <1>2, <1>3, <1>4, <1>5, <1>7, <1>8, <1>10, <1>11 DEF new

(* The packet that reaches the codec is younger than all the others.       *)
LEMMA NextPacketIsLast ==
  ASSUME Cleared, Waiting, NextPacket
  PROVE  /\ packet' = packet + 1 /\ packet' \in Packets /\ packet \in Nat
         /\ mListPackets \in Seq(Packets) /\ Increases(mListPackets) /\ Listed \subseteq Packets
         /\ held \subseteq Packets /\ out.packet \in Nat
         /\ \A q \in Listed : q < packet' /\ out.packet < q
         /\ \A q \in held : q < packet'
         /\ out.packet < packet' /\ 1 .. packet \subseteq 1 .. packet' /\ packet' \in 1 .. packet'
<1>1. DTypeOK
  BY DEF Cleared, NothingLeftOver
<1>2. packet' = packet + 1 /\ packet' \in Packets /\ packet \in Nat /\ out.packet \in Nat
  BY <1>1, DecoderAssumption DEF NextPacket, DTypeOK, Packets
<1>3. Listed \subseteq Packets
  BY <1>1 DEF DTypeOK, Listed, Items
<1> QED
  BY <1>1, <1>2, <1>3 DEF Waiting, DTypeOK, Packets

(* Every step of the decoder keeps it clear: what a stream leaves behind   *)
(* is dropped before its thread can open the next one or end.              *)
LEMMA ClearedNext ==
  ASSUME Protocol, Protocol', Cleared, Waiting, [DNext]_dvars
  PROVE  Cleared'
<1>a. DTypeOK /\ TypeOK
  BY DEF Cleared, NothingLeftOver, Protocol, ObserverProtocol
<1>b. reader \in {"none", "initialize", "again", "leave", "exited"} => Fresh
  BY DEF Cleared, NothingLeftOver, Fresh
<1>c. reader = "top" /\ (~m_keepRunning \/ m_workState = "Initialize") => Fresh
  BY DEF Cleared
<1>d. ASSUME DTypeOK',
             \/ reader' \in {"loop", "read", "eof", "ended", "down"}
             \/ reader' = "top" /\ m_keepRunning' /\ m_workState' # "Initialize"
             \/ Fresh'
      PROVE  Cleared'
  BY <1>d DEF Cleared, NothingLeftOver, Fresh, Protocol, ObserverProtocol, TypeOK
<1>e. <<>> \in Seq(Packets)
  OBVIOUS
<1>1. CASE OpenStream
  <2>1. Fresh' /\ DTypeOK'
    BY <1>1, <1>a, <1>b DEF OpenStream, Fresh, DTypeOK, codec, pairing
  <2> QED
    BY <1>d, <2>1
<1>2. CASE DestroyDecoder
  <2>1. Fresh' /\ DTypeOK'
    BY <1>2, <1>a, <1>b DEF DestroyDecoder, Fresh, DTypeOK, codec, pairing
  <2> QED
    BY <1>d, <2>1
<1>3. CASE CloseStream \/ OwnerStep
  <2>1. UNCHANGED <<codec, filter, pairing>>
    BY <1>3 DEF CloseStream, OwnerStep
  <2>2. DTypeOK' /\ (Fresh => Fresh')
    BY <1>a, <2>1 DEF DTypeOK, Fresh, codec, filter, pairing
  <2>3. CASE CallClose \/ Destroy \/ StoreNoRepeat
    <3>1. UNCHANGED <<reader, m_keepRunning, m_workState>>
      BY <2>3 DEF CallClose, Destroy, StoreNoRepeat, flags
    <3> QED
      BY <1>a, <1>b, <1>c, <1>d, <2>2, <3>1 DEF TypeOK
  <2>4. CASE StoreDown
    BY <1>a, <1>b, <1>c, <1>d, <2>2, <2>4 DEF StoreDown, TypeOK
  <2>5. CASE Join
    BY <1>b, <1>d, <2>2, <2>5 DEF Join
  <2>6. CASE OpenAsync
    BY <1>b, <1>d, <2>2, <2>6 DEF OpenAsync, Protocol, ObserverProtocol
  <2> QED
    BY <1>3, <2>3, <2>4, <2>5, <2>6 DEF CloseStream, OwnerStep, CloseStep
<1>4. CASE OnAvformatOpened
  <2>1. reader = "initialize" /\ reader' = "top" /\ m_workState' = "Service" /\ m_keepRunning'
    BY <1>4 DEF OnAvformatOpened, OpenSucceeds, SucceedInitialize, Protocol
  <2>2. DTypeOK'
    BY <1>4, <1>a, <1>b, <2>1 DEF OnAvformatOpened, CreateVideoDecoder, DTypeOK, Fresh, filter
  <2> QED
    BY <1>d, <2>1, <2>2
<1>5. CASE OnAvformatClosed
  <2>1. Fresh' /\ DTypeOK'
    BY <1>5, <1>a, <1>e DEF OnAvformatClosed, Fresh, DTypeOK
  <2> QED
    BY <1>d, <2>1
<1>6. CASE DecoderOnReadEof
  <2>1. reader' = "top" /\ m_workState' = "Down" /\ m_keepRunning'
    BY <1>6 DEF DecoderOnReadEof, OnReadEof, Protocol, Reading
  <2>2. DTypeOK'
    BY <1>6, <1>a, <1>e DEF DecoderOnReadEof, DTypeOK, codec, filter
  <2> QED
    BY <1>d, <2>1, <2>2
<1>7. CASE SkipPacket
  <2>1. reader' = "loop" /\ DTypeOK'
    BY <1>7, <1>a DEF SkipPacket, ReadFrame, DTypeOK, codec, filter, pairing
  <2> QED
    BY <1>d, <2>1
<1>8. CASE Dereference \/ FailDecode \/ Decode
  <2>0. NextPacket
    BY <1>8 DEF Dereference, FailDecode, Decode
  <2>1. reader' = "loop" /\ packet' \in Packets /\ packet' \in 0 .. MaxPackets
        /\ mIsWaitingIframe' \in BOOLEAN
    <3>1. reader' = "loop" /\ mIsWaitingIframe' = FALSE
      BY <2>0 DEF NextPacket, ReadFrame
    <3>2. packet' \in Packets
      BY <2>0, NextPacketIsLast
    <3>3. packet' \in 0 .. MaxPackets
      BY <3>2, DecoderAssumption DEF Packets
    <3> QED
      BY <3>1, <3>2, <3>3, Zenon
  <2>2. CASE Dereference
    <3>1. DTypeOK'
      BY <1>a, <2>1, <2>2 DEF Dereference, DTypeOK, filter
    <3> QED
      BY <1>d, <2>1, <3>1
  <2>3. CASE FailDecode
    <3>1. DTypeOK'
      BY <1>a, <2>1, <2>3 DEF FailDecode, DTypeOK, filter
    <3> QED
      BY <1>d, <2>1, <3>1
  <2>4. CASE Decode
    <3>1. mListPackets' \in Seq(Packets)
          /\ out' \in [packet : 0 .. MaxPackets, frame : 0 .. MaxPackets] /\ held' \subseteq Packets
      <4>1. PICK early \in SUBSET held, late \in SUBSET (held \cup {packet'}) :
              /\ held' = ((held \ early) \cup {packet'}) \ late
              /\ \/ mListPackets' = Append(mListPackets, packet') /\ out' = out
                 \/ \E f \in IF late = {} THEN {Blank} ELSE late : HandOn(f)
        BY <2>4 DEF Decode
      <4>2. held \subseteq Packets /\ Packets \subseteq 0 .. MaxPackets /\ Blank \in 0 .. MaxPackets
        BY <1>a, DecoderAssumption DEF DTypeOK, Packets, Blank
      <4>3. /\ Append(mListPackets, packet') \in Seq(Packets)
            /\ Head(Append(mListPackets, packet')) \in Packets
            /\ Tail(Append(mListPackets, packet')) \in Seq(Packets)
        BY <2>0, NextPacketIsLast, OneMoreListed DEF Listed
      <4>4. held' \subseteq Packets
        BY <2>1, <4>1, <4>2
      <4>5. CASE mListPackets' = Append(mListPackets, packet') /\ out' = out
        BY <1>a, <4>3, <4>4, <4>5 DEF DTypeOK
      <4>6. ASSUME NEW f \in IF late = {} THEN {Blank} ELSE late, HandOn(f)
            PROVE  mListPackets' \in Seq(Packets)
                   /\ out' \in [packet : 0 .. MaxPackets, frame : 0 .. MaxPackets]
        <5>1. f \in 0 .. MaxPackets
          BY <2>1, <4>2
        <5> QED
          BY <4>2, <4>3, <4>6, <5>1 DEF HandOn
      <4> QED
        BY <4>1, <4>4, <4>5, <4>6
    <3>2. /\ mEnableFilter' \in BOOLEAN /\ mFilterInited' \in BOOLEAN /\ mFilterGraph' \in BOOLEAN
          /\ mFilterInited' = mFilterGraph'
      BY <1>a, <2>4 DEF Decode, ApplyFilter, filter, DTypeOK
    <3>3. exact' \in BOOLEAN
      BY <1>a, <2>4 DEF Decode, DTypeOK
    <3>4. DTypeOK'
      BY <1>a, <2>1, <2>4, <3>1, <3>2, <3>3 DEF Decode, DTypeOK
    <3> QED
      BY <1>d, <2>1, <3>4
  <2> QED
    BY <1>8, <2>2, <2>3, <2>4
<1>9. CASE /\ \/ Turn \/ OpenFails \/ TestService
              \/ ReadEof \/ TestRepeat \/ Again \/ Leave
           /\ UNCHANGED <<codec, filter, pairing>>
  <2>1. DTypeOK' /\ (Fresh => Fresh')
    BY <1>9, <1>a DEF DTypeOK, Fresh, codec, filter, pairing
  <2>2. CASE Turn
    BY <1>c, <1>d, <2>1, <2>2 DEF Turn
  <2>3. CASE OpenFails \/ Again \/ Leave
    BY <1>b, <1>d, <2>1, <2>3 DEF OpenFails, Again, Leave
  <2>4. CASE TestService \/ ReadEof \/ TestRepeat
    <3>1. Reading /\ UNCHANGED <<m_keepRunning, m_workState>>
          /\ reader' \in {"read", "top", "eof", "loop", "ended"}
      BY <2>4 DEF TestService, ReadEof, TestRepeat, Reading,
        flags
    <3> QED
      BY <1>d, <2>1, <3>1 DEF Protocol
  <2> QED
    BY <1>9, <2>2, <2>3, <2>4
<1>10. CASE UNCHANGED dvars
  <2>1. DTypeOK' /\ (Fresh => Fresh') /\ UNCHANGED <<reader, m_keepRunning, m_workState>>
    BY <1>10, <1>a DEF dvars, vars, DTypeOK, Fresh, flags, codec, filter, pairing
  <2> QED
    BY <1>a, <1>b, <1>c, <1>d, <2>1 DEF TypeOK
<1> QED
  BY <1>1, <1>2, <1>3, <1>4, <1>5, <1>6, <1>7, <1>8, <1>9, <1>10 DEF DNext, DReader

(* What a step does to the pairs: the packets that wait stay in order and  *)
(* behind the one handed on last; a frame goes with the first of them,     *)
(* which with an exact codec is its own.                                   *)
Paired == out' # out =>
    out'.packet > out.packet /\ (exact' => out'.packet = out'.frame)

(* Every step keeps the packets that wait in order and pairs as said.      *)
LEMMA WaitingNext ==
  ASSUME Cleared, Waiting, [DNext]_dvars
  PROVE  Waiting' /\ Paired
<1>a. DTypeOK /\ (reader = "initialize" => mListPackets = <<>>)
  BY DEF Cleared, NothingLeftOver
<1>b. Increases(<<>>) /\ Items(<<>>) = {}
  BY DEF Increases, Items
<1>c. ASSUME UNCHANGED <<packet, out, held, exact, mListPackets>> PROVE Waiting' /\ Paired
  BY <1>c DEF Waiting, Paired, Listed
<1>1. CASE OpenStream \/ DestroyDecoder \/ CloseStream \/ OwnerStep \/ SkipPacket
  BY <1>1, <1>c DEF OpenStream, DestroyDecoder, CloseStream, OwnerStep, SkipPacket, codec, pairing
<1>2. CASE OnAvformatOpened
  <2>1. mListPackets = <<>> /\ exact' = (held = {}) /\ UNCHANGED <<packet, out, held, mListPackets>>
    BY <1>2, <1>a DEF OnAvformatOpened, OpenSucceeds
  <2>2. Listed = {} /\ Listed' = {}
    BY <1>b, <2>1 DEF Listed
  <2> QED
    BY <2>1, <2>2 DEF Waiting, Paired
<1>3. CASE OnAvformatClosed \/ DecoderOnReadEof
  <2>1. /\ mListPackets' = <<>> /\ UNCHANGED <<packet, out>> /\ (held' = held \/ held' = {})
        /\ exact' => held' = {}
    BY <1>3 DEF OnAvformatClosed, DecoderOnReadEof, codec
  <2>2. Listed' = {}
    BY <1>b, <2>1 DEF Listed
  <2> QED
    BY <1>b, <2>1, <2>2 DEF Waiting, Paired
<1>4. CASE Dereference
  <2>1. NextPacket /\ UNCHANGED <<held, mListPackets, out, exact>>
    BY <1>4 DEF Dereference
  <2> QED
    BY <2>1, NextPacketIsLast DEF Waiting, Paired, Listed, Packets
<1>5. CASE FailDecode
  <2>1. /\ NextPacket /\ UNCHANGED <<mListPackets, out>> /\ held' \subseteq held \cup {packet'}
        /\ exact' = (exact /\ held' = held)
    BY <1>5 DEF FailDecode
  <2>2. Listed' = Listed /\ Paired
    BY <2>1 DEF Listed, Paired
  <2>3. \A q \in Listed : out.packet < q /\ q <= packet'
    BY <2>1, NextPacketIsLast DEF Packets
  <2>4. held' \subseteq 1 .. packet'
    <3>1. held \subseteq 1 .. packet
      BY DEF Waiting
    <3> QED
      BY <2>1, <3>1, NextPacketIsLast
  <2>5. exact' => held' = Listed'
    BY <2>1, <2>2 DEF Waiting
  <2>6. out.packet <= packet' /\ Increases(mListPackets)
    BY <2>1, NextPacketIsLast
  <2> QED
    BY <2>1, <2>2, <2>3, <2>4, <2>5, <2>6 DEF Waiting
<1>6. CASE Decode
  <2> DEFINE new == Append(mListPackets, packet')
  <2>0. NextPacket
    BY <1>6 DEF Decode
  <2>1. /\ new \in Seq(Packets) /\ Increases(new) /\ Items(new) = Listed \cup {packet'}
        /\ Head(new) \in Packets /\ Tail(new) \in Seq(Packets)
        /\ Increases(Tail(new)) /\ Items(Tail(new)) = Items(new) \ {Head(new)}
        /\ Head(new) \in Items(new) /\ \A q \in Items(new) : Head(new) <= q
        /\ \A q \in Items(Tail(new)) : Head(new) < q
    BY <2>0, NextPacketIsLast, OneMoreListed DEF Listed
  <2> HIDE DEF new
  <2>2. \A q \in Items(new) : out.packet < q /\ q <= packet' /\ q \in Nat
    BY <2>0, <2>1, NextPacketIsLast DEF Packets
  <2>3. PICK early \in SUBSET held :
          LET given == (held \ early) \cup {packet'}
          IN \E late \in SUBSET given :
              /\ held' = given \ late
              /\ exact' = (exact /\ early = {} /\ late \subseteq {Min(given)})
              /\ IF early \cup late = {}
                 THEN mListPackets' = new /\ out' = out
                 ELSE \E f \in IF late = {} THEN {Blank} ELSE late : HandOn(f)
    BY <1>6 DEF Decode, new
  <2> DEFINE given == (held \ early) \cup {packet'}
  <2>4. PICK late \in SUBSET given :
          /\ held' = given \ late
          /\ exact' = (exact /\ early = {} /\ late \subseteq {Min(given)})
          /\ IF early \cup late = {}
             THEN mListPackets' = new /\ out' = out
             ELSE \E f \in IF late = {} THEN {Blank} ELSE late : HandOn(f)
    BY <2>3
  <2>5. held' \subseteq 1 .. packet'
    <3>1. held \subseteq 1 .. packet
      BY DEF Waiting
    <3> QED
      BY <2>0, <2>4, <3>1, NextPacketIsLast
  <2>6. exact' => given = Items(new) /\ Min(given) = Head(new)
    <3> SUFFICES ASSUME exact' PROVE given = Items(new) /\ Min(given) = Head(new)
      OBVIOUS
    <3>1. given = Items(new)
      BY <2>1, <2>4 DEF Waiting
    <3>2. Min(Items(new)) \in Items(new) /\ \A q \in Items(new) : Min(Items(new)) <= q
      BY <2>1 DEF Min
    <3>3. Min(Items(new)) <= Head(new) /\ Head(new) <= Min(Items(new))
          /\ Min(Items(new)) \in Nat /\ Head(new) \in Nat
      BY <2>1, <2>2, <3>2
    <3> QED
      BY <3>1, <3>3
  <2> HIDE DEF given
  <2>7. CASE early \cup late = {}
    <3>1. mListPackets' = new /\ out' = out /\ held' = given
      BY <2>4, <2>7
    <3>2. Listed' = Items(new)
      BY <3>1 DEF Listed
    <3> QED
      BY <2>0, <2>1, <2>2, <2>5, <2>6, <3>1, <3>2, NextPacketIsLast DEF Waiting, Paired
  <2>8. CASE early \cup late # {}
    <3>1. PICK f \in IF late = {} THEN {Blank} ELSE late : HandOn(f)
      BY <2>4, <2>8
    <3>2. out' = [packet |-> Head(new), frame |-> f] /\ mListPackets' = Tail(new)
      BY <3>1 DEF HandOn, new
    <3>3. out'.packet = Head(new) /\ out'.frame = f /\ Listed' = Items(new) \ {Head(new)}
      BY <2>1, <3>2 DEF Listed
    <3>4. exact' => f = Head(new) /\ held' = Items(new) \ {Head(new)}
      BY <2>4, <2>6, <2>8, <3>1
    <3>5. Paired
      BY <2>1, <2>2, <2>0, <3>3, <3>4, NextPacketIsLast DEF Paired, Packets
    <3>6. Waiting'
      BY <2>1, <2>2, <2>5, <3>2, <3>3, <3>4 DEF Waiting
    <3> QED
      BY <3>5, <3>6
  <2> QED
    BY <2>7, <2>8
<1>7. CASE UNCHANGED <<codec, filter, pairing>>
  BY <1>7, <1>c DEF codec, pairing
<1>8. CASE UNCHANGED dvars
  BY <1>8, <1>c DEF dvars, codec, pairing
<1> QED
  BY <1>1, <1>2, <1>3, <1>4, <1>5, <1>6, <1>7, <1>8 DEF DNext, DReader

(* The protocol, the cleared lists and the order of the packets hold in   *)
(* every state of the decoder.                                            *)
LEMMA ClearedCorrect == DSpec => [](Protocol /\ Cleared /\ Waiting)
<1>1. DInit => Cleared /\ Waiting
  <2> SUFFICES ASSUME DInit PROVE Cleared /\ Waiting
    OBVIOUS
  <2>1. 0 \in 0 .. MaxPackets /\ <<>> \in Seq(Packets)
    BY DecoderAssumption
  <2>2. Items(<<>>) = {} /\ Increases(<<>>)
    BY DEF Items, Increases
  <2>3. DTypeOK /\ Fresh
    BY <2>1 DEF DInit, DTypeOK, Fresh, Blank
  <2>4. Listed = {} /\ packet = 0 /\ out.packet = 0 /\ held = {} /\ mListPackets = <<>>
    BY <2>2 DEF DInit, Listed, Blank
  <2> QED
    BY <2>2, <2>3, <2>4 DEF Cleared, NothingLeftOver, Fresh, Waiting
<1>2. Protocol /\ Protocol' /\ Cleared /\ Waiting /\ [DNext]_dvars => Cleared' /\ Waiting'
  BY ClearedNext, WaitingNext
<1> QED
  BY <1>1, <1>2, DecoderProtocol, PTL DEF DSpec

(* While no stream is open nothing of the last one is left: no packet, no  *)
(* graph of a filter, and no codec but the owner's.                        *)
THEOREM NothingLeftOverCorrect == DSpec => []NothingLeftOver
<1>1. Cleared => NothingLeftOver
  BY DEF Cleared
<1> QED
  BY <1>1, ClearedCorrect, PTL

(* Whatever the codec does, packets are handed on in their order and once; *)
(* and as long as it gives out its frames in order and one by one, each    *)
(* goes with its own, also after streams that ended otherwise.             *)
THEOREM FramesPairedCorrect == DSpec => FramesPaired
<1>1. Cleared /\ Waiting /\ [DNext]_dvars =>
        [out' # out => /\ out'.packet > out.packet
                       /\ exact' => out'.packet = out'.frame]_dvars
  BY WaitingNext DEF Paired
<1> QED
  BY <1>1, ClearedCorrect, PTL DEF DSpec, FramesPaired

(* The decoder, too, is an observer of which the protocol holds.           *)
THEOREM DecoderProtocolCorrect == DSpec => []ObserverProtocol
<1>1. Protocol => ObserverProtocol
  BY DEF Protocol
<1> QED
  BY <1>1, DecoderProtocol, PTL
-----------------------------------------------------------------------------
(* The decoder of stream_decode.cpp observes the same demuxer.             *)
LEMMA SameDemuxer ==
  /\ Software!Demuxer!Init <=> Init
  /\ Software!Demuxer!Turn <=> Turn
  /\ Software!Demuxer!OpenFails <=> OpenFails
  /\ Software!Demuxer!OpenSucceeds <=> OpenSucceeds
  /\ Software!Demuxer!TestService <=> TestService
  /\ Software!Demuxer!ReadFrame <=> ReadFrame
  /\ Software!Demuxer!ReadEof <=> ReadEof
  /\ Software!Demuxer!TestRepeat <=> TestRepeat
  /\ Software!Demuxer!OnReadEof <=> OnReadEof
  /\ Software!Demuxer!Down <=> Down
  /\ Software!Demuxer!Again <=> Again
  /\ Software!Demuxer!Leave <=> Leave
  /\ Software!Demuxer!CallClose <=> CallClose
  /\ Software!Demuxer!CallOpen <=> CallOpen
  /\ Software!Demuxer!CallDestroy <=> CallDestroy
  /\ Software!Demuxer!StoreDown <=> StoreDown
  /\ Software!Demuxer!StoreNoRepeat <=> StoreNoRepeat
  /\ Software!Demuxer!Join <=> Join
  /\ Software!Demuxer!OpenAsync <=> OpenAsync
  /\ Software!Demuxer!Destroy <=> Destroy
<1> USE DEF Software!Demuxer!flags, Software!Demuxer!stream, Software!Demuxer!call,
            flags, stream, call
<1>1. Software!Demuxer!Init <=> Init
  BY DEF Software!Demuxer!Init, Init
<1>2. Software!Demuxer!Turn <=> Turn
  BY DEF Software!Demuxer!Turn, Turn
<1>3. Software!Demuxer!OpenFails <=> OpenFails
  BY DEF Software!Demuxer!OpenFails, OpenFails, Software!Demuxer!FailInitialize, FailInitialize
<1>4. Software!Demuxer!OpenSucceeds <=> OpenSucceeds
  BY DEF Software!Demuxer!OpenSucceeds, OpenSucceeds, Software!Demuxer!SucceedInitialize, SucceedInitialize
<1>5. Software!Demuxer!TestService <=> TestService
  BY DEF Software!Demuxer!TestService, TestService
<1>6. Software!Demuxer!ReadFrame <=> ReadFrame
  BY DEF Software!Demuxer!ReadFrame, ReadFrame
<1>7. Software!Demuxer!ReadEof <=> ReadEof
  BY DEF Software!Demuxer!ReadEof, ReadEof
<1>8. Software!Demuxer!TestRepeat <=> TestRepeat
  BY DEF Software!Demuxer!TestRepeat, TestRepeat
<1>9. Software!Demuxer!OnReadEof <=> OnReadEof
  BY DEF Software!Demuxer!OnReadEof, OnReadEof
<1>10. Software!Demuxer!Down <=> Down
  BY DEF Software!Demuxer!Down, Down
<1>11. Software!Demuxer!Again <=> Again
  BY DEF Software!Demuxer!Again, Again
<1>12. Software!Demuxer!Leave <=> Leave
  BY DEF Software!Demuxer!Leave, Leave
<1>13. Software!Demuxer!CallClose <=> CallClose
  BY DEF Software!Demuxer!CallClose, CallClose
<1>14. Software!Demuxer!CallOpen <=> CallOpen
  BY DEF Software!Demuxer!CallOpen, CallOpen
<1>15. Software!Demuxer!CallDestroy <=> CallDestroy
  BY DEF Software!Demuxer!CallDestroy, CallDestroy
<1>16. Software!Demuxer!StoreDown <=> StoreDown
  BY DEF Software!Demuxer!StoreDown, StoreDown, Software!Demuxer!Reading, Reading
<1>17. Software!Demuxer!StoreNoRepeat <=> StoreNoRepeat
  BY DEF Software!Demuxer!StoreNoRepeat, StoreNoRepeat, Software!Demuxer!Reading, Reading
<1>18. Software!Demuxer!Join <=> Join
  BY DEF Software!Demuxer!Join, Join
<1>19. Software!Demuxer!OpenAsync <=> OpenAsync
  BY DEF Software!Demuxer!OpenAsync, OpenAsync, Software!Demuxer!Urls, Urls
<1>20. Software!Demuxer!Destroy <=> Destroy
  BY DEF Software!Demuxer!Destroy, Destroy
<1> QED
  BY <1>1, <1>2, <1>3, <1>4, <1>5, <1>6, <1>7, <1>8, <1>9, <1>10,
     <1>11, <1>12, <1>13, <1>14, <1>15, <1>16, <1>17, <1>18, <1>19, <1>20

(* Each step of the software decoder is one of the same demuxer.          *)
LEMMA SoftwareSteps == [Software!Next]_Software!vars => [Next]_vars
<1>1. ASSUME Software!Reader PROVE Next
  BY <1>1, SameDemuxer DEF Software!Reader, Software!OnAvformatOpened, Software!OnAvformatClosed,
    Software!OnReadEof, Software!SkipPacket, Software!Dereference, Software!FailDecode,
    Software!NoFrame, Software!Decode, Software!NextPacket, Next, Reader
<1>2. ASSUME Software!OwnerStep PROVE Next
  BY <1>2, SameDemuxer DEF Software!OwnerStep, Software!Demuxer!CloseStep, CloseStep, Next
<1>3. UNCHANGED Software!vars => UNCHANGED vars
  BY DEF Software!vars, Software!demuxer, vars, flags, stream, call
<1> QED
  BY <1>1, <1>2, <1>3 DEF Software!Next

(* Its inductive invariant: the packets that wait come in their order and  *)
(* after the one handed on last; while a stream is open and the codec keeps *)
(* the order they are those it holds; and of a stream that was closed no   *)
(* packet is left, and no codec but one from outside.                      *)
Matched ==
    /\ Software!TypeOK
    /\ Increases(mListPackets)
    /\ \A p \in Listed : handed.packet < p /\ p <= packet
    /\ handed.packet <= packet
    /\ held \subseteq 1 .. packet
    /\ handed.orderly => handed.packet = handed.frame
    /\ isOpen /\ orderly => held = Listed
    /\ ~isOpen => mListPackets = <<>> /\ (~external => decoder = "null" /\ held = {})

(* The packet that reaches the codec is younger than all the others.       *)
LEMMA SoftwareNextIsLast ==
  ASSUME Protocol, Matched, Software!NextPacket
  PROVE  /\ packet' = packet + 1 /\ packet' \in Packets /\ packet \in Nat
         /\ mListPackets \in Seq(Packets) /\ Increases(mListPackets) /\ Listed \subseteq Packets
         /\ held \subseteq Packets /\ handed.packet \in Nat
         /\ \A q \in Listed : q < packet' /\ handed.packet < q
         /\ \A q \in held : q < packet'
         /\ handed.packet < packet' /\ 1 .. packet \subseteq 1 .. packet' /\ packet' \in 1 .. packet'
         /\ isOpen /\ isOpen' /\ packet' \in 0 .. MaxPackets /\ external' = external
         /\ mIsWaitingIframe' \in BOOLEAN
<1>1. Software!TypeOK
  BY DEF Matched
<1>2. packet' = packet + 1 /\ packet' \in Packets /\ packet \in Nat /\ handed.packet \in Nat
  BY <1>1, DecoderAssumption DEF Software!NextPacket, Software!TypeOK, Packets
<1>3. mListPackets \in Seq(Packets) /\ held \subseteq Packets
  BY <1>1 DEF Software!TypeOK, Software!Packets, Packets
<1>4. Listed \subseteq Packets
  BY <1>3 DEF Listed, Items
<1>5. isOpen /\ isOpen' /\ external' = external /\ mIsWaitingIframe' = FALSE
  BY SameDemuxer DEF Software!NextPacket, ReadFrame, stream, Protocol,
    ObserverProtocol, Reading
<1>6. packet' \in 0 .. MaxPackets
  BY <1>2, DecoderAssumption DEF Packets
<1>7. /\ \A q \in Listed : q < packet' /\ handed.packet < q
      /\ \A q \in held : q < packet'
      /\ handed.packet < packet' /\ 1 .. packet \subseteq 1 .. packet' /\ packet' \in 1 .. packet'
  BY <1>2, <1>3, <1>4 DEF Matched, Packets
<1>8. Increases(mListPackets)
  BY DEF Matched
<1> QED
  BY <1>2, <1>3, <1>4, <1>5, <1>6, <1>7, <1>8

(* Every step of the decoder keeps its packets matched.                    *)
LEMMA MatchedNext ==
  ASSUME Protocol, Matched, [Software!Next]_Software!vars
  PROVE  Matched'
<1>a. Software!TypeOK /\ (~isOpen => Listed = {})
  BY DEF Matched, Listed, Items
<1>b. Increases(<<>>) /\ Items(<<>>) = {} /\ <<>> \in Seq(Software!Packets)
  BY DEF Increases, Items
<1>c. ASSUME UNCHANGED <<external, decoder, mIsWaitingIframe, held, mListPackets, packet, orderly,
                         handed, isOpen>>
      PROVE  Matched'
  BY <1>c DEF Matched, Listed, Software!TypeOK
<1>1. CASE Software!OwnerStep \/ Software!SkipPacket
  <2>1. isOpen' = isOpen
    BY <1>1, SameDemuxer DEF Software!OwnerStep, Software!SkipPacket, Software!Demuxer!CloseStep,
      CallOpen, CallClose, CallDestroy, StoreDown, StoreNoRepeat, Join, OpenAsync, Destroy,
      ReadFrame, stream
  <2> QED
    BY <1>1, <1>c, <2>1 DEF Software!OwnerStep, Software!SkipPacket, Software!codec, Software!pairing
<1>2. CASE Software!OnAvformatOpened
  <2>1. ~isOpen /\ isOpen'
    BY <1>2, SameDemuxer DEF Software!OnAvformatOpened, OpenSucceeds, SucceedInitialize,
      Protocol, ObserverProtocol
  <2>2. /\ mListPackets = <<>> /\ orderly' = (held = {})
        /\ UNCHANGED <<external, held, mListPackets, packet, handed>>
        /\ (~external => decoder = "null" /\ held = {})
    BY <1>2, <2>1 DEF Software!OnAvformatOpened, Matched
  <2>3. Software!TypeOK'
    BY <1>2, <1>a, <2>2 DEF Software!OnAvformatOpened, Software!TypeOK
  <2>4. Listed' = {} /\ Listed = {}
    BY <1>b, <2>2 DEF Listed
  <2> QED
    BY <2>1, <2>2, <2>3, <2>4 DEF Matched
<1>3. CASE Software!OnAvformatClosed
  <2>1. ~isOpen'
    BY <1>3, SameDemuxer DEF Software!OnAvformatClosed, Down
  <2>2. /\ mListPackets' = <<>> /\ UNCHANGED <<external, mIsWaitingIframe, packet, orderly, handed>>
        /\ IF external THEN UNCHANGED <<decoder, held>> ELSE decoder' = "null" /\ held' = {}
    BY <1>3 DEF Software!OnAvformatClosed
  <2>3. Software!TypeOK'
    BY <1>a, <1>b, <2>2 DEF Software!TypeOK
  <2>4. Listed' = {}
    BY <1>b, <2>2 DEF Listed
  <2> QED
    BY <1>b, <2>1, <2>2, <2>3, <2>4 DEF Matched
<1>4. CASE Software!OnReadEof
  <2>1. isOpen' = isOpen /\ isOpen
    BY <1>4, SameDemuxer DEF Software!OnReadEof, OnReadEof, stream, Protocol,
      ObserverProtocol, Reading
  <2>2. /\ mListPackets' = <<>> /\ orderly' = (orderly /\ held = {})
        /\ UNCHANGED <<external, decoder, mIsWaitingIframe, held, packet, handed>>
    BY <1>4 DEF Software!OnReadEof, Software!codec
  <2>3. Software!TypeOK'
    BY <1>a, <1>b, <2>2 DEF Software!TypeOK
  <2>4. Listed' = {}
    BY <1>b, <2>2 DEF Listed
  <2> QED
    BY <1>b, <2>1, <2>2, <2>3, <2>4 DEF Matched
<1>5. CASE Software!Dereference
  <2>1. Software!NextPacket /\ decoder = "null" /\ decoder' = "crashed"
        /\ UNCHANGED <<held, mListPackets, orderly, handed>>
    BY <1>5 DEF Software!Dereference
  <2>2. Software!TypeOK'
    BY <1>a, <2>1, SoftwareNextIsLast DEF Software!TypeOK
  <2> QED
    BY <2>1, <2>2, SoftwareNextIsLast DEF Matched, Listed, Packets
<1>6. CASE Software!FailDecode
  <2>1. /\ Software!NextPacket /\ decoder' = decoder /\ UNCHANGED <<mListPackets, handed>>
        /\ decoder \in {"closed", "open"} /\ (decoder = "closed" => held' = held)
        /\ held' \subseteq held \cup {packet'} /\ orderly' = (orderly /\ held' = held)
    BY <1>6 DEF Software!FailDecode
  <2>2. held' \subseteq Software!Packets
    BY <2>1, SoftwareNextIsLast DEF Software!Packets, Packets
  <2>3. Software!TypeOK'
    BY <1>a, <2>1, <2>2, SoftwareNextIsLast DEF Software!TypeOK
  <2>4. held' \subseteq 1 .. packet'
    BY <2>1, SoftwareNextIsLast DEF Matched
  <2>5. \A q \in Listed : handed.packet < q /\ q <= packet'
    BY <2>1, SoftwareNextIsLast DEF Packets
  <2>6. handed.packet <= packet' /\ isOpen /\ isOpen' /\ Listed' = Listed
    BY <2>1, SoftwareNextIsLast DEF Listed
  <2> QED
    BY <2>1, <2>3, <2>4, <2>5, <2>6 DEF Matched
<1>7. CASE Software!NoFrame \/ Software!Decode
  <2> DEFINE new == Append(mListPackets, packet')
             given == held \cup {packet'}
  <2>0. Software!NextPacket /\ decoder = "open" /\ decoder' = decoder
    BY <1>7 DEF Software!NoFrame, Software!Decode
  <2>1. /\ new \in Seq(Packets) /\ Increases(new) /\ Items(new) = Listed \cup {packet'}
        /\ Head(new) \in Packets /\ Tail(new) \in Seq(Packets)
        /\ Increases(Tail(new)) /\ Items(Tail(new)) = Items(new) \ {Head(new)}
        /\ Head(new) \in Items(new) /\ \A q \in Items(new) : Head(new) <= q
        /\ \A q \in Items(Tail(new)) : Head(new) < q
    BY <2>0, SoftwareNextIsLast, OneMoreListed DEF Listed
  <2> HIDE DEF new
  <2>2. \A q \in Items(new) : handed.packet < q /\ q <= packet' /\ q \in Nat
    BY <2>0, <2>1, SoftwareNextIsLast DEF Packets
  <2>3. given \subseteq Packets /\ given \subseteq 1 .. packet' /\ handed.packet <= packet'
        /\ Packets \subseteq 0 .. MaxPackets /\ Packets = Software!Packets
    <3>1. held \subseteq 1 .. packet
      BY DEF Matched
    <3>2. Packets \subseteq 0 .. MaxPackets /\ Packets = Software!Packets
      BY DecoderAssumption DEF Packets, Software!Packets
    <3>3. /\ held \subseteq Packets /\ packet' \in Packets /\ packet' \in 1 .. packet'
          /\ 1 .. packet \subseteq 1 .. packet'
      BY <2>0, SoftwareNextIsLast
    <3>4. handed.packet <= packet'
      BY <2>0, SoftwareNextIsLast DEF Packets
    <3> QED
      BY <3>1, <3>2, <3>3, <3>4
  <2>4. orderly => given = Items(new) /\ Software!Min(given) = Head(new)
    <3> SUFFICES ASSUME orderly PROVE given = Items(new) /\ Software!Min(given) = Head(new)
      OBVIOUS
    <3>1. given = Items(new)
      BY <2>0, <2>1, SoftwareNextIsLast DEF Matched
    <3>2. Software!Min(Items(new)) \in Items(new) /\ \A q \in Items(new) : Software!Min(Items(new)) <= q
      BY <2>1 DEF Software!Min
    <3>3. Software!Min(Items(new)) <= Head(new) /\ Head(new) <= Software!Min(Items(new))
          /\ Software!Min(Items(new)) \in Nat /\ Head(new) \in Nat
      BY <2>1, <2>2, <3>2
    <3> QED
      BY <3>1, <3>3
  <2>5. CASE Software!NoFrame
    <3>1. /\ held' \subseteq given /\ orderly' = (orderly /\ held' = given)
          /\ mListPackets' = new /\ handed' = handed
      BY <2>5 DEF Software!NoFrame, new
    <3>2. Software!TypeOK'
      BY <1>a, <2>0, <2>1, <2>3, <3>1, SoftwareNextIsLast DEF Software!TypeOK
    <3>3. Listed' = Items(new)
      BY <3>1 DEF Listed
    <3>4. orderly' => held' = Listed'
      BY <2>4, <3>1, <3>3
    <3> QED
      BY <2>0, <2>1, <2>2, <2>3, <3>1, <3>2, <3>3, <3>4, SoftwareNextIsLast DEF Matched
  <2>6. CASE Software!Decode
    <3>1. PICK f \in given :
            /\ held' = given \ {f}
            /\ orderly' = (orderly /\ f = Software!Min(given))
            /\ handed' = [packet |-> Head(new), frame |-> f, orderly |-> orderly']
            /\ mListPackets' = Tail(new)
      BY <2>6 DEF Software!Decode, Software!HandOn, new
    <3> HIDE DEF given
    <3>2. handed'.packet = Head(new) /\ handed'.frame = f /\ handed'.orderly = orderly'
      BY <3>1
    <3>3. Listed' = Items(new) \ {Head(new)}
      BY <2>1, <3>1 DEF Listed
    <3>4. orderly' => f = Head(new) /\ held' = Listed'
      BY <2>4, <3>1, <3>3
    <3>5. orderly \in BOOLEAN /\ orderly' \in BOOLEAN
      BY <1>a, <3>1 DEF Software!TypeOK
    <3>6. handed' \in [packet : 0 .. MaxPackets, frame : 0 .. MaxPackets, orderly : BOOLEAN]
      BY <2>1, <2>3, <3>1, <3>5
    <3>7. held' \subseteq given /\ mListPackets' \in Seq(Packets)
      BY <2>1, <3>1
    <3>8. Software!TypeOK'
      BY <1>a, <2>0, <2>3, <3>5, <3>6, <3>7, SoftwareNextIsLast DEF Software!TypeOK
    <3>9. \A q \in Listed' : handed'.packet < q /\ q <= packet'
      BY <2>1, <2>2, <3>1, <3>2 DEF Listed
    <3>10. handed'.packet <= packet'
      BY <2>1, <2>2, <3>2
    <3>11. handed'.orderly => handed'.packet = handed'.frame
      BY <3>2, <3>4
    <3>12. Increases(mListPackets')
      BY <2>1, <3>1
    <3> QED
      BY <2>0, <2>3, <3>4, <3>7, <3>8, <3>9, <3>10, <3>11, <3>12, SoftwareNextIsLast DEF Matched
  <2> QED
    BY <1>7, <2>5, <2>6
<1>8. CASE /\ \/ Software!Demuxer!Turn \/ Software!Demuxer!OpenFails \/ Software!Demuxer!TestService
              \/ Software!Demuxer!ReadEof \/ Software!Demuxer!TestRepeat \/ Software!Demuxer!Again
              \/ Software!Demuxer!Leave
           /\ UNCHANGED <<Software!codec, Software!pairing>>
  <2>1. isOpen' = isOpen
    BY <1>8, SameDemuxer DEF Turn, OpenFails, FailInitialize,
      TestService, ReadEof, TestRepeat, Again, Leave, stream
  <2> QED
    BY <1>8, <1>c, <2>1 DEF Software!codec, Software!pairing
<1>9. CASE UNCHANGED Software!vars
  BY <1>9, <1>c DEF Software!vars, Software!demuxer, Software!codec, Software!pairing
<1> QED
  BY <1>1, <1>2, <1>3, <1>4, <1>5, <1>6, <1>7, <1>8, <1>9 DEF Software!Next, Software!Reader

(* In the decoder of stream_decode.cpp, too, packets go out in their order *)
(* and once, and each frame with its own as long as the codec, since the   *)
(* stream was opened, has kept the order and lost no frame it held.        *)
THEOREM SoftwareFramesPairedCorrect == BSpec => []SoftwareFramesPaired
<1> DEFINE Inv == build = "software" => Protocol /\ Matched
<1>1. BInit => Inv
  <2> SUFFICES ASSUME Software!Init PROVE Protocol /\ Matched
    BY DEF BInit
  <2>1. Protocol
    BY SameDemuxer, ProtocolInit DEF Software!Init
  <2>2. 0 \in 0 .. MaxPackets /\ <<>> \in Seq(Software!Packets)
    BY DecoderAssumption
  <2>3. Software!TypeOK
    BY <2>2 DEF Software!Init, Software!TypeOK
  <2>4. ~isOpen
    BY SameDemuxer DEF Software!Init, Init
  <2>5. Increases(<<>>) /\ Items(<<>>) = {}
    BY DEF Increases, Items
  <2>6. /\ mListPackets = <<>> /\ Listed = {} /\ packet = 0 /\ held = {}
        /\ handed.packet = 0 /\ handed.frame = 0 /\ (~external => decoder = "null")
    BY <2>5 DEF Software!Init, Listed
  <2> QED
    BY <2>1, <2>3, <2>4, <2>5, <2>6 DEF Matched
<1>2. Inv /\ [BNext]_<<dvars, build, orderly, handed>> => Inv'
  <2> SUFFICES ASSUME Inv, [BNext]_<<dvars, build, orderly, handed>>, build' = "software"
               PROVE  Protocol' /\ Matched'
    OBVIOUS
  <2>1. build = "software"
    BY DEF BNext
  <2>2. [Software!Next]_Software!vars
    BY <2>1 DEF BNext, dvars, vars, flags, stream, call, codec, pairing, Software!vars,
      Software!demuxer, Software!codec, Software!pairing
  <2> QED
    BY <2>1, <2>2, SoftwareSteps, ProtocolNext, MatchedNext
<1>3. Inv => SoftwareFramesPaired
  <2> SUFFICES ASSUME Matched PROVE Software!FramesPaired
    BY DEF SoftwareFramesPaired
  <2>1. Software!TypeOK /\ (handed.orderly => handed.packet = handed.frame)
    BY DEF Matched
  <2>2. mListPackets \in Seq(Packets) /\ handed.packet \in Nat /\ Packets \subseteq Nat
    BY <2>1, DecoderAssumption DEF Software!TypeOK, Software!Packets, Packets
  <2> DEFINE all == <<handed.packet>> \o mListPackets
  <2>3. /\ Len(all) = Len(mListPackets) + 1 /\ Len(mListPackets) \in Nat /\ all[1] = handed.packet
        /\ \A i \in 1 .. Len(mListPackets) : all[i + 1] = mListPackets[i]
    BY <2>2
  <2> HIDE DEF all
  <2>4. ASSUME NEW i \in 1 .. Len(all), NEW j \in 1 .. Len(all), i < j PROVE all[i] < all[j]
    <3>1. j - 1 \in 1 .. Len(mListPackets) /\ all[j] = mListPackets[j - 1]
      <4>1. j - 1 \in 1 .. Len(mListPackets) /\ j - 1 + 1 = j
        BY <2>3, <2>4
      <4> QED
        BY <2>3, <4>1
    <3>2. CASE i = 1
      BY <2>3, <3>1, <3>2 DEF Matched, Listed, Items
    <3>3. CASE i # 1
      <4>1. i - 1 \in 1 .. Len(mListPackets) /\ i - 1 + 1 = i /\ i - 1 < j - 1
        BY <2>3, <2>4, <3>3
      <4>2. all[i] = mListPackets[i - 1]
        BY <2>3, <4>1
      <4> QED
        BY <3>1, <4>1, <4>2 DEF Matched, Increases
    <3> QED
      BY <3>2, <3>3
  <2> QED
    BY <2>1, <2>4 DEF Software!FramesPaired, all
<1> QED
  BY <1>1, <1>2, <1>3, PTL DEF BSpec
=============================================================================
