----------------------------- MODULE SeiMessage -----------------------------
(***************************************************************************)
(* stream_sei.cpp: user data in packets of H.264 and H.265 video. A packet *)
(* is a sequence of units, in Annex B behind start codes, in AVCC behind   *)
(* their lengths. A unit with user data is written in front of others and  *)
(* searched for in a packet whose form the reader has to guess. What this  *)
(* module leaves out is the reader's buffer, which is large enough.        *)
(***************************************************************************)
EXTENDS Naturals, Sequences, FiniteSetsExt

CONSTANTS
    Uuid,           \* uuid: the bytes that mark the user data as ours
    Contents,       \* the user data written
    Units,          \* the other units: for each codec a set of byte sequences
    Codecs,         \* "h264" and "h265"
    MaxUnits        \* bound: the units of a packet

Byte == 0 .. 255

(* Units as the standards have them: no start code inside and no zero at   *)
(* the end.                                                                *)
Standard(unit) ==
    /\ unit \in Seq(Byte) /\ unit # <<>> /\ unit[Len(unit)] # 0
    /\ \A i \in 3 .. Len(unit) : <<unit[i - 2], unit[i - 1], unit[i]>> # <<0, 0, 1>>

(* What is behind the header of one, if anything is, is no user data, or   *)
(* too few, or those of others.                                            *)
NotOurs(unit, header) ==
    /\ header <= Len(unit)
    /\ header < Len(unit) /\ unit[header + 1] = 5 =>
         \E size \in header + 2 .. Len(unit) :
            /\ \A i \in header + 2 .. size - 1 : unit[i] = 255
            /\ unit[size] # 255
            /\ \/ 255 * (size - header - 2) + unit[size] < Len(Uuid)
               \/ \E k \in 1 .. Len(Uuid) : size + k <= Len(unit) /\ unit[size + k] # Uuid[k]

(* What is written is short enough for its length to be an int.            *)
Short(s) == Len(s) < 1073741824

SeiAssumption ==
    /\ Uuid \in Seq(Byte) /\ Uuid # <<>>
    /\ \A c \in Contents : c \in Seq(Byte) /\ Short(c)
    /\ Codecs \subseteq {"h264", "h265"}
    /\ \A c \in Codecs : \A unit \in Units[c] :
         /\ Standard(unit) /\ Short(unit)
         /\ c = "h264" /\ unit[1] % 32 = 6 => NotOurs(unit, 1)
         /\ c = "h265" => NotOurs(unit, 2)
    /\ MaxUnits \in Nat

VARIABLES
    codec, isAnnexb,    \* how the packet is written
    units,              \* the units put into the packet
    packet,             \* its bytes
    found               \* what the reader made of it

vars == <<codec, isAnnexb, units, packet, found>>

(* Two sequences that are no bytes: the reader's -1, and a packet not read.*)
Nothing == <<256>>
Unread == <<257>>
-----------------------------------------------------------------------------
(* The size of the payload is written in bytes of 255 and a last one less. *)
PayloadSize(n) == [i \in 1 .. n \div 255 + 1 |-> IF i <= n \div 255 THEN 255 ELSE n % 255]

(* The unit: its header, the type of the payload (5), the payload's size,  *)
(* the payload, a stop bit. 6 is the type of H.264's unit, 39 H.265's.     *)
Header == IF codec = "h264" THEN <<6>> ELSE <<39 * 2, 1>>
SeiUnit(content) ==
    Header \o <<5>> \o PayloadSize(Len(Uuid \o content)) \o Uuid \o content \o <<128>>

(* h264SeiCalcNaluSize, which is what a caller allocates for H.264.        *)
CalcNaluSize(size) == 1 + 1 + (size + Len(Uuid)) \div 255 + 1 + size + Len(Uuid) + 1

(* Four bytes, the highest first (reverseBytes).                           *)
BigEndian(n) ==
    LET m == n \div 256
        l == m \div 256
    IN <<l \div 256, l % 256, m % 256, n % 256>>
Value(bytes) == ((bytes[1] * 256 + bytes[2]) * 256 + bytes[3]) * 256 + bytes[4]

(* h264SeiPacketWrite and h265SeiPacketWrite begin with a start code of     *)
(* four bytes; those of other units may have three.                        *)
StartCodes == {<<0, 0, 1>>, <<0, 0, 0, 1>>}
Written(content) ==
    (IF isAnnexb THEN <<0, 0, 0, 1>> ELSE BigEndian(Len(SeiUnit(content)))) \o SeiUnit(content)
-----------------------------------------------------------------------------
(* The byte at an offset, which counts from 0; behind the packet FFmpeg    *)
(* keeps zeros.                                                            *)
At(i) == IF i < Len(packet) THEN packet[i + 1] ELSE 0
Starts(i, bytes) == \A k \in 1 .. Len(bytes) : At(i + k - 1) = bytes[k]

(* A number in bytes of 255 and a last one less: where it ends and what it *)
(* is. The zeros behind the packet end it at the latest.                   *)
LastByte(i) == CHOOSE j \in i .. Len(packet) + 1 :
                    At(j) # 255 /\ \A k \in i .. j - 1 : At(k) = 255
Number(i) == 255 * (LastByte(i) - i) + At(LastByte(i))

(* Definitions marked "Variant" are what a plausible slip would make of the *)
(* definition after them; no specification uses one. Variant: the user     *)
(* data of others are taken for ours.                                      *)
GetSeiBuffer_AnyUuid(i, end) ==
    LET size == LastByte(i) + 1
        from == LastByte(size) + 1
        to == from + Number(size)
    IN IF Number(i) = 5 /\ Number(size) >= Len(Uuid) /\ to <= end
       THEN SubSeq(packet, from + Len(Uuid) + 1, to)
       ELSE Nothing

(* getSeiBuffer: the user data of the payload at an offset that ends before *)
(* another one.                                                            *)
GetSeiBuffer(i, end) ==
    LET size == LastByte(i) + 1             \* where the size is written
        from == LastByte(size) + 1          \* where the payload starts
        to == from + Number(size)
    IN IF Number(i) = 5 /\ Number(size) >= Len(Uuid) /\ to <= end /\ Starts(from, Uuid)
       THEN SubSeq(packet, from + Len(Uuid) + 1, to)
       ELSE Nothing

(* A start code at an offset, with more than four bytes to go: its length. *)
StartCode(i) ==
    IF Len(packet) - i <= 4 THEN 0
    ELSE IF Starts(i, <<0, 0, 1>>) THEN 3
    ELSE IF Starts(i, <<0, 0, 0, 1>>) THEN 4 ELSE 0

(* The guess: AVCC if the packet does not begin like Annex B.              *)
LooksAnnexb ==
    \/ Len(packet) > 3 /\ Starts(0, <<0, 0, 1>>)
    \/ Len(packet) > 4 /\ Starts(0, <<0, 0, 0, 1>>)

(* h264SeiPacketRead: from start code to start code. User data that are    *)
(* empty do not count, and the search goes on.                             *)
H264Accepts(content) == content \notin {Nothing, <<>>}

H264AnnexbRead ==
    LET codes == {i \in 0 .. Len(packet) - 1 : StartCode(i) # 0}
        f[i \in Nat] ==    \* what is found from offset i on
            LET rest == {j \in codes : j >= i}
                unit == Min(rest) + StartCode(Min(rest))
                content == GetSeiBuffer(unit + 1, Len(packet))
            IN IF rest = {} THEN Nothing
               ELSE IF At(unit) = 6 /\ H264Accepts(content) THEN content
               ELSE f[unit + 1]
    IN f[0]

(* h265SeiPacketRead looks at each unit, whatever its type, and passes over *)
(* two bytes of its header; where two zeros do not begin a start code it   *)
(* passes over four bytes.                                                 *)
H265AnnexbRead ==
    LET zeros == {i \in 0 .. Len(packet) - 5 : Starts(i, <<0, 0>>)}
        f[i \in Nat] ==
            LET rest == {j \in zeros : j >= i}
                code == StartCode(Min(rest))
                unit == Min(rest) + code + 2
                content == GetSeiBuffer(unit, Len(packet))
            IN IF rest = {} THEN Nothing
               ELSE IF code = 0 THEN f[Min(rest) + 4]
               ELSE IF unit < Len(packet) /\ content # Nothing THEN content
               ELSE f[unit]
    IN f[0]

(* AVCC: from unit to unit by their lengths, until one does not fit.       *)
IsSei(i) == IF codec = "h264" THEN At(i) % 32 = 6
                              ELSE (At(i) \div 2) % 64 \in {39, 40}
Accepted(content) == IF codec = "h264" THEN H264Accepts(content) ELSE content # Nothing

AvccRead ==
    LET f[i \in Nat] ==
            LET unit == i + 4
                end == unit + Value([k \in 1 .. 4 |-> At(i + k - 1)])
                payload == unit + Len(Header)
                content == GetSeiBuffer(payload, end)
            IN IF unit > Len(packet) \/ end > Len(packet) THEN Nothing
               ELSE IF payload <= end /\ IsSei(unit) /\ Accepted(content) THEN content
               ELSE f[end]
    IN f[0]

Read ==
    IF ~LooksAnnexb THEN AvccRead
    ELSE IF codec = "h264" THEN H264AnnexbRead ELSE H265AnnexbRead
-----------------------------------------------------------------------------
(* A packet is put together unit by unit, and read.                        *)
Init ==
    /\ codec \in Codecs /\ isAnnexb \in BOOLEAN
    /\ units = <<>> /\ packet = <<>>
    /\ found = Unread

Put(length, content, bytes) ==
    /\ found = Unread /\ Len(units) < MaxUnits
    /\ units' = Append(units, [length |-> length, content |-> content])
    /\ packet' = packet \o bytes
    /\ UNCHANGED <<codec, isAnnexb, found>>

PutSei ==
    \E content \in Contents : Put(Len(SeiUnit(content)), content, Written(content))

PutUnit ==
    \E unit \in Units[codec] :
        \E prefix \in IF isAnnexb THEN StartCodes ELSE {BigEndian(Len(unit))} :
            Put(Len(unit), Nothing, prefix \o unit)

ReadPacket ==
    /\ found = Unread /\ units # <<>>
    /\ found' = Read
    /\ UNCHANGED <<codec, isAnnexb, units, packet>>

Next == PutSei \/ PutUnit \/ ReadPacket

Spec == Init /\ [][Next]_vars
-----------------------------------------------------------------------------
(* The user data a reader should find: the first there are.                *)
Wanted ==
    LET sei == {i \in 1 .. Len(units) : Accepted(units[i].content)}
    IN IF sei = {} THEN Nothing ELSE units[Min(sei)].content

(* A first unit of such a length makes a packet in AVCC begin like Annex B.*)
Ambiguous == ~isAnnexb /\ units[1].length \in {1} \cup 256 .. 511

TypeOK ==
    /\ codec \in Codecs /\ isAnnexb \in BOOLEAN
    /\ Len(units) <= MaxUnits
    /\ packet \in Seq(Byte)
    /\ found \in {Unread, Nothing} \cup Seq(Byte)

(* The reader finds the first user data of a packet, whatever their length *)
(* and the units around them, in either codec and form, unless the packet  *)
(* is in AVCC and its first unit of an unlucky length; and the size that a *)
(* caller allocates is that of what is written.                            *)
FirstFound ==
    /\ TypeOK
    /\ found # Unread /\ ~Ambiguous => found = Wanted
    /\ \A c \in Contents :
        codec = "h264" => Len(SeiUnit(c)) = CalcNaluSize(Len(c))
=============================================================================
