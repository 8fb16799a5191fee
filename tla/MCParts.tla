------------------------------ MODULE MCParts ------------------------------
(* The parts whose operations are short and need no instance of their own, *)
(* for TLC: the smoother, the encoder, the user data, the byte buffer and  *)
(* the StatTool. A behaviour is about one of them, and leaves the          *)
(* variables of the others, which are 0, alone.                            *)
EXTENDS MCTimestampSmoother, FiniteSets

CONSTANTS
    Apis, MaxFrames, MaxRequests,
    Contents, Units, MaxUnits,
    Kinds, FirstCap, MaxBytes, MaxBoxes, Careful,
    mTotalLayers, Second, Amounts, Start, MaxTime, MaxCount

VARIABLES
    part,
    mCtx, mForceIdr, mFrameCount, call, fate, draining, frames, asked, served, wants,
    codec, isAnnexb, units, packet, found,
    buf, pushed, held, got, due, sent, m_bboxes,
    mLayers, mCurrentIndex, mRecordCount, mStatisCount, mStatisUpdateLastTime,
    now, counted, records

encoder == <<mCtx, mForceIdr, mFrameCount, call, fate, draining, frames, asked, served, wants>>
sei == <<codec, isAnnexb, units, packet, found>>
buffer == <<buf, pushed, held, got, due, sent, m_bboxes>>
stat == <<mLayers, mCurrentIndex, mRecordCount, mStatisCount, mStatisUpdateLastTime,
          now, counted, records>>
-----------------------------------------------------------------------------
(* The UUID is that of the code. The user data and units are as long as    *)
(* the cases ask for: payloads of 254, 255 and 510 bytes, units just below *)
(* and above 256 bytes. The other units are the user data of others, a     *)
(* slice, what ends with zeros, and the end of a sequence, which is a      *)
(* header alone.                                                           *)
OurUuid == <<84, 128, 131, 151, 240, 35, 71, 75, 183, 247, 79, 50, 181, 78, 6, 172>>

Bytes(n) == [i \in 1 .. n |-> IF i \in {1, 2, 5, 6} THEN 0 ELSE 6]
SomeContents == {<<>>} \cup {Bytes(n) : n \in {1, 4, 238, 239, 494}}

Foreign(header) == header \o <<5, 17>> \o [i \in 1 .. 17 |-> i] \o <<128>>
SomeUnits == [h264 |-> {Foreign(<<6>>), <<65, 6, 5, 0, 3>>, <<1>>, <<103, 0, 0, 3>>},
              h265 |-> {Foreign(<<78, 1>>), <<2, 1, 5, 0, 3>>, <<64, 1, 0, 0, 3>>, <<72, 1>>}]

Encoder == INSTANCE StreamEncoder
Sei == INSTANCE SeiMessage WITH
    Uuid <- OurUuid, Codecs <- {"h264", "h265"}
Buffer == INSTANCE ByteBuffer
Stat == INSTANCE StatTool WITH total <- counted

ASSUME PartsAssumption ==
    /\ Encoder!EncoderAssumption /\ Sei!SeiAssumption
    /\ Buffer!ByteBufferAssumption /\ Stat!StatAssumption
-----------------------------------------------------------------------------
(* The smoother's own variables begin as in a new object in any case.      *)
PartsInit ==
    /\ part \in {"smoother", "encoder", "sei", "buffer", "stat"}
    /\ Init
    /\ IF part = "encoder" THEN Encoder!Init
       ELSE /\ mCtx = 0 /\ mForceIdr = 0 /\ mFrameCount = 0 /\ call = 0 /\ fate = 0
            /\ draining = 0 /\ frames = 0 /\ asked = 0 /\ served = 0 /\ wants = 0
    /\ IF part = "sei" THEN Sei!Init
       ELSE codec = 0 /\ isAnnexb = 0 /\ units = 0 /\ packet = 0 /\ found = 0
    /\ IF part = "buffer" THEN Buffer!Init
       ELSE /\ buf = 0 /\ pushed = 0 /\ held = 0 /\ got = 0 /\ due = 0
            /\ sent = 0 /\ m_bboxes = 0
    /\ IF part = "stat" THEN Stat!Init
       ELSE /\ mLayers = 0 /\ mCurrentIndex = 0 /\ mRecordCount = 0 /\ mStatisCount = 0
            /\ mStatisUpdateLastTime = 0 /\ now = 0 /\ counted = 0 /\ records = 0

PartsNext ==
    /\ part' = part
    /\ \/ part = "smoother" /\ Next /\ UNCHANGED <<encoder, sei, buffer, stat>>
       \/ part = "encoder" /\ Encoder!Next /\ UNCHANGED <<vars, sei, buffer, stat>>
       \/ part = "sei" /\ Sei!Next /\ UNCHANGED <<vars, encoder, buffer, stat>>
       \/ part = "buffer" /\ Buffer!Next /\ UNCHANGED <<vars, encoder, sei, stat>>
       \/ part = "stat" /\ Stat!Next /\ UNCHANGED <<vars, encoder, sei, buffer>>

PartsSpec == PartsInit /\ [][PartsNext]_<<part, vars, encoder, sei, buffer, stat>>
-----------------------------------------------------------------------------
(* The properties of the parts, which their modules explain: the encoder   *)
(* loses no frame and no request for a key frame, user data are found,     *)
(* numbers come back, and the speed is that of the window of records.      *)
NothingLost == part = "encoder" => Encoder!NothingLost
FirstFound == part = "sei" => Sei!FirstFound
ValuesComeBack == part = "buffer" => Buffer!ValuesComeBack
SpeedOfWindow == part = "stat" => Stat!SpeedOfWindow
=============================================================================
