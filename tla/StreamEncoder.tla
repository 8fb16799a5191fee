--------------------------- MODULE StreamEncoder ---------------------------
(***************************************************************************)
(* otl::FfmpegStreamEncoder (stream_encoder.cpp): one thread initialises   *)
(* an encoder and hands it frames, and any other may ask for a key frame,  *)
(* through an atomic flag, while it does. There are two ways to encode: one *)
(* takes a single packet from the codec for each frame, the other all that *)
(* are ready. An encoder may be initialised again, which gives it a new    *)
(* context and forgets the old one.                                        *)
(*                                                                         *)
(* The codec is external: it holds frames back as it likes, and gives      *)
(* their packets out in any order. It may refuse a frame, but, as FFmpeg's *)
(* documentation has it, only while a packet is ready to be received.      *)
(* Which codec a name stands for, and its parameters, are left out.        *)
(***************************************************************************)
EXTENDS Naturals, FiniteSets

CONSTANTS
    Apis,           \* the ways to encode that are used: "one" packet, or "all"
    MaxFrames,      \* bound: the frames handed to encode
    MaxRequests     \* bound: the calls of requestKeyFrame

EncoderAssumption ==
    Apis \subseteq {"one", "all"} /\ MaxFrames \in Nat /\ MaxRequests \in Nat

Frames == 1 .. MaxFrames
Flushing == 0       \* the null frame

VARIABLES
    mCtx,           \* whether there is an open context
    mForceIdr,
    mFrameCount,
    call,           \* where encode is, with which frame, and which encode it is
    fate,           \* fate[f]: what became of the frame
    draining,       \* the codec was sent the null frame
    frames,         \* the frames handed to encode so far
    asked,          \* the calls of requestKeyFrame so far, the requests
    served,         \* those made before encode last looked for one
    wants           \* wants[f]: the requests the frame is made a key frame for

codec == <<fate, draining>>
requests == <<mForceIdr, asked, served>>
vars == <<mCtx, mFrameCount, call, codec, frames, requests, wants>>

Fated(what) == {f \in Frames : fate[f] = what}

Init ==
    /\ mCtx = FALSE
    /\ mForceIdr = FALSE /\ mFrameCount = 0
    /\ call = [at |-> "idle", frame |-> Flushing, api |-> "all"]
    /\ fate = [f \in Frames |-> "new"] /\ draining = FALSE
    /\ frames = 0 /\ asked = 0 /\ served = 0
    /\ wants = [f \in Frames |-> {}]
-----------------------------------------------------------------------------
(* init, once it has found a codec; otherwise it changes nothing that is   *)
(* looked at later. A context that was open, with all it holds, is         *)
(* forgotten before it is known whether the new one can be opened.         *)
Forgotten ==
    [f \in Frames |-> CASE fate[f] \in {"held", "ready"} -> "forgotten"
                        [] fate[f] = "out" -> "out before"
                        [] OTHER -> fate[f]]

InitFails ==
    /\ call.at = "idle"
    /\ mCtx' = FALSE
    /\ fate' = Forgotten /\ draining' = FALSE
    /\ UNCHANGED <<mFrameCount, call, frames, requests, wants>>

InitSucceeds ==
    /\ call.at = "idle"
    /\ mCtx' = TRUE /\ mFrameCount' = 0
    /\ fate' = Forgotten /\ draining' = FALSE
    /\ UNCHANGED <<call, frames, requests, wants>>

RequestKeyFrame ==
    /\ asked < MaxRequests
    /\ asked' = asked + 1
    /\ mForceIdr' = TRUE
    /\ UNCHANGED <<mCtx, mFrameCount, call, codec, frames, served, wants>>
-----------------------------------------------------------------------------
(* encode with a frame: a request is taken back and marks the frame ...    *)
TakeRequest ==
    /\ call.at = "idle" /\ mCtx /\ frames < MaxFrames
    /\ frames' = frames + 1
    /\ \E api \in Apis : call' = [at |-> "send", frame |-> frames + 1, api |-> api]
    /\ wants' = [wants EXCEPT ![frames + 1] = IF mForceIdr THEN served + 1 .. asked ELSE {}]
    /\ mForceIdr' = FALSE /\ served' = asked
    /\ UNCHANGED <<mCtx, mFrameCount, codec, asked>>

(* ... and without one, to flush.                                          *)
Flush ==
    /\ call.at = "idle" /\ mCtx
    /\ \E api \in Apis : call' = [at |-> "send", frame |-> Flushing, api |-> api]
    /\ UNCHANGED <<mCtx, mFrameCount, codec, frames, requests, wants>>

(* avcodec_send_frame. What the codec has made of its frames when it       *)
(* returns is ready to be received; once it drains, that is all of them.   *)
Accepts ==
    \E done \in SUBSET (Fated("held") \cup {call.frame}) :
        fate' = [f \in Frames |-> IF f \in done THEN "ready"
                                  ELSE IF f = call.frame THEN "held" ELSE fate[f]]

(* Definitions marked "Variant" are what a plausible slip would make of the *)
(* definition after them; no specification uses one. Variant: the request *)
(* is taken back once more when the frame has been sent.                   *)
SendFrame_ClearsAgain ==
    /\ call.at = "send" /\ call.frame # Flushing
    /\ ~draining /\ Accepts
    /\ mForceIdr' = FALSE
    /\ call' = [call EXCEPT !.at = "receive"]
    /\ UNCHANGED <<mCtx, mFrameCount, draining, frames, asked, served, wants>>

(* A codec that is full or drains does not take the frame, and encode goes *)
(* on as if it had.                                                        *)
SendFrame ==
    /\ call.at = "send" /\ call.frame # Flushing
    /\ \/ ~draining /\ Accepts
       \/ draining /\ fate' = [fate EXCEPT ![call.frame] = "late"]
       \/ ~draining /\ Fated("ready") # {} /\ fate' = [fate EXCEPT ![call.frame] = "refused"]
    /\ call' = [call EXCEPT !.at = "receive"]
    /\ UNCHANGED <<mCtx, mFrameCount, draining, frames, requests, wants>>

(* An error but those that say "full" and "ended" is returned.             *)
SendFails ==
    /\ call.at = "send" /\ call.frame # Flushing
    /\ fate' = [fate EXCEPT ![call.frame] = "failed"]
    /\ call' = [call EXCEPT !.at = "idle"]
    /\ UNCHANGED <<mCtx, mFrameCount, draining, frames, requests, wants>>

SendFlush ==
    /\ call.at = "send" /\ call.frame = Flushing
    /\ draining' = TRUE
    /\ fate' = [f \in Frames |-> IF fate[f] = "held" THEN "ready" ELSE fate[f]]
    /\ call' = [call EXCEPT !.at = "receive"]
    /\ UNCHANGED <<mCtx, mFrameCount, frames, requests, wants>>

(* avcodec_receive_packet, once or until nothing is left.                  *)
ReceivePacket ==
    /\ call.at = "receive"
    /\ \E f \in Fated("ready") : fate' = [fate EXCEPT ![f] = "out"]
    /\ mFrameCount' = mFrameCount + 1
    /\ call' = [call EXCEPT !.at = IF call.api = "one" THEN "idle" ELSE "receive"]
    /\ UNCHANGED <<mCtx, draining, frames, requests, wants>>

ReceiveNone ==
    /\ call.at = "receive" /\ Fated("ready") = {}
    /\ call' = [call EXCEPT !.at = "idle"]
    /\ UNCHANGED <<mCtx, mFrameCount, codec, frames, requests, wants>>

(* An error may cost frames the codec holds. A packet that is ready is     *)
(* given out before anything is tried that can fail.                       *)
ReceiveFails ==
    /\ call.at = "receive" /\ Fated("ready") = {}
    /\ \E bad \in SUBSET Fated("held") :
        fate' = [f \in Frames |-> IF f \in bad THEN "failed" ELSE fate[f]]
    /\ call' = [call EXCEPT !.at = "idle"]
    /\ UNCHANGED <<mCtx, mFrameCount, draining, frames, requests, wants>>

Next ==
    \/ InitFails \/ InitSucceeds \/ RequestKeyFrame
    \/ TakeRequest \/ Flush
    \/ SendFrame \/ SendFails \/ SendFlush
    \/ ReceivePacket \/ ReceiveNone \/ ReceiveFails

Spec == Init /\ [][Next]_vars
-----------------------------------------------------------------------------
TypeOK ==
    /\ mCtx \in BOOLEAN /\ mForceIdr \in BOOLEAN /\ mFrameCount \in Nat
    /\ call \in [at : {"idle", "send", "receive"}, frame : 0 .. MaxFrames, api : {"one", "all"}]
    /\ fate \in [Frames -> {"new", "held", "ready", "out", "out before", "refused",
                            "late", "failed", "forgotten"}]
    /\ draining \in BOOLEAN
    /\ frames \in 0 .. MaxFrames
    /\ asked \in 0 .. MaxRequests /\ served \in 0 .. asked
    /\ wants \in [Frames -> SUBSET (1 .. MaxRequests)]

(* A frame for which encode returned no error is in the codec or came out, *)
(* and is counted then, as long as all packets are taken every time, unless *)
(* the caller had flushed the encoder before or initialised it again since.*)
FramesKept ==
    /\ TypeOK
    /\ Fated("refused") = {}
    /\ mCtx => mFrameCount = Cardinality(Fated("out"))
    /\ \A f \in 1 .. frames :
        fate[f] = "new" => call.at = "send" /\ call.frame = f

(* Each request for a key frame, whenever it is made, waits for the next   *)
(* call of encode or has marked a frame that reached the codec; only a     *)
(* frame that came after a flush, or whose encode failed, takes it along.  *)
RequestsHonoured ==
    \A r \in 1 .. asked :
        \/ mForceIdr /\ r > served
        \/ \E f \in 1 .. frames : r \in wants[f] /\ fate[f] # "refused"

(* Neither is lost, however requests come between the steps of encode.     *)
NothingLost == FramesKept /\ RequestsHonoured
=============================================================================
