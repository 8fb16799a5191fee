-------------------------- MODULE MCStreamDecoder --------------------------
(* The two decoders for TLC, of which the build takes one: both observe the *)
(* same demuxer and keep their packets in the same way.                    *)
EXTENDS StreamDecoder

VARIABLES build, orderly, handed

Software == INSTANCE SoftwareDecoder WITH out <- handed

BInit ==
    \/ /\ build = "hardware" /\ DInit
       /\ orderly = TRUE /\ handed = out
    \/ /\ build = "software" /\ Software!Init
       /\ mEnableFilter = FALSE /\ mFilterInited = FALSE /\ mFilterGraph = FALSE
       /\ out = [packet |-> Blank, frame |-> Blank] /\ exact = TRUE

BNext ==
    \/ build = "hardware" /\ DNext /\ UNCHANGED <<build, orderly, handed>>
    \/ build = "software" /\ Software!Next /\ UNCHANGED <<build, filter, out, exact>>

BSpec == BInit /\ [][BNext]_<<dvars, build, orderly, handed>>

(* What SoftwareDecoder says of its frames.                                *)
SoftwareFramesPaired == build = "software" => Software!FramesPaired
=============================================================================
