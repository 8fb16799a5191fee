---------------------------- MODULE PacketStream ----------------------------
(***************************************************************************)
(* What otl::FfmpegOutputer (stream_pusher.h) promises to those who hand   *)
(* it packets: they are numbered as they come in, wait, and are written in *)
(* that order. Packets may be lost while the stream is being closed, and   *)
(* at no other time; those that still wait when the close returns are.     *)
(***************************************************************************)
EXTENDS Integers, Sequences, SequencesExt

CONSTANT MaxPackets     \* bound: the packets handed over

VARIABLES
    input,      \* how many packets were handed over
    waiting,    \* those that were neither written nor lost
    written,
    lost,
    closing     \* the owner is closing the stream

Init ==
    /\ input = 0 /\ waiting = <<>> /\ written = <<>> /\ lost = {}
    /\ closing = FALSE

Accept ==
    /\ input < MaxPackets
    /\ input' = input + 1
    /\ waiting' = Append(waiting, input + 1)
    /\ UNCHANGED <<written, lost, closing>>

Refuse ==
    /\ closing /\ input < MaxPackets
    /\ input' = input + 1
    /\ lost' = lost \cup {input + 1}
    /\ UNCHANGED <<waiting, written, closing>>

Write ==
    /\ waiting # <<>>
    /\ written' = Append(written, Head(waiting))
    /\ waiting' = Tail(waiting)
    /\ UNCHANGED <<input, lost, closing>>

Lose ==
    /\ closing /\ waiting # <<>>
    /\ lost' = lost \cup {Head(waiting)}
    /\ waiting' = Tail(waiting)
    /\ UNCHANGED <<input, written, closing>>

CloseBegin ==
    /\ ~closing
    /\ closing' = TRUE
    /\ UNCHANGED <<input, waiting, written, lost>>

CloseEnd ==
    /\ closing
    /\ closing' = FALSE
    /\ lost' = lost \cup ToSet(waiting)
    /\ waiting' = <<>>
    /\ UNCHANGED <<input, written>>

Next == Accept \/ Refuse \/ Write \/ Lose \/ CloseBegin \/ CloseEnd

Spec == Init /\ [][Next]_<<input, waiting, written, lost, closing>>
=============================================================================
