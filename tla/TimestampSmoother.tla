------------------------- MODULE TimestampSmoother -------------------------
(***************************************************************************)
(* otl::TimestampSmoother (timestamp_smoother.h): the timestamps of the    *)
(* packets of one stream, which may repeat, jump, start again or be        *)
(* missing, are turned into increasing ones that start at 0. The outputs   *)
(* pts and dts are always equal. Timestamps are integers without a width;  *)
(* the smoothing factor is a fraction and the product is cut off like the  *)
(* cast to int64_t does.                                                   *)
(***************************************************************************)
EXTENDS Integers, Sequences

CONSTANTS
    Pts,             \* the timestamps of packets that have one
    NoPts,           \* AV_NOPTS_VALUE
    MaxJump,         \* m_maxJumpThreshold
    MinIncrement,    \* m_minIncrement
    Weight, Whole,   \* m_smoothingFactor is Weight / Whole
    MaxHistory,      \* MAX_HISTORY_SIZE
    MaxPackets       \* bound: the packets between two resets

(* setSmoothingParameters checks the factor and not the other two. A       *)
(* minimum of 0 would let a timestamp repeat.                              *)
ASSUME SmootherAssumption ==
    /\ Pts \subseteq Int
    /\ NoPts \in Int /\ NoPts < 0 /\ NoPts \notin Pts
    /\ MaxJump \in Nat
    /\ MinIncrement \in Nat \ {0}
    /\ Whole \in Nat \ {0} /\ Weight \in 1 .. Whole
    /\ MaxHistory \in Nat \ {0}
    /\ MaxPackets \in Nat

VARIABLES
    history,    \* m_timestampHistory: the last outputs, oldest first
    lastOut,    \* m_lastOutputPts, and m_lastOutputDts
    base,       \* m_baseTimestamp
    offset,     \* m_timestampOffset
    total,      \* m_totalPackets
    corrected,  \* m_correctedPackets
    lastIn,     \* the timestamp of the last packet
    regular     \* the inputs so far start at 0 and go up by at most MaxJump

vars == <<history, lastOut, base, offset, total, corrected, lastIn, regular>>

Init ==
    /\ history = <<>>
    /\ lastOut = NoPts /\ base = NoPts /\ offset = 0
    /\ total = 0 /\ corrected = 0
    /\ lastIn = NoPts /\ regular = TRUE

Recent == IF history = <<>> THEN base ELSE history[Len(history)]

(* detectTimestampWrap                                                     *)
Wrapped(pts) ==
    LET diff == pts - Recent
    IN Recent # NoPts /\ (diff < -MaxJump \/ diff > 2 * MaxJump)

Most(a, b) == IF a > b THEN a ELSE b

(* The average of the increments in the history, whose sum is the way from *)
(* its first entry to its last.                                            *)
AverageIncrement ==
    IF Len(history) >= 2
    THEN (history[Len(history)] - history[1]) \div (Len(history) - 1)
    ELSE MinIncrement

(* calculateSmoothIncrement                                                *)
SmoothIncrement(raw) ==
    IF history = <<>> THEN Most(raw, MinIncrement)
    ELSE Most((Weight * raw + (Whole - Weight) * AverageIncrement) \div Whole,
              MinIncrement)

(* updateHistory                                                           *)
Remembered(pts) ==
    LET longer == Append(history, pts)
    IN IF Len(longer) > MaxHistory THEN Tail(longer) ELSE longer

Output(pts) ==
    /\ lastOut' = pts
    /\ history' = Remembered(pts)

(* A packet without a timestamp gets one.                                  *)
Invent ==
    /\ total < MaxPackets
    /\ IF lastOut = NoPts
       THEN Output(0) /\ base' = 0
       ELSE Output(lastOut + MinIncrement) /\ base' = base
    /\ total' = total + 1
    /\ corrected' = corrected + 1
    /\ lastIn' = NoPts /\ regular' = FALSE
    /\ offset' = offset

(* The first timestamp is the base of those that follow.                   *)
First(pts) ==
    /\ total < MaxPackets /\ base = NoPts
    /\ base' = pts /\ offset' = 0
    /\ Output(0)
    /\ total' = total + 1
    /\ lastIn' = pts /\ regular' = (regular /\ pts = 0)
    /\ corrected' = corrected

(* What is left of a timestamp once it is taken from the base, and the     *)
(* offset put back.                                                        *)
NewBase(pts) == IF Wrapped(pts) THEN pts ELSE base
NewOffset(pts) == IF Wrapped(pts) THEN offset + lastOut + MinIncrement ELSE offset
Relative(pts) == pts - NewBase(pts) + NewOffset(pts)

(* Definitions marked "Variant" are what a plausible slip would make of the *)
(* definition after them; no specification uses one. Variant: an input     *)
(* equal to the last output is let through.                                *)
Increasing_Equal(pts) ==
    LET raw == Relative(pts) - lastOut
    IN IF raw < 0 THEN lastOut + MinIncrement
       ELSE IF raw > MaxJump THEN lastOut + SmoothIncrement(raw)
       ELSE Relative(pts)

(* Variant: every increment is smoothed.                                   *)
Increasing_SmoothsAll(pts) ==
    LET raw == Relative(pts) - lastOut
    IN IF raw <= 0 THEN lastOut + MinIncrement ELSE lastOut + SmoothIncrement(raw)

(* The output: one minimal increment on when the input does not advance,   *)
(* a smoothed one when it advances too much.                               *)
Increasing(pts) ==
    LET raw == Relative(pts) - lastOut
    IN IF raw <= 0 THEN lastOut + MinIncrement
       ELSE IF raw > MaxJump THEN lastOut + SmoothIncrement(raw)
       ELSE Relative(pts)

(* A packet may count as corrected twice: for the wrap and for its output. *)
Corrections(pts) ==
    LET raw == Relative(pts) - lastOut
    IN (IF Wrapped(pts) THEN 1 ELSE 0) + (IF raw <= 0 \/ raw > MaxJump THEN 1 ELSE 0)

Follow(pts) ==
    /\ total < MaxPackets /\ base # NoPts
    /\ base' = NewBase(pts) /\ offset' = NewOffset(pts)
    /\ Output(Increasing(pts))
    /\ total' = total + 1
    /\ corrected' = corrected + Corrections(pts)
    /\ lastIn' = pts
    /\ regular' = (regular /\ pts - lastIn \in 1 .. MaxJump)

(* reset(), before a new stream                                            *)
Reset ==
    /\ history' = <<>>
    /\ lastOut' = NoPts /\ base' = NoPts /\ offset' = 0
    /\ total' = 0 /\ corrected' = 0
    /\ lastIn' = NoPts /\ regular' = TRUE

Next ==
    \/ Invent
    \/ \E pts \in Pts : First(pts) \/ Follow(pts)
    \/ Reset

Spec == Init /\ [][Next]_vars
-----------------------------------------------------------------------------
TypeOK ==
    /\ history \in Seq(Nat) /\ Len(history) <= MaxHistory
    /\ lastOut \in Nat \cup {NoPts}
    /\ base \in Pts \cup {0, NoPts}
    /\ offset \in Nat
    /\ total \in Nat /\ corrected \in Nat
    /\ lastIn \in Pts \cup {NoPts}
    /\ regular \in BOOLEAN

(* The history is that of the outputs: increasing, and up to the last one. *)
HistoryIncreases ==
    /\ \A i, j \in 1 .. Len(history) : i < j => history[i] < history[j]
    /\ base = NoPts <=> lastOut = NoPts
    /\ lastOut = NoPts <=> history = <<>>
    /\ history # <<>> => history[Len(history)] = lastOut

(* Whatever the packets bring, each output is later than the one before    *)
(* it, until the next reset: what the muxer asks of a stream.              *)
StrictlyIncreasing ==
    [][lastOut # NoPts /\ lastOut' # NoPts => lastOut' > lastOut]_vars

(* A stream that starts at 0 and advances regularly is left as it is.      *)
RegularUnchanged == regular => lastOut = lastIn /\ corrected = 0

(* What detectTimestampWrap is for, "to detect a great jump of the         *)
(* timestamps, perhaps a file that starts again": the base moves only when *)
(* the timestamps of two successive packets are far apart.                 *)
OnlyJumpsRebase ==
    [][\A pts \in Pts :
        Follow(pts) /\ lastIn # NoPts /\ pts - lastIn \in 0 .. MaxJump => base' = base]_vars
=============================================================================
