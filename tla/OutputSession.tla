--------------------------- MODULE OutputSession ---------------------------
(***************************************************************************)
(* otl::FfmpegOutputer with its TimestampSmoother (stream_pusher.h): an    *)
(* opening resets the smoother, the output thread gives each packet its    *)
(* timestamp before it is written, and the parameters of the smoother may  *)
(* be changed at any time, one field after the other and without a lock.   *)
(* A packet is smoothed with the parameters of one moment.                 *)
(***************************************************************************)
EXTENDS FfmpegOutputer

CONSTANTS
    Presets,    \* the sets of parameters that may be asked for
    Whole,      \* of which a weight is a part
    MaxHistory, \* MAX_HISTORY_SIZE
    Pts, NoPts  \* the timestamps of packets, and that of those without

ASSUME SessionAssumption ==
    /\ Whole \in Nat \ {0} /\ MaxHistory \in Nat \ {0}
    /\ Presets \subseteq [weight : 1 .. Whole, maxJump : Nat, minIncrement : Nat \ {0}]
    /\ Pts \subseteq Int /\ NoPts \in Int /\ NoPts < 0 /\ NoPts \notin Pts

VARIABLES
    history, lastOut, base, offset, total, corrected, lastIn, regular,
    params,     \* m_smoothingFactor, m_maxJumpThreshold and m_minIncrement
    stamps      \* of each packet written, the session and the timestamp

smoothing == <<history, lastOut, base, offset, total, corrected, lastIn, regular>>
svars == <<vars, smoothing, params, stamps>>

(* Every mixture of presets, and the smoother with the parameters p.       *)
Mixtures ==
    [weight : {p.weight : p \in Presets}, maxJump : {p.maxJump : p \in Presets},
     minIncrement : {p.minIncrement : p \in Presets}]

Smoother(p) == INSTANCE TimestampSmoother WITH
    MaxJump <- p.maxJump, MinIncrement <- p.minIncrement, Weight <- p.weight

SInit ==
    /\ Init
    /\ params \in Presets
    /\ \E p \in Mixtures : p = params /\ Smoother(p)!Init
    /\ stamps = <<>>

(* One of the three assignments of setSmoothingParameters.                 *)
SetParameter ==
    /\ \E p \in Presets : \E field \in DOMAIN p :
          params' = [params EXCEPT ![field] = p[field]]
    /\ UNCHANGED <<vars, smoothing, stamps>>

(* Definitions marked "Variant" are what a plausible slip would make of the *)
(* definition after them; no specification uses one. Variant: only the     *)
(* first opening finds a new smoother.                                     *)
OpenStream_NoReset ==
    /\ OpenFails \/ Open
    /\ UNCHANGED <<smoothing, params, stamps>>

(* Both ways to open reset the smoother before anything can fail but that  *)
(* openOutputStreamWithCodec is given no codec parameters.                 *)
OpenStream ==
    /\ OpenFails \/ Open
    /\ \/ \E p \in Mixtures : p = params /\ Smoother(p)!Reset
       \/ OpenFails /\ ctx' = ctx /\ UNCHANGED smoothing
    /\ UNCHANGED <<params, stamps>>

(* outputService gives a packet its timestamp and writes it.               *)
WriteSmoothed ==
    /\ WritePacket
    /\ \E p \in Mixtures :
          /\ p = params
          /\ \/ Smoother(p)!Invent
             \/ \E pts \in Pts : Smoother(p)!First(pts) \/ Smoother(p)!Follow(pts)
    /\ stamps' = Append(stamps, [session |-> opened, pts |-> lastOut'])
    /\ params' = params

(* What does not touch the smoother.                                       *)
Untimed ==
    /\ InputPacket \/ CloseBegin \/ CloseStep \/ OutputBesideWriting
    /\ UNCHANGED <<smoothing, params, stamps>>

SNext == SetParameter \/ OpenStream \/ WriteSmoothed \/ Untimed

SSpec == SInit /\ [][SNext]_svars

(* As in FfmpegOutputer; nobody has to set a parameter.                    *)
FairSSpec ==
    /\ SSpec
    /\ WF_svars(WriteSmoothed \/ (OutputBesideWriting /\ UNCHANGED <<smoothing, params, stamps>>))
    /\ WF_svars(CloseStep /\ UNCHANGED <<smoothing, params, stamps>>)
-----------------------------------------------------------------------------
(* The timestamps of each session start at 0 and increase, although the    *)
(* packets of a session may have been handed over before it was opened,    *)
(* the parameters change while the thread uses them, and an opening may    *)
(* fail: what the muxer of a stream, which is new for each session, needs. *)
SessionsTimed ==
    /\ TypeOK
    /\ Len(stamps) = Len(written)
    /\ \A i \in 1 .. Len(stamps) :
          IF i > 1 /\ stamps[i - 1].session = stamps[i].session
          THEN stamps[i - 1].pts < stamps[i].pts
          ELSE stamps[i].pts = 0
=============================================================================
