---------------------------- MODULE PartsProofs ----------------------------
(* Theorems about the parts that MCParts puts beside each other: the       *)
(* smoother, for any timestamps and any parameters with a positive minimal *)
(* increment; the encoder, for any number of frames and requests; the      *)
(* StatTool, for any ring, amounts and times; the byte buffer, for any     *)
(* numbers of bytes and boxes; and the user data, for any data, units and  *)
(* number of units. The recursive functions of the last two are reasoned   *)
(* about by induction over sets of numbers.                                *)
EXTENDS MCParts, FiniteSetTheorems, SequenceTheorems, WellFoundedInduction, TLAPS

(* The average and the smoothed increment are integers, and the latter is  *)
(* no less than the minimum.                                               *)
LEMMA IncrementMinimum ==
  ASSUME TypeOK, NEW raw \in Int
  PROVE SmoothIncrement(raw) \in Int /\ SmoothIncrement(raw) >= MinIncrement
<1> USE SmootherAssumption
<1>1. \A a \in Int : \A b \in Nat \ {0} : a \div b \in Int
  OBVIOUS
<1>2. Len(history) \in Nat
  BY LenProperties DEF TypeOK
<1>3. AverageIncrement \in Int
  <2>1. CASE Len(history) >= 2
    <3>1. 1 \in 1 .. Len(history) /\ Len(history) \in 1 .. Len(history)
      BY <1>2, <2>1
    <3>2. history[Len(history)] \in Nat /\ history[1] \in Nat
      BY <3>1, ElementOfSeq DEF TypeOK
    <3>3. history[Len(history)] - history[1] \in Int /\ Len(history) - 1 \in Nat \ {0}
      BY <1>2, <2>1, <3>2
    <3> QED
      BY <1>1, <2>1, <3>3 DEF AverageIncrement
  <2>2. CASE ~(Len(history) >= 2)
    BY <2>2 DEF AverageIncrement
  <2> QED
    BY <2>1, <2>2
<1>4. Weight * raw + (Whole - Weight) * AverageIncrement \in Int
  BY <1>3
<1>5. (Weight * raw + (Whole - Weight) * AverageIncrement) \div Whole \in Int
  BY <1>1, <1>4
<1> QED
  BY <1>5 DEF SmoothIncrement, Most

(* A packet that follows others is given a later output.                   *)
LEMMA LaterOutput ==
  ASSUME TypeOK, lastOut \in Nat, base # NoPts, NEW pts \in Pts
  PROVE /\ Relative(pts) \in Int
        /\ Increasing(pts) \in Nat
        /\ Increasing(pts) > lastOut
<1> USE SmootherAssumption
<1>1. NewBase(pts) \in Int /\ NewOffset(pts) \in Int
  BY DEF TypeOK, NewBase, NewOffset
<1>2. Relative(pts) \in Int
  BY <1>1 DEF Relative
<1>3. SmoothIncrement(Relative(pts) - lastOut) \in Int
      /\ SmoothIncrement(Relative(pts) - lastOut) >= MinIncrement
  BY <1>2, IncrementMinimum
<1> QED
  BY <1>2, <1>3 DEF Increasing

(* Remembering a later output keeps the history increasing, within its     *)
(* bound, and up to that output.                                           *)
LEMMA RememberedHistory ==
  ASSUME NEW h \in Seq(Nat), h = history, Len(h) <= MaxHistory, NEW pts \in Nat,
         \A i, j \in 1 .. Len(h) : i < j => h[i] < h[j],
         h # <<>> => h[Len(h)] < pts
  PROVE /\ Remembered(pts) \in Seq(Nat)
        /\ Len(Remembered(pts)) <= MaxHistory
        /\ Remembered(pts) # <<>>
        /\ Remembered(pts)[Len(Remembered(pts))] = pts
        /\ \A i, j \in 1 .. Len(Remembered(pts)) :
              i < j => Remembered(pts)[i] < Remembered(pts)[j]
<1> DEFINE a == Append(h, pts)
           t == Tail(a)
<1> USE SmootherAssumption
<1>1. /\ a \in Seq(Nat) /\ Len(a) = Len(h) + 1 /\ Len(h) \in Nat
      /\ \A i \in 1 .. Len(h) : a[i] = h[i]
      /\ a[Len(h) + 1] = pts
  BY AppendProperties, LenProperties
<1>2. \A i \in 1 .. Len(h) : h[i] \in Nat
  BY ElementOfSeq
<1>3. \A i \in 1 .. Len(h) : h[i] < pts
  <2> SUFFICES ASSUME NEW i \in 1 .. Len(h) PROVE h[i] < pts
    OBVIOUS
  <2>1. h # <<>> /\ Len(h) \in 1 .. Len(h)
    BY <1>1, EmptySeq
  <2>2. h[Len(h)] < pts /\ h[Len(h)] \in Nat /\ h[i] \in Nat
    BY <2>1, <1>2
  <2>3. i = Len(h) \/ h[i] < h[Len(h)]
    BY <1>1, <2>1
  <2> QED
    BY <2>2, <2>3
<1>4. \A i, j \in 1 .. Len(a) : i < j => a[i] < a[j]
  <2> SUFFICES ASSUME NEW i \in 1 .. Len(a), NEW j \in 1 .. Len(a), i < j
               PROVE a[i] < a[j]
    OBVIOUS
  <2>1. i \in 1 .. Len(h)
    BY <1>1
  <2>2. CASE j \in 1 .. Len(h)
    BY <1>1, <2>1, <2>2
  <2>3. CASE j = Len(h) + 1
    BY <1>1, <1>3, <2>1, <2>3
  <2> QED
    BY <1>1, <2>2, <2>3
<1>5. CASE Len(a) > MaxHistory
  <2>1. Remembered(pts) = t
    BY <1>5 DEF Remembered
  <2>2. a # <<>>
    BY <1>1, EmptySeq
  <2>3. /\ t \in Seq(Nat) /\ Len(t) = Len(h)
        /\ \A i \in 1 .. Len(h) : t[i] = a[i + 1]
    BY <1>1, <2>2, HeadTailProperties
  <2>4. Len(h) > 0
    BY <1>1, <1>5
  <2>5. t # <<>> /\ t[Len(t)] = pts
    BY <1>1, <2>3, <2>4, EmptySeq
  <2>6. \A i, j \in 1 .. Len(t) : i < j => t[i] < t[j]
    <3> HIDE DEF t, a
    <3> SUFFICES ASSUME NEW i \in 1 .. Len(t), NEW j \in 1 .. Len(t), i < j
                 PROVE t[i] < t[j]
      OBVIOUS
    <3>1. i + 1 \in 1 .. Len(a) /\ j + 1 \in 1 .. Len(a) /\ i + 1 < j + 1
      BY <1>1, <2>3
    <3>2. t[i] = a[i + 1] /\ t[j] = a[j + 1]
      BY <2>3
    <3> QED
      BY <1>4, <3>1, <3>2
  <2> QED
    BY <2>1, <2>3, <2>5, <2>6
<1>6. CASE ~(Len(a) > MaxHistory)
  <2>1. Remembered(pts) = a
    BY <1>6 DEF Remembered
  <2> QED
    BY <1>1, <1>4, <1>6, <2>1, EmptySeq
<1> QED
  BY <1>5, <1>6

(* The invariant the theorems rest on.                                     *)
SmootherInv == TypeOK /\ HistoryIncreases

(* An output later than the last one keeps what the invariant says of the  *)
(* history.                                                                *)
LEMMA OutputKeeps ==
  ASSUME SmootherInv, NEW pts \in Nat, lastOut # NoPts => lastOut < pts, Output(pts)
  PROVE /\ history' \in Seq(Nat) /\ Len(history') <= MaxHistory
        /\ lastOut' = pts /\ lastOut' # NoPts /\ history' # <<>>
        /\ history'[Len(history')] = lastOut'
        /\ \A i, j \in 1 .. Len(history') : i < j => history'[i] < history'[j]
<1>1. history # <<>> => history[Len(history)] < pts
  BY DEF SmootherInv, HistoryIncreases
<1>2. history' = Remembered(pts) /\ lastOut' = pts
  BY DEF Output
<1>3. pts # NoPts
  BY SmootherAssumption
<1> QED
  BY <1>1, <1>2, <1>3, RememberedHistory DEF SmootherInv, TypeOK, HistoryIncreases

(* The smoother starts with the invariant.                                 *)
LEMMA SmootherInit == Init => SmootherInv
BY SmootherAssumption DEF Init, SmootherInv, TypeOK, HistoryIncreases

(* Every packet and every reset keep the invariant, and a packet's output  *)
(* is later than the one before.                                           *)
LEMMA SmootherNext ==
  SmootherInv /\ [Next]_vars =>
    SmootherInv' /\ (lastOut # NoPts /\ lastOut' # NoPts => lastOut' > lastOut \/ UNCHANGED vars)
<1> SUFFICES ASSUME SmootherInv, [Next]_vars
             PROVE  /\ SmootherInv'
                    /\ lastOut # NoPts /\ lastOut' # NoPts =>
                          lastOut' > lastOut \/ UNCHANGED vars
  OBVIOUS
<1> USE SmootherAssumption
<1>1. CASE Invent
  <2> DEFINE pts == IF lastOut = NoPts THEN 0 ELSE lastOut + MinIncrement
  <2>1. pts \in Nat /\ (lastOut # NoPts => lastOut < pts)
    BY DEF SmootherInv, TypeOK
  <2>2. Output(pts)
    BY <1>1 DEF Invent
  <2>3. base' # NoPts /\ base' \in Pts \cup {0, NoPts}
    BY <1>1 DEF Invent, SmootherInv, TypeOK, HistoryIncreases
  <2>4. /\ offset' \in Nat /\ total' \in Nat /\ corrected' \in Nat
        /\ lastIn' \in Pts \cup {NoPts} /\ regular' \in BOOLEAN
    <3>1. /\ offset' = offset /\ total' = total + 1 /\ corrected' = corrected + 1
          /\ lastIn' = NoPts /\ regular' = FALSE
      BY <1>1 DEF Invent
    <3>2. offset \in Nat /\ total \in Nat /\ corrected \in Nat
      BY DEF SmootherInv, TypeOK
    <3>3. offset' \in Nat /\ total' \in Nat /\ corrected' \in Nat
      BY <3>1, <3>2
    <3>4. lastIn' \in Pts \cup {NoPts} /\ regular' \in BOOLEAN
      BY <3>1
    <3> QED
      BY <3>3, <3>4
  <2> HIDE DEF pts
  <2> QED
    BY <2>1, <2>2, <2>3, <2>4, OutputKeeps DEF SmootherInv, TypeOK, HistoryIncreases
<1>2. ASSUME NEW pts \in Pts, First(pts)
      PROVE /\ SmootherInv'
            /\ lastOut = NoPts
  <2>1. lastOut = NoPts /\ Output(0)
    BY <1>2 DEF First, SmootherInv, HistoryIncreases
  <2>2. /\ offset' \in Nat /\ total' \in Nat /\ corrected' \in Nat
        /\ lastIn' \in Pts \cup {NoPts} /\ regular' \in BOOLEAN
        /\ base' # NoPts /\ base' \in Pts \cup {0, NoPts}
    BY <1>2 DEF First, SmootherInv, TypeOK
  <2> QED
    BY <2>1, <2>2, OutputKeeps DEF SmootherInv, TypeOK, HistoryIncreases
<1>3. ASSUME NEW pts \in Pts, Follow(pts)
      PROVE /\ SmootherInv'
            /\ lastOut' > lastOut
  <2>1. lastOut \in Nat /\ base # NoPts
    BY <1>3 DEF Follow, SmootherInv, TypeOK, HistoryIncreases
  <2>2. Increasing(pts) \in Nat /\ Increasing(pts) > lastOut /\ Relative(pts) \in Int
    BY <2>1, LaterOutput DEF SmootherInv
  <2>3. Output(Increasing(pts))
    BY <1>3 DEF Follow
  <2>4. base' # NoPts /\ base' \in Pts \cup {0, NoPts} /\ offset' \in Nat
    BY <1>3, <2>1 DEF Follow, NewBase, NewOffset, SmootherInv, TypeOK
  <2>5. Corrections(pts) \in Nat
    BY DEF Corrections
  <2>6. /\ total' \in Nat /\ corrected' \in Nat
        /\ lastIn' \in Pts \cup {NoPts} /\ regular' \in BOOLEAN
    BY <1>3, <2>5 DEF Follow, SmootherInv, TypeOK
  <2> QED
    BY <2>1, <2>2, <2>3, <2>4, <2>6, OutputKeeps DEF SmootherInv, TypeOK, HistoryIncreases
<1>4. CASE Reset
  BY <1>4 DEF Reset, SmootherInv, TypeOK, HistoryIncreases
<1>5. CASE UNCHANGED vars
  BY <1>5 DEF vars, SmootherInv, TypeOK, HistoryIncreases
<1> QED
  BY <1>1, <1>2, <1>3, <1>4, <1>5 DEF Next, Reset

(* The history holds the last outputs, each later than the one before it.  *)
THEOREM HistoryCorrect == Spec => [](TypeOK /\ HistoryIncreases)
<1>1. Spec => []SmootherInv
  BY SmootherInit, SmootherNext, PTL DEF Spec
<1> QED
  BY <1>1, PTL DEF SmootherInv

(* Timestamps that repeat, jump back or are missing never make an output   *)
(* repeat or go back, whatever the thresholds and the smoothing factor.    *)
THEOREM SmootherCorrect == Spec => StrictlyIncreasing
<1>1. Spec => []SmootherInv
  BY SmootherInit, SmootherNext, PTL DEF Spec
<1>2. SmootherInv /\ [Next]_vars => [lastOut # NoPts /\ lastOut' # NoPts => lastOut' > lastOut]_vars
  BY SmootherNext
<1> QED
  BY <1>1, <1>2, PTL DEF Spec, StrictlyIncreasing
-----------------------------------------------------------------------------
(* While the inputs start at 0 and advance regularly the base and the      *)
(* offset stay at 0, so that what is left of a timestamp is itself.        *)
Untouched ==
    regular => /\ lastOut = lastIn /\ corrected = 0
               /\ offset = 0 /\ base \in {0, NoPts}

(* A packet that advances by no more than the threshold is not taken for a *)
(* jump, and its output is its input.                                      *)
LEMMA RegularPacket ==
  ASSUME SmootherInv, Untouched, regular, base # NoPts, NEW pts \in Pts, pts - lastIn \in 1 .. MaxJump
  PROVE  ~Wrapped(pts) /\ Increasing(pts) = pts /\ Corrections(pts) = 0
<1> USE SmootherAssumption
<1>1. lastOut \in Nat /\ lastOut = lastIn /\ offset = 0 /\ base = 0 /\ Recent = lastOut
  BY DEF SmootherInv, TypeOK, HistoryIncreases, Untouched, Recent
<1>2. ~Wrapped(pts)
  BY <1>1 DEF Wrapped
<1>3. Relative(pts) = pts
  BY <1>1, <1>2 DEF Relative, NewBase, NewOffset
<1> QED
  BY <1>1, <1>2, <1>3 DEF Increasing, Corrections

(* Every packet and the reset keep a regular stream untouched.            *)
LEMMA UntouchedNext == SmootherInv /\ Untouched /\ [Next]_vars => Untouched'
<1> SUFFICES ASSUME SmootherInv, Untouched, [Next]_vars PROVE Untouched'
  OBVIOUS
<1> USE SmootherAssumption
<1>1. CASE Invent
  BY <1>1 DEF Invent, Untouched
<1>2. ASSUME NEW pts \in Pts, First(pts) PROVE Untouched'
  BY <1>2 DEF First, Output, Untouched
<1>3. ASSUME NEW pts \in Pts, Follow(pts) PROVE Untouched'
  <2> SUFFICES ASSUME regular' PROVE /\ lastOut' = lastIn' /\ corrected' = 0
                                     /\ offset' = 0 /\ base' \in {0, NoPts}
    BY DEF Untouched
  <2>1. regular /\ base # NoPts /\ pts - lastIn \in 1 .. MaxJump
    BY <1>3 DEF Follow
  <2>2. ~Wrapped(pts) /\ Increasing(pts) = pts /\ Corrections(pts) = 0
    BY <2>1, RegularPacket
  <2> QED
    BY <1>3, <2>1, <2>2 DEF Follow, Output, NewBase, NewOffset, Untouched
<1>4. CASE Reset
  BY <1>4 DEF Reset, Untouched
<1>5. CASE UNCHANGED vars
  BY <1>5 DEF vars, Untouched
<1> QED
  BY <1>1, <1>2, <1>3, <1>4, <1>5 DEF Next

(* A stream that starts at 0 and advances by no more than the threshold    *)
(* keeps its timestamps, and none counts as corrected.                     *)
THEOREM RegularStreamsKept == Spec => []RegularUnchanged
<1>1. Init => Untouched
  BY DEF Init, Untouched
<1>2. Untouched => RegularUnchanged
  BY DEF Untouched, RegularUnchanged
<1> QED
  BY <1>1, <1>2, SmootherInit, SmootherNext, UntouchedNext, PTL DEF Spec
-----------------------------------------------------------------------------
(* The encoder. Between two calls no packet is ready, since the call that  *)
(* takes all packets took them; so no frame is refused.                    *)
Drained ==
    /\ call.at \in {"idle", "send"} => Encoder!Fated("ready") = {}
    /\ call.at # "idle" => call.api = "all"

(* The frame that is being sent has not been sent, nor have those to come. *)
Unsent ==
    /\ call.at = "send" /\ call.frame # Encoder!Flushing =>
          call.frame \in 1 .. frames /\ fate[call.frame] = "new"
    /\ \A f \in Encoder!Frames : f > frames => fate[f] = "new"

Encoding == Encoder!NothingLost /\ Drained /\ Unsent

(* The encoder's types, flags and data apart.                              *)
Flags == mCtx \in BOOLEAN /\ mForceIdr \in BOOLEAN /\ draining \in BOOLEAN
Fates == {"new", "held", "ready", "out", "out before", "refused", "late", "failed", "forgotten"}
Data ==
    /\ MaxFrames \in Nat /\ MaxRequests \in Nat
    /\ mFrameCount \in Nat
    /\ call \in [at : {"idle", "send", "receive"}, frame : 0 .. MaxFrames, api : {"one", "all"}]
    /\ fate \in [1 .. MaxFrames -> Fates]
    /\ frames \in 0 .. MaxFrames
    /\ asked \in 0 .. MaxRequests /\ served \in 0 .. asked
    /\ wants \in [1 .. MaxFrames -> SUBSET (1 .. MaxRequests)]

(* Both make up the encoder's type invariant.                              *)
LEMMA TypeInParts == Encoder!TypeOK <=> Flags /\ Data
BY PartsAssumption, Zenon DEF Encoder!EncoderAssumption, Encoder!TypeOK, Flags, Data, Fates, Encoder!Frames

(* Packets are counted one by one: as many as frames that came out.        *)
LEMMA OutFinite ==
  /\ IsFiniteSet(Encoder!Fated("out"))
  /\ Cardinality(Encoder!Fated("out")) \in Nat
  /\ Encoder!Cardinality(Encoder!Fated("out")) = Cardinality(Encoder!Fated("out"))
<1>1. IsFiniteSet(Encoder!Frames)
  BY PartsAssumption, FS_Interval DEF Encoder!EncoderAssumption, Encoder!Frames
<1>2. Encoder!Fated("out") \subseteq Encoder!Frames
  BY DEF Encoder!Fated
<1>3. \A S : Encoder!Cardinality(S) = Cardinality(S)
  BY Zenon DEF Encoder!Cardinality, Cardinality
<1> QED
  BY <1>1, <1>2, <1>3, FS_Subset, FS_CardinalityType

(* What the invariant says, in a form in which the steps use it.           *)
Kept ==
    /\ \A f \in 1 .. MaxFrames : fate[f] # "refused"
    /\ \A f \in 1 .. frames : fate[f] = "new" => call.at = "send" /\ call.frame = f
    /\ call.at \in {"idle", "send"} => \A f \in 1 .. MaxFrames : fate[f] # "ready"
    /\ call.at # "idle" => call.api = "all"
    /\ call.at = "send" /\ call.frame # 0 =>
          call.frame \in 1 .. frames /\ fate[call.frame] = "new"
    /\ \A f \in 1 .. MaxFrames : f > frames => fate[f] = "new"

Counted == mCtx => mFrameCount = Cardinality(Encoder!Fated("out"))

(* The inductive invariant in the form in which the steps use it.          *)
LEMMA EncodingMeans ==
  Encoding <=> Flags /\ Data /\ Kept /\ Counted /\ Encoder!RequestsHonoured
<1>1. Encoder!FramesKept /\ Drained /\ Unsent <=> Encoder!TypeOK /\ Kept /\ Counted
  <2>1. Encoder!Frames = 1 .. MaxFrames /\ Encoder!Flushing = 0
    BY DEF Encoder!Frames, Encoder!Flushing
  <2>2. \A what : Encoder!Fated(what) = {} <=> \A f \in 1 .. MaxFrames : fate[f] # what
    BY <2>1 DEF Encoder!Fated
  <2>3. Encoder!Cardinality(Encoder!Fated("out")) = Cardinality(Encoder!Fated("out"))
    BY OutFinite
  <2> QED
    BY <2>1, <2>2, <2>3, Zenon DEF Encoder!FramesKept, Drained, Unsent, Kept, Counted
<1> QED
  BY <1>1, TypeInParts, Zenon DEF Encoding, Encoder!NothingLost

(* A new encoder has no frame, no request and no packet.                   *)
LEMMA EncodingInit == ASSUME Encoder!Init PROVE Encoding
<1> USE PartsAssumption DEF Encoder!EncoderAssumption, Encoder!Init, Encoder!Frames, Encoder!Flushing
<1>1. Flags
  BY Zenon DEF Flags
<1>2. Data
  BY DEF Data, Fates
<1>3. Kept
  BY DEF Kept
<1>4. Encoder!RequestsHonoured
  BY DEF Encoder!RequestsHonoured
<1>5. Counted
  BY DEF Counted
<1> QED
  BY <1>1, <1>2, <1>3, <1>4, <1>5, EncodingMeans

(* The context is replaced: what it held is forgotten.                     *)
LEMMA ContextSteps ==
  ASSUME Encoding, Encoder!InitFails \/ Encoder!InitSucceeds
  PROVE  Encoding'
<1>0. Flags /\ Data /\ Kept /\ Encoder!RequestsHonoured
  BY EncodingMeans
<1>1. /\ call.at = "idle" /\ fate' = Encoder!Forgotten
      /\ UNCHANGED <<call, frames, asked, served, wants>>
      /\ mForceIdr' = mForceIdr
  BY Zenon DEF Encoder!InitFails, Encoder!InitSucceeds, Encoder!requests
<1>2. mCtx' \in BOOLEAN /\ draining' \in BOOLEAN
  BY Zenon DEF Encoder!InitFails, Encoder!InitSucceeds
<1>3. mFrameCount' \in Nat /\ (mCtx' => mFrameCount' = 0)
  BY <1>0 DEF Encoder!InitFails, Encoder!InitSucceeds, Data
<1>4. /\ fate' \in [1 .. MaxFrames -> Fates]
      /\ \A f \in 1 .. MaxFrames :
            /\ fate'[f] = "new" <=> fate[f] = "new"
            /\ fate'[f] \notin {"ready", "out", "refused"}
  BY <1>0, <1>1 DEF Encoder!Forgotten, Data, Fates, Kept, Encoder!Frames
<1>5. Flags'
  BY <1>0, <1>1, <1>2, Zenon DEF Flags
<1>6. Data'
  BY <1>0, <1>1, <1>3, <1>4 DEF Data
<1>7. Kept'
  BY <1>0, <1>1, <1>4 DEF Kept, Data
<1>8. Counted'
  <2>1. Encoder!Fated("out")' = {}
    BY <1>4 DEF Encoder!Fated, Encoder!Frames
  <2> QED
    BY <1>3, <2>1, FS_EmptySet DEF Counted
<1>9. Encoder!RequestsHonoured'
  BY <1>0, <1>1, <1>4 DEF Encoder!RequestsHonoured, Data
<1> QED
  BY <1>5, <1>6, <1>7, <1>8, <1>9, EncodingMeans, PTL

(* A request is made, or taken back for the next frame, or a flush begins. *)
LEMMA CallSteps ==
  ASSUME Apis = {"all"}, Encoding,
         Encoder!RequestKeyFrame \/ Encoder!TakeRequest \/ Encoder!Flush
  PROVE  Encoding'
<1>0. Flags /\ Data /\ Kept /\ Counted /\ Encoder!RequestsHonoured
  BY EncodingMeans
<1>1. fate' = fate /\ mCtx' = mCtx /\ mFrameCount' = mFrameCount /\ draining' = draining
  BY Zenon DEF Encoder!RequestKeyFrame, Encoder!TakeRequest, Encoder!Flush, Encoder!codec
<1>2. Counted'
  BY <1>0, <1>1, Zenon DEF Counted, Encoder!Fated
<1>3. mForceIdr' \in BOOLEAN
  BY <1>0, Zenon DEF Encoder!RequestKeyFrame, Encoder!TakeRequest, Encoder!Flush,
     Encoder!requests, Flags
<1>4. Flags'
  BY <1>0, <1>1, <1>3, Zenon DEF Flags
<1>5. CASE Encoder!RequestKeyFrame
  <2>1. /\ asked' = asked + 1 /\ asked < MaxRequests
        /\ UNCHANGED <<call, frames, served, wants>>
    BY <1>5 DEF Encoder!RequestKeyFrame, Encoder!codec
  <2>2. mForceIdr'
    BY <1>5, Zenon DEF Encoder!RequestKeyFrame
  <2>3. Data'
    BY <1>0, <1>1, <2>1 DEF Data
  <2>4. Kept'
    BY <1>0, <1>1, <2>1 DEF Kept
  <2>5. Encoder!RequestsHonoured'
    BY <1>0, <1>1, <2>1, <2>2 DEF Encoder!RequestsHonoured, Data
  <2> QED
    BY <1>2, <1>4, <2>3, <2>4, <2>5, EncodingMeans, PTL
<1>6. CASE Encoder!Flush
  <2>1. /\ call' = [at |-> "send", frame |-> 0, api |-> "all"] /\ call.at = "idle"
        /\ UNCHANGED <<frames, asked, served, wants>>
    BY <1>6 DEF Encoder!Flush, Encoder!requests, Encoder!Flushing
  <2>2. mForceIdr' = mForceIdr
    BY <1>6, Zenon DEF Encoder!Flush, Encoder!requests
  <2>3. Data'
    BY <1>0, <1>1, <2>1 DEF Data
  <2>4. Kept'
    BY <1>0, <1>1, <2>1 DEF Kept, Data
  <2>5. Encoder!RequestsHonoured'
    BY <1>0, <1>1, <2>1, <2>2, Zenon DEF Encoder!RequestsHonoured
  <2> QED
    BY <1>2, <1>4, <2>3, <2>4, <2>5, EncodingMeans, PTL
<1>7. CASE Encoder!TakeRequest
  <2>1. /\ call' = [at |-> "send", frame |-> frames + 1, api |-> "all"] /\ call.at = "idle"
        /\ frames < MaxFrames /\ frames' = frames + 1
        /\ asked' = asked /\ served' = asked
    BY <1>7 DEF Encoder!TakeRequest
  <2>2. wants' = [wants EXCEPT ![frames + 1] = IF mForceIdr THEN served + 1 .. asked ELSE {}]
    BY <1>7, Zenon DEF Encoder!TakeRequest
  <2>3. /\ frames \in Nat /\ frames + 1 \in 1 .. MaxFrames /\ fate[frames + 1] = "new"
        /\ served \in Nat /\ asked \in Nat /\ asked <= MaxRequests /\ served <= asked
    BY <1>0, <2>1 DEF Data, Kept
  <2>4. /\ wants' \in [1 .. MaxFrames -> SUBSET (1 .. MaxRequests)]
        /\ \A f \in 1 .. frames : wants'[f] = wants[f]
        /\ mForceIdr => wants'[frames + 1] = served + 1 .. asked
    BY <1>0, <2>2, <2>3 DEF Data
  <2>5. Data'
    BY <1>0, <1>1, <2>1, <2>3, <2>4 DEF Data
  <2>6. Kept'
    BY <1>0, <1>1, <2>1, <2>3 DEF Kept, Data
  <2>7. \A r \in 1 .. asked : \E f \in 1 .. frames + 1 : r \in wants'[f] /\ fate[f] # "refused"
    <3> SUFFICES ASSUME NEW r \in 1 .. asked
                 PROVE  \E f \in 1 .. frames + 1 : r \in wants'[f] /\ fate[f] # "refused"
      OBVIOUS
    <3>1. CASE mForceIdr /\ r > served
      BY <2>3, <2>4, <3>1
    <3>2. CASE \E f \in 1 .. frames : r \in wants[f] /\ fate[f] # "refused"
      BY <2>3, <2>4, <3>2
    <3> QED
      BY <1>0, <3>1, <3>2 DEF Encoder!RequestsHonoured
  <2>8. Encoder!RequestsHonoured'
    BY <1>1, <2>1, <2>7 DEF Encoder!RequestsHonoured
  <2> QED
    BY <1>2, <1>4, <2>5, <2>6, <2>8, EncodingMeans, PTL
<1> QED
  BY <1>5, <1>6, <1>7

(* A frame or the flush is sent. No frame is refused, as none is ready.    *)
LEMMA SendSteps ==
  ASSUME Encoding, Encoder!SendFrame \/ Encoder!SendFails \/ Encoder!SendFlush
  PROVE  Encoding'
<1>0. Flags /\ Data /\ Kept /\ Counted /\ Encoder!RequestsHonoured
  BY EncodingMeans
<1>1. /\ mCtx' = mCtx /\ mFrameCount' = mFrameCount /\ mForceIdr' = mForceIdr
      /\ UNCHANGED <<frames, asked, served, wants>>
  BY Zenon DEF Encoder!SendFrame, Encoder!SendFails, Encoder!SendFlush, Encoder!requests
<1>2. draining' \in BOOLEAN
  BY <1>0, Zenon DEF Encoder!SendFrame, Encoder!SendFails, Encoder!SendFlush, Flags
<1>3. Flags'
  BY <1>0, <1>1, <1>2, Zenon DEF Flags
<1>4. /\ call.at = "send" /\ call' = [call EXCEPT !.at = call'.at] /\ call'.at \in {"receive", "idle"}
      /\ call'.at = "idle" => Encoder!SendFails
  BY <1>0 DEF Encoder!SendFrame, Encoder!SendFails, Encoder!SendFlush, Data
<1>5. /\ fate' \in [1 .. MaxFrames -> Fates]
      /\ \A f \in 1 .. MaxFrames :
            /\ f = call.frame \/ fate[f] = "held" \/ fate'[f] = fate[f]
            /\ f = call.frame => fate[f] = "new" /\ fate'[f] \in {"held", "ready", "late", "failed"}
            /\ fate[f] = "held" => fate'[f] \in {"held", "ready"}
            /\ call'.at = "idle" => fate'[f] # "ready"
  <2>1. CASE Encoder!SendFrame
    <3>1. \A f \in Encoder!Frames : fate[f] # "ready"
      BY <1>0, <1>4 DEF Kept, Encoder!Frames
    <3>2. Encoder!Fated("ready") = {} /\ call.frame \in 1 .. frames /\ fate[call.frame] = "new"
      BY <1>0, <1>4, <2>1, <3>1 DEF Kept, Encoder!Fated, Encoder!SendFrame, Encoder!Flushing
    <3>3. Encoder!Accepts \/ fate' = [fate EXCEPT ![call.frame] = "late"]
      BY <2>1, <3>2 DEF Encoder!SendFrame
    <3>4. call'.at = "receive"
      BY <1>0, <2>1 DEF Encoder!SendFrame, Data
    <3>5. fate \in [1 .. MaxFrames -> Fates] /\ call.frame \in 1 .. MaxFrames
      BY <1>0, <3>2 DEF Data
    <3>6. CASE Encoder!Accepts
      <4>1. PICK done \in SUBSET (Encoder!Fated("held") \cup {call.frame}) :
               fate' = [f \in 1 .. MaxFrames |->
                          IF f \in done THEN "ready" ELSE IF f = call.frame THEN "held" ELSE fate[f]]
        BY <3>6 DEF Encoder!Accepts, Encoder!Frames
      <4>2. \A f \in done : f = call.frame \/ fate[f] = "held"
        BY DEF Encoder!Fated
      <4>3. {"ready", "held"} \subseteq Fates
        BY DEF Fates
      <4> QED
        BY <3>2, <3>4, <3>5, <4>1, <4>2, <4>3
    <3>7. CASE fate' = [fate EXCEPT ![call.frame] = "late"]
      <4>1. "late" \in Fates
        BY DEF Fates
      <4> QED
        BY <3>2, <3>4, <3>5, <3>7, <4>1
    <3> QED
      BY <3>3, <3>6, <3>7
  <2>2. CASE Encoder!SendFails
    <3>1. call.frame \in 1 .. frames /\ fate[call.frame] = "new"
      BY <1>0, <1>4, <2>2 DEF Kept, Encoder!SendFails, Encoder!Flushing
    <3> QED
      BY <1>0, <1>4, <2>2, <3>1 DEF Encoder!SendFails, Data, Fates, Kept
  <2>3. CASE Encoder!SendFlush
    <3>1. call.frame = 0 /\ call'.at = "receive"
      BY <1>0, <2>3 DEF Encoder!SendFlush, Encoder!Flushing, Data
    <3>2. fate \in [1 .. MaxFrames -> Fates] /\ "ready" \in Fates
      BY <1>0 DEF Data, Fates
    <3>3. fate' = [f \in 1 .. MaxFrames |-> IF fate[f] = "held" THEN "ready" ELSE fate[f]]
      BY <2>3 DEF Encoder!SendFlush, Encoder!Frames
    <3> QED
      BY <3>1, <3>2, <3>3
  <2> QED
    BY <2>1, <2>2, <2>3
<1>6. Data'
  BY <1>0, <1>1, <1>4, <1>5 DEF Data
<1>7. Kept'
  BY <1>0, <1>1, <1>4, <1>5 DEF Kept, Data
<1>8. Counted'
  <2>1. Encoder!Fated("out")' = Encoder!Fated("out")
    BY <1>5 DEF Encoder!Fated, Encoder!Frames
  <2> QED
    BY <1>0, <1>1, <2>1, Zenon DEF Counted
<1>9. Encoder!RequestsHonoured'
  BY <1>0, <1>1, <1>5 DEF Encoder!RequestsHonoured, Data
<1> QED
  BY <1>3, <1>6, <1>7, <1>8, <1>9, EncodingMeans, PTL

(* A packet is received, or none is left, or the codec fails.              *)
LEMMA ReceiveSteps ==
  ASSUME Encoding, Encoder!ReceivePacket \/ Encoder!ReceiveNone \/ Encoder!ReceiveFails
  PROVE  Encoding'
<1>0. Flags /\ Data /\ Kept /\ Counted /\ Encoder!RequestsHonoured
  BY EncodingMeans
<1>1. /\ mCtx' = mCtx /\ mForceIdr' = mForceIdr /\ draining' = draining
      /\ UNCHANGED <<frames, asked, served, wants>>
  BY Zenon DEF Encoder!ReceivePacket, Encoder!ReceiveNone, Encoder!ReceiveFails,
     Encoder!requests, Encoder!codec
<1>2. Flags'
  BY <1>0, <1>1, Zenon DEF Flags
<1>3. CASE Encoder!ReceivePacket
  <2>1. PICK g \in Encoder!Fated("ready") : fate' = [fate EXCEPT ![g] = "out"]
    BY <1>3 DEF Encoder!ReceivePacket
  <2>2. /\ g \in 1 .. MaxFrames /\ fate[g] = "ready"
        /\ call.at = "receive" /\ call' = call /\ mFrameCount' = mFrameCount + 1
    BY <1>0, <1>3 DEF Encoder!ReceivePacket, Encoder!Fated, Encoder!Frames, Kept, Data
  <2>3. Data'
    <3>1. "out" \in Fates
      BY DEF Fates
    <3> QED
      BY <1>0, <1>1, <2>1, <2>2, <3>1 DEF Data
  <2>4. Kept'
    BY <1>0, <1>1, <2>1, <2>2 DEF Kept, Data
  <2>5. Counted'
    <3>1. /\ Encoder!Fated("out")' = Encoder!Fated("out") \cup {g}
          /\ g \notin Encoder!Fated("out")
      BY <1>0, <2>1, <2>2 DEF Encoder!Fated, Encoder!Frames, Data
    <3>2. Cardinality(Encoder!Fated("out") \cup {g}) = Cardinality(Encoder!Fated("out")) + 1
      BY <3>1, OutFinite, FS_AddElement
    <3> QED
      BY <1>0, <1>1, <2>2, <3>1, <3>2 DEF Counted
  <2>6. Encoder!RequestsHonoured'
    BY <1>0, <1>1, <2>1, <2>2 DEF Encoder!RequestsHonoured, Data
  <2> QED
    BY <1>2, <2>3, <2>4, <2>5, <2>6, EncodingMeans, PTL
<1>4. CASE Encoder!ReceiveNone \/ Encoder!ReceiveFails
  <2>1. /\ call.at = "receive" /\ call' = [call EXCEPT !.at = "idle"]
        /\ Encoder!Fated("ready") = {} /\ mFrameCount' = mFrameCount
    BY <1>4 DEF Encoder!ReceiveNone, Encoder!ReceiveFails
  <2>2. \A f \in 1 .. MaxFrames : fate[f] # "ready"
    BY <2>1 DEF Encoder!Fated, Encoder!Frames
  <2>3. /\ fate' \in [1 .. MaxFrames -> Fates]
        /\ \A f \in 1 .. MaxFrames :
              \/ fate'[f] = fate[f]
              \/ fate[f] = "held" /\ fate'[f] = "failed"
    <3>1. fate \in [1 .. MaxFrames -> Fates] /\ "failed" \in Fates
      BY <1>0 DEF Data, Fates
    <3>2. CASE Encoder!ReceiveNone
      BY <3>1, <3>2 DEF Encoder!ReceiveNone, Encoder!codec
    <3>3. CASE Encoder!ReceiveFails
      <4>1. PICK bad \in SUBSET Encoder!Fated("held") :
               fate' = [f \in 1 .. MaxFrames |-> IF f \in bad THEN "failed" ELSE fate[f]]
        BY <3>3 DEF Encoder!ReceiveFails, Encoder!Frames
      <4>2. \A f \in bad : fate[f] = "held"
        BY DEF Encoder!Fated
      <4> QED
        BY <3>1, <4>1, <4>2
    <3> QED
      BY <1>4, <3>2, <3>3
  <2>4. Data'
    BY <1>0, <1>1, <2>1, <2>3 DEF Data
  <2>5. Kept'
    BY <1>0, <1>1, <2>1, <2>2, <2>3 DEF Kept, Data
  <2>6. Counted'
    <3>1. Encoder!Fated("out")' = Encoder!Fated("out")
      BY <2>3 DEF Encoder!Fated, Encoder!Frames
    <3> QED
      BY <1>0, <1>1, <2>1, <3>1, Zenon DEF Counted
  <2>7. Encoder!RequestsHonoured'
    BY <1>0, <1>1, <2>3 DEF Encoder!RequestsHonoured, Data
  <2> QED
    BY <1>2, <2>4, <2>5, <2>6, <2>7, EncodingMeans, PTL
<1> QED
  BY <1>3, <1>4

(* Every step of the encoder, of its codec and of those who make requests  *)
(* keeps it.                                                               *)
LEMMA EncodingNext ==
  ASSUME Apis = {"all"}, Encoding, Encoder!Next PROVE Encoding'
BY ContextSteps, CallSteps, SendSteps, ReceiveSteps DEF Encoder!Next

(* A step that leaves the encoder alone leaves what is said of it.         *)
LEMMA EncodingStays == ASSUME Encoding, UNCHANGED encoder PROVE Encoding'
<1>0. Flags /\ Data /\ Kept /\ Counted /\ Encoder!RequestsHonoured
  BY EncodingMeans
<1>1. /\ mCtx' = mCtx /\ mForceIdr' = mForceIdr /\ mFrameCount' = mFrameCount
      /\ call' = call /\ fate' = fate /\ draining' = draining /\ frames' = frames
      /\ asked' = asked /\ served' = served /\ wants' = wants
  BY Zenon DEF encoder
<1>2. Flags' /\ Data' /\ Kept'
  BY <1>0, <1>1, Zenon DEF Flags, Data, Kept
<1>3. Counted' /\ Encoder!RequestsHonoured'
  BY <1>0, <1>1, Zenon DEF Counted, Encoder!RequestsHonoured, Encoder!Fated
<1> QED
  BY <1>2, <1>3, EncodingMeans, PTL

(* An encoder of which all packets are taken loses no frame that encode    *)
(* accepted and no request for a key frame, however many frames and        *)
(* requests there are, when they come, and what the codec holds back.      *)
THEOREM NothingLostCorrect ==
  ASSUME Apis = {"all"} PROVE PartsSpec => []NothingLost
<1> DEFINE Inv == part = "encoder" => Encoding
<1>1. PartsInit => Inv
  BY EncodingInit DEF PartsInit
<1>2. Inv /\ [PartsNext]_<<part, vars, encoder, sei, buffer, stat>> => Inv'
  <2> SUFFICES ASSUME Encoding, part = "encoder",
                      [PartsNext]_<<part, vars, encoder, sei, buffer, stat>>
               PROVE  Encoding'
    BY DEF PartsNext
  <2>1. Encoder!Next \/ UNCHANGED encoder
    BY DEF PartsNext
  <2> QED
    BY <2>1, EncodingNext, EncodingStays
<1>3. Inv => NothingLost
  BY DEF NothingLost, Encoding
<1> HIDE DEF Inv
<1> QED
  BY <1>1, <1>2, <1>3, PTL DEF PartsSpec
-----------------------------------------------------------------------------
(* The StatTool. Where the record is that was made the j-th before last.   *)
Place(j) == IF j < mCurrentIndex THEN mCurrentIndex - 1 - j
                                 ELSE mCurrentIndex - 1 - j + mTotalLayers

(* The ring holds the last records behind its index, the last of them made *)
(* when the tool remembers, and each a second or more after the one before.*)
Record == [bytes : Nat, timeMsec : Nat]
Ring ==
    /\ Stat!TypeOK
    /\ records \in Seq(Record)
    /\ counted \in Nat /\ mStatisCount = counted
    /\ now \in Nat \ {0} /\ mStatisUpdateLastTime \in Int
    /\ mRecordCount = IF Len(records) < mTotalLayers THEN Len(records) ELSE mTotalLayers
    /\ mRecordCount < mTotalLayers => mCurrentIndex = mRecordCount
    /\ \A j \in 0 .. mRecordCount - 1 : mLayers[Place(j)] = records[Len(records) - j]
    /\ Len(records) > 0 =>
          /\ records[Len(records)].timeMsec = mStatisUpdateLastTime
          /\ mStatisUpdateLastTime \in 1 .. now
    /\ \A i \in 2 .. Len(records) :
          records[i].timeMsec - records[i - 1].timeMsec >= Second

(* The index goes round.                                                   *)
LEMMA Round ==
  ASSUME NEW m \in Nat \ {0}, NEW c \in 0 .. m - 1
  PROVE  /\ (c + 1) % m = IF c + 1 = m THEN 0 ELSE c + 1
         /\ (m + c - 1) % m = IF c = 0 THEN m - 1 ELSE c - 1
OBVIOUS

(* A new ring is empty.                                                    *)
LEMMA RingInit == ASSUME Stat!Init PROVE Ring
BY PartsAssumption DEF Stat!StatAssumption, Stat!Init, Ring, Stat!TypeOK, Stat!Layers, Stat!Empty, Record

(* Time passes.                                                            *)
LEMMA RingTick == ASSUME Ring, Stat!Tick PROVE Ring'
<1>1. /\ now' = now + 1
      /\ UNCHANGED <<mLayers, mCurrentIndex, mRecordCount, mStatisCount,
                     mStatisUpdateLastTime, counted, records>>
  BY DEF Stat!Tick
<1>2. Stat!TypeOK'
  BY <1>1 DEF Ring, Stat!TypeOK, Stat!Layers
<1>3. now' \in Nat \ {0} /\ \A t \in 1 .. now : t \in 1 .. now'
  <2>1. now \in Nat \ {0}
    BY DEF Ring
  <2> QED
    BY <1>1, <2>1
<1> QED
  BY <1>1, <1>2, <1>3 DEF Ring, Place

(* A reset empties the ring and the list of records, and no more.          *)
LEMMA RingReset == ASSUME Ring, Stat!Reset PROVE Ring'
BY PartsAssumption DEF Stat!StatAssumption, Stat!Reset, Ring, Stat!TypeOK, Stat!Layers, Stat!Empty, Record

(* What is counted between two records touches neither.                    *)
LEMMA RingUpdateOnly ==
  ASSUME Ring, NEW n \in Amounts, Stat!UpdateOnly(n) PROVE Ring'
BY PartsAssumption DEF Stat!StatAssumption, Stat!UpdateOnly, Stat!Count, Ring, Stat!TypeOK, Stat!Layers, Place

(* A record takes the place of the oldest one when the ring is full.       *)
LEMMA RingUpdateRecord ==
  ASSUME Ring, NEW n \in Amounts, Stat!UpdateRecord(n) PROVE Ring'
<1> DEFINE new == [bytes |-> counted + n, timeMsec |-> now]
           k == Len(records)
<1>0. n \in Nat /\ mTotalLayers \in Nat \ {0} /\ Second \in Nat \ {0}
  BY PartsAssumption DEF Stat!StatAssumption
<1>1. /\ counted' = counted + n /\ mStatisCount' = counted + n
      /\ mStatisUpdateLastTime' = now /\ now' = now
      /\ mLayers' = [mLayers EXCEPT ![mCurrentIndex] = new]
      /\ mCurrentIndex' = (mCurrentIndex + 1) % mTotalLayers
      /\ mRecordCount' = IF mRecordCount < mTotalLayers THEN mRecordCount + 1 ELSE mRecordCount
      /\ records' = Append(records, new)
  BY DEF Stat!UpdateRecord, Stat!Count, Ring
<1>2. /\ mLayers \in [0 .. mTotalLayers - 1 -> Record]
      /\ mCurrentIndex \in 0 .. mTotalLayers - 1 /\ mRecordCount \in 0 .. mTotalLayers
      /\ records \in Seq(Record) /\ k \in Nat /\ counted \in Nat /\ now \in Nat \ {0}
  BY DEF Ring, Stat!TypeOK, Stat!Layers, Record
<1>3. new \in Record
  BY <1>0, <1>2 DEF Record
<1>4. /\ records' \in Seq(Record) /\ Len(records') = k + 1 /\ records'[k + 1] = new
      /\ \A i \in 1 .. k : records'[i] = records[i]
  BY <1>1, <1>2, <1>3
<1>5. mCurrentIndex' = IF mCurrentIndex + 1 = mTotalLayers THEN 0 ELSE mCurrentIndex + 1
  BY <1>0, <1>1, <1>2, Round
<1> HIDE DEF new
<1>6. Stat!TypeOK'
  BY <1>0, <1>1, <1>2, <1>3, <1>5 DEF Stat!TypeOK, Stat!Layers, Record
<1>7. /\ mRecordCount' = IF Len(records') < mTotalLayers THEN Len(records') ELSE mTotalLayers
      /\ mRecordCount' < mTotalLayers => mCurrentIndex' = mRecordCount'
  BY <1>0, <1>1, <1>2, <1>4, <1>5 DEF Ring
<1>8. \A j \in 0 .. mRecordCount' - 1 : mLayers'[Place(j)'] = records'[Len(records') - j]
  <2> SUFFICES ASSUME NEW j \in 0 .. mRecordCount' - 1
               PROVE  mLayers'[Place(j)'] = records'[Len(records') - j]
    OBVIOUS
  <2>1. CASE j = 0
    <3>1. Place(j)' = mCurrentIndex
      BY <1>0, <1>2, <1>5, <2>1 DEF Place
    <3> QED
      BY <1>1, <1>2, <1>4, <2>1, <3>1
  <2>2. CASE j > 0
    <3>1. j - 1 \in 0 .. mRecordCount - 1 /\ j < mTotalLayers /\ mRecordCount <= k
      BY <1>0, <1>1, <1>2, <2>2 DEF Ring
    <3>2. Place(j)' = Place(j - 1) /\ Place(j - 1) \in 0 .. mTotalLayers - 1
          /\ Place(j - 1) # mCurrentIndex
      BY <1>0, <1>2, <1>5, <2>2, <3>1 DEF Place
    <3>3. mLayers[Place(j - 1)] = records[k - (j - 1)]
      BY <3>1 DEF Ring
    <3>4. k - (j - 1) \in 1 .. k /\ Len(records') - j = k - (j - 1)
      BY <1>2, <1>4, <3>1
    <3> QED
      BY <1>1, <1>2, <1>4, <3>2, <3>3, <3>4
  <2>3. j \in Nat
    BY <1>1, <1>2
  <2> QED
    BY <2>1, <2>2, <2>3
<1>9. \A i \in 2 .. Len(records') :
         records'[i].timeMsec - records'[i - 1].timeMsec >= Second
  <2>1. k > 0 => now - records[k].timeMsec >= Second
    BY <1>0, <1>2 DEF Stat!UpdateRecord, Stat!TooSoon, Ring
  <2>2. new.timeMsec = now
    BY DEF new
  <2> SUFFICES ASSUME NEW i \in 2 .. k + 1
               PROVE  records'[i].timeMsec - records'[i - 1].timeMsec >= Second
    BY <1>4
  <2>3. CASE i = k + 1
    BY <1>2, <1>4, <2>1, <2>2, <2>3
  <2>4. CASE i # k + 1
    <3>1. i \in 2 .. k /\ i \in 1 .. k /\ i - 1 \in 1 .. k
      BY <1>2, <2>4
    <3>2. records[i].timeMsec - records[i - 1].timeMsec >= Second
      BY <3>1 DEF Ring
    <3> QED
      BY <1>4, <3>1, <3>2
  <2> QED
    BY <2>3, <2>4
<1>10. records'[Len(records')].timeMsec = mStatisUpdateLastTime' /\ mStatisUpdateLastTime' \in 1 .. now'
  BY <1>1, <1>2, <1>4 DEF new
<1>11. counted' \in Nat /\ mStatisCount' = counted' /\ now' \in Nat \ {0} /\ mStatisUpdateLastTime' \in Int
  BY <1>0, <1>1, <1>2
<1> QED
  BY <1>4, <1>6, <1>7, <1>8, <1>9, <1>10, <1>11, Zenon DEF Ring

(* The newest and the oldest record of the ring are the ends of the window.*)
LEMMA RingSpeed == ASSUME Ring PROVE Stat!SpeedOfWindow
<1>0. mTotalLayers \in Nat \ {0}
  BY PartsAssumption DEF Stat!StatAssumption
<1> DEFINE k == Len(records)
<1>1. /\ k \in Nat /\ records \in Seq(Record) /\ mRecordCount \in 0 .. k
      /\ mCurrentIndex \in 0 .. mTotalLayers - 1 /\ mRecordCount <= mTotalLayers
      /\ mRecordCount < mTotalLayers => mCurrentIndex = mRecordCount
  BY <1>0 DEF Ring, Stat!TypeOK, Stat!Layers
<1>2. /\ Stat!Window \in Seq(Record) /\ Len(Stat!Window) = mRecordCount
      /\ \A i \in 1 .. mRecordCount : Stat!Window[i] = records[k - mRecordCount + i]
  BY <1>1, SubSeqProperties DEF Stat!Window
<1>3. ASSUME mRecordCount >= 2
      PROVE  Stat!Newest = Place(0) /\ Stat!Oldest = Place(mRecordCount - 1)
  <2>1. CASE mRecordCount < mTotalLayers
    BY <1>0, <1>1, <1>3, <2>1 DEF Stat!Newest, Stat!Oldest, Place
  <2>2. CASE mRecordCount = mTotalLayers
    <3>1. Stat!Newest = IF mCurrentIndex = 0 THEN mTotalLayers - 1 ELSE mCurrentIndex - 1
      BY <1>0, <1>1, <2>2, Round DEF Stat!Newest
    <3>2. Place(0) = IF mCurrentIndex = 0 THEN mTotalLayers - 1 ELSE mCurrentIndex - 1
      BY <1>0, <1>1 DEF Place
    <3>3. Stat!Oldest = mCurrentIndex /\ Place(mTotalLayers - 1) = mCurrentIndex
      BY <1>0, <1>1, <2>2 DEF Stat!Oldest, Place
    <3> QED
      BY <2>2, <3>1, <3>2, <3>3
  <2> QED
    BY <1>0, <1>1, <2>1, <2>2
<1>4. ASSUME mRecordCount >= 2
      PROVE  /\ mLayers[Stat!Newest] = records[k] /\ mLayers[Stat!Oldest] = records[k - mRecordCount + 1]
             /\ Stat!Last(Stat!Window) = records[k] /\ Head(Stat!Window) = records[k - mRecordCount + 1]
  <2>1. 0 \in 0 .. mRecordCount - 1 /\ mRecordCount - 1 \in 0 .. mRecordCount - 1
    BY <1>1, <1>4
  <2>2. mLayers[Place(0)] = records[k - 0] /\ mLayers[Place(mRecordCount - 1)] = records[k - (mRecordCount - 1)]
    BY <2>1 DEF Ring
  <2>3. k - 0 = k /\ k - (mRecordCount - 1) = k - mRecordCount + 1 /\ k - mRecordCount + mRecordCount = k
    BY <1>1
  <2>4. Stat!Last(Stat!Window) = Stat!Window[mRecordCount] /\ Head(Stat!Window) = Stat!Window[1]
    BY <1>1, <1>2, <1>4 DEF Stat!Last
  <2> QED
    BY <1>1, <1>2, <1>3, <1>4, <2>2, <2>3, <2>4
<1>5. mRecordCount >= 2 =>
         Stat!Speed = [byteDiff |-> Stat!Last(Stat!Window).bytes - Head(Stat!Window).bytes,
                       timeDiff |-> Stat!Last(Stat!Window).timeMsec - Head(Stat!Window).timeMsec]
  BY <1>4 DEF Stat!Speed
<1> QED
  BY <1>0, <1>1, <1>2, <1>5 DEF Stat!SpeedOfWindow, Ring

(* The speed is that of the window of records, whatever the ring's size,   *)
(* the amounts, the times of the calls and what the constructor found.     *)
THEOREM SpeedCorrect == PartsSpec => []SpeedOfWindow
<1> DEFINE Inv == part = "stat" => Ring
<1>1. PartsInit => Inv
  BY RingInit DEF PartsInit
<1>2. Inv /\ [PartsNext]_<<part, vars, encoder, sei, buffer, stat>> => Inv'
  <2> SUFFICES ASSUME Ring, part = "stat",
                      [PartsNext]_<<part, vars, encoder, sei, buffer, stat>>
               PROVE  Ring'
    BY DEF PartsNext
  <2>1. Stat!Next \/ UNCHANGED stat
    BY DEF PartsNext
  <2>2. CASE UNCHANGED stat
    BY <2>2 DEF stat, Ring, Stat!TypeOK, Place
  <2> QED
    BY <2>1, <2>2, RingTick, RingReset, RingUpdateOnly, RingUpdateRecord DEF Stat!Next
<1>3. Inv => SpeedOfWindow
  BY RingSpeed DEF SpeedOfWindow
<1> HIDE DEF Inv
<1> QED
  BY <1>1, <1>2, <1>3, PTL DEF PartsSpec
-----------------------------------------------------------------------------
(* The byte buffer. Induction for what is recursive in a number, stated  *)
(* with sets: every set of numbers that is not empty has a least one.    *)
LEMMA Least ==
  ASSUME NEW S, S \subseteq Nat, S # {} PROVE \E n \in S : \A m \in S : n <= m
<1>1. IsWellFoundedOn(OpToRel(<, Nat), Nat)
  BY NatLessThanWellFounded
<1>2. PICK n \in S : \A m \in S : ~ <<m, n>> \in OpToRel(<, Nat)
  BY <1>1, WFMin
<1>3. \A m \in S : ~ m < n
  BY <1>2 DEF OpToRel
<1> QED
  BY <1>3

(* A set with 0 and the successors of its members has every number.      *)
LEMMA Induct ==
  ASSUME NEW S, 0 \in S, \A n \in Nat : n \in S => n + 1 \in S PROVE Nat \subseteq S
<1> SUFFICES ASSUME Nat \ S # {} PROVE FALSE
  OBVIOUS
<1>1. PICK n \in Nat \ S : \A m \in Nat \ S : n <= m
  BY Least
<1>2. n - 1 \in Nat /\ n - 1 \in S
  BY <1>1
<1> QED
  BY <1>1, <1>2

(* What is recursive in a number is defined: f begins with a value, and     *)
(* step[n] makes the n-th from the one before it.                          *)
Iterates(f, first, step, N) == f[0] = first /\ \A n \in 1 .. N : f[n] = step[n][f[n - 1]]

(* Such a function exists, whatever the steps.                           *)
LEMMA Recursion ==
  ASSUME NEW N \in Nat, NEW S, NEW first \in S, NEW step \in [1 .. N -> [S -> S]]
  PROVE  \E f \in [0 .. N -> S] : Iterates(f, first, step, N)
<1> DEFINE Upto(k) == \E f \in [0 .. k -> S] : Iterates(f, first, step, k)
           Good == {k \in Nat : k <= N => Upto(k)}
<1>0. Upto(0)
  <2> DEFINE g == [n \in 0 .. 0 |-> first]
  <2>1. g \in [0 .. 0 -> S] /\ Iterates(g, first, step, 0)
    BY DEF Iterates
  <2> HIDE DEF g
  <2> QED
    BY <2>1
<1>1. 0 \in Good
  BY <1>0
<1>2. ASSUME NEW k \in Nat, k \in Good PROVE k + 1 \in Good
  <2> SUFFICES ASSUME k + 1 <= N PROVE Upto(k + 1)
    OBVIOUS
  <2>1. PICK f \in [0 .. k -> S] : Iterates(f, first, step, k)
    BY <1>2
  <2> DEFINE g == [n \in 0 .. k + 1 |-> IF n = k + 1 THEN step[k + 1][f[k]] ELSE f[n]]
  <2>2. f[k] \in S /\ step[k + 1] \in [S -> S]
    BY <2>1
  <2>3. step[k + 1][f[k]] \in S
    BY <2>2
  <2>4. g \in [0 .. k + 1 -> S]
    BY <2>3
  <2>5. Iterates(g, first, step, k + 1)
    <3>1. g[0] = first
      BY <2>1 DEF Iterates
    <3>2. ASSUME NEW n \in 1 .. k PROVE g[n] = step[n][g[n - 1]]
      BY <2>1 DEF Iterates
    <3>3. g[k + 1] = step[k + 1][g[k]]
      BY <2>1
    <3>4. \A n \in 1 .. k + 1 : n \in 1 .. k \/ n = k + 1
      OBVIOUS
    <3> HIDE DEF g
    <3> QED
      BY <3>1, <3>2, <3>3, <3>4 DEF Iterates
  <2> HIDE DEF g
  <2> QED
    BY <2>4, <2>5
<1> HIDE DEF Good
<1>3. N \in Good
  BY <1>1, <1>2, Induct
<1> QED
  BY <1>3 DEF Good

(* Doubling: after as many steps as bytes are needed there is room.      *)
LEMMA GrowingMeans ==
  ASSUME NEW start \in Nat \ {0}, NEW need \in Nat
  PROVE  /\ Buffer!Growing(start, need) \in [0 .. need -> Nat]
         /\ \A i \in 0 .. need : Buffer!Growing(start, need)[i] >= i + 1
<1> DEFINE size == Buffer!Growing(start, need)
           step == [i \in 1 .. need |-> [c \in Nat |-> 2 * c]]
<1>1. size = CHOOSE f : f = [i \in 0 .. need |-> IF i = 0 THEN start ELSE 2 * f[i - 1]]
  BY DEF Buffer!Growing
<1>2. PICK f \in [0 .. need -> Nat] : Iterates(f, start, step, need)
  <2>1. step \in [1 .. need -> [Nat -> Nat]] /\ start \in Nat
    OBVIOUS
  <2> HIDE DEF step
  <2> QED
    BY <2>1, Recursion
<1>3. f = [i \in 0 .. need |-> IF i = 0 THEN start ELSE 2 * f[i - 1]]
  <2>1. ASSUME NEW i \in 1 .. need PROVE step[i][f[i - 1]] = 2 * f[i - 1]
    <3>1. i - 1 \in 0 .. need
      OBVIOUS
    <3>2. f[i - 1] \in Nat
      BY <1>2, <3>1
    <3> HIDE <1>2
    <3> QED
      BY <3>2
  <2> HIDE DEF step
  <2>2. \A i \in 0 .. need : f[i] = IF i = 0 THEN start ELSE 2 * f[i - 1]
    BY <1>2, <2>1 DEF Iterates
  <2> QED
    BY <1>2, <2>2
<1> HIDE DEF size
<1>4. size = [i \in 0 .. need |-> IF i = 0 THEN start ELSE 2 * size[i - 1]]
  BY <1>1, <1>3
<1> DEFINE Good == {i \in Nat : i <= need => size[i] \in Nat /\ size[i] >= i + 1}
<1>5. 0 \in Good
  BY <1>4
<1>6. ASSUME NEW i \in Nat, i \in Good PROVE i + 1 \in Good
  <2> SUFFICES ASSUME i + 1 <= need PROVE size[i + 1] \in Nat /\ size[i + 1] >= i + 2
    OBVIOUS
  <2>1. size[i] \in Nat /\ size[i] >= i + 1
    BY <1>6
  <2>2. size[i + 1] = 2 * size[i]
    BY <1>4
  <2> QED
    BY <2>1, <2>2
<1> HIDE DEF Good
<1>7. \A i \in 0 .. need : i \in Good
  <2>1. Nat \subseteq Good
    BY <1>5, <1>6, Induct
  <2> QED
    BY <2>1
<1>8. \A i \in 0 .. need : size[i] \in Nat /\ size[i] >= i + 1
  BY <1>7 DEF Good
<1>9. size \in [0 .. need -> Nat]
  BY <1>4, <1>8
<1> QED
  BY <1>8, <1>9 DEF size

(* The bytes, what a buffer is, and what it holds.                         *)
AnyByte == {"junk", "copied", "pushed", "type", "count", "box"} \X Nat \X Nat
Buffers == [bytes : Seq(AnyByte), front : Nat, back : Nat]
Sound(b) == b \in Buffers /\ b.front <= b.back /\ b.back <= Len(b.bytes)
Holds(b, s) == Len(s) = b.back - b.front /\ \A i \in 1 .. Len(s) : s[i] = b.bytes[b.front + i]

(* check_buffer makes room for what is needed and gives none up.         *)
LEMMA CapacityEnough ==
  ASSUME NEW b \in Buffers, NEW need \in Nat
  PROVE  /\ Buffer!Capacity(b, need) \in Nat
         /\ Buffer!Capacity(b, need) >= need /\ Buffer!Capacity(b, need) >= Len(b.bytes)
<1> DEFINE old == Len(b.bytes)
           start == IF old = 0 THEN FirstCap ELSE old
           size == Buffer!Growing(start, need)
           Fits(i) == need <= size[i] /\ \A j \in 0 .. i - 1 : size[j] < need
<1>1. old \in Nat /\ start \in Nat \ {0}
  BY PartsAssumption DEF PartsAssumption, Buffer!ByteBufferAssumption, Buffers
<1>2. CASE need <= old
  BY <1>1, <1>2 DEF Buffer!Capacity
<1>3. CASE ~(need <= old)
  <2> HIDE DEF old, start
  <2>1. size \in [0 .. need -> Nat] /\ \A i \in 0 .. need : size[i] >= i + 1
    BY <1>1, GrowingMeans
  <2>2. \E i \in 0 .. need : Fits(i)
    <3> DEFINE S == {i \in 0 .. need : need <= size[i]}
    <3> HIDE DEF size
    <3>1. S \subseteq Nat /\ need \in S
      BY <2>1
    <3>2. PICK i \in S : \A m \in S : i <= m
      BY <3>1, Least
    <3>3. ASSUME NEW j \in 0 .. i - 1 PROVE size[j] < need
      <4>1. j \in 0 .. need /\ j \notin S /\ size[j] \in Nat
        BY <2>1, <3>2
      <4> QED
        BY <4>1
    <3> QED
      BY <3>2, <3>3
  <2>3. PICK i \in 0 .. need : Fits(i) /\ i = CHOOSE k \in 0 .. need : Fits(k)
    BY <2>2
  <2>4. Buffer!Capacity(b, need) = size[i]
    BY <1>3, <2>3 DEF Buffer!Capacity, old, start
  <2> HIDE DEF size
  <2> QED
    BY <1>1, <1>3, <2>1, <2>3, <2>4 DEF old
<1> QED
  BY <1>2, <1>3

(* Bytes that are stored come behind those there are, which stay.          *)
LEMMA StoredMeans ==
  ASSUME NEW b, Sound(b), NEW raw \in Seq(AnyByte)
  PROVE  /\ Sound(Buffer!Stored(b, raw))
         /\ Buffer!Stored(b, raw).front = b.front
         /\ Buffer!Stored(b, raw).back = b.back + Len(raw)
         /\ \A i \in 1 .. b.back : Buffer!Stored(b, raw).bytes[i] = b.bytes[i]
         /\ \A i \in 1 .. Len(raw) : Buffer!Stored(b, raw).bytes[b.back + i] = raw[i]
<1> DEFINE need == b.back + Len(raw)
           room == Buffer!Room(b, need)
           new == [i \in 1 .. Len(room) |->
                      IF i \in b.back + 1 .. need THEN raw[i - b.back] ELSE room[i]]
<1>1. /\ b \in Buffers /\ b.bytes \in Seq(AnyByte) /\ b.front \in Nat /\ b.back \in Nat
      /\ b.front <= b.back /\ b.back <= Len(b.bytes) /\ Len(raw) \in Nat /\ need \in Nat
      /\ Len(b.bytes) \in Nat
  BY DEF Sound, Buffers
<1>2. Buffer!Stored(b, raw) = [bytes |-> new, front |-> b.front, back |-> need]
  BY DEF Buffer!Stored
<1>3. /\ room \in Seq(AnyByte) /\ Len(room) \in Nat /\ Len(room) >= need
      /\ \A i \in 1 .. Len(b.bytes) : room[i] = b.bytes[i]
  <2> DEFINE n == Buffer!Capacity(b, need) - Len(b.bytes)
             junk == [i \in 1 .. n |-> <<"junk", 0, 0>>]
  <2> HIDE DEF need
  <2>0. /\ Buffer!Capacity(b, need) \in Nat
        /\ Buffer!Capacity(b, need) >= need /\ Buffer!Capacity(b, need) >= Len(b.bytes)
    BY <1>1, CapacityEnough
  <2>1. /\ n \in Nat /\ n + Len(b.bytes) >= need
    BY <1>1, <2>0
  <2>2. room = b.bytes \o junk
    BY DEF Buffer!Room, Buffer!Junk, Buffer!Byte
  <2> HIDE DEF n, room
  <2>3. junk \in Seq(AnyByte) /\ Len(junk) = n
    <3>1. <<"junk", 0, 0>> \in AnyByte
      BY DEF AnyByte
    <3>2. junk \in [1 .. n -> AnyByte]
      BY <3>1
    <3> QED
      BY <2>1, <3>2
  <2> HIDE DEF junk
  <2> QED
    BY <1>1, <2>1, <2>2, <2>3, ConcatProperties
<1> HIDE DEF room
<1>4. new \in [1 .. Len(room) -> AnyByte]
  BY <1>1, <1>3
<1>5. new \in Seq(AnyByte) /\ Len(new) = Len(room)
  BY <1>3, <1>4
<1>6. \A i \in 1 .. b.back : new[i] = b.bytes[i]
  BY <1>1, <1>3
<1>7. \A i \in 1 .. Len(raw) : new[b.back + i] = raw[i]
  BY <1>1, <1>3
<1> HIDE DEF new
<1> QED
  BY <1>1, <1>2, <1>3, <1>5, <1>6, <1>7 DEF Sound, Buffers

(* What a buffer holds after bytes were stored.                            *)
LEMMA StoredHolds ==
  ASSUME NEW b, Sound(b), NEW s \in Seq(AnyByte), Holds(b, s), NEW raw \in Seq(AnyByte)
  PROVE  Holds(Buffer!Stored(b, raw), s \o raw)
<1>1. /\ b.front \in Nat /\ b.back \in Nat /\ b.front <= b.back
      /\ Len(raw) \in Nat /\ Len(s) = b.back - b.front
  BY DEF Sound, Buffers, Holds
<1>2. Len(s \o raw) = Len(s) + Len(raw)
  BY ConcatProperties
<1> DEFINE new == Buffer!Stored(b, raw)
<1>3. /\ new.front = b.front /\ new.back = b.back + Len(raw)
      /\ \A i \in 1 .. b.back : new.bytes[i] = b.bytes[i]
      /\ \A i \in 1 .. Len(raw) : new.bytes[b.back + i] = raw[i]
  BY StoredMeans
<1> HIDE DEF new
<1>4. ASSUME NEW i \in 1 .. Len(s) + Len(raw) PROVE (s \o raw)[i] = new.bytes[new.front + i]
  <2>1. CASE i <= Len(s)
    <3>1. i \in 1 .. Len(s) /\ b.front + i \in 1 .. b.back
      BY <1>1, <2>1
    <3>2. (s \o raw)[i] = s[i]
      BY <3>1
    <3>3. s[i] = b.bytes[b.front + i]
      BY <3>1 DEF Holds
    <3> QED
      BY <1>3, <3>1, <3>2, <3>3
  <2>2. CASE ~(i <= Len(s))
    <3>1. i - Len(s) \in 1 .. Len(raw) /\ b.front + i = b.back + (i - Len(s))
      BY <1>1, <2>2
    <3>2. new.bytes[b.back + (i - Len(s))] = raw[i - Len(s)]
      BY <1>3, <3>1
    <3>3. (s \o raw)[i] = raw[i - Len(s)]
      BY <1>1, <2>2
    <3> QED
      BY <1>3, <3>1, <3>2, <3>3
  <2> QED
    BY <2>1, <2>2
<1> QED
  BY <1>1, <1>2, <1>3, <1>4 DEF Holds, new

(* Digits the other way round: what Reverse does to a number of n digits. *)
Backwards(n, v) == [i \in 1 .. n |-> v[n - i + 1]]

LEMMA Turned ==
  ASSUME NEW S, NEW n \in Nat, NEW v \in [1 .. n -> S] PROVE Buffer!Reverse(v) = Backwards(n, v)
<1>1. Len(v) = n
  OBVIOUS
<1> QED
  BY <1>1 DEF Buffer!Reverse, Backwards

(* Turned twice, they are as before.                                     *)
LEMMA TurnedTwice ==
  ASSUME NEW S, NEW n \in Nat, NEW v \in [1 .. n -> S]
  PROVE  /\ Backwards(n, v) \in [1 .. n -> S]
         /\ Buffer!Reverse(Backwards(n, v)) = v
<1> DEFINE r == Backwards(n, v)
<1>1. r \in [1 .. n -> S] /\ \A i \in 1 .. n : r[i] = v[n - i + 1]
  BY DEF Backwards
<1> HIDE DEF r
<1>2. Buffer!Reverse(r) = Backwards(n, r)
  BY <1>1, Turned
<1>3. Buffer!Reverse(r) = [i \in 1 .. n |-> v[i]]
  BY <1>1, <1>2 DEF Backwards
<1> QED
  BY <1>1, <1>3 DEF r

(* bm_htonll, which turns both halves of eight digits and exchanges them, *)
(* turns the eight.                                                      *)
LEMMA Halves ==
  ASSUME NEW S, NEW v \in [1 .. 8 -> S] PROVE Buffer!Swapped64(v) = Buffer!Reverse(v)
<1> DEFINE low == SubSeq(v, 5, 8)
           high == SubSeq(v, 1, 4)
<1>0. PICK four \in Nat, eight \in Nat : four = 4 /\ eight = 8
  OBVIOUS
<1>1. v \in [1 .. eight -> S] /\ v \in Seq(S) /\ Len(v) = eight
  <2>1. v \in [1 .. eight -> S]
    BY <1>0
  <2> QED
    BY <2>1
<1>2. /\ low \in Seq(S) /\ Len(low) = four /\ \A i \in 1 .. four : low[i] = v[i + 4]
      /\ high \in Seq(S) /\ Len(high) = four /\ \A i \in 1 .. four : high[i] = v[i]
  BY <1>0, <1>1, SubSeqProperties
<1> HIDE DEF low, high
<1>3. low \in [1 .. four -> S] /\ high \in [1 .. four -> S]
  BY <1>2
<1> DEFINE rl == Buffer!Reverse(low)
           rh == Buffer!Reverse(high)
           both == rl \o rh
<1>4. rl = Backwards(four, low) /\ rh = Backwards(four, high)
  BY <1>3, Turned
<1>5. both = Buffer!Swapped64(v)
  BY DEF Buffer!Swapped64, Buffer!Swapped, low, high
<1>6. Buffer!Reverse(v) = Backwards(eight, v)
  BY <1>1, Turned
<1> HIDE DEF rl, rh
<1>7. rl \in [1 .. four -> S] /\ rh \in [1 .. four -> S]
  BY <1>3, <1>4 DEF Backwards
<1>8. \A i \in 1 .. 4 : rl[i] = v[9 - i] /\ rh[i] = v[5 - i]
  BY <1>0, <1>2, <1>4 DEF Backwards
<1>9. rl \in Seq(S) /\ Len(rl) = four /\ rh \in Seq(S) /\ Len(rh) = four
  BY <1>7
<1>10. /\ both \in Seq(S) /\ Len(both) = eight
       /\ \A i \in 1 .. eight : both[i] = IF i <= 4 THEN rl[i] ELSE rh[i - 4]
  <2>1. both \in Seq(S) /\ Len(both) = Len(rl) + Len(rh)
        /\ \A i \in 1 .. Len(rl) + Len(rh) :
              both[i] = IF i <= Len(rl) THEN rl[i] ELSE rh[i - Len(rl)]
    BY <1>9, ConcatProperties
  <2> HIDE DEF both
  <2> QED
    BY <1>0, <1>9, <2>1
<1> HIDE DEF both
<1>11. \A i \in 1 .. eight : both[i] = v[eight - i + 1]
  <2> SUFFICES ASSUME NEW i \in 1 .. eight PROVE both[i] = v[eight - i + 1]
    OBVIOUS
  <2>1. CASE i <= 4
    BY <1>0, <1>8, <1>10, <2>1
  <2>2. CASE ~(i <= 4)
    <3>1. i - 4 \in 1 .. 4 /\ both[i] = rh[i - 4]
      BY <1>0, <1>10, <2>2
    <3> QED
      BY <1>0, <1>8, <3>1
  <2> QED
    BY <2>1, <2>2
<1>12. both = [i \in 1 .. eight |-> both[i]]
  BY <1>10
<1> QED
  BY <1>5, <1>6, <1>11, <1>12 DEF Backwards

(* A number lies in memory as on the wire, and is read from there.         *)
LEMMA Numbers ==
  ASSUME NEW k \in DOMAIN Buffer!Width, NEW v \in [1 .. Buffer!Width[k] -> AnyByte]
  PROVE  /\ Buffer!Width[k] \in Nat \ {0}
         /\ Buffer!Memory(Buffer!Ordered(k, v)) = Buffer!Wire(k, v)
         /\ Buffer!Number(k, v) = Buffer!Wire(k, v)
         /\ Buffer!Wire(k, v) \in [1 .. Buffer!Width[k] -> AnyByte]
         /\ Buffer!Wire(k, Buffer!Wire(k, v)) = v
<1> DEFINE w == Buffer!Width[k]
           r == Buffer!Reverse(v)
<1>1. w \in Nat \ {0} /\ (k = "int8" => w = 1) /\ (k = "int64" => w = 8)
  BY DEF Buffer!Width
<1>2. k \in {"int8", "int16", "int32", "int64", "float", "double"}
  BY DEF Buffer!Width
<1> HIDE DEF w
<1>3. v \in [1 .. w -> AnyByte]
  BY DEF w
<1>4. /\ r \in [1 .. w -> AnyByte] /\ Buffer!Reverse(r) = v
      /\ \A i \in 1 .. w : r[i] = v[w - i + 1]
  <2>1. w \in Nat
    BY <1>1
  <2>2. r = Backwards(w, v)
    BY <1>3, <2>1, Turned
  <2>3. r \in [1 .. w -> AnyByte] /\ Buffer!Reverse(r) = v
    BY <1>3, <2>1, <2>2, TurnedTwice
  <2> QED
    BY <2>2, <2>3 DEF Backwards
<1> HIDE DEF r
<1>5. CASE k \in {"float", "double"}
  BY <1>1, <1>3, <1>4, <1>5
  DEF Buffer!Memory, Buffer!Ordered, Buffer!Number, Buffer!Wire, w, r
<1>6. CASE k = "int8"
  <2>1. w = 1 /\ r[1] = v[1]
    BY <1>1, <1>4, <1>6
  <2>2. \A i \in 1 .. w : r[i] = v[i]
    BY <2>1
  <2>3. r = v
    <3>1. r = [i \in 1 .. w |-> r[i]] /\ v = [i \in 1 .. w |-> v[i]]
      BY <1>3, <1>4
    <3> QED
      BY <2>2, <3>1
  <2> QED
    BY <1>1, <1>3, <1>6, <2>3 DEF Buffer!Memory, Buffer!Ordered, Buffer!Number, Buffer!Wire, w, r
<1>7. CASE k \in {"int16", "int32"}
  BY <1>1, <1>3, <1>4, <1>7
  DEF Buffer!Memory, Buffer!Ordered, Buffer!Number, Buffer!Wire, Buffer!Swapped, w, r
<1>8. CASE k = "int64"
  <2>1. Buffer!Swapped64(v) = r /\ Buffer!Swapped64(r) = v
    BY <1>1, <1>3, <1>4, <1>8, Halves DEF r
  <2> QED
    BY <1>1, <1>3, <1>4, <1>8, <2>1
    DEF Buffer!Memory, Buffer!Ordered, Buffer!Number, Buffer!Wire, w, r
<1> QED
  BY <1>2, <1>5, <1>6, <1>7, <1>8

(* Part of a sequence of bytes, as a number.                               *)
LEMMA Part ==
  ASSUME NEW s \in Seq(AnyByte), NEW m \in Nat, NEW n \in Nat, n >= 1, m + n <= Len(s)
  PROVE  /\ SubSeq(s, m + 1, m + n) = [i \in 1 .. n |-> s[m + i]]
         /\ SubSeq(s, m + 1, m + n) \in [1 .. n -> AnyByte]
<1> DEFINE t == SubSeq(s, m + 1, m + n)
<1>1. \A i \in m + 1 .. m + n : s[i] \in AnyByte
  OBVIOUS
<1>2. /\ t \in Seq(AnyByte)
      /\ Len(t) = IF m + 1 <= m + n THEN (m + n) - (m + 1) + 1 ELSE 0
      /\ \A i \in 1 .. (m + n) - (m + 1) + 1 : t[i] = s[m + 1 + i - 1]
  BY <1>1, SubSeqProperties
<1> HIDE DEF t
<1>0. (m + n) - (m + 1) + 1 = n /\ m + 1 <= m + n /\ \A i \in 1 .. n : m + 1 + i - 1 = m + i
  OBVIOUS
<1>3. /\ t \in Seq(AnyByte) /\ Len(t) = n /\ \A i \in 1 .. n : t[i] = s[m + i]
  BY <1>0, <1>2
<1>4. t \in [1 .. n -> AnyByte]
  BY <1>3
<1> QED
  BY <1>3, <1>4 DEF t

(* The first n bytes of a sequence.                                      *)
LEMMA Prefix ==
  ASSUME NEW s \in Seq(AnyByte), NEW n \in Nat, n <= Len(s)
  PROVE  /\ SubSeq(s, 1, n) \in Seq(AnyByte) /\ Len(SubSeq(s, 1, n)) = n
         /\ \A i \in 1 .. n : SubSeq(s, 1, n)[i] = s[i]
<1> DEFINE t == SubSeq(s, 1, n)
<1>1. \A i \in 1 .. n : s[i] \in AnyByte
  OBVIOUS
<1>2. /\ t \in Seq(AnyByte) /\ Len(t) = IF 1 <= n THEN n - 1 + 1 ELSE 0
      /\ \A i \in 1 .. n - 1 + 1 : t[i] = s[1 + i - 1]
  BY <1>1, SubSeqProperties
<1> HIDE DEF t
<1> QED
  BY <1>2 DEF t

(* What is left of a sequence without its first n bytes.                 *)
LEMMA Suffix ==
  ASSUME NEW s \in Seq(AnyByte), NEW n \in Nat, n <= Len(s)
  PROVE  /\ SubSeq(s, n + 1, Len(s)) \in Seq(AnyByte)
         /\ Len(SubSeq(s, n + 1, Len(s))) = Len(s) - n
         /\ \A i \in 1 .. Len(s) - n : SubSeq(s, n + 1, Len(s))[i] = s[n + i]
<1> DEFINE t == SubSeq(s, n + 1, Len(s))
<1>1. \A i \in n + 1 .. Len(s) : s[i] \in AnyByte
  OBVIOUS
<1>2. /\ t \in Seq(AnyByte) /\ Len(t) = IF n + 1 <= Len(s) THEN Len(s) - (n + 1) + 1 ELSE 0
      /\ \A i \in 1 .. Len(s) - (n + 1) + 1 : t[i] = s[n + 1 + i - 1]
  BY <1>1, SubSeqProperties
<1> HIDE DEF t
<1> QED
  BY <1>2 DEF t

(* push_back puts the bytes of the wire behind those there are.            *)
LEMMA Pushed ==
  ASSUME NEW b, Sound(b), NEW s \in Seq(AnyByte), Holds(b, s),
         NEW k \in DOMAIN Buffer!Width, NEW v \in [1 .. Buffer!Width[k] -> AnyByte]
  PROVE  /\ Sound(Buffer!PushBack(b, k, v))
         /\ s \o Buffer!Wire(k, v) \in Seq(AnyByte)
         /\ Holds(Buffer!PushBack(b, k, v), s \o Buffer!Wire(k, v))
         /\ Buffer!PushBack(b, k, v).front = b.front
         /\ Buffer!PushBack(b, k, v).back = b.back + Buffer!Width[k]
<1> DEFINE w == Buffer!Width[k]
           raw == Buffer!Wire(k, v)
<1>1. w \in Nat /\ raw \in [1 .. w -> AnyByte]
  BY Numbers
<1>2. Buffer!PushBack(b, k, v) = Buffer!Stored(b, raw)
  BY Numbers DEF Buffer!PushBack
<1> HIDE DEF w, raw
<1>3. raw \in Seq(AnyByte) /\ Len(raw) = w
  BY <1>1
<1>4. /\ Sound(Buffer!Stored(b, raw)) /\ Buffer!Stored(b, raw).front = b.front
      /\ Buffer!Stored(b, raw).back = b.back + Len(raw)
  BY <1>3, StoredMeans
<1>5. Holds(Buffer!Stored(b, raw), s \o raw)
  BY <1>3, StoredHolds
<1>6. s \o raw \in Seq(AnyByte)
  BY <1>3
<1> QED
  BY <1>2, <1>3, <1>4, <1>5, <1>6 DEF w, raw

(* pop takes the number at the back, and says so if there is none; for a   *)
(* caller who asks for more than size() that needs the front to be at 0.   *)
LEMMA Popped ==
  ASSUME NEW b, Sound(b), NEW s \in Seq(AnyByte), Holds(b, s), NEW k \in DOMAIN Buffer!Width
  PROVE  /\ Buffer!Width[k] <= Len(s) =>
              LET rest == SubSeq(s, 1, Len(s) - Buffer!Width[k])
              IN /\ Buffer!PopRead(b, k) =
                       Buffer!Wire(k, SubSeq(s, Len(s) - Buffer!Width[k] + 1, Len(s)))
                 /\ Sound(Buffer!PopBuffer(b, k)) /\ rest \in Seq(AnyByte)
                 /\ Holds(Buffer!PopBuffer(b, k), rest)
         /\ Buffer!Width[k] > Len(s) /\ b.front = 0 =>
              Buffer!PopRead(b, k) = <<>> /\ Buffer!PopBuffer(b, k) = b
<1> DEFINE w == Buffer!Width[k]
<1>1. w \in Nat \ {0}
  BY DEF Buffer!Width
<1>2. /\ b \in Buffers /\ b.bytes \in Seq(AnyByte) /\ b.front \in Nat /\ b.back \in Nat
      /\ b.front <= b.back /\ b.back <= Len(b.bytes)
      /\ Len(s) = b.back - b.front /\ \A i \in 1 .. Len(s) : s[i] = b.bytes[b.front + i]
  BY DEF Sound, Buffers, Holds
<1>3. ASSUME w <= Len(s)
      PROVE  /\ Buffer!PopRead(b, k) = Buffer!Wire(k, SubSeq(s, Len(s) - w + 1, Len(s)))
             /\ Sound(Buffer!PopBuffer(b, k)) /\ SubSeq(s, 1, Len(s) - w) \in Seq(AnyByte)
             /\ Holds(Buffer!PopBuffer(b, k), SubSeq(s, 1, Len(s) - w))
  <2> HIDE DEF w
  <2> DEFINE m == b.back - w
             l == Len(s) - w
             raw == SubSeq(b.bytes, m + 1, m + w)
             last == SubSeq(s, l + 1, l + w)
  <2>1. m \in Nat /\ l \in Nat /\ m = b.front + l /\ m + w = b.back /\ l + w = Len(s)
    BY <1>1, <1>2, <1>3
  <2> HIDE DEF m, l
  <2>2. raw = [i \in 1 .. w |-> b.bytes[m + i]] /\ raw \in [1 .. w -> AnyByte]
    <3>1. w \in Nat /\ w >= 1 /\ m + w <= Len(b.bytes)
      BY <1>1, <1>2, <2>1
    <3> QED
      BY <1>2, <2>1, <3>1, Part
  <2>3. last = [i \in 1 .. w |-> s[l + i]]
    BY <1>1, <1>2, <2>1, Part
  <2>4. ASSUME NEW i \in 1 .. w PROVE b.bytes[m + i] = s[l + i]
    <3>1. l + i \in 1 .. Len(s)
      BY <1>1, <2>1
    <3>2. b.front + (l + i) = m + i
      BY <1>1, <1>2, <2>1
    <3> QED
      BY <1>2, <3>1, <3>2
  <2>5. raw = last
    BY <2>2, <2>3, <2>4
  <2> HIDE DEF raw, last
  <2>6. Buffer!Number(k, raw) = Buffer!Wire(k, last)
    <3>1. raw \in [1 .. Buffer!Width[k] -> AnyByte]
      BY <2>2 DEF w
    <3> QED
      BY <2>5, <3>1, Numbers
  <2>7. Buffer!BackHas(b, w)
    BY <1>1, <1>2, <2>1 DEF Buffer!BackHas
  <2>8. Buffer!PopRead(b, k) = Buffer!Number(k, raw)
    BY <2>1, <2>7 DEF Buffer!PopRead, raw, w, m
  <2>9. last = SubSeq(s, Len(s) - w + 1, Len(s))
    BY <2>1 DEF last, l
  <2>10. Buffer!PopBuffer(b, k) = [b EXCEPT !.back = m]
    BY <2>7 DEF Buffer!PopBuffer, w, m
  <2>11. SubSeq(s, 1, l) \in Seq(AnyByte) /\ Len(SubSeq(s, 1, l)) = l
         /\ \A i \in 1 .. l : SubSeq(s, 1, l)[i] = s[i]
    BY <1>1, <1>2, <2>1, Prefix
  <2>12. Sound(Buffer!PopBuffer(b, k)) /\ Holds(Buffer!PopBuffer(b, k), SubSeq(s, 1, l))
    <3> DEFINE c == [b EXCEPT !.back = m]
    <3>1. c.bytes = b.bytes /\ c.front = b.front /\ c.back = m /\ c \in Buffers
      BY <1>2, <2>1 DEF Buffers
    <3> HIDE DEF c
    <3> DEFINE t == SubSeq(s, 1, l)
    <3>2. Len(t) = l /\ \A i \in 1 .. l : t[i] = b.bytes[b.front + i]
      <4> SUFFICES ASSUME NEW i \in 1 .. l PROVE t[i] = b.bytes[b.front + i]
        BY <2>11
      <4>1. i \in 1 .. Len(s)
        BY <1>1, <1>2, <2>1
      <4> QED
        BY <1>2, <2>11, <4>1
    <3> HIDE DEF t
    <3>3. Sound(c)
      BY <1>1, <1>2, <2>1, <3>1 DEF Sound
    <3>4. Holds(c, t)
      BY <1>2, <2>1, <3>1, <3>2 DEF Holds
    <3> QED
      BY <2>10, <3>3, <3>4 DEF c, t
  <2> QED
    BY <2>6, <2>8, <2>9, <2>11, <2>12 DEF l
<1>4. ASSUME w > Len(s), b.front = 0
      PROVE  Buffer!PopRead(b, k) = <<>> /\ Buffer!PopBuffer(b, k) = b
  <2>1. ~ Buffer!BackHas(b, w)
    BY <1>1, <1>2, <1>4 DEF Buffer!BackHas
  <2> QED
    BY <2>1 DEF Buffer!PopRead, Buffer!PopBuffer, Buffer!Fails
<1> QED
  BY <1>3, <1>4

(* pop_front takes the number at the front, and says so if there is none.  *)
LEMMA FrontPopped ==
  ASSUME NEW b, Sound(b), NEW s \in Seq(AnyByte), Holds(b, s), NEW k \in DOMAIN Buffer!Width
  PROVE  /\ Buffer!Width[k] <= Len(s) =>
              LET rest == SubSeq(s, Buffer!Width[k] + 1, Len(s))
              IN /\ Buffer!FrontRead(b, k) = Buffer!Wire(k, SubSeq(s, 1, Buffer!Width[k]))
                 /\ Sound(Buffer!FrontBuffer(b, k)) /\ rest \in Seq(AnyByte)
                 /\ Holds(Buffer!FrontBuffer(b, k), rest)
         /\ Buffer!Width[k] > Len(s) =>
              Buffer!FrontRead(b, k) = <<>> /\ Buffer!FrontBuffer(b, k) = b
<1> DEFINE w == Buffer!Width[k]
<1>1. w \in Nat \ {0}
  BY DEF Buffer!Width
<1>2. /\ b \in Buffers /\ b.bytes \in Seq(AnyByte) /\ b.front \in Nat /\ b.back \in Nat
      /\ b.front <= b.back /\ b.back <= Len(b.bytes)
      /\ Len(s) = b.back - b.front /\ \A i \in 1 .. Len(s) : s[i] = b.bytes[b.front + i]
  BY DEF Sound, Buffers, Holds
<1>3. ASSUME w <= Len(s)
      PROVE  /\ Buffer!FrontRead(b, k) = Buffer!Wire(k, SubSeq(s, 1, w))
             /\ Sound(Buffer!FrontBuffer(b, k)) /\ SubSeq(s, w + 1, Len(s)) \in Seq(AnyByte)
             /\ Holds(Buffer!FrontBuffer(b, k), SubSeq(s, w + 1, Len(s)))
  <2> HIDE DEF w
  <2> DEFINE raw == [i \in 1 .. w |->
                        IF b.front + i <= Len(b.bytes) THEN b.bytes[b.front + i]
                        ELSE Buffer!Byte("junk", 0, 0)]
             first == SubSeq(s, 1, w)
             rest == SubSeq(s, w + 1, Len(s))
  <2>1. /\ first \in Seq(AnyByte) /\ Len(first) = w
        /\ \A i \in 1 .. w : first[i] = s[i]
    BY <1>1, <1>3, Prefix
  <2>2. first \in [1 .. w -> AnyByte]
    <3> HIDE DEF first
    <3> QED
      BY <2>1
  <2>3. raw = first
    <3> HIDE DEF first
    <3>1. \A i \in 1 .. w : i \in 1 .. Len(s) /\ b.front + i <= Len(b.bytes)
      BY <1>1, <1>2, <1>3
    <3>2. \A i \in 1 .. w : raw[i] = first[i]
      BY <1>2, <2>1, <3>1
    <3>3. raw = [i \in 1 .. w |-> raw[i]] /\ first = [i \in 1 .. w |-> first[i]]
      BY <2>2
    <3> QED
      BY <3>2, <3>3
  <2>4. Buffer!FrontHas(b, w)
    BY <1>1, <1>2, <1>3 DEF Buffer!FrontHas, Buffer!Size
  <2>5. Buffer!FrontRead(b, k) = Buffer!Number(k, raw)
    BY <2>4 DEF Buffer!FrontRead, w
  <2> HIDE DEF raw, first
  <2>6. Buffer!Number(k, raw) = Buffer!Wire(k, first)
    <3>1. raw \in [1 .. Buffer!Width[k] -> AnyByte]
      BY <2>2, <2>3 DEF w
    <3> QED
      BY <2>3, <3>1, Numbers
  <2>7. Buffer!FrontBuffer(b, k) = [b EXCEPT !.front = b.front + w]
    BY <2>4 DEF Buffer!FrontBuffer, w
  <2>8. /\ rest \in Seq(AnyByte) /\ Len(rest) = Len(s) - w
        /\ \A i \in 1 .. Len(s) - w : rest[i] = s[w + i]
    BY <1>1, <1>3, Suffix
  <2> HIDE DEF rest
  <2>9. Sound(Buffer!FrontBuffer(b, k)) /\ Holds(Buffer!FrontBuffer(b, k), rest)
    <3> DEFINE c == [b EXCEPT !.front = b.front + w]
    <3>1. c.bytes = b.bytes /\ c.front = b.front + w /\ c.back = b.back /\ c \in Buffers
      BY <1>1, <1>2 DEF Buffers
    <3> HIDE DEF c
    <3>2. ASSUME NEW i \in 1 .. Len(s) - w PROVE rest[i] = b.bytes[b.front + w + i]
      <4>1. w + i \in 1 .. Len(s) /\ b.front + (w + i) = b.front + w + i
        BY <1>1, <1>2, <1>3
      <4> QED
        BY <1>2, <2>8, <4>1
    <3>3. Sound(c)
      BY <1>1, <1>2, <1>3, <3>1 DEF Sound
    <3>4. Holds(c, rest)
      BY <1>1, <1>2, <2>8, <3>1, <3>2 DEF Holds
    <3> QED
      BY <2>7, <3>3, <3>4 DEF c
  <2> QED
    BY <2>5, <2>6, <2>8, <2>9 DEF first, rest
<1>4. ASSUME w > Len(s)
      PROVE  Buffer!FrontRead(b, k) = <<>> /\ Buffer!FrontBuffer(b, k) = b
  <2>1. ~ Buffer!FrontHas(b, w)
    BY <1>1, <1>2, <1>4 DEF Buffer!FrontHas, Buffer!Size
  <2> QED
    BY <2>1 DEF Buffer!FrontRead, Buffer!FrontBuffer, Buffer!Fails
<1> QED
  BY <1>3, <1>4

(* Numbers of four bytes; the boxes that n boxes are, and their numbers.    *)
Four == [1 .. 4 -> AnyByte]
FieldSet == {"int32", "float"} \X Four
BoxSet == [1 .. 6 -> Four]
Numbered(n) == [j \in 1 .. n |-> Buffer!Box(j)]
FieldAt(n, i) ==
  <<Buffer!BoxKinds[((i - 1) % 6) + 1], Numbered(n)[(i - 1) \div 6 + 1][((i - 1) % 6) + 1]>>
Header(n) == <<<<"int32", Buffer!Typed>>, <<"int32", Buffer!Count(n)>>>>

(* They are numbers of four bytes, integers and floating point.          *)
LEMMA Constants ==
  ASSUME NEW n \in Nat
  PROVE  /\ Buffer!Typed \in Four /\ Buffer!Count(n) \in Four
         /\ \A j \in Nat : Buffer!Box(j) \in BoxSet
         /\ \A f \in 1 .. 6 : Buffer!BoxKinds[f] \in {"int32", "float"}
<1>1. Buffer!Typed \in Four
  BY DEF Buffer!Typed, Buffer!Byte, Four, AnyByte
<1>2. Buffer!Count(n) \in Four
  BY DEF Buffer!Count, Buffer!Byte, Four, AnyByte
<1>3. ASSUME NEW j \in Nat PROVE Buffer!Box(j) \in BoxSet
  <2>1. ASSUME NEW f \in 1 .. 6 PROVE Buffer!Field(j, f) \in Four
    <3>1. 6 * j + f \in Nat
      OBVIOUS
    <3> QED
      BY <3>1 DEF Buffer!Field, Buffer!Byte, Four, AnyByte
  <2> QED
    BY <2>1 DEF Buffer!Box, BoxSet
<1>4. \A f \in 1 .. 6 : Buffer!BoxKinds[f] \in {"int32", "float"}
  BY DEF Buffer!BoxKinds
<1> QED
  BY <1>1, <1>2, <1>3, <1>4

(* The i-th number of the boxes is a number of one of the n boxes.       *)
LEMMA Indices ==
  ASSUME NEW n \in Nat, NEW i \in 1 .. 6 * n
  PROVE  /\ ((i - 1) % 6) + 1 \in 1 .. 6 /\ (i - 1) \div 6 + 1 \in 1 .. n
         /\ i = 6 * ((i - 1) \div 6) + ((i - 1) % 6) + 1
OBVIOUS

(* What toByteBuffer writes: the type, the count, and six numbers of each *)
(* box.                                                                  *)
LEMMA FieldsMean ==
  ASSUME NEW n \in Nat
  PROVE  LET fields == Buffer!Fields(Numbered(n))
         IN /\ fields \in Seq(FieldSet) /\ Len(fields) = 2 + 6 * n
            /\ fields[1] = <<"int32", Buffer!Typed>> /\ fields[2] = <<"int32", Buffer!Count(n)>>
            /\ \A i \in 1 .. 6 * n : fields[2 + i] = FieldAt(n, i)
<1> DEFINE rest == [i \in 1 .. 6 * n |-> FieldAt(n, i)]
           head == Header(n)
<1>1. Len(Numbered(n)) = n
  BY DEF Numbered
<1>2. Buffer!Fields(Numbered(n)) = head \o rest
  BY <1>1 DEF Buffer!Fields, Header, FieldAt
<1>3. ASSUME NEW i \in 1 .. 6 * n PROVE FieldAt(n, i) \in FieldSet
  <2> DEFINE f == ((i - 1) % 6) + 1
             j == (i - 1) \div 6 + 1
  <2>1. f \in 1 .. 6 /\ j \in 1 .. n
    BY Indices
  <2>2. FieldAt(n, i) = <<Buffer!BoxKinds[f], Numbered(n)[j][f]>>
    BY DEF FieldAt
  <2> HIDE DEF f, j
  <2>3. Numbered(n)[j] \in BoxSet
    BY <2>1, Constants DEF Numbered
  <2>4. Numbered(n)[j][f] \in Four
    BY <2>1, <2>3 DEF BoxSet
  <2>5. Buffer!BoxKinds[f] \in {"int32", "float"}
    BY <2>1, Constants
  <2> QED
    BY <2>2, <2>4, <2>5 DEF FieldSet
<1>4. head \in Seq(FieldSet) /\ Len(head) = 2
      /\ head[1] = <<"int32", Buffer!Typed>> /\ head[2] = <<"int32", Buffer!Count(n)>>
  BY Constants DEF Header, FieldSet
<1>5. rest \in [1 .. 6 * n -> FieldSet]
  BY <1>3
<1>6. rest \in Seq(FieldSet) /\ Len(rest) = 6 * n
  <2> DEFINE l == 6 * n
  <2>1. l \in Nat /\ rest \in [1 .. l -> FieldSet]
    BY <1>5
  <2> HIDE DEF l, rest
  <2>2. rest \in Seq(FieldSet) /\ Len(rest) = l
    BY <2>1
  <2> QED
    BY <2>2 DEF l
<1>7. \A i \in 1 .. 6 * n : rest[i] = FieldAt(n, i)
  OBVIOUS
<1> HIDE DEF head, rest
<1>8. /\ head \o rest \in Seq(FieldSet) /\ Len(head \o rest) = Len(head) + Len(rest)
      /\ \A i \in 1 .. Len(head) + Len(rest) :
            (head \o rest)[i] = IF i <= Len(head) THEN head[i] ELSE rest[i - Len(head)]
  BY <1>4, <1>6, ConcatProperties
<1> DEFINE both == head \o rest
<1>9. /\ both \in Seq(FieldSet) /\ Len(both) = 2 + 6 * n
      /\ \A i \in 1 .. 2 + 6 * n : both[i] = IF i <= 2 THEN head[i] ELSE rest[i - 2]
  BY <1>4, <1>6, <1>8
<1> HIDE DEF both
<1>10. both[1] = head[1] /\ both[2] = head[2]
  BY <1>9
<1>11. ASSUME NEW i \in 1 .. 6 * n PROVE both[2 + i] = FieldAt(n, i)
  <2>1. 2 + i \in 1 .. 2 + 6 * n /\ ~(2 + i <= 2) /\ 2 + i - 2 = i
    OBVIOUS
  <2> QED
    BY <1>7, <1>9, <2>1
<1> QED
  BY <1>2, <1>4, <1>9, <1>10, <1>11 DEF both

(* Where the bytes of the n-th number lie.                                 *)
LEMMA LaidMeans ==
  ASSUME NEW fields \in Seq(FieldSet), NEW n \in 1 .. Len(fields), NEW i \in 1 .. 4
  PROVE  /\ 4 * (n - 1) + i \in 1 .. 4 * Len(fields)
         /\ Buffer!Laid(fields)[4 * (n - 1) + i] = Buffer!Wire(fields[n][1], fields[n][2])[i]
<1> DEFINE at == 4 * (n - 1) + i
<1>0. Len(fields) \in Nat
  OBVIOUS
<1>1. at \in 1 .. 4 * Len(fields) /\ (at - 1) \div 4 + 1 = n /\ ((at - 1) % 4) + 1 = i
  BY <1>0
<1> HIDE DEF at
<1>2. Buffer!Laid(fields)[at] =
        Buffer!Wire(fields[(at - 1) \div 4 + 1][1], fields[(at - 1) \div 4 + 1][2])[((at - 1) % 4) + 1]
  BY <1>1 DEF Buffer!Laid
<1> QED
  BY <1>1, <1>2 DEF at

(* On the wire each of them has four bytes, and is had back from there.  *)
LEMMA FieldWire ==
  ASSUME NEW field \in FieldSet
  PROVE  /\ field[1] \in DOMAIN Buffer!Width /\ Buffer!Width[field[1]] = 4
         /\ field[2] \in [1 .. Buffer!Width[field[1]] -> AnyByte]
         /\ Buffer!Wire(field[1], field[2]) \in Four
         /\ Buffer!Wire(field[1], Buffer!Wire(field[1], field[2])) = field[2]
<1>1. field[1] \in {"int32", "float"} /\ field[2] \in Four
  BY DEF FieldSet
<1>2. field[1] \in DOMAIN Buffer!Width /\ Buffer!Width[field[1]] = 4
  BY <1>1 DEF Buffer!Width
<1>3. field[2] \in [1 .. Buffer!Width[field[1]] -> AnyByte]
  BY <1>1, <1>2 DEF Four
<1>4. /\ Buffer!Wire(field[1], field[2]) \in [1 .. Buffer!Width[field[1]] -> AnyByte]
      /\ Buffer!Wire(field[1], Buffer!Wire(field[1], field[2])) = field[2]
  BY <1>2, <1>3, Numbers
<1> QED
  BY <1>2, <1>3, <1>4 DEF Four

(* The buffers that are sound, as a set.                                 *)
SoundOnes == {b \in Buffers : Sound(b)}

(* One number of four bytes more is written.                             *)
LEMMA PushSound ==
  ASSUME NEW b, Sound(b), NEW field \in FieldSet
  PROVE  LET c == Buffer!PushBack(b, field[1], field[2])
         IN /\ Sound(c) /\ c.front = b.front /\ c.back = b.back + 4
            /\ \A i \in 1 .. b.back : c.bytes[i] = b.bytes[i]
            /\ \A i \in 1 .. 4 : c.bytes[b.back + i] = Buffer!Wire(field[1], field[2])[i]
<1> DEFINE raw == Buffer!Wire(field[1], field[2])
<1>1. raw \in Four
  BY FieldWire
<1>2. Buffer!PushBack(b, field[1], field[2]) = Buffer!Stored(b, raw)
  <2>1. field[1] \in DOMAIN Buffer!Width /\ field[2] \in [1 .. Buffer!Width[field[1]] -> AnyByte]
    BY FieldWire
  <2> QED
    BY <2>1, Numbers DEF Buffer!PushBack
<1> HIDE DEF raw
<1>3. raw \in Seq(AnyByte) /\ Len(raw) = 4
  <2>1. PICK four \in Nat : four = 4
    OBVIOUS
  <2>2. raw \in [1 .. four -> AnyByte]
    BY <1>1, <2>1 DEF Four
  <2>3. raw \in Seq(AnyByte) /\ Len(raw) = four
    BY <2>2
  <2> QED
    BY <2>1, <2>3
<1>4. /\ Sound(Buffer!Stored(b, raw)) /\ Buffer!Stored(b, raw).front = b.front
      /\ Buffer!Stored(b, raw).back = b.back + Len(raw)
      /\ \A i \in 1 .. b.back : Buffer!Stored(b, raw).bytes[i] = b.bytes[i]
      /\ \A i \in 1 .. Len(raw) : Buffer!Stored(b, raw).bytes[b.back + i] = raw[i]
  BY <1>3, StoredMeans
<1> QED
  BY <1>2, <1>3, <1>4 DEF raw

(* A new buffer is empty.                                                *)
LEMMA NewSound == Sound(Buffer!NewBuffer) /\ Buffer!NewBuffer.front = 0 /\ Buffer!NewBuffer.back = 0
<1>1. FirstCap \in Nat
  BY PartsAssumption DEF PartsAssumption, Buffer!ByteBufferAssumption
<1> DEFINE junk == [i \in 1 .. FirstCap |-> <<"junk", 0, 0>>]
<1>2. <<"junk", 0, 0>> \in AnyByte
  BY DEF AnyByte
<1>3. junk \in [1 .. FirstCap -> AnyByte]
  BY <1>2
<1>4. junk \in Seq(AnyByte) /\ Len(junk) = FirstCap
  BY <1>1, <1>3
<1>5. Buffer!NewBuffer = [bytes |-> junk, front |-> 0, back |-> 0]
  BY DEF Buffer!NewBuffer, Buffer!Junk, Buffer!Byte
<1> HIDE DEF junk
<1> QED
  BY <1>1, <1>4, <1>5 DEF Sound, Buffers

(* The numbers are in the buffer as they should lie there, once so many    *)
(* are written.                                                            *)
LEMMA WritingMeans ==
  ASSUME NEW fields \in Seq(FieldSet), NEW n \in 0 .. Len(fields)
  PROVE  LET b == Buffer!Writing(fields)[n]
         IN /\ Sound(b) /\ b.front = 0 /\ b.back = 4 * n
            /\ \A i \in 1 .. 4 * n : b.bytes[i] = Buffer!Laid(fields)[i]
<1> DEFINE N == Len(fields)
           after == Buffer!Writing(fields)
           Further(b, i) == Buffer!PushBack(b, fields[i][1], fields[i][2])
           step == [i \in 1 .. N |-> [b \in SoundOnes |-> Further(b, i)]]
<1>0. N \in Nat /\ \A i \in 1 .. N : fields[i] \in FieldSet
  OBVIOUS
<1>1. after = CHOOSE f : f = [i \in 0 .. N |-> IF i = 0 THEN Buffer!NewBuffer
                                               ELSE Further(f[i - 1], i)]
  BY DEF Buffer!Writing
<1> HIDE DEF N
<1>2. PICK f \in [0 .. N -> SoundOnes] : Iterates(f, Buffer!NewBuffer, step, N)
  <2>1. Buffer!NewBuffer \in SoundOnes
    BY NewSound DEF SoundOnes, Sound
  <2>2. ASSUME NEW i \in 1 .. N, NEW b \in SoundOnes PROVE Further(b, i) \in SoundOnes
    <3>1. Sound(Further(b, i))
      BY <1>0, PushSound DEF SoundOnes
    <3> HIDE DEF Further
    <3> QED
      BY <3>1 DEF SoundOnes, Sound
  <2> HIDE DEF Further
  <2>3. step \in [1 .. N -> [SoundOnes -> SoundOnes]]
    BY <2>2
  <2> HIDE DEF step
  <2> QED
    BY <1>0, <2>1, <2>3, Recursion
<1> HIDE DEF Further
<1>3. f = [i \in 0 .. N |-> IF i = 0 THEN Buffer!NewBuffer ELSE Further(f[i - 1], i)]
  <2>1. ASSUME NEW i \in 1 .. N PROVE step[i][f[i - 1]] = Further(f[i - 1], i)
    <3>1. i - 1 \in 0 .. N
      BY <1>0
    <3>2. f[i - 1] \in SoundOnes
      BY <1>2, <3>1
    <3> QED
      BY <3>2
  <2> HIDE DEF step
  <2>2. \A i \in 0 .. N : f[i] = IF i = 0 THEN Buffer!NewBuffer ELSE Further(f[i - 1], i)
    BY <1>0, <1>2, <2>1 DEF Iterates
  <2> QED
    BY <1>2, <2>2
<1> HIDE DEF after
<1>4. after = [i \in 0 .. N |-> IF i = 0 THEN Buffer!NewBuffer ELSE Further(after[i - 1], i)]
  BY <1>1, <1>3
<1> DEFINE Fine(i) == /\ Sound(after[i]) /\ after[i].front = 0 /\ after[i].back = 4 * i
                      /\ \A j \in 1 .. 4 * i : after[i].bytes[j] = Buffer!Laid(fields)[j]
           Good == {i \in Nat : i <= N => Fine(i)}
<1>5. 0 \in Good
  <2>1. after[0] = Buffer!NewBuffer
    BY <1>0, <1>4
  <2> QED
    BY <2>1, NewSound
<1>6. ASSUME NEW i \in Nat, i \in Good PROVE i + 1 \in Good
  <2> SUFFICES ASSUME i + 1 <= N PROVE Fine(i + 1)
    OBVIOUS
  <2>1. Fine(i)
    BY <1>0, <1>6
  <2> DEFINE b == after[i]
             c == after[i + 1]
             field == fields[i + 1]
  <2>2. field \in FieldSet /\ i + 1 \in 1 .. N
    BY <1>0
  <2>3. c = Further(b, i + 1)
    BY <1>0, <1>4, <2>2
  <2>4. Sound(b) /\ b.front = 0 /\ b.back = 4 * i
        /\ \A j \in 1 .. 4 * i : b.bytes[j] = Buffer!Laid(fields)[j]
    BY <2>1
  <2>5. /\ Sound(c) /\ c.front = b.front /\ c.back = b.back + 4
        /\ \A j \in 1 .. b.back : c.bytes[j] = b.bytes[j]
        /\ \A j \in 1 .. 4 : c.bytes[b.back + j] = Buffer!Wire(field[1], field[2])[j]
    <3>1. c = Buffer!PushBack(b, field[1], field[2])
      BY <2>3 DEF Further
    <3>2. Sound(b) /\ field \in FieldSet
      BY <2>2, <2>4
    <3> HIDE DEF b, c, field
    <3> QED
      BY <3>1, <3>2, PushSound
  <2>6. ASSUME NEW j \in 1 .. 4
        PROVE  Buffer!Laid(fields)[4 * (i + 1 - 1) + j] = Buffer!Wire(field[1], field[2])[j]
    <3>1. i + 1 \in 1 .. Len(fields)
      BY <2>2 DEF N
    <3> DEFINE m == i + 1
    <3> HIDE DEF m
    <3>2. m \in 1 .. Len(fields)
      BY <3>1 DEF m
    <3>3. Buffer!Laid(fields)[4 * (m - 1) + j] = Buffer!Wire(fields[m][1], fields[m][2])[j]
      BY <3>2, LaidMeans
    <3> QED
      BY <3>3 DEF m
  <2> HIDE DEF b, c, field
  <2>7. ASSUME NEW j \in 1 .. 4 * (i + 1) PROVE c.bytes[j] = Buffer!Laid(fields)[j]
    <3>1. CASE j <= 4 * i
      BY <2>4, <2>5, <3>1
    <3>2. CASE ~(j <= 4 * i)
      <4>1. j - 4 * i \in 1 .. 4 /\ b.back + (j - 4 * i) = j /\ 4 * (i + 1 - 1) + (j - 4 * i) = j
        BY <2>4, <3>2
      <4> QED
        BY <2>5, <2>6, <4>1
    <3> QED
      BY <3>1, <3>2
  <2>8. c.back = 4 * (i + 1)
    BY <2>4, <2>5
  <2> QED
    BY <2>4, <2>5, <2>7, <2>8 DEF c
<1> HIDE DEF Good
<1>7. n \in Good /\ n <= N
  <2>1. Nat \subseteq Good
    BY <1>5, <1>6, Induct
  <2> QED
    BY <1>0, <2>1 DEF N
<1> HIDE DEF Fine
<1>8. Fine(n)
  BY <1>7 DEF Good
<1> QED
  BY <1>8 DEF Fine, after

(* The kinds that a Detection is written in, four bytes from a place on, *)
(* and a buffer that holds what a sequence has after its first m bytes.  *)
Small == {"int32", "float"}
Quad(s, m) == [j \in 1 .. 4 |-> s[m + j]]
Beyond(b, s, m) ==
  /\ Len(s) - m = b.back - b.front
  /\ \A i \in 1 .. Len(s) - m : s[m + i] = b.bytes[b.front + i]

(* What a buffer holds is between its offsets.                           *)
LEMMA HeldIs ==
  ASSUME NEW b, Sound(b)
  PROVE  /\ SubSeq(b.bytes, b.front + 1, b.back) \in Seq(AnyByte)
         /\ Holds(b, SubSeq(b.bytes, b.front + 1, b.back))
<1>1. /\ b.bytes \in Seq(AnyByte) /\ b.front \in Nat /\ b.back \in Nat
      /\ b.front <= b.back /\ b.back <= Len(b.bytes)
  BY DEF Sound, Buffers
<1> DEFINE t == SubSeq(b.bytes, b.front + 1, b.back)
<1>2. \A i \in b.front + 1 .. b.back : b.bytes[i] \in AnyByte
  BY <1>1
<1>3. /\ t \in Seq(AnyByte)
      /\ Len(t) = IF b.front + 1 <= b.back THEN b.back - (b.front + 1) + 1 ELSE 0
      /\ \A i \in 1 .. b.back - (b.front + 1) + 1 : t[i] = b.bytes[b.front + 1 + i - 1]
  BY <1>1, <1>2, SubSeqProperties
<1> HIDE DEF t
<1>4. Len(t) = b.back - b.front
  BY <1>1, <1>3
<1>5. ASSUME NEW i \in 1 .. Len(t) PROVE t[i] = b.bytes[b.front + i]
  <2>1. i \in 1 .. b.back - (b.front + 1) + 1 /\ b.front + 1 + i - 1 = b.front + i
    BY <1>1, <1>4
  <2> QED
    BY <1>3, <2>1
<1> QED
  BY <1>3, <1>4, <1>5 DEF Holds, t

(* Sequences of the same bytes are the same.                             *)
LEMMA SameBytes ==
  ASSUME NEW s \in Seq(AnyByte), NEW t \in Seq(AnyByte), Len(s) = Len(t),
         \A i \in 1 .. Len(s) : s[i] = t[i]
  PROVE  s = t
<1>1. s = [i \in 1 .. Len(s) |-> s[i]] /\ t = [i \in 1 .. Len(s) |-> t[i]]
  OBVIOUS
<1> QED
  BY <1>1

(* The numbers of a Detection have four bytes each.                      *)
LEMMA SmallKinds ==
  ASSUME NEW k \in Small PROVE k \in DOMAIN Buffer!Width /\ Buffer!Width[k] = 4
BY DEF Small, Buffer!Width

(* pop_front leaves a sound buffer and returns bytes, or none.           *)
LEMMA FrontSound ==
  ASSUME NEW b, Sound(b), NEW k \in Small
  PROVE  Sound(Buffer!FrontBuffer(b, k)) /\ Buffer!FrontRead(b, k) \in Seq(AnyByte)
<1>1. PICK s \in Seq(AnyByte) : Holds(b, s)
  BY HeldIs
<1>2. k \in DOMAIN Buffer!Width /\ Buffer!Width[k] = 4
  BY SmallKinds
<1>3. CASE 4 <= Len(s)
  <2>1. PICK four \in Nat : four = 4
    OBVIOUS
  <2> DEFINE raw == SubSeq(s, 1, four)
  <2>2. raw \in Seq(AnyByte) /\ Len(raw) = four
    BY <1>3, <2>1, Prefix
  <2>3. raw \in [1 .. four -> AnyByte]
    <3> HIDE DEF raw
    <3> QED
      BY <2>2
  <2>4. Buffer!Wire(k, SubSeq(s, 1, 4)) \in [1 .. Buffer!Width[k] -> AnyByte]
    BY <1>2, <2>1, <2>3, Numbers
  <2>5. Buffer!Wire(k, SubSeq(s, 1, 4)) \in Seq(AnyByte)
    <3>1. Buffer!Wire(k, SubSeq(s, 1, 4)) \in [1 .. four -> AnyByte]
      BY <1>2, <2>1, <2>4
    <3> QED
      BY <3>1
  <2>6. /\ Buffer!FrontRead(b, k) = Buffer!Wire(k, SubSeq(s, 1, 4))
        /\ Sound(Buffer!FrontBuffer(b, k))
    BY <1>1, <1>2, <1>3, FrontPopped
  <2> QED
    BY <2>5, <2>6
<1>4. CASE ~(4 <= Len(s))
  <2>1. Len(s) \in Nat
    OBVIOUS
  <2>2. Buffer!FrontRead(b, k) = <<>> /\ Buffer!FrontBuffer(b, k) = b
    BY <1>1, <1>2, <1>4, <2>1, FrontPopped
  <2>3. <<>> \in Seq(AnyByte)
    OBVIOUS
  <2> QED
    BY <2>2, <2>3
<1> QED
  BY <1>3, <1>4

(* One number of four bytes more is read.                                  *)
LEMMA FrontStep ==
  ASSUME NEW b, Sound(b), NEW s \in Seq(AnyByte), NEW m \in Nat, m + 4 <= Len(s),
         Beyond(b, s, m), NEW k \in Small
  PROVE  /\ Buffer!FrontRead(b, k) = Buffer!Wire(k, Quad(s, m))
         /\ Beyond(Buffer!FrontBuffer(b, k), s, m + 4)
<1>0. Len(s) \in Nat /\ m <= Len(s)
  OBVIOUS
<1> DEFINE t == SubSeq(s, m + 1, Len(s))
<1>1. t \in Seq(AnyByte) /\ Len(t) = Len(s) - m /\ \A i \in 1 .. Len(s) - m : t[i] = s[m + i]
  BY <1>0, Suffix
<1> HIDE DEF t
<1>2. Holds(b, t)
  BY <1>0, <1>1 DEF Holds, Beyond
<1>3. k \in DOMAIN Buffer!Width /\ Buffer!Width[k] = 4 /\ 4 <= Len(t)
  BY <1>0, <1>1, SmallKinds
<1> DEFINE u == SubSeq(t, 5, Len(t))
           c == Buffer!FrontBuffer(b, k)
<1>4. /\ Buffer!FrontRead(b, k) = Buffer!Wire(k, SubSeq(t, 1, 4))
      /\ Holds(c, u)
  <2>1. 4 + 1 = 5
    OBVIOUS
  <2>2. /\ Buffer!FrontRead(b, k) = Buffer!Wire(k, SubSeq(t, 1, 4))
        /\ Holds(c, SubSeq(t, 4 + 1, Len(t)))
    BY <1>1, <1>2, <1>3, FrontPopped
  <2> QED
    BY <2>1, <2>2
<1>5. SubSeq(t, 1, 4) = Quad(s, m)
  <2>1. PICK none \in Nat, four \in Nat : none = 0 /\ four = 4
    OBVIOUS
  <2>2. SubSeq(t, none + 1, none + four) = [i \in 1 .. four |-> t[none + i]]
    BY <1>1, <1>3, <2>1, Part
  <2>3. \A i \in 1 .. 4 : t[none + i] = s[m + i]
    BY <1>0, <1>1, <2>1
  <2>4. SubSeq(t, 1, 4) = [i \in 1 .. 4 |-> s[m + i]]
    BY <2>1, <2>2, <2>3
  <2> QED
    BY <2>4 DEF Quad
<1>6. /\ u \in Seq(AnyByte) /\ Len(u) = Len(s) - (m + 4)
      /\ \A i \in 1 .. Len(s) - (m + 4) : u[i] = s[m + 4 + i]
  <2>1. PICK four \in Nat : four = 4
    OBVIOUS
  <2>2. /\ SubSeq(t, four + 1, Len(t)) \in Seq(AnyByte)
        /\ Len(SubSeq(t, four + 1, Len(t))) = Len(t) - four
        /\ \A i \in 1 .. Len(t) - four : SubSeq(t, four + 1, Len(t))[i] = t[four + i]
    BY <1>1, <1>3, <2>1, Suffix
  <2>3. u = SubSeq(t, four + 1, Len(t))
    BY <2>1
  <2> HIDE DEF u
  <2>4. u \in Seq(AnyByte) /\ Len(u) = Len(s) - (m + 4)
    BY <1>0, <1>1, <2>1, <2>2, <2>3
  <2>5. ASSUME NEW i \in 1 .. Len(s) - (m + 4) PROVE u[i] = s[m + 4 + i]
    <3>1. /\ i \in 1 .. Len(t) - four /\ four + i \in 1 .. Len(s) - m
          /\ m + (four + i) = m + 4 + i
      BY <1>0, <1>1, <2>1
    <3>2. u[i] = t[four + i] /\ t[four + i] = s[m + (four + i)]
      BY <1>1, <2>2, <2>3, <3>1
    <3> QED
      BY <3>1, <3>2
  <2> QED
    BY <2>4, <2>5
<1> HIDE DEF u, c
<1>7. Beyond(c, s, m + 4)
  BY <1>4, <1>6 DEF Holds, Beyond
<1> QED
  BY <1>4, <1>5, <1>7 DEF c

(* What there is after some numbers were read: the buffer and the numbers. *)
ReadSet == [b : SoundOnes, read : Seq(Seq(AnyByte))]

(* All numbers were read, each from its place behind the first m bytes.  *)
ReadAll(r, kinds, s, m) ==
  /\ Sound(r.b) /\ Beyond(r.b, s, m + 4 * Len(kinds))
  /\ r.read \in Seq(Seq(AnyByte)) /\ Len(r.read) = Len(kinds)
  /\ \A i \in 1 .. Len(kinds) : r.read[i] = Buffer!Wire(kinds[i], Quad(s, m + 4 * (i - 1)))

(* fromByteBuffer reads them one after the other.                        *)
LEMMA ReadingMeans ==
  ASSUME NEW b, Sound(b), NEW s \in Seq(AnyByte), NEW m \in Nat, Beyond(b, s, m),
         NEW kinds \in Seq(Small), m + 4 * Len(kinds) <= Len(s)
  PROVE  ReadAll(Buffer!ReadOn(b, kinds), kinds, s, m)
<1> DEFINE N == Len(kinds)
           after == Buffer!Reading(b, kinds)
           first == [b |-> b, read |-> <<>>]
           Further(r, i) == [b |-> Buffer!FrontBuffer(r.b, kinds[i]),
                           read |-> Append(r.read, Buffer!FrontRead(r.b, kinds[i]))]
           step == [i \in 1 .. N |-> [r \in ReadSet |-> Further(r, i)]]
<1>0. N \in Nat /\ (\A i \in 1 .. N : kinds[i] \in Small) /\ Len(s) \in Nat
  OBVIOUS
<1>1. after = CHOOSE f : f = [i \in 0 .. N |-> IF i = 0 THEN first ELSE Further(f[i - 1], i)]
  BY DEF Buffer!Reading
<1>2. PICK f \in [0 .. N -> ReadSet] : Iterates(f, first, step, N)
  <2>1. first \in ReadSet
    BY DEF ReadSet, SoundOnes, Sound
  <2>2. ASSUME NEW i \in 1 .. N, NEW r \in ReadSet PROVE Further(r, i) \in ReadSet
    <3>1. Sound(r.b) /\ r.read \in Seq(Seq(AnyByte)) /\ kinds[i] \in Small
      BY <1>0 DEF ReadSet, SoundOnes
    <3>2. /\ Sound(Buffer!FrontBuffer(r.b, kinds[i]))
          /\ Buffer!FrontRead(r.b, kinds[i]) \in Seq(AnyByte)
      BY <3>1, FrontSound
    <3>3. Buffer!FrontBuffer(r.b, kinds[i]) \in SoundOnes
      BY <3>2 DEF SoundOnes, Sound
    <3>4. Append(r.read, Buffer!FrontRead(r.b, kinds[i])) \in Seq(Seq(AnyByte))
      BY <3>1, <3>2
    <3> QED
      BY <3>3, <3>4 DEF ReadSet
  <2> HIDE DEF Further, N
  <2>3. step \in [1 .. N -> [ReadSet -> ReadSet]]
    BY <2>2
  <2> HIDE DEF step, first
  <2> QED
    BY <1>0, <2>1, <2>3, Recursion
<1> HIDE DEF Further, first, N
<1>3. f = [i \in 0 .. N |-> IF i = 0 THEN first ELSE Further(f[i - 1], i)]
  <2>1. ASSUME NEW i \in 1 .. N PROVE step[i][f[i - 1]] = Further(f[i - 1], i)
    <3>1. i - 1 \in 0 .. N
      BY <1>0
    <3>2. f[i - 1] \in ReadSet
      BY <1>2, <3>1
    <3> QED
      BY <3>2
  <2> HIDE DEF step
  <2>2. \A i \in 0 .. N : f[i] = IF i = 0 THEN first ELSE Further(f[i - 1], i)
    BY <1>0, <1>2, <2>1 DEF Iterates
  <2> QED
    BY <1>2, <2>2
<1> HIDE DEF after
<1>4. after = [i \in 0 .. N |-> IF i = 0 THEN first ELSE Further(after[i - 1], i)]
  BY <1>1, <1>3
<1> DEFINE Shown(r, i) ==
             /\ Sound(r.b) /\ Beyond(r.b, s, m + 4 * i)
             /\ r.read \in Seq(Seq(AnyByte)) /\ Len(r.read) = i
             /\ \A j \in 1 .. i : r.read[j] = Buffer!Wire(kinds[j], Quad(s, m + 4 * (j - 1)))
           Good == {i \in Nat : i <= N => Shown(after[i], i)}
<1>5. 0 \in Good
  <2>1. after[0] = first
    BY <1>0, <1>4
  <2>2. Shown(first, 0)
    BY DEF first, Beyond
  <2> QED
    BY <2>1, <2>2
<1>6. ASSUME NEW i \in Nat, i \in Good PROVE i + 1 \in Good
  <2> SUFFICES ASSUME i + 1 <= N PROVE Shown(after[i + 1], i + 1)
    OBVIOUS
  <2>1. Shown(after[i], i)
    BY <1>0, <1>6
  <2> DEFINE r == after[i]
             k == kinds[i + 1]
             q == after[i + 1]
  <2>2. k \in Small /\ i + 1 \in 1 .. N
    BY <1>0
  <2>3. q = Further(r, i + 1)
    BY <1>0, <1>4, <2>2
  <2>4. q = [b |-> Buffer!FrontBuffer(r.b, k), read |-> Append(r.read, Buffer!FrontRead(r.b, k))]
    BY <2>3 DEF Further
  <2>5. /\ Sound(r.b) /\ Beyond(r.b, s, m + 4 * i) /\ r.read \in Seq(Seq(AnyByte))
        /\ Len(r.read) = i
        /\ \A j \in 1 .. i : r.read[j] = Buffer!Wire(kinds[j], Quad(s, m + 4 * (j - 1)))
    BY <2>1
  <2>6. m + 4 * i \in Nat /\ m + 4 * i + 4 <= Len(s)
    BY <1>0, <2>2 DEF N
  <2> HIDE DEF r, q, k
  <2>7. /\ Buffer!FrontRead(r.b, k) = Buffer!Wire(k, Quad(s, m + 4 * i))
        /\ Beyond(Buffer!FrontBuffer(r.b, k), s, m + 4 * i + 4)
    BY <2>2, <2>5, <2>6, FrontStep
  <2>8. /\ Sound(Buffer!FrontBuffer(r.b, k)) /\ Buffer!FrontRead(r.b, k) \in Seq(AnyByte)
    BY <2>2, <2>5, FrontSound
  <2>9. q.b = Buffer!FrontBuffer(r.b, k) /\ q.read = Append(r.read, Buffer!FrontRead(r.b, k))
    BY <2>4
  <2>10. Sound(q.b) /\ Beyond(q.b, s, m + 4 * (i + 1))
    <3>1. m + 4 * i + 4 = m + 4 * (i + 1)
      OBVIOUS
    <3> QED
      BY <2>7, <2>8, <2>9, <3>1
  <2>11. q.read \in Seq(Seq(AnyByte)) /\ Len(q.read) = i + 1
    BY <2>5, <2>8, <2>9
  <2>12. ASSUME NEW j \in 1 .. i + 1
         PROVE  q.read[j] = Buffer!Wire(kinds[j], Quad(s, m + 4 * (j - 1)))
    <3>1. CASE j \in 1 .. i
      <4>1. q.read[j] = r.read[j]
        BY <2>5, <2>8, <2>9, <3>1
      <4> QED
        BY <2>5, <3>1, <4>1
    <3>2. CASE j = i + 1
      <4>1. q.read[j] = Buffer!FrontRead(r.b, k)
        BY <2>5, <2>8, <2>9, <3>2
      <4>2. k = kinds[j] /\ 4 * i = 4 * (j - 1)
        BY <3>2 DEF k
      <4> QED
        BY <2>7, <4>1, <4>2
    <3> QED
      BY <3>1, <3>2
  <2> QED
    BY <2>10, <2>11, <2>12 DEF q
<1> HIDE DEF Good
<1>7. N \in Good
  <2>1. Nat \subseteq Good
    BY <1>5, <1>6, Induct
  <2> QED
    BY <1>0, <2>1
<1> HIDE DEF Shown
<1>8. Shown(after[N], N)
  BY <1>0, <1>7 DEF Good
<1>9. after[N] = Buffer!ReadOn(b, kinds)
  BY DEF Buffer!ReadOn, after, N
<1> QED
  BY <1>8, <1>9 DEF Shown, N, ReadAll

(* The bytes begin with those of a Detection of n boxes.                   *)
Begins(s, n) ==
  /\ 8 + 24 * n <= Len(s)
  /\ \A i \in 1 .. 8 + 24 * n : s[i] = Buffer!Laid(Buffer!Fields(Numbered(n)))[i]

(* Read from their places, the numbers are those that were written.      *)
LEMMA BeginsMeans ==
  ASSUME NEW n \in Nat, NEW s \in Seq(AnyByte), Begins(s, n)
  PROVE  /\ Buffer!Wire("int32", Quad(s, 4)) = Buffer!Count(n)
         /\ \A i \in 1 .. 6 * n :
               Buffer!Wire(FieldAt(n, i)[1], Quad(s, 8 + 4 * (i - 1))) = FieldAt(n, i)[2]
<1> DEFINE fields == Buffer!Fields(Numbered(n))
<1>1. /\ fields \in Seq(FieldSet) /\ Len(fields) = 2 + 6 * n
      /\ fields[2] = <<"int32", Buffer!Count(n)>>
      /\ \A i \in 1 .. 6 * n : fields[2 + i] = FieldAt(n, i)
  BY FieldsMean
<1>2. \A i \in 1 .. 8 + 24 * n : s[i] = Buffer!Laid(fields)[i]
  BY DEF Begins
<1> HIDE DEF fields
<1>3. ASSUME NEW i \in 1 .. 2 + 6 * n
      PROVE  Quad(s, 4 * (i - 1)) = Buffer!Wire(fields[i][1], fields[i][2])
  <2> DEFINE wire == Buffer!Wire(fields[i][1], fields[i][2])
  <2>1. i \in 1 .. Len(fields) /\ fields[i] \in FieldSet
    BY <1>1
  <2>2. wire \in Four
    BY <2>1, FieldWire
  <2>3. ASSUME NEW j \in 1 .. 4 PROVE s[4 * (i - 1) + j] = wire[j]
    <3>1. 4 * (i - 1) + j \in 1 .. 8 + 24 * n
      OBVIOUS
    <3>2. Buffer!Laid(fields)[4 * (i - 1) + j] = wire[j]
      BY <1>1, <2>1, LaidMeans
    <3> QED
      BY <1>2, <3>1, <3>2
  <2> HIDE DEF wire
  <2>4. wire = [j \in 1 .. 4 |-> wire[j]]
    BY <2>2 DEF Four
  <2> QED
    BY <2>3, <2>4 DEF Quad, wire
<1>4. Buffer!Wire("int32", Quad(s, 4)) = Buffer!Count(n)
  <2>1. 2 \in 1 .. 2 + 6 * n /\ 4 * (2 - 1) = 4
    OBVIOUS
  <2>2. Quad(s, 4) = Buffer!Wire("int32", Buffer!Count(n))
    BY <1>1, <1>3, <2>1
  <2> QED
    BY <2>2 DEF Buffer!Wire
<1>5. ASSUME NEW i \in 1 .. 6 * n
      PROVE  Buffer!Wire(FieldAt(n, i)[1], Quad(s, 8 + 4 * (i - 1))) = FieldAt(n, i)[2]
  <2>1. 2 + i \in 1 .. 2 + 6 * n /\ 4 * (2 + i - 1) = 8 + 4 * (i - 1)
    OBVIOUS
  <2>2. fields[2 + i] = FieldAt(n, i) /\ fields[2 + i] \in FieldSet
    BY <1>1, <2>1
  <2>3. Quad(s, 8 + 4 * (i - 1)) = Buffer!Wire(FieldAt(n, i)[1], FieldAt(n, i)[2])
    BY <1>3, <2>1, <2>2
  <2> QED
    BY <2>2, <2>3, FieldWire
<1> QED
  BY <1>4, <1>5

(* The count that was read tells how many boxes there are.               *)
LEMMA CountTells ==
  ASSUME NEW n \in 0 .. MaxBoxes
  PROVE  /\ Buffer!Count(n) # <<>>
         /\ n = CHOOSE m \in 0 .. MaxBoxes : Buffer!Count(n) = Buffer!Count(m)
<1>0. MaxBoxes \in Nat
  BY PartsAssumption DEF PartsAssumption, Buffer!ByteBufferAssumption
<1>1. \A m \in 0 .. MaxBoxes : Buffer!Count(m)[1] = <<"count", m, 1>>
  BY DEF Buffer!Count, Buffer!Byte
<1>2. \A m \in 0 .. MaxBoxes : Buffer!Count(n) = Buffer!Count(m) => n = m
  BY <1>1
<1>3. Buffer!Count(n) # <<>>
  <2>1. PICK four \in Nat : four = 4
    OBVIOUS
  <2>2. n \in Nat
    BY <1>0
  <2>3. Buffer!Count(n) \in [1 .. four -> AnyByte]
    BY <2>1, <2>2, Constants DEF Four
  <2>4. Len(Buffer!Count(n)) = four
    BY <2>3
  <2> QED
    BY <2>1, <2>4
<1> QED
  BY <1>2, <1>3

(* Division by six.                                                      *)
LEMMA Sixes ==
  ASSUME NEW q \in Nat, NEW r \in 0 .. 5 PROVE (6 * q + r) % 6 = r /\ (6 * q + r) \div 6 = q
OBVIOUS

(* The numbers of the boxes, six by six, are the boxes.                  *)
LEMMA BoxesOf ==
  ASSUME NEW n \in Nat, NEW read \in Seq(Seq(AnyByte)), Len(read) = 6 * n,
         \A i \in 1 .. 6 * n : read[i] = FieldAt(n, i)[2]
  PROVE  Buffer!Boxes(read) = Numbered(n)
<1>1. Len(read) \div 6 = n
  OBVIOUS
<1>2. Buffer!Boxes(read) = [j \in 1 .. n |-> SubSeq(read, 6 * j - 5, 6 * j)]
  BY <1>1 DEF Buffer!Boxes
<1>3. ASSUME NEW j \in 1 .. n PROVE SubSeq(read, 6 * j - 5, 6 * j) = Buffer!Box(j)
  <2> DEFINE t == SubSeq(read, 6 * j - 5, 6 * j)
  <2>0. 6 * j - 5 \in Int /\ 6 * j \in Int /\ 6 * j - (6 * j - 5) + 1 = 6 /\ 6 * j - 5 <= 6 * j
        /\ \A i \in 6 * j - 5 .. 6 * j : i \in 1 .. 6 * n
    OBVIOUS
  <2>1. \A i \in 6 * j - 5 .. 6 * j : read[i] \in Seq(AnyByte)
    BY <2>0
  <2>2. /\ t \in Seq(Seq(AnyByte))
        /\ Len(t) = IF 6 * j - 5 <= 6 * j THEN 6 * j - (6 * j - 5) + 1 ELSE 0
        /\ \A i \in 1 .. 6 * j - (6 * j - 5) + 1 : t[i] = read[6 * j - 5 + i - 1]
    BY <2>0, <2>1, SubSeqProperties
  <2> HIDE DEF t
  <2>3. t \in Seq(Seq(AnyByte)) /\ Len(t) = 6
    BY <2>0, <2>2
  <2>4. ASSUME NEW f \in 1 .. 6 PROVE t[f] = Buffer!Box(j)[f]
    <3> DEFINE i == 6 * j - 5 + f - 1
    <3>1. i \in 1 .. 6 * n /\ ((i - 1) % 6) + 1 = f /\ (i - 1) \div 6 + 1 = j
      <4>1. i \in 1 .. 6 * n
        OBVIOUS
      <4>2. i - 1 = 6 * (j - 1) + (f - 1) /\ f - 1 \in 0 .. 5 /\ j - 1 \in Nat
        OBVIOUS
      <4>3. ((i - 1) % 6) = f - 1 /\ (i - 1) \div 6 = j - 1
        <5> HIDE DEF i
        <5> QED
          BY <4>2, Sixes
      <4> QED
        BY <4>1, <4>3
    <3>2. t[f] = read[i]
      BY <2>0, <2>2
    <3> HIDE DEF i
    <3>3. FieldAt(n, i)[2] = Numbered(n)[j][f]
      BY <3>1 DEF FieldAt
    <3> QED
      BY <3>1, <3>2, <3>3 DEF Numbered
  <2>5. Buffer!Box(j) = [f \in 1 .. 6 |-> Buffer!Box(j)[f]]
    BY Constants DEF BoxSet
  <2>6. t = [f \in 1 .. 6 |-> t[f]]
    <3>1. t = [f \in 1 .. Len(t) |-> t[f]]
      BY <2>3
    <3> QED
      BY <2>3, <3>1
  <2>7. t = Buffer!Box(j)
    BY <2>4, <2>5, <2>6
  <2> QED
    BY <2>7 DEF t
<1> QED
  BY <1>2, <1>3 DEF Numbered

(* What is read is what was written, and what is behind it stays.          *)
LEMMA ReceivedMeans ==
  ASSUME NEW n \in 0 .. MaxBoxes, NEW b, Sound(b), NEW s \in Seq(AnyByte), Holds(b, s), Begins(s, n)
  PROVE  /\ Buffer!FromByteBuffer(b).boxes = Numbered(n)
         /\ Sound(Buffer!FromByteBuffer(b).b)
         /\ Beyond(Buffer!FromByteBuffer(b).b, s, 8 + 24 * n)
<1> DEFINE header == Buffer!ReadOn(b, <<"int32", "int32">>)
           kinds == [i \in 1 .. 6 * n |-> Buffer!BoxKinds[((i - 1) % 6) + 1]]
           rest == Buffer!ReadOn(header.b, kinds)
<1>0. n \in Nat /\ Len(s) \in Nat /\ 8 + 24 * n <= Len(s)
  BY PartsAssumption DEF PartsAssumption, Buffer!ByteBufferAssumption, Begins
<1>1. /\ Sound(header.b) /\ Beyond(header.b, s, 8)
      /\ header.read[2] = Buffer!Count(n)
  <2> DEFINE two == <<"int32", "int32">>
  <2>1. two \in Seq(Small) /\ Len(two) = 2 /\ two[2] = "int32"
    BY DEF Small
  <2> HIDE DEF two
  <2>2. Beyond(b, s, 0)
    BY <1>0 DEF Beyond, Holds
  <2>3. 0 \in Nat /\ 0 + 4 * Len(two) <= Len(s)
    BY <1>0, <2>1
  <2> DEFINE r == Buffer!ReadOn(b, two)
  <2>4. /\ Sound(r.b) /\ Beyond(r.b, s, 0 + 4 * Len(two))
        /\ \A i \in 1 .. Len(two) : r.read[i] = Buffer!Wire(two[i], Quad(s, 0 + 4 * (i - 1)))
    <3>1. ReadAll(r, two, s, 0)
      BY <2>1, <2>2, <2>3, ReadingMeans
    <3> QED
      BY <3>1 DEF ReadAll
  <2> HIDE DEF r
  <2>5. 2 \in 1 .. Len(two) /\ 0 + 4 * (2 - 1) = 4 /\ 0 + 4 * Len(two) = 8
    BY <2>1
  <2>6. r.read[2] = Buffer!Count(n)
    BY <1>0, <2>1, <2>4, <2>5, BeginsMeans
  <2> QED
    BY <2>4, <2>5, <2>6 DEF r, two
<1>2. Buffer!FromByteBuffer(b) = [b |-> rest.b, boxes |-> Buffer!Boxes(rest.read)]
  <2> DEFINE count == IF header.read[2] = Buffer!Fails THEN 0
                      ELSE CHOOSE m \in 0 .. MaxBoxes : header.read[2] = Buffer!Count(m)
  <2>1. count = n
    <3> HIDE DEF header
    <3>1. count = CHOOSE m \in 0 .. MaxBoxes : Buffer!Count(n) = Buffer!Count(m)
      BY <1>1, CountTells DEF Buffer!Fails
    <3> QED
      BY <3>1, CountTells
  <2>2. Buffer!FromByteBuffer(b) =
          LET k == [i \in 1 .. 6 * count |-> Buffer!BoxKinds[((i - 1) % 6) + 1]]
              r == Buffer!ReadOn(header.b, k)
          IN [b |-> r.b, boxes |-> Buffer!Boxes(r.read)]
    BY DEF Buffer!FromByteBuffer
  <2> HIDE DEF count, header
  <2> QED
    BY <2>1, <2>2
<1> HIDE DEF header
<1>3. kinds \in Seq(Small) /\ Len(kinds) = 6 * n
  <2> DEFINE l == 6 * n
  <2>1. ASSUME NEW i \in 1 .. 6 * n PROVE Buffer!BoxKinds[((i - 1) % 6) + 1] \in Small
    <3>1. ((i - 1) % 6) + 1 \in 1 .. 6
      BY <1>0, Indices
    <3> QED
      BY <3>1, Constants, <1>0 DEF Small
  <2>2. kinds \in [1 .. l -> Small]
    BY <2>1
  <2>3. l \in Nat
    BY <1>0
  <2> HIDE DEF l, kinds
  <2>4. kinds \in Seq(Small) /\ Len(kinds) = l
    BY <2>2, <2>3
  <2> QED
    BY <2>4 DEF l
<1>4. \A i \in 1 .. 6 * n : kinds[i] = FieldAt(n, i)[1]
  BY DEF FieldAt
<1> HIDE DEF kinds
<1>5. /\ Sound(rest.b) /\ Beyond(rest.b, s, 8 + 4 * Len(kinds))
      /\ rest.read \in Seq(Seq(AnyByte)) /\ Len(rest.read) = Len(kinds)
      /\ \A i \in 1 .. Len(kinds) :
            rest.read[i] = Buffer!Wire(kinds[i], Quad(s, 8 + 4 * (i - 1)))
  <2>1. 8 \in Nat /\ 8 + 4 * Len(kinds) <= Len(s)
    BY <1>0, <1>3
  <2>2. ReadAll(rest, kinds, s, 8)
    BY <1>1, <1>3, <2>1, ReadingMeans
  <2> QED
    BY <2>2 DEF ReadAll
<1> HIDE DEF rest
<1>6. \A i \in 1 .. 6 * n : rest.read[i] = FieldAt(n, i)[2]
  BY <1>0, <1>3, <1>4, <1>5, BeginsMeans
<1>7. Buffer!Boxes(rest.read) = Numbered(n)
  BY <1>0, <1>3, <1>5, <1>6, BoxesOf
<1>8. 8 + 4 * Len(kinds) = 8 + 24 * n
  BY <1>0, <1>3
<1> QED
  BY <1>2, <1>5, <1>7, <1>8

(* The inductive invariant: the buffer is sound and holds the bytes it   *)
(* should, what was returned was due, and behind a Detection that was sent *)
(* the bytes begin with its numbers.                                     *)
Stocked ==
  /\ Sound(buf) /\ held \in Seq(AnyByte) /\ Holds(buf, held)
  /\ pushed \in 0 .. MaxBytes
  /\ got = due
  /\ m_bboxes \in Seq(BoxSet) /\ Len(m_bboxes) <= 2 * MaxBoxes
  /\ \A boxes \in sent : \E n \in 0 .. MaxBoxes : boxes = Numbered(n) /\ Begins(held, n)

(* What the assumption says of the constants.                            *)
LEMMA KindsInBuffer == Kinds \subseteq DOMAIN Buffer!Width /\ MaxBoxes \in Nat /\ MaxBytes \in Nat
BY PartsAssumption DEF PartsAssumption, Buffer!ByteBufferAssumption

(* The copying constructor.                                              *)
LEMMA CopyHolds ==
  ASSUME NEW s \in Seq(AnyByte) PROVE Sound(Buffer!CopyOf(s)) /\ Holds(Buffer!CopyOf(s), s)
<1>1. Len(s) \in Nat
  OBVIOUS
<1> QED
  BY <1>1 DEF Buffer!CopyOf, Sound, Buffers, Holds

(* A new buffer, and the copy of some bytes.                             *)
LEMMA StockedInit == ASSUME Buffer!Init PROVE Stocked
<1>1. PICK n \in {0, 3}, copy \in BOOLEAN :
        /\ held = [i \in 1 .. (IF copy THEN n ELSE 0) |-> Buffer!Byte("copied", 0, i)]
        /\ buf = IF copy THEN Buffer!CopyOf(held) ELSE Buffer!NewBuffer
  BY DEF Buffer!Init
<1> DEFINE l == IF copy THEN n ELSE 0
<1>2. l \in Nat /\ (~ copy => l = 0)
  OBVIOUS
<1>3. held = [i \in 1 .. l |-> <<"copied", 0, i>>]
  BY <1>1 DEF Buffer!Byte
<1> HIDE DEF l
<1>4. \A i \in 1 .. l : <<"copied", 0, i>> \in AnyByte
  BY <1>2 DEF AnyByte
<1>5. held \in [1 .. l -> AnyByte]
  BY <1>3, <1>4
<1>6. held \in Seq(AnyByte) /\ Len(held) = l
  BY <1>2, <1>5
<1>7. Sound(buf) /\ Holds(buf, held)
  <2>1. CASE copy
    BY <1>1, <1>6, <2>1, CopyHolds
  <2>2. CASE ~ copy
    BY <1>1, <1>2, <1>6, <2>2, NewSound DEF Holds
  <2> QED
    BY <2>1, <2>2
<1>8. /\ pushed \in 0 .. MaxBytes /\ got = due /\ sent = {}
      /\ m_bboxes \in Seq(BoxSet) /\ Len(m_bboxes) <= 2 * MaxBoxes
  BY KindsInBuffer DEF Buffer!Init
<1> QED
  BY <1>6, <1>7, <1>8 DEF Stocked

(* A push puts its bytes behind those of a Detection.                    *)
LEMMA BeginsLonger ==
  ASSUME NEW n \in Nat, NEW s \in Seq(AnyByte), NEW t \in Seq(AnyByte), Begins(s, n)
  PROVE  Begins(s \o t, n)
<1>1. Len(s) \in Nat /\ Len(t) \in Nat /\ 8 + 24 * n <= Len(s)
  BY DEF Begins
<1>2. /\ Len(s \o t) = Len(s) + Len(t)
      /\ \A i \in 1 .. Len(s) + Len(t) : (s \o t)[i] = IF i <= Len(s) THEN s[i] ELSE t[i - Len(s)]
  BY ConcatProperties
<1>3. ASSUME NEW i \in 1 .. 8 + 24 * n PROVE (s \o t)[i] = s[i]
  BY <1>1, <1>2
<1> QED
  BY <1>1, <1>2, <1>3 DEF Begins

(* push_back puts the number behind the others, or fails to grow the     *)
(* memory and changes nothing.                                           *)
LEMMA StockedPush == ASSUME Stocked, NEW k \in Kinds, Buffer!Push(k) PROVE Stocked'
<1> DEFINE w == Buffer!Width[k]
           v == [i \in 1 .. w |-> Buffer!Byte("pushed", pushed, i)]
<1>1. k \in DOMAIN Buffer!Width /\ w \in Nat \ {0}
  BY KindsInBuffer DEF Buffer!Width
<1>2. pushed \in Nat /\ pushed + w <= MaxBytes /\ pushed' = pushed + w
  BY KindsInBuffer DEF Buffer!Push, Stocked
<1>3. v \in [1 .. w -> AnyByte]
  <2>1. \A i \in 1 .. w : <<"pushed", pushed, i>> \in AnyByte
    BY <1>1, <1>2 DEF AnyByte
  <2> HIDE DEF w
  <2> QED
    BY <2>1 DEF Buffer!Byte
<1>4. \/ buf' = Buffer!PushBack(buf, k, v) /\ held' = held \o Buffer!Wire(k, v)
      \/ buf' = buf /\ held' = held
  BY DEF Buffer!Push
<1>5. got' = due' /\ sent' = sent /\ m_bboxes' = m_bboxes
  BY DEF Buffer!Push
<1> HIDE DEF v
<1>6. Sound(buf) /\ held \in Seq(AnyByte) /\ Holds(buf, held)
  BY DEF Stocked
<1>7. pushed' \in 0 .. MaxBytes
  BY <1>1, <1>2, KindsInBuffer
<1>8. \A boxes \in sent : \E n \in 0 .. MaxBoxes : boxes = Numbered(n) /\ Begins(held, n)
  BY DEF Stocked
<1>9. m_bboxes' \in Seq(BoxSet) /\ Len(m_bboxes') <= 2 * MaxBoxes
  BY <1>5 DEF Stocked
<1>10. CASE buf' = buf /\ held' = held
  BY <1>5, <1>6, <1>7, <1>8, <1>9, <1>10 DEF Stocked
<1>11. CASE buf' = Buffer!PushBack(buf, k, v) /\ held' = held \o Buffer!Wire(k, v)
  <2>1. Sound(buf') /\ held' \in Seq(AnyByte) /\ Holds(buf', held')
    BY <1>1, <1>3, <1>6, <1>11, Pushed
  <2>2. Buffer!Wire(k, v) \in Seq(AnyByte)
    <3>1. Buffer!Wire(k, v) \in [1 .. w -> AnyByte]
      BY <1>1, <1>3, Numbers
    <3> HIDE DEF w
    <3> QED
      BY <1>1, <3>1
  <2>3. ASSUME NEW boxes \in sent'
        PROVE  \E n \in 0 .. MaxBoxes : boxes = Numbered(n) /\ Begins(held', n)
    <3>1. PICK n \in 0 .. MaxBoxes : boxes = Numbered(n) /\ Begins(held, n)
      BY <1>5, <1>8
    <3>2. n \in Nat
      BY KindsInBuffer
    <3>3. Begins(held', n)
      BY <1>6, <1>11, <2>2, <3>1, <3>2, BeginsLonger
    <3> QED
      BY <3>1, <3>3
  <2> QED
    BY <1>5, <1>7, <1>9, <2>1, <2>3 DEF Stocked
<1> QED
  BY <1>4, <1>10, <1>11

(* pop, called for no more than size() bytes or before anything was taken *)
(* from the front, returns the last number, or nothing.                  *)
LEMMA StockedPop ==
  ASSUME Careful = TRUE, Stocked, NEW k \in Kinds, Buffer!Pop(k) PROVE Stocked'
<1> DEFINE w == Buffer!Width[k]
<1>1. k \in DOMAIN Buffer!Width /\ w \in Nat \ {0}
  BY KindsInBuffer DEF Buffer!Width
<1>2. Sound(buf) /\ held \in Seq(AnyByte) /\ Holds(buf, held) /\ Len(held) \in Nat
  BY DEF Stocked
<1>3. Len(held) = Buffer!Size(buf)
  BY DEF Buffer!Size, Holds, Stocked
<1>4. /\ got' = Buffer!PopRead(buf, k) /\ buf' = Buffer!PopBuffer(buf, k)
      /\ sent' = {} /\ pushed' = pushed /\ m_bboxes' = m_bboxes
      /\ w <= Len(held) \/ buf.front = 0
  BY <1>3 DEF Buffer!Pop
<1>5. IF w <= Len(held)
      THEN /\ due' = Buffer!Wire(k, SubSeq(held, Len(held) - w + 1, Len(held)))
           /\ held' = SubSeq(held, 1, Len(held) - w)
      ELSE due' = <<>> /\ held' = held
  BY DEF Buffer!Pop, Buffer!Fails
<1>6. CASE w <= Len(held)
  <2>1. Sound(buf') /\ held' \in Seq(AnyByte) /\ Holds(buf', held') /\ got' = due'
    BY <1>1, <1>2, <1>4, <1>5, <1>6, Popped
  <2> QED
    BY <1>4, <2>1 DEF Stocked
<1>7. CASE ~(w <= Len(held))
  <2>1. buf' = buf /\ held' = held /\ got' = due'
    BY <1>1, <1>2, <1>4, <1>5, <1>7, Popped
  <2> QED
    BY <1>4, <2>1 DEF Stocked
<1> QED
  BY <1>6, <1>7

(* pop_front returns the first number, or nothing.                       *)
LEMMA StockedPopFront == ASSUME Stocked, NEW k \in Kinds, Buffer!PopFront(k) PROVE Stocked'
<1> DEFINE w == Buffer!Width[k]
<1>1. k \in DOMAIN Buffer!Width /\ w \in Nat \ {0}
  BY KindsInBuffer DEF Buffer!Width
<1>2. Sound(buf) /\ held \in Seq(AnyByte) /\ Holds(buf, held) /\ Len(held) \in Nat
  BY DEF Stocked
<1>3. /\ got' = Buffer!FrontRead(buf, k) /\ buf' = Buffer!FrontBuffer(buf, k)
      /\ sent' = {} /\ pushed' = pushed /\ m_bboxes' = m_bboxes
  BY DEF Buffer!PopFront
<1>4. IF w <= Len(held)
      THEN /\ due' = Buffer!Wire(k, SubSeq(held, 1, w))
           /\ held' = SubSeq(held, w + 1, Len(held))
      ELSE due' = <<>> /\ held' = held
  BY DEF Buffer!PopFront, Buffer!Fails
<1>5. CASE w <= Len(held)
  <2>1. Sound(buf') /\ held' \in Seq(AnyByte) /\ Holds(buf', held') /\ got' = due'
    BY <1>1, <1>2, <1>3, <1>4, <1>5, FrontPopped
  <2> QED
    BY <1>3, <2>1 DEF Stocked
<1>6. CASE ~(w <= Len(held))
  <2>1. buf' = buf /\ held' = held /\ got' = due'
    BY <1>1, <1>2, <1>3, <1>4, <1>6, FrontPopped
  <2> QED
    BY <1>3, <2>1 DEF Stocked
<1> QED
  BY <1>5, <1>6

(* A Detection is written into a new buffer, of which the receiver has a *)
(* copy.                                                                 *)
LEMMA StockedSend == ASSUME Stocked, NEW n \in 0 .. MaxBoxes, Buffer!Send(n) PROVE Stocked'
<1> DEFINE fields == Buffer!Fields(Numbered(n))
           made == Buffer!ToByteBuffer(Numbered(n))
           laid == Buffer!Laid(fields)
           copied == SubSeq(made.bytes, 1, made.back)
<1>0. n \in Nat
  BY KindsInBuffer
<1>1. fields \in Seq(FieldSet) /\ Len(fields) = 2 + 6 * n
  BY <1>0, FieldsMean
<1>2. made = Buffer!Writing(fields)[Len(fields)]
  BY DEF Buffer!ToByteBuffer
<1>3. /\ sent' = {Numbered(n)} /\ buf' = Buffer!CopyOf(copied) /\ held' = laid
      /\ got' = due' /\ pushed' = pushed /\ m_bboxes' = m_bboxes
  BY DEF Buffer!Send, Numbered
<1> HIDE DEF made, fields
<1>4. /\ Sound(made) /\ made.front = 0 /\ made.back = 4 * Len(fields)
      /\ \A i \in 1 .. 4 * Len(fields) : made.bytes[i] = laid[i]
  <2>1. Len(fields) \in 0 .. Len(fields)
    BY <1>0, <1>1
  <2> HIDE DEF laid
  <2> QED
    BY <1>1, <1>2, <2>1, WritingMeans DEF laid
<1>5. /\ made.bytes \in Seq(AnyByte) /\ made.back = 8 + 24 * n
      /\ 8 + 24 * n \in Nat /\ made.back <= Len(made.bytes)
  BY <1>0, <1>1, <1>4 DEF Sound, Buffers
<1>6. /\ copied \in Seq(AnyByte) /\ Len(copied) = 8 + 24 * n
      /\ \A i \in 1 .. 8 + 24 * n : copied[i] = made.bytes[i]
  BY <1>5, Prefix
<1> HIDE DEF copied
<1>7. copied = laid
  <2>1. copied = [i \in 1 .. 8 + 24 * n |-> copied[i]]
    BY <1>6
  <2>2. 4 * Len(fields) = 8 + 24 * n
    BY <1>0, <1>1
  <2>3. laid = [i \in 1 .. 8 + 24 * n |-> laid[i]]
    BY <2>2 DEF Buffer!Laid
  <2> HIDE DEF laid
  <2>4. \A i \in 1 .. 8 + 24 * n : copied[i] = laid[i]
    BY <1>4, <1>6, <2>2
  <2> QED
    BY <2>1, <2>3, <2>4
<1>8. Sound(buf') /\ held' \in Seq(AnyByte) /\ Holds(buf', held')
  <2> HIDE DEF laid
  <2> QED
    BY <1>3, <1>6, <1>7, CopyHolds
<1>9. Begins(held', n)
  <2>1. Len(held') = 8 + 24 * n
    BY <1>3, <1>6, <1>7
  <2>2. held' = Buffer!Laid(Buffer!Fields(Numbered(n)))
    BY <1>3 DEF fields
  <2> QED
    BY <1>0, <2>1, <2>2 DEF Begins
<1> QED
  BY <1>3, <1>8, <1>9 DEF Stocked

(* The Detection is read, its boxes put behind those there are.          *)
LEMMA StockedReceive == ASSUME Stocked, Buffer!Receive PROVE Stocked'
<1>1. PICK boxes \in sent :
        /\ Len(m_bboxes) <= MaxBoxes
        /\ buf' = Buffer!FromByteBuffer(buf).b
        /\ m_bboxes' = m_bboxes \o Buffer!FromByteBuffer(buf).boxes
        /\ got' = m_bboxes' /\ due' = m_bboxes \o boxes
        /\ held' = SubSeq(held, 8 + 24 * Len(boxes) + 1, Len(held))
        /\ sent' = {}
        /\ pushed' = pushed
  BY DEF Buffer!Receive
<1>2. PICK n \in 0 .. MaxBoxes : boxes = Numbered(n) /\ Begins(held, n)
  BY DEF Stocked
<1>3. n \in Nat /\ n <= MaxBoxes /\ MaxBoxes \in Nat
  BY KindsInBuffer
<1>4. Sound(buf) /\ held \in Seq(AnyByte) /\ Holds(buf, held)
  BY DEF Stocked
<1>5. /\ Buffer!FromByteBuffer(buf).boxes = boxes
      /\ Sound(buf') /\ Beyond(buf', held, 8 + 24 * n)
  BY <1>1, <1>2, <1>4, ReceivedMeans
<1>6. boxes \in Seq(BoxSet) /\ Len(boxes) = n
  <2> DEFINE all == Numbered(n)
  <2>1. all \in [1 .. n -> BoxSet]
    BY <1>3, Constants DEF Numbered
  <2> HIDE DEF all
  <2>2. all \in Seq(BoxSet) /\ Len(all) = n
    BY <1>3, <2>1
  <2> QED
    BY <1>2, <2>2 DEF all
<1>7. m_bboxes' \in Seq(BoxSet) /\ Len(m_bboxes') <= 2 * MaxBoxes
  <2>1. m_bboxes \in Seq(BoxSet)
    BY DEF Stocked
  <2>2. m_bboxes \o boxes \in Seq(BoxSet) /\ Len(m_bboxes \o boxes) = Len(m_bboxes) + Len(boxes)
    BY <1>6, <2>1
  <2> QED
    BY <1>1, <1>3, <1>5, <1>6, <2>2
<1>8. held' \in Seq(AnyByte) /\ Holds(buf', held')
  <2> DEFINE m == 8 + 24 * n
  <2>1. m \in Nat /\ m <= Len(held)
    BY <1>2, <1>3 DEF Begins
  <2>2. held' = SubSeq(held, m + 1, Len(held))
    BY <1>1, <1>6
  <2>3. Beyond(buf', held, m)
    BY <1>5
  <2> HIDE DEF m
  <2>4. /\ held' \in Seq(AnyByte) /\ Len(held') = Len(held) - m
        /\ \A i \in 1 .. Len(held) - m : held'[i] = held[m + i]
    BY <1>4, <2>1, <2>2, Suffix
  <2> QED
    BY <2>3, <2>4 DEF Beyond, Holds
<1>9. got' = due'
  BY <1>1, <1>5
<1>10. pushed' \in 0 .. MaxBytes
  BY <1>1 DEF Stocked
<1> QED
  BY <1>1, <1>5, <1>7, <1>8, <1>9, <1>10 DEF Stocked

(* Steps of the other parts.                                             *)
LEMMA StockedStays == ASSUME Stocked, UNCHANGED buffer PROVE Stocked'
BY DEF Stocked, buffer

(* The property follows.                                                 *)
LEMMA StockedMeans == ASSUME Stocked PROVE Buffer!ValuesComeBack
<1>1. Sound(buf) /\ held \in Seq(AnyByte) /\ Holds(buf, held)
  BY DEF Stocked
<1>2. Buffer!TypeOK /\ got = due
  BY <1>1 DEF Buffer!TypeOK, Stocked, Sound, Buffers
<1> DEFINE t == SubSeq(buf.bytes, buf.front + 1, buf.back)
<1>3. t \in Seq(AnyByte) /\ Holds(buf, t)
  BY <1>1, HeldIs
<1> HIDE DEF t
<1>4. Len(t) = Len(held) /\ \A i \in 1 .. Len(t) : t[i] = held[i]
  BY <1>1, <1>3 DEF Holds
<1>5. t = held
  BY <1>1, <1>3, <1>4, SameBytes
<1> QED
  BY <1>2, <1>5 DEF t, Buffer!ValuesComeBack

(* Of a buffer whose pop is called for no more than size() bytes, every  *)
(* number comes back as it was pushed, from whichever end, in every type *)
(* the code has, over every growth of the memory, and a Detection with all *)
(* of its boxes, however many bytes and boxes there are.                 *)
THEOREM ValuesComeBackCorrect ==
  ASSUME Careful = TRUE PROVE PartsSpec => []ValuesComeBack
<1> DEFINE Inv == part = "buffer" => Stocked
<1>1. PartsInit => Inv
  BY StockedInit DEF PartsInit
<1>2. Inv /\ [PartsNext]_<<part, vars, encoder, sei, buffer, stat>> => Inv'
  <2> SUFFICES ASSUME Stocked, part = "buffer",
                      [PartsNext]_<<part, vars, encoder, sei, buffer, stat>>
               PROVE  Stocked'
    BY DEF PartsNext
  <2>1. \/ \E k \in Kinds : Buffer!Push(k) \/ Buffer!Pop(k) \/ Buffer!PopFront(k)
        \/ \E n \in 0 .. MaxBoxes : Buffer!Send(n)
        \/ Buffer!Receive
        \/ UNCHANGED buffer
    BY DEF PartsNext, Buffer!Next
  <2> QED
    BY <2>1, StockedPush, StockedPop, StockedPopFront, StockedSend, StockedReceive, StockedStays
<1>3. Inv => ValuesComeBack
  BY StockedMeans DEF ValuesComeBack
<1> HIDE DEF Inv
<1> QED
  BY <1>1, <1>2, <1>3, PTL DEF PartsSpec
-----------------------------------------------------------------------------
(* The user data. A reader's search goes from one offset to a later one    *)
(* and ends at N at the latest.                                            *)
Ahead(N, V, val, stop, next) ==
    /\ N \in Nat /\ val \in [Nat -> V] /\ stop \in [Nat -> BOOLEAN] /\ next \in [Nat -> Nat]
    /\ \A i \in Nat : (~stop[i] => next[i] > i) /\ (i >= N => stop[i])
Searches(f, val, stop, next) ==
    \A i \in Nat : f[i] = IF stop[i] THEN val[i] ELSE f[next[i]]

(* It is defined.                                                        *)
LEMMA Search ==
  ASSUME NEW N, NEW V, NEW val, NEW stop, NEW next, Ahead(N, V, val, stop, next)
  PROVE  \E f \in [Nat -> V] : Searches(f, val, stop, next)
<1> USE DEF Ahead
<1> DEFINE S == [Nat -> V]
           Once(g) == [i \in Nat |-> IF stop[i] THEN val[i] ELSE g[next[i]]]
           step == [n \in 1 .. N |-> [g \in S |-> Once(g)]]
<1>1. \A g \in S : Once(g) \in S
  OBVIOUS
<1>2. val \in S /\ step \in [1 .. N -> [S -> S]]
  <2> HIDE DEF S, Once
  <2>1. step \in [1 .. N -> [S -> S]]
    BY <1>1
  <2> QED
    BY <2>1 DEF S
<1>3. PICK G \in [0 .. N -> S] : Iterates(G, val, step, N)
  <2> HIDE DEF S, step
  <2> QED
    BY <1>2, Recursion
<1>4. \A n \in 0 .. N : G[n] \in S
  BY <1>3
<1>5. ASSUME NEW n \in 1 .. N PROVE G[n] = Once(G[n - 1])
  <2>1. n - 1 \in 0 .. N
    OBVIOUS
  <2>2. G[n - 1] \in S /\ G[n] = step[n][G[n - 1]]
    BY <1>3, <1>4, <2>1 DEF Iterates
  <2> HIDE DEF S, Once
  <2> QED
    BY <2>2
<1> DEFINE Right(n) == \A i \in Nat : i >= N - n =>
                         G[n][i] = IF stop[i] THEN val[i] ELSE G[n][next[i]]
           Good == {n \in Nat : n <= N => Right(n)}
<1>6. 0 \in Good
  <2>1. G[0] = val
    BY <1>3 DEF Iterates
  <2> QED
    BY <2>1
<1>7. ASSUME NEW n \in Nat, n \in Good PROVE n + 1 \in Good
  <2> SUFFICES ASSUME n + 1 <= N, NEW i \in Nat, i >= N - (n + 1)
               PROVE  G[n + 1][i] = IF stop[i] THEN val[i] ELSE G[n + 1][next[i]]
    OBVIOUS
  <2>1. G[n + 1] = Once(G[n])
    <3>1. n + 1 \in 1 .. N /\ n + 1 - 1 = n
      OBVIOUS
    <3> HIDE DEF Once
    <3> QED
      BY <1>5, <3>1
  <2>2. \A j \in Nat : G[n + 1][j] = IF stop[j] THEN val[j] ELSE G[n][next[j]]
    BY <2>1
  <2>3. ASSUME NEW j \in Nat, j >= N - n PROVE G[n + 1][j] = G[n][j]
    BY <1>7, <2>2, <2>3
  <2>4. CASE ~stop[i]
    <3>1. next[i] \in Nat /\ next[i] >= N - n
      BY <2>4
    <3> QED
      BY <2>2, <2>3, <2>4, <3>1
  <2> QED
    BY <2>2, <2>4
<1> HIDE DEF Good
<1>8. N \in Good
  BY <1>6, <1>7, Induct
<1>9. Right(N) /\ G[N] \in S
  BY <1>4, <1>8 DEF Good
<1> HIDE DEF S
<1>10. \A i \in Nat : G[N][i] = IF stop[i] THEN val[i] ELSE G[N][next[i]]
  BY <1>9
<1> QED
  BY <1>9, <1>10 DEF S, Searches

(* What holds of n + 1, and of each number with its successor, holds of 1. *)
LEMMA Downward ==
  ASSUME NEW n \in Nat, NEW S, n + 1 \in S, \A k \in 1 .. n : k + 1 \in S => k \in S
  PROVE  1 \in S
<1> DEFINE Good == {j \in Nat : j <= n => n + 1 - j \in S}
<1>1. 0 \in Good
  OBVIOUS
<1>2. ASSUME NEW j \in Nat, j \in Good PROVE j + 1 \in Good
  <2> SUFFICES ASSUME j + 1 <= n PROVE n + 1 - (j + 1) \in S
    OBVIOUS
  <2>1. n - j \in 1 .. n /\ n - j + 1 = n + 1 - j /\ n + 1 - (j + 1) = n - j
    OBVIOUS
  <2> QED
    BY <1>2, <2>1
<1> HIDE DEF Good
<1>3. n \in Good
  BY <1>1, <1>2, Induct
<1> QED
  BY <1>3 DEF Good

(* The first user data from the k-th unit on.                            *)
WantedFrom(k) ==
    LET ours == {i \in k .. Len(units) : Sei!Accepted(units[i].content)}
    IN IF ours = {} THEN Sei!Nothing ELSE units[Sei!Min(ours)].content

(* They are those of the k-th unit or of one after it.                   *)
LEMMA WantedMeans ==
  ASSUME NEW n \in Nat, n = Len(units)
  PROVE  /\ Sei!Wanted = WantedFrom(1)
         /\ WantedFrom(n + 1) = Sei!Nothing
         /\ \A k \in 1 .. n : WantedFrom(k) = IF Sei!Accepted(units[k].content)
                                              THEN units[k].content ELSE WantedFrom(k + 1)
<1>1. Sei!Wanted = WantedFrom(1)
  BY DEF Sei!Wanted, WantedFrom
<1>2. WantedFrom(n + 1) = Sei!Nothing
  BY DEF WantedFrom
<1>3. ASSUME NEW k \in 1 .. n
      PROVE  WantedFrom(k) = IF Sei!Accepted(units[k].content)
                             THEN units[k].content ELSE WantedFrom(k + 1)
  <2> DEFINE from(j) == {i \in j .. n : Sei!Accepted(units[i].content)}
  <2>1. CASE Sei!Accepted(units[k].content)
    <3>1. k \in from(k) /\ \A i \in from(k) : i \in Nat /\ k <= i
      BY <2>1
    <3> HIDE DEF from
    <3>2. Sei!Min(from(k)) \in from(k) /\ \A i \in from(k) : Sei!Min(from(k)) <= i
      BY <3>1 DEF Sei!Min
    <3>3. Sei!Min(from(k)) = k
      <4>1. Sei!Min(from(k)) \in Nat /\ k <= Sei!Min(from(k)) /\ Sei!Min(from(k)) <= k
        BY <3>1, <3>2
      <4> QED
        BY <4>1
    <3>4. WantedFrom(k) = units[Sei!Min(from(k))].content
      BY <3>1 DEF WantedFrom, from
    <3> QED
      BY <2>1, <3>3, <3>4
  <2>2. CASE ~Sei!Accepted(units[k].content)
    <3>1. from(k) = from(k + 1)
      BY <2>2
    <3> QED
      BY <2>2, <3>1 DEF WantedFrom
  <2> QED
    BY <2>1, <2>2
<1> QED
  BY <1>1, <1>2, <1>3

(* The UUID has no byte that a start code has.                           *)
LEMMA UuidMeans ==
  /\ OurUuid \in Seq(Sei!Byte) /\ Len(OurUuid) = 16
  /\ \A i \in 1 .. 16 : OurUuid[i] \in Sei!Byte /\ OurUuid[i] > 1
  /\ OurUuid[1] # 1
<1>1. OurUuid \in Seq(Sei!Byte) /\ Len(OurUuid) = 16
  BY DEF OurUuid, Sei!Byte
<1>2. \A i \in 1 .. 16 : OurUuid[i] > 1
  BY DEF OurUuid
<1>3. OurUuid[1] # 1
  BY DEF OurUuid
<1>4. \A i \in 1 .. 16 : OurUuid[i] \in Sei!Byte
  <2>1. OurUuid \in [1 .. 16 -> Sei!Byte]
    BY <1>1, LenProperties
  <2> QED
    BY <2>1
<1> QED
  BY <1>1, <1>2, <1>3, <1>4, Zenon

(* The header of a unit is one byte or two.                              *)
LEMMA HeaderMeans ==
  ASSUME codec \in {"h264", "h265"}
  PROVE  /\ Sei!Header \in Seq(Sei!Byte) /\ Len(Sei!Header) \in {1, 2}
         /\ codec = "h264" => Len(Sei!Header) = 1 /\ Sei!Header[1] = 6
         /\ codec = "h265" => Len(Sei!Header) = 2 /\ Sei!Header[1] = 78 /\ Sei!Header[2] = 1
<1>1. CASE codec = "h264"
  <2>1. Sei!Header = <<6>> /\ 6 \in Sei!Byte
    BY <1>1 DEF Sei!Header, Sei!Byte
  <2> QED
    BY <1>1, <2>1
<1>2. CASE codec = "h265"
  <2>1. Sei!Header = <<78, 1>> /\ 78 \in Sei!Byte /\ 1 \in Sei!Byte
    BY <1>2 DEF Sei!Header, Sei!Byte
  <2> QED
    BY <1>2, <2>1
<1> QED
  BY <1>1, <1>2

(* The size of the payload.                                              *)
IsSize(s, k, q) ==
    /\ q = k \div 255 /\ q \in Nat /\ k % 255 \in 0 .. 254 /\ k = 255 * q + (k % 255)
    /\ s \in Seq(Sei!Byte) /\ Len(s) = q + 1
    /\ \A i \in 1 .. q : s[i] = 255
    /\ s[q + 1] = k % 255

LEMMA PayloadSizeMeans ==
  ASSUME NEW k \in Nat PROVE IsSize(Sei!PayloadSize(k), k, k \div 255)
<1>1. k \div 255 \in Nat /\ k % 255 \in 0 .. 254 /\ k = 255 * (k \div 255) + (k % 255)
  OBVIOUS
<1> DEFINE q == k \div 255
           r == k % 255
           s == [i \in 1 .. q + 1 |-> IF i <= q THEN 255 ELSE r]
<1>2. Sei!PayloadSize(k) = s
  BY DEF Sei!PayloadSize
<1>3. q \in Nat /\ r \in Sei!Byte
  BY <1>1 DEF Sei!Byte
<1> HIDE DEF q, r
<1>4. s \in [1 .. q + 1 -> Sei!Byte]
  BY <1>3 DEF Sei!Byte
<1>5. s \in Seq(Sei!Byte) /\ Len(s) = q + 1
  BY <1>3, <1>4
<1>6. (\A i \in 1 .. q : s[i] = 255) /\ s[q + 1] = r
  BY <1>3
<1> QED
  BY <1>1, <1>2, <1>5, <1>6 DEF q, r, IsSize

(* What a unit with user data is made of.                                *)
UnitIs(s, c, h, q, n) ==
    /\ h = Len(Sei!Header) /\ n = 16 + Len(c) /\ q = n \div 255
    /\ s \in Seq(Sei!Byte) /\ Len(s) = h + q + n + 3
    /\ \A j \in 1 .. h : s[j] = Sei!Header[j]
    /\ s[h + 1] = 5
    /\ \A i \in 1 .. q : s[h + 1 + i] = 255
    /\ s[h + 2 + q] = n % 255
    /\ \A i \in 1 .. 16 : s[h + q + 2 + i] = OurUuid[i]
    /\ \A i \in 1 .. Len(c) : s[h + q + 18 + i] = c[i]
    /\ s[h + q + n + 3] = 128

(* Two sequences, one behind the other.                                  *)
IsJoin(s, a, b, m, n) ==
    /\ s \in Seq(Sei!Byte) /\ Len(s) = m + n
    /\ \A i \in 1 .. m : s[i] = a[i]
    /\ \A i \in 1 .. n : s[m + i] = b[i]

LEMMA Joined ==
  ASSUME NEW a \in Seq(Sei!Byte), NEW b \in Seq(Sei!Byte)
  PROVE  IsJoin(a \o b, a, b, Len(a), Len(b))
<1> DEFINE s == a \o b
           m == Len(a)
           n == Len(b)
<1>1. m \in Nat /\ n \in Nat
  OBVIOUS
<1>2. /\ s \in Seq(Sei!Byte) /\ Len(s) = m + n
      /\ \A i \in 1 .. m + n : s[i] = IF i <= m THEN a[i] ELSE b[i - m]
  BY ConcatProperties
<1> HIDE DEF s, m, n
<1>3. \A i \in 1 .. m : s[i] = a[i]
  BY <1>1, <1>2
<1>4. ASSUME NEW i \in 1 .. n PROVE s[m + i] = b[i]
  <2>1. PICK k : k = m + i
    OBVIOUS
  <2>2. k \in 1 .. m + n /\ ~(k <= m) /\ k - m = i
    BY <1>1, <2>1
  <2>3. s[k] = b[k - m]
    BY <1>2, <2>2, Zenon
  <2> QED
    BY <2>1, <2>2, <2>3, Zenon
<1> QED
  BY <1>2, <1>3, <1>4 DEF s, m, n, IsJoin

LEMMA UnitMeans ==
  ASSUME codec \in {"h264", "h265"}, NEW c \in Seq(Sei!Byte)
  PROVE  UnitIs(Sei!SeiUnit(c), c, Len(Sei!Header), (16 + Len(c)) \div 255, 16 + Len(c))
<1> DEFINE h == Len(Sei!Header)
           n == 16 + Len(c)
           q == n \div 255
           ps == Sei!PayloadSize(n)
           a1 == Sei!Header \o <<5>>
           a2 == a1 \o ps
           a3 == a2 \o OurUuid
           a4 == a3 \o c
           a5 == a4 \o <<128>>
<1>1. Len(c) \in Nat /\ n \in Nat /\ h \in {1, 2}
  BY HeaderMeans
<1>2. Len(OurUuid \o c) = n
  <2>1. IsJoin(OurUuid \o c, OurUuid, c, Len(OurUuid), Len(c))
    BY UuidMeans, Joined
  <2> QED
    BY <2>1, UuidMeans DEF IsJoin
<1>3. Sei!SeiUnit(c) = a5
  BY <1>2 DEF Sei!SeiUnit
<1>4. /\ q \in Nat /\ ps \in Seq(Sei!Byte) /\ Len(ps) = q + 1
      /\ \A i \in 1 .. q : ps[i] = 255
      /\ ps[q + 1] = n % 255
  <2>1. IsSize(ps, n, q)
    BY <1>1, PayloadSizeMeans
  <2> HIDE DEF n, q, ps
  <2> QED
    BY <2>1 DEF IsSize
<1> HIDE DEF n, q, ps, h
<1>5. <<5>> \in Seq(Sei!Byte) /\ <<128>> \in Seq(Sei!Byte)
  BY DEF Sei!Byte
<1>6. /\ a1 \in Seq(Sei!Byte) /\ Len(a1) = h + 1
      /\ \A i \in 1 .. h : a1[i] = Sei!Header[i]
      /\ a1[h + 1] = 5
  <2>1. Sei!Header \in Seq(Sei!Byte) /\ h = Len(Sei!Header) /\ 1 = Len(<<5>>) /\ <<5>>[1] = 5
    BY HeaderMeans DEF h
  <2>2. IsJoin(a1, Sei!Header, <<5>>, Len(Sei!Header), Len(<<5>>))
    BY <1>5, <2>1, Joined
  <2> HIDE DEF a1
  <2>3. IsJoin(a1, Sei!Header, <<5>>, h, 1)
    BY <2>1, <2>2, Zenon
  <2> QED
    BY <1>1, <2>1, <2>3 DEF IsJoin
<1> HIDE DEF a1
<1> DEFINE m2 == h + 1 + (q + 1)
           m3 == m2 + 16
           m4 == m3 + Len(c)
<1>7. /\ a2 \in Seq(Sei!Byte) /\ Len(a2) = m2
      /\ \A i \in 1 .. h + 1 : a2[i] = a1[i]
      /\ \A i \in 1 .. q + 1 : a2[h + 1 + i] = ps[i]
  <2>1. a1 \in Seq(Sei!Byte) /\ ps \in Seq(Sei!Byte) /\ Len(a1) = h + 1 /\ Len(ps) = q + 1
    BY <1>4, <1>6
  <2>2. IsJoin(a2, a1, ps, Len(a1), Len(ps))
    BY <2>1, Joined
  <2> HIDE DEF a2
  <2>3. IsJoin(a2, a1, ps, h + 1, q + 1)
    BY <2>1, <2>2, Zenon
  <2> QED
    BY <2>3, Zenon DEF IsJoin
<1> HIDE DEF a2, m2
<1>8. /\ a3 \in Seq(Sei!Byte) /\ Len(a3) = m3
      /\ \A i \in 1 .. m2 : a3[i] = a2[i]
      /\ \A i \in 1 .. 16 : a3[m2 + i] = OurUuid[i]
  <2>1. OurUuid \in Seq(Sei!Byte) /\ 16 = Len(OurUuid)
    BY UuidMeans
  <2>2. a2 \in Seq(Sei!Byte) /\ Len(a2) = m2
    BY <1>7
  <2>3. IsJoin(a3, a2, OurUuid, Len(a2), Len(OurUuid))
    BY <2>1, <2>2, Joined
  <2> HIDE DEF a3
  <2>4. IsJoin(a3, a2, OurUuid, m2, 16)
    BY <2>1, <2>2, <2>3, Zenon
  <2> QED
    BY <2>4, Zenon DEF IsJoin
<1> HIDE DEF a3, m3
<1>9. /\ a4 \in Seq(Sei!Byte) /\ Len(a4) = m4
      /\ \A i \in 1 .. m3 : a4[i] = a3[i]
      /\ \A i \in 1 .. Len(c) : a4[m3 + i] = c[i]
  <2>1. a3 \in Seq(Sei!Byte) /\ Len(a3) = m3
    BY <1>8
  <2>2. IsJoin(a4, a3, c, Len(a3), Len(c))
    BY <2>1, Joined
  <2> HIDE DEF a4
  <2>3. IsJoin(a4, a3, c, m3, Len(c))
    BY <2>1, <2>2, Zenon
  <2> QED
    BY <2>3, Zenon DEF IsJoin
<1> HIDE DEF a4, m4
<1>10. /\ a5 \in Seq(Sei!Byte) /\ Len(a5) = m4 + 1
       /\ \A i \in 1 .. m4 : a5[i] = a4[i]
       /\ a5[m4 + 1] = 128
  <2>1. 1 = Len(<<128>>) /\ <<128>>[1] = 128
    OBVIOUS
  <2>2. a4 \in Seq(Sei!Byte) /\ Len(a4) = m4
    BY <1>9
  <2>3. IsJoin(a5, a4, <<128>>, Len(a4), Len(<<128>>))
    BY <1>5, <2>2, Joined
  <2> HIDE DEF a5
  <2>4. IsJoin(a5, a4, <<128>>, m4, 1)
    BY <2>1, <2>2, <2>3, Zenon
  <2> QED
    BY <2>1, <2>4 DEF IsJoin
<1> HIDE DEF a5
<1>11. /\ m2 = h + q + 2 /\ m3 = h + q + 18 /\ m4 = h + q + n + 2 /\ h \in Nat
       /\ m2 \in Nat /\ m3 \in Nat /\ m4 \in Nat /\ h + 1 <= m2 /\ m2 <= m3 /\ m3 <= m4
  BY <1>1, <1>4 DEF m2, m3, m4, n
<1>a. \A i \in 1 .. m3 : a5[i] = a3[i]
  <2>1. \A i \in 1 .. m3 : i \in 1 .. m4
    BY <1>11
  <2> QED
    BY <1>9, <1>10, <2>1, Zenon
<1>b. \A i \in 1 .. m2 : a5[i] = a2[i]
  <2>1. \A i \in 1 .. m2 : i \in 1 .. m3
    BY <1>11
  <2> QED
    BY <1>8, <1>a, <2>1, Zenon
<1>c. \A i \in 1 .. h + 1 : a5[i] = a1[i]
  <2>1. \A i \in 1 .. h + 1 : i \in 1 .. m2
    BY <1>11
  <2> QED
    BY <1>7, <1>b, <2>1, Zenon
<1>12. (\A j \in 1 .. h : a5[j] = Sei!Header[j]) /\ a5[h + 1] = 5
  <2>1. h + 1 \in 1 .. h + 1 /\ \A i \in 1 .. h : i \in 1 .. h + 1
    BY <1>11
  <2> QED
    BY <1>6, <1>c, <2>1, Zenon
<1>14. \A i \in 1 .. q + 1 : a5[h + 1 + i] = ps[i]
  <2>1. \A i \in 1 .. q + 1 : h + 1 + i \in 1 .. m2
    BY <1>4, <1>11
  <2> QED
    BY <1>7, <1>b, <2>1, Zenon
<1>15. (\A i \in 1 .. q : a5[h + 1 + i] = 255) /\ a5[h + 2 + q] = n % 255
  <2>1. q + 1 \in 1 .. q + 1 /\ h + 1 + (q + 1) = h + 2 + q
    BY <1>4, <1>11
  <2> QED
    BY <1>4, <1>14, <2>1
<1>16. \A i \in 1 .. 16 : a5[h + q + 2 + i] = OurUuid[i]
  <2>1. \A i \in 1 .. 16 : m2 + i \in 1 .. m3
    BY <1>4, <1>11
  <2>2. \A i \in 1 .. 16 : a5[m2 + i] = OurUuid[i]
    BY <1>8, <1>a, <2>1, Zenon
  <2> QED
    BY <1>11, <2>2
<1>17. \A i \in 1 .. Len(c) : a5[h + q + 18 + i] = c[i]
  BY <1>1, <1>4, <1>9, <1>10, <1>11 DEF m4
<1>18. a5 \in Seq(Sei!Byte) /\ Len(a5) = h + q + n + 3 /\ a5[h + q + n + 3] = 128
  <2>1. m4 + 1 = h + q + n + 3
    BY <1>1, <1>4, <1>11
  <2> QED
    BY <1>10, <2>1
<1> QED
  BY <1>3, <1>12, <1>15, <1>16, <1>17, <1>18 DEF UnitIs, h, q, n

(* The packet, its size and its bytes, whatever the offset.              *)
IsPacket == packet \in Seq(Sei!Byte)
Size == Len(packet)

LEMMA PacketMeans == ASSUME IsPacket PROVE Size \in Nat /\ packet \in [1 .. Size -> 0 .. 255]
BY LenProperties DEF IsPacket, Sei!Byte, Size

LEMMA AtMeans == ASSUME IsPacket, NEW i \in Nat PROVE Sei!At(i) \in 0 .. 255
<1>1. CASE i < Size
  <2>1. i + 1 \in 1 .. Size
    BY <1>1, PacketMeans
  <2>2. packet[i + 1] \in 0 .. 255
    BY <2>1, PacketMeans
  <2> QED
    BY <1>1, <2>2 DEF Sei!At, Size
<1>2. CASE ~(i < Size)
  BY <1>2 DEF Sei!At, Size
<1> QED
  BY <1>1, <1>2

(* A number in bytes of 255 and a last one less ends somewhere, at the   *)
(* zeros behind the packet at the latest.                                *)
Full(i, j) == \A k \in i .. j - 1 : Sei!At(k) = 255

LEMMA LastByteIs ==
  ASSUME IsPacket, NEW i \in Nat, i <= Size + 1
  PROVE  /\ Sei!LastByte(i) \in Nat /\ i <= Sei!LastByte(i) /\ Sei!LastByte(i) <= Size + 1
         /\ Sei!At(Sei!LastByte(i)) # 255 /\ Full(i, Sei!LastByte(i))
<1> DEFINE Is(j) == Sei!At(j) # 255 /\ \A k \in i .. j - 1 : Sei!At(k) = 255
           S == {j \in i .. Size + 1 : Sei!At(j) # 255}
<1>1. Size \in Nat
  BY PacketMeans
<1>2. Size + 1 \in S
  <2>1. Sei!At(Size + 1) = 0
    BY <1>1 DEF Sei!At, Size
  <2> QED
    BY <1>1, <2>1
<1>3. PICK j \in S : \A m \in S : j <= m
  <2>1. S \subseteq Nat
    BY <1>1
  <2> HIDE DEF S
  <2> QED
    BY <1>2, <2>1, Least
<1>4. Is(j)
  <2>1. ASSUME NEW k \in i .. j - 1 PROVE Sei!At(k) = 255
    <3>1. k \in i .. Size + 1 /\ ~(j <= k)
      BY <1>1, <1>3
    <3>2. k \notin S
      BY <1>3, <3>1, Zenon
    <3> QED
      BY <3>1, <3>2
  <2> QED
    BY <1>3, <2>1
<1>5. j \in i .. Size + 1
  BY <1>3
<1>6. Sei!LastByte(i) = CHOOSE m \in i .. Size + 1 : Is(m)
  BY DEF Sei!LastByte, Size
<1>7. Sei!LastByte(i) \in i .. Size + 1 /\ Is(Sei!LastByte(i))
  <2> HIDE DEF Is
  <2> QED
    BY <1>4, <1>5, <1>6
<1> QED
  BY <1>1, <1>7 DEF Full

LEMMA LastByteAt ==
  ASSUME IsPacket, NEW i \in Nat, NEW j \in Nat, i <= j, j <= Size + 1,
         Full(i, j), Sei!At(j) # 255
  PROVE  Sei!LastByte(i) = j
<1>1. /\ Sei!LastByte(i) \in Nat /\ i <= Sei!LastByte(i)
      /\ Sei!At(Sei!LastByte(i)) # 255 /\ Full(i, Sei!LastByte(i))
  <2>1. i <= Size + 1
    BY PacketMeans
  <2> QED
    BY <2>1, LastByteIs
<1>2. ~(Sei!LastByte(i) < j)
  <2>1. Sei!LastByte(i) < j => Sei!LastByte(i) \in i .. j - 1
    BY <1>1
  <2> QED
    BY <1>1, <2>1 DEF Full
<1>3. ~(j < Sei!LastByte(i))
  <2>1. j < Sei!LastByte(i) => j \in i .. Sei!LastByte(i) - 1
    BY <1>1
  <2> QED
    BY <1>1, <2>1 DEF Full
<1> QED
  BY <1>1, <1>2, <1>3

(* The number itself, and when it is one of one byte.                    *)
LEMMA NumberMeans ==
  ASSUME NEW i \in Nat, NEW j \in Nat, i <= j, j = Sei!LastByte(i), Sei!At(j) \in 0 .. 255
  PROVE  /\ Sei!Number(i) = 255 * (j - i) + Sei!At(j) /\ Sei!Number(i) \in Nat
         /\ i = j => Sei!Number(i) = Sei!At(i)
         /\ i # j => Sei!Number(i) >= 255
<1>1. Sei!Number(i) = 255 * (j - i) + Sei!At(j)
  BY DEF Sei!Number
<1>2. 255 * (j - i) \in Nat /\ (i = j => 255 * (j - i) = 0) /\ (i # j => 255 * (j - i) >= 255)
  OBVIOUS
<1> QED
  BY <1>1, <1>2

(* Where the type is another one there are no user data.                 *)
LEMMA OtherType ==
  ASSUME IsPacket, NEW i \in Nat, i <= Size, Sei!At(i) # 5, NEW end
  PROVE  Sei!GetSeiBuffer(i, end) = Sei!Nothing
<1>1. PICK j \in Nat : j = Sei!LastByte(i) /\ i <= j
  <2>1. i <= Size + 1
    BY PacketMeans
  <2> QED
    BY <2>1, LastByteIs
<1>2. Sei!At(j) \in 0 .. 255
  BY AtMeans
<1>3. Sei!Number(i) # 5
  BY <1>1, <1>2, NumberMeans
<1> QED
  BY <1>3 DEF Sei!GetSeiBuffer

(* Where it is 5 they are what is behind the size and the UUID.          *)
LEMMA PayloadMeans ==
  ASSUME IsPacket, NEW i \in Nat, NEW end \in Nat, NEW size \in Nat, i < size, size < Size,
         Sei!At(i) = 5, Full(i + 1, size), Sei!At(size) # 255,
         NEW n, n = 255 * (size - i - 1) + Sei!At(size)
  PROVE  /\ n \in Nat
         /\ Sei!GetSeiBuffer(i, end) =
              IF n >= 16 /\ size + 1 + n <= end /\ Sei!Starts(size + 1, OurUuid)
              THEN SubSeq(packet, size + 18, size + 1 + n) ELSE Sei!Nothing
<1>1. Sei!LastByte(i) = i /\ Sei!Number(i) = 5
  <2>1. Full(i, i) /\ i <= Size + 1 /\ i <= i
    BY PacketMeans DEF Full
  <2>2. Sei!LastByte(i) = i
    BY <2>1, LastByteAt
  <2> QED
    BY <2>1, <2>2, NumberMeans
<1>2. Sei!LastByte(i + 1) = size
  <2>1. i + 1 \in Nat /\ i + 1 <= size /\ size <= Size + 1
    BY PacketMeans
  <2> QED
    BY <2>1, LastByteAt
<1>3. Sei!Number(i + 1) = n /\ n \in Nat
  <2>1. i + 1 \in Nat /\ i + 1 <= size /\ Sei!At(size) \in 0 .. 255 /\ size - (i + 1) = size - i - 1
    BY AtMeans
  <2> QED
    BY <1>2, <2>1, NumberMeans
<1>4. Len(OurUuid) = 16
  BY UuidMeans
<1>5. Sei!GetSeiBuffer(i, end) =
        IF n >= 16 /\ size + 1 + n <= end /\ Sei!Starts(size + 1, OurUuid)
        THEN SubSeq(packet, size + 1 + 16 + 1, size + 1 + n) ELSE Sei!Nothing
  BY <1>1, <1>2, <1>3, <1>4 DEF Sei!GetSeiBuffer
<1>6. size + 1 + 16 + 1 = size + 18
  OBVIOUS
<1> QED
  BY <1>3, <1>5, <1>6

(* A piece of the packet.                                                *)
LEMMA PieceMeans ==
  ASSUME IsPacket, NEW m \in Nat, NEW n \in Nat, m >= 1, n <= Size
  PROVE  /\ SubSeq(packet, m, n) \in Seq(Sei!Byte)
         /\ m <= n + 1 => Len(SubSeq(packet, m, n)) = n - m + 1
         /\ \A i \in 1 .. n - m + 1 : SubSeq(packet, m, n)[i] = packet[m + i - 1]
<1>1. \A i \in m .. n : packet[i] \in Sei!Byte
  <2>1. \A i \in m .. n : i \in 1 .. Size
    BY PacketMeans
  <2> QED
    BY <2>1, PacketMeans DEF Sei!Byte
<1>2. /\ SubSeq(packet, m, n) \in Seq(Sei!Byte)
      /\ Len(SubSeq(packet, m, n)) = IF m <= n THEN n - m + 1 ELSE 0
      /\ \A i \in 1 .. n - m + 1 : SubSeq(packet, m, n)[i] = packet[m + i - 1]
  BY <1>1, SubSeqProperties
<1> QED
  BY <1>2

(* The user data found are bytes.                                        *)
LEMMA BufferMeans ==
  ASSUME IsPacket, NEW i \in Nat, NEW end \in Nat, i <= Size, end <= Size
  PROVE  Sei!GetSeiBuffer(i, end) \in Seq(Sei!Byte) \cup {Sei!Nothing}
<1>1. CASE Sei!At(i) # 5
  BY <1>1, OtherType
<1>2. CASE Sei!At(i) = 5 /\ i < Size
  <2>0. Size \in Nat
    BY PacketMeans
  <2>1. PICK size \in Nat : /\ i + 1 <= size /\ size <= Size + 1 /\ Sei!At(size) # 255
                            /\ Full(i + 1, size)
    <3>1. i + 1 \in Nat /\ i + 1 <= Size + 1
      BY <2>0
    <3> QED
      BY <3>1, LastByteIs
  <2>2. size <= Size
    <3>1. size = Size + 1 => Size \in i + 1 .. size - 1 /\ Sei!At(Size) = 0
      BY <1>2, <2>0 DEF Sei!At, Size
    <3>2. size # Size + 1
      BY <2>1, <3>1 DEF Full
    <3> QED
      BY <2>0, <2>1, <3>2
  <2>3. CASE size < Size
    <3>1. PICK n : n = 255 * (size - i - 1) + Sei!At(size)
      OBVIOUS
    <3>2. i < size
      BY <2>1
    <3>3. /\ n \in Nat
          /\ Sei!GetSeiBuffer(i, end) =
              IF n >= 16 /\ size + 1 + n <= end /\ Sei!Starts(size + 1, OurUuid)
              THEN SubSeq(packet, size + 18, size + 1 + n) ELSE Sei!Nothing
      BY <1>2, <2>1, <2>3, <3>1, <3>2, PayloadMeans
    <3>4. size + 1 + n <= end => SubSeq(packet, size + 18, size + 1 + n) \in Seq(Sei!Byte)
      <4>1. size + 18 \in Nat /\ size + 18 >= 1 /\ size + 1 + n \in Nat
            /\ (size + 1 + n <= end => size + 1 + n <= Size)
        BY <2>0, <3>3
      <4> QED
        BY <4>1, PieceMeans
    <3> QED
      BY <3>3, <3>4
  <2>4. CASE size = Size
    <3>1. Sei!LastByte(i + 1) = Size
      <4>1. i + 1 \in Nat /\ i + 1 <= size /\ size <= Size + 1
        BY <2>0, <2>1, <2>2
      <4> QED
        BY <2>1, <2>4, <4>1, LastByteAt
    <3>2. Sei!Number(i + 1) \in Nat
      <4>1. i + 1 \in Nat /\ i + 1 <= Size /\ Sei!At(Size) \in 0 .. 255
        BY <2>0, <2>1, <2>4, AtMeans
      <4> QED
        BY <2>0, <3>1, <4>1, NumberMeans
    <3>3. Sei!LastByte(i) = i
      <4>1. Full(i, i) /\ i <= Size + 1 /\ i <= i /\ Sei!At(i) # 255
        BY <1>2, <2>0 DEF Full
      <4> QED
        BY <4>1, LastByteAt
    <3>4. ~(Sei!LastByte(Sei!LastByte(i) + 1) + 1 + Sei!Number(Sei!LastByte(i) + 1) <= end)
      BY <2>0, <3>1, <3>2, <3>3
    <3> QED
      BY <3>4 DEF Sei!GetSeiBuffer
  <2> QED
    BY <2>0, <2>2, <2>3, <2>4
<1>3. i = Size => Sei!At(i) = 0
  BY PacketMeans DEF Sei!At, Size
<1> QED
  BY <1>1, <1>2, <1>3, PacketMeans

(* The bytes of s are those of the packet from an offset on.             *)
IsBytes(s) == s \in Seq(Sei!Byte)
Lies(u, s) == u + Len(s) <= Size /\ \A j \in 1 .. Len(s) : Sei!At(u + j - 1) = s[j]

LEMMA BytesMeans ==
  ASSUME NEW s, IsBytes(s) PROVE Len(s) \in Nat /\ s \in [1 .. Len(s) -> 0 .. 255]
BY LenProperties DEF IsBytes, Sei!Byte

(* The sizes of a unit with user data and where its bytes are.           *)
Within(u, s, end) == u + Len(s) <= end
OwnSizes(c, h, q, n) == h = Len(Sei!Header) /\ n = 16 + Len(c) /\ q = n \div 255
OwnAt(c, u, h, q, n) ==
    /\ h \in {1, 2} /\ n \in Nat /\ n >= 16 /\ q \in Nat /\ n = 255 * q + (n % 255)
    /\ n % 255 \in 0 .. 254
    /\ Len(Sei!SeiUnit(c)) = h + q + n + 3 /\ u + h + q + n + 3 <= Size
    /\ \A j \in 1 .. h : Sei!At(u + j - 1) = Sei!Header[j]
    /\ Sei!At(u + h) = 5 /\ Full(u + h + 1, u + h + q + 1)
    /\ Sei!At(u + h + q + 1) = n % 255
    /\ \A i \in 1 .. 16 : Sei!At(u + h + q + 1 + i) = OurUuid[i]
    /\ \A i \in 1 .. Len(c) : Sei!At(u + h + q + 17 + i) = c[i]

LEMMA OwnLies ==
  ASSUME codec \in {"h264", "h265"}, NEW c, IsBytes(c), NEW u \in Nat, IsPacket,
         Lies(u, Sei!SeiUnit(c)),
         NEW h, NEW q, NEW n, OwnSizes(c, h, q, n)
  PROVE  OwnAt(c, u, h, q, n)
<1> DEFINE s == Sei!SeiUnit(c)
<1>1. UnitIs(s, c, h, q, n)
  BY UnitMeans DEF IsBytes, OwnSizes
<1>2. h \in {1, 2}
  BY HeaderMeans DEF OwnSizes
<1>3. Len(c) \in Nat /\ n \in Nat /\ n >= 16 /\ n = 16 + Len(c)
  BY BytesMeans DEF OwnSizes
<1>4. q \in Nat /\ n = 255 * q + (n % 255) /\ n % 255 \in 0 .. 254
  <2>1. IsSize(Sei!PayloadSize(n), n, q)
    BY <1>3, PayloadSizeMeans DEF OwnSizes
  <2> QED
    BY <2>1 DEF IsSize
<1> HIDE DEF s
<1>5. Len(s) = h + q + n + 3
  BY <1>1 DEF UnitIs
<1>6. /\ \A j \in 1 .. h : s[j] = Sei!Header[j]
      /\ s[h + 1] = 5
      /\ \A i \in 1 .. q : s[h + 1 + i] = 255
      /\ s[h + 2 + q] = n % 255
      /\ \A i \in 1 .. 16 : s[h + q + 2 + i] = OurUuid[i]
      /\ \A i \in 1 .. Len(c) : s[h + q + 18 + i] = c[i]
  BY <1>1 DEF UnitIs
<1>7. u + (h + q + n + 3) <= Size /\ \A j \in 1 .. h + q + n + 3 : Sei!At(u + j - 1) = s[j]
  BY <1>5 DEF Lies, s
<1>8. Size \in Nat
  BY PacketMeans
<1>9. \A j \in 1 .. h : Sei!At(u + j - 1) = Sei!Header[j]
  <2>1. \A j \in 1 .. h : j \in 1 .. h + q + n + 3
    BY <1>2, <1>3, <1>4
  <2> QED
    BY <1>6, <1>7, <2>1, Zenon
<1>10. Sei!At(u + h) = 5
  <2>1. h + 1 \in 1 .. h + q + n + 3 /\ u + (h + 1) - 1 = u + h
    BY <1>2, <1>3, <1>4
  <2>2. Sei!At(u + (h + 1) - 1) = s[h + 1]
    BY <1>7, <2>1, Zenon
  <2> QED
    BY <1>6, <2>1, <2>2
<1>11. ASSUME NEW k \in u + h + 1 .. u + h + q + 1 - 1 PROVE Sei!At(k) = 255
  <2>0. h \in Nat /\ q \in Nat
    BY <1>2, <1>4
  <2>1. PICK i \in 1 .. q : i = k - u - h
    BY <2>0
  <2>2. h + 1 + i \in 1 .. h + q + n + 3 /\ u + (h + 1 + i) - 1 = k
    BY <1>2, <1>3, <1>4, <2>1
  <2>3. Sei!At(u + (h + 1 + i) - 1) = s[h + 1 + i]
    BY <1>7, <2>2, Zenon
  <2> QED
    BY <1>6, <2>2, <2>3
<1>12. Sei!At(u + h + q + 1) = n % 255
  <2>1. h + 2 + q \in 1 .. h + q + n + 3 /\ u + (h + 2 + q) - 1 = u + h + q + 1
    BY <1>2, <1>3, <1>4
  <2>2. Sei!At(u + (h + 2 + q) - 1) = s[h + 2 + q]
    BY <1>7, <2>1, Zenon
  <2> QED
    BY <1>6, <2>1, <2>2
<1>13. ASSUME NEW i \in 1 .. 16 PROVE Sei!At(u + h + q + 1 + i) = OurUuid[i]
  <2>1. h + q + 2 + i \in 1 .. h + q + n + 3 /\ u + (h + q + 2 + i) - 1 = u + h + q + 1 + i
    BY <1>2, <1>3, <1>4
  <2>2. Sei!At(u + (h + q + 2 + i) - 1) = s[h + q + 2 + i]
    BY <1>7, <2>1, Zenon
  <2>3. s[h + q + 2 + i] = OurUuid[i]
    BY <1>6
  <2> QED
    BY <2>1, <2>2, <2>3
<1>14. ASSUME NEW i \in 1 .. Len(c) PROVE Sei!At(u + h + q + 17 + i) = c[i]
  <2>1. h + q + 18 + i \in 1 .. h + q + n + 3 /\ u + (h + q + 18 + i) - 1 = u + h + q + 17 + i
    BY <1>2, <1>3, <1>4
  <2>2. Sei!At(u + (h + q + 18 + i) - 1) = s[h + q + 18 + i]
    BY <1>7, <2>1, Zenon
  <2>3. s[h + q + 18 + i] = c[i]
    BY <1>6
  <2> QED
    BY <2>1, <2>2, <2>3
<1>15. u + h + q + n + 3 <= Size
  BY <1>2, <1>3, <1>4, <1>7, <1>8
<1> QED
  BY <1>2, <1>3, <1>4, <1>5, <1>9, <1>10, <1>11, <1>12, <1>13, <1>14, <1>15
     DEF OwnAt, Full, s

(* They are found behind the header.                                     *)
LEMMA OwnFound ==
  ASSUME IsPacket, codec \in {"h264", "h265"}, NEW c, IsBytes(c),
         NEW u \in Nat, Lies(u, Sei!SeiUnit(c)),
         NEW end \in Nat, Within(u, Sei!SeiUnit(c), end)
  PROVE  Sei!GetSeiBuffer(u + Len(Sei!Header), end) = c
<1>1. PICK h, q, n : OwnSizes(c, h, q, n)
  BY DEF OwnSizes
<1>o. OwnAt(c, u, h, q, n)
  BY <1>1, OwnLies
<1>2. /\ h \in {1, 2} /\ n \in Nat /\ n >= 16 /\ q \in Nat /\ n = 255 * q + (n % 255)
      /\ n % 255 \in 0 .. 254
      /\ Len(Sei!SeiUnit(c)) = h + q + n + 3 /\ u + h + q + n + 3 <= Size
  BY <1>o, Zenon DEF OwnAt
<1>3. /\ Sei!At(u + h) = 5 /\ Full(u + h + 1, u + h + q + 1)
      /\ Sei!At(u + h + q + 1) = n % 255
  BY <1>o, Zenon DEF OwnAt
<1>4. \A i \in 1 .. 16 : Sei!At(u + h + q + 1 + i) = OurUuid[i]
  BY <1>o, Zenon DEF OwnAt
<1>5. \A i \in 1 .. Len(c) : Sei!At(u + h + q + 17 + i) = c[i]
  BY <1>o, Zenon DEF OwnAt
<1>6. Size \in Nat
  BY PacketMeans
<1>7. PICK size \in Nat : size = u + h + q + 1
  BY <1>2
<1>8. Sei!GetSeiBuffer(u + h, end) =
        IF n >= 16 /\ size + 1 + n <= end /\ Sei!Starts(size + 1, OurUuid)
        THEN SubSeq(packet, size + 18, size + 1 + n) ELSE Sei!Nothing
  <2>1. /\ u + h \in Nat /\ u + h < size /\ size < Size
        /\ size - (u + h) - 1 = q
    BY <1>2, <1>6, <1>7
  <2>2. Full(u + h + 1, size) /\ Sei!At(size) = n % 255 /\ Sei!At(size) # 255
    BY <1>2, <1>3, <1>7
  <2>3. n = 255 * (size - (u + h) - 1) + Sei!At(size)
    BY <1>2, <2>1, <2>2
  <2> QED
    <3>1. PICK i \in Nat : i = u + h
      BY <2>1
    <3>2. /\ i < size /\ size < Size /\ Full(i + 1, size) /\ Sei!At(i) = 5 /\ Sei!At(size) # 255
          /\ n = 255 * (size - i - 1) + Sei!At(size)
      BY <1>3, <2>1, <2>2, <2>3, <3>1
    <3>3. Sei!GetSeiBuffer(i, end) =
            IF n >= 16 /\ size + 1 + n <= end /\ Sei!Starts(size + 1, OurUuid)
            THEN SubSeq(packet, size + 18, size + 1 + n) ELSE Sei!Nothing
      BY <3>2, PayloadMeans
    <3> QED
      BY <3>1, <3>3
<1>9. size + 1 + n <= end
  <2>1. u + (h + q + n + 3) <= end
    BY <1>2 DEF Within
  <2> QED
    BY <1>2, <1>7, <2>1
<1>10. Sei!Starts(size + 1, OurUuid)
  <2> SUFFICES ASSUME NEW k \in 1 .. 16 PROVE Sei!At(size + 1 + k - 1) = OurUuid[k]
    BY UuidMeans DEF Sei!Starts
  <2>1. size + 1 + k - 1 = u + h + q + 1 + k
    BY <1>2, <1>7
  <2> QED
    BY <1>4, <2>1
<1> DEFINE t == SubSeq(packet, size + 18, size + 1 + n)
<1>11. Len(c) \in Nat /\ n = 16 + Len(c)
  BY <1>1, BytesMeans DEF OwnSizes
<1>12. /\ IsBytes(t) /\ Len(t) = Len(c)
       /\ \A i \in 1 .. Len(c) : t[i] = packet[size + 18 + i - 1]
  <2>1. /\ size + 18 \in Nat /\ size + 1 + n \in Nat /\ size + 18 >= 1 /\ size + 1 + n <= Size
        /\ size + 18 <= size + 1 + n + 1 /\ size + 1 + n - (size + 18) + 1 = Len(c)
    BY <1>2, <1>6, <1>7, <1>11
  <2>2. PICK m \in Nat, l \in Nat : m = size + 18 /\ l = size + 1 + n
    BY <2>1
  <2>3. IsBytes(SubSeq(packet, m, l))
    BY <2>1, <2>2, PieceMeans DEF IsBytes
  <2>4. Len(SubSeq(packet, m, l)) = l - m + 1
    BY <2>1, <2>2, PieceMeans
  <2>5. \A i \in 1 .. l - m + 1 : SubSeq(packet, m, l)[i] = packet[m + i - 1]
    BY <2>1, <2>2, PieceMeans
  <2>6. l - m + 1 = Len(c)
    <3>1. PICK k \in Nat : k = Len(c)
      BY <1>11
    <3>2. n = 16 + k
      BY <1>11, <3>1
    <3>3. l - m + 1 = k
      BY <1>2, <1>7, <2>2, <3>2
    <3> QED
      BY <3>1, <3>3
  <2> QED
    BY <2>2, <2>3, <2>4, <2>5, <2>6
<1> HIDE DEF t
<1>13. ASSUME NEW i \in 1 .. Len(c) PROVE packet[size + 18 + i - 1] = c[i]
  <2>1. PICK j \in Nat : j = u + h + q + 17 + i
    BY <1>2, <1>11
  <2>2. j < Size /\ j + 1 = size + 18 + i - 1
    BY <1>2, <1>6, <1>7, <1>11, <2>1
  <2>3. Sei!At(j) = packet[j + 1]
    BY <2>2 DEF Sei!At, Size
  <2> QED
    BY <1>5, <2>1, <2>2, <2>3
<1>14. t = c
  <2>1. PICK l \in Nat : l = Len(c)
    BY <1>11
  <2>3. t \in [1 .. l -> 0 .. 255] /\ c \in [1 .. l -> 0 .. 255]
    <3>1. t \in [1 .. Len(t) -> 0 .. 255] /\ c \in [1 .. Len(c) -> 0 .. 255]
      BY <1>12, BytesMeans
    <3> QED
      BY <1>12, <2>1, <3>1
  <2>2. \A i \in 1 .. Len(c) : t[i] = c[i]
    BY <1>12, <1>13
  <2>4. \A i \in 1 .. l : t[i] = c[i]
    BY <2>1, <2>2, Zenon
  <2> QED
    BY <2>3, <2>4
<1> QED
  <2>1. h = Len(Sei!Header)
    BY <1>1 DEF OwnSizes
  <2> QED
    BY <1>2, <1>8, <1>9, <1>10, <1>14, <2>1 DEF t

(* Where reading may end: at an offset itself, or past it if there is no   *)
(* payload there.                                                        *)
Reads(to, end) == end >= to /\ (end = to \/ Sei!At(to) = 0)

LEMMA EndPassed ==
  ASSUME IsPacket, NEW i \in Nat, i <= Size, NEW end \in Nat, Reads(i, end)
  PROVE  Sei!GetSeiBuffer(i, end) = Sei!Nothing
<1>1. CASE Sei!At(i) # 5
  BY <1>1, OtherType
<1>2. CASE Sei!At(i) = 5
  <2>1. PICK z \in Nat : z = Size
    BY PacketMeans
  <2>2. end = i
    BY <1>2 DEF Reads
  <2>3. Full(i, i) /\ i <= z + 1 /\ i <= i
    BY <2>1 DEF Full
  <2>4. Sei!LastByte(i) = i
    BY <1>2, <2>1, <2>3, LastByteAt
  <2>5. i < z
    <3>1. Sei!At(z) = 0
      BY <2>1 DEF Sei!At, Size
    <3>2. i # z
      BY <1>2, <3>1
    <3> QED
      BY <2>1, <3>2
  <2>6. PICK p \in Nat : p = Sei!LastByte(i + 1) /\ i + 1 <= p
    <3>1. i + 1 \in Nat /\ i + 1 <= z + 1
      BY <2>1, <2>5
    <3> QED
      BY <2>1, <3>1, LastByteIs
  <2>7. PICK n \in Nat : n = Sei!Number(i + 1)
    <3>1. i + 1 \in Nat /\ Sei!At(p) \in 0 .. 255
      BY AtMeans
    <3> QED
      BY <2>6, <3>1, NumberMeans
  <2>8. ~(p + 1 + n <= end)
    BY <2>2, <2>6, <2>7
  <2> QED
    BY <2>4, <2>6, <2>7, <2>8 DEF Sei!GetSeiBuffer
<1> QED
  BY <1>1, <1>2

(* What others put behind the header of a unit is not taken for ours.    *)
LEMMA OthersPassed ==
  ASSUME IsPacket, NEW unit, IsBytes(unit), NEW u \in Nat, Lies(u, unit),
         NEW h \in Nat, Sei!NotOurs(unit, h), NEW end \in Nat, Reads(u + Len(unit), end)
  PROVE  Sei!GetSeiBuffer(u + h, end) = Sei!Nothing
<1>1. PICK l \in Nat : l = Len(unit)
  BY BytesMeans
<1>2. Size \in Nat /\ u + l <= Size /\ \A j \in 1 .. l : Sei!At(u + j - 1) = unit[j]
  BY <1>1, PacketMeans DEF Lies
<1>3. h <= l
  BY <1>1 DEF Sei!NotOurs
<1>4. PICK i \in Nat : i = u + h
  OBVIOUS
<1>h. CASE h = l
  <2>1. Reads(i, end) /\ i <= Size
    BY <1>1, <1>2, <1>4, <1>h
  <2> QED
    BY <1>4, <2>1, EndPassed
<1> SUFFICES ASSUME h < l PROVE Sei!GetSeiBuffer(u + h, end) = Sei!Nothing
  BY <1>3, <1>h
<1>5. i < Size /\ Sei!At(i) = unit[h + 1]
  <2>1. h + 1 \in 1 .. l /\ u + (h + 1) - 1 = i /\ i < Size
    BY <1>2, <1>4
  <2>2. Sei!At(u + (h + 1) - 1) = unit[h + 1]
    BY <1>2, <2>1, Zenon
  <2> QED
    BY <2>1, <2>2
<1>6. CASE unit[h + 1] # 5
  <2>1. i <= Size /\ Sei!At(i) # 5
    BY <1>2, <1>5, <1>6
  <2> QED
    BY <1>4, <2>1, OtherType
<1>7. CASE unit[h + 1] = 5
  <2>1. PICK s \in h + 2 .. l :
          /\ \A j \in h + 2 .. s - 1 : unit[j] = 255
          /\ unit[s] # 255
          /\ \/ 255 * (s - h - 2) + unit[s] < 16
             \/ \E k \in 1 .. 16 : s + k <= l /\ unit[s + k] # OurUuid[k]
    <3>1. \E s \in h + 2 .. Len(unit) :
             /\ \A j \in h + 2 .. s - 1 : unit[j] = 255
             /\ unit[s] # 255
             /\ \/ 255 * (s - h - 2) + unit[s] < Len(OurUuid)
                \/ \E k \in 1 .. Len(OurUuid) : s + k <= Len(unit) /\ unit[s + k] # OurUuid[k]
      <4>1. h < Len(unit)
        BY <1>1
      <4> QED
        BY <1>7, <4>1, Zenon DEF Sei!NotOurs
    <3>2. Len(OurUuid) = 16
      BY UuidMeans
    <3> QED
      BY <1>1, <3>1, <3>2
  <2>2. PICK size \in Nat : size = u + s - 1
    BY <1>2
  <2>3. i < size /\ size < Size /\ size - i - 1 = s - h - 2
    BY <1>2, <1>4, <2>2
  <2>4. Sei!At(size) = unit[s]
    <3>1. s \in 1 .. l
      BY <1>3
    <3> QED
      BY <1>2, <2>2, <3>1
  <2>5. Full(i + 1, size)
    <3> SUFFICES ASSUME NEW k \in i + 1 .. size - 1 PROVE Sei!At(k) = 255
      BY DEF Full
    <3>1. PICK j \in Nat : j = k - u + 1
      BY <1>4
    <3>2. j \in h + 2 .. s - 1 /\ j \in 1 .. l /\ u + j - 1 = k
      BY <1>4, <2>2, <3>1
    <3>3. Sei!At(u + j - 1) = unit[j]
      BY <1>2, <3>2, Zenon
    <3>4. unit[j] = 255
      BY <2>1, <3>2, Zenon
    <3> QED
      BY <3>2, <3>3, <3>4
  <2>6. PICK n : n = 255 * (size - i - 1) + Sei!At(size)
    OBVIOUS
  <2>7. /\ n \in Nat
        /\ Sei!GetSeiBuffer(i, end) =
              IF n >= 16 /\ size + 1 + n <= end /\ Sei!Starts(size + 1, OurUuid)
              THEN SubSeq(packet, size + 18, size + 1 + n) ELSE Sei!Nothing
    <3>1. Sei!At(i) = 5 /\ Sei!At(size) # 255
      BY <1>5, <1>7, <2>1, <2>4
    <3> QED
      BY <2>3, <2>5, <2>6, <3>1, PayloadMeans
  <2>8. CASE 255 * (s - h - 2) + unit[s] < 16
    <3>1. n = 255 * (s - h - 2) + unit[s]
      BY <2>3, <2>4, <2>6
    <3>2. ~(n >= 16)
      BY <2>7, <2>8, <3>1
    <3> QED
      BY <1>4, <2>7, <3>2, Zenon
  <2>9. CASE \E k \in 1 .. 16 : s + k <= l /\ unit[s + k] # OurUuid[k]
    <3>1. PICK k \in 1 .. 16 : s + k <= l /\ unit[s + k] # OurUuid[k]
      BY <2>9
    <3>2. s + k \in 1 .. l /\ u + (s + k) - 1 = size + 1 + k - 1
      BY <1>3, <2>2, <3>1
    <3>3. Sei!At(u + (s + k) - 1) = unit[s + k]
      BY <1>2, <3>2, Zenon
    <3>4. Sei!At(size + 1 + k - 1) # OurUuid[k]
      BY <3>1, <3>2, <3>3
    <3>5. ~Sei!Starts(size + 1, OurUuid)
      BY <3>4, UuidMeans DEF Sei!Starts
    <3> QED
      BY <1>4, <2>7, <3>5, Zenon
  <2> QED
    BY <2>1, <2>8, <2>9
<1> QED
  BY <1>6, <1>7

(* Four bytes, the highest first.                                        *)
BigIs(s, n) ==
    /\ IsBytes(s) /\ Len(s) = 4 /\ n = ((s[1] * 256 + s[2]) * 256 + s[3]) * 256 + s[4]
    /\ s[1] = 0 /\ s[2] = 0 /\ s[3] = 1 => n \in 256 .. 511
    /\ s[1] = 0 /\ s[2] = 0 /\ s[3] = 0 /\ s[4] = 1 => n = 1

IsLength(n) == n \in Nat /\ n < 4294967296

LEMMA BigMeans == ASSUME NEW n, IsLength(n) PROVE BigIs(Sei!BigEndian(n), n)
<1>0. n \in Nat
  BY DEF IsLength
<1>1. PICK m \in Nat, d \in 0 .. 255 : m = n \div 256 /\ d = n % 256 /\ n = m * 256 + d
  BY <1>0
<1>2. PICK l \in Nat, c \in 0 .. 255 : l = m \div 256 /\ c = m % 256 /\ m = l * 256 + c
  OBVIOUS
<1>3. PICK a \in Nat, b \in 0 .. 255 : a = l \div 256 /\ b = l % 256 /\ l = a * 256 + b
  OBVIOUS
<1>4. a \in 0 .. 255
  BY <1>1, <1>2, <1>3, SMT DEF IsLength
<1>5. Sei!BigEndian(n) = <<a, b, c, d>>
  BY <1>1, <1>2, <1>3 DEF Sei!BigEndian
<1>6. n = ((a * 256 + b) * 256 + c) * 256 + d
  BY <1>1, <1>2, <1>3
<1>7. (a = 0 /\ b = 0 /\ c = 1 => n \in 256 .. 511) /\ (a = 0 /\ b = 0 /\ c = 0 /\ d = 1 => n = 1)
  BY <1>6
<1>8. IsBytes(<<a, b, c, d>>)
  BY <1>4 DEF IsBytes, Sei!Byte
<1> QED
  BY <1>5, <1>6, <1>7, <1>8 DEF BigIs

(* The packet with bytes put behind it.                                  *)
LEMMA Grown ==
  ASSUME IsPacket, NEW b, IsBytes(b), packet' = packet \o b, NEW z \in Nat, z = Size
  PROVE  /\ IsPacket' /\ Size' = z + Len(b)
         /\ \A i \in 0 .. z - 1 : Sei!At(i)' = Sei!At(i)
         /\ \A j \in 1 .. Len(b) : Sei!At(z + j - 1)' = b[j]
<1>1. IsJoin(packet', packet, b, z, Len(b))
  BY Joined DEF IsPacket, IsBytes, Size
<1>2. PICK n \in Nat : n = Len(b)
  BY BytesMeans
<1>3. /\ Len(packet') = z + n
      /\ \A i \in 1 .. z : packet'[i] = packet[i]
      /\ \A i \in 1 .. n : packet'[z + i] = b[i]
  BY <1>1, <1>2 DEF IsJoin
<1>4. IsPacket' /\ Size' = z + n
  BY <1>1, <1>2, PacketMeans DEF IsJoin, IsPacket, Size
<1>5. ASSUME NEW i \in 0 .. z - 1 PROVE Sei!At(i)' = Sei!At(i)
  <2>1. i + 1 \in 1 .. z /\ i < z /\ i < z + n
    OBVIOUS
  <2>2. Sei!At(i) = packet[i + 1]
    BY <2>1 DEF Sei!At, Size
  <2>3. Sei!At(i)' = packet'[i + 1]
    BY <1>3, <2>1 DEF Sei!At
  <2> QED
    BY <1>3, <2>1, <2>2, <2>3
<1>6. ASSUME NEW j \in 1 .. n PROVE Sei!At(z + j - 1)' = b[j]
  <2>1. PICK i \in Nat : i = z + j - 1
    OBVIOUS
  <2>2. i < z + n /\ i + 1 = z + j
    BY <2>1
  <2>3. Sei!At(i)' = packet'[i + 1]
    BY <1>3, <2>2 DEF Sei!At
  <2>4. packet'[z + j] = b[j]
    BY <1>3
  <2> QED
    BY <2>1, <2>2, <2>3, <2>4
<1> QED
  BY <1>2, <1>4, <1>5, <1>6

(* What the assumption says of the user data and of the other units.     *)
IsOther(unit) ==
    /\ Sei!Standard(unit) /\ Sei!Short(unit)
    /\ codec = "h264" /\ unit[1] % 32 = 6 => Sei!NotOurs(unit, 1)
    /\ codec = "h265" => Sei!NotOurs(unit, 2)

LEMMA SeiConstants ==
  /\ MaxUnits \in Nat
  /\ \A c \in Contents : IsBytes(c) /\ Sei!Short(c)
  /\ codec \in {"h264", "h265"} => \A unit \in Units[codec] : IsOther(unit)
BY PartsAssumption DEF PartsAssumption, Sei!SeiAssumption, IsBytes, IsOther

(* A unit with what is in front of it, as one can be put into a packet.  *)
Own(body, content) == content \in Contents /\ body = Sei!SeiUnit(content)
Other(body, content) == content = Sei!Nothing /\ IsOther(body)
Prefix4 == <<0, 0, 0, 1>>
Piece(prefix, body, content) ==
    /\ IsBytes(prefix) /\ IsBytes(body)
    /\ IF isAnnexb THEN prefix \in Sei!StartCodes ELSE prefix = Sei!BigEndian(Len(body))
    /\ \/ Own(body, content) /\ (isAnnexb => prefix = Prefix4)
       \/ Other(body, content)

(* Its length fits into four bytes.                                      *)
LEMMA OwnLength ==
  ASSUME codec \in {"h264", "h265"}, NEW c, IsBytes(c), Sei!Short(c)
  PROVE  IsBytes(Sei!SeiUnit(c)) /\ IsLength(Len(Sei!SeiUnit(c)))
<1>1. PICK h, q, n : OwnSizes(c, h, q, n)
  BY DEF OwnSizes
<1>2. UnitIs(Sei!SeiUnit(c), c, h, q, n)
  BY <1>1, UnitMeans DEF IsBytes, OwnSizes
<1>3. h \in {1, 2}
  BY <1>1, HeaderMeans DEF OwnSizes
<1>4. n \in Nat /\ n < 1073741840
  <2>1. Len(c) \in Nat /\ n = 16 + Len(c)
    BY <1>1, BytesMeans DEF OwnSizes
  <2> QED
    BY <2>1, SMT DEF Sei!Short
<1>5. q \in Nat /\ q <= n
  <2>0. n \in Nat
    BY <1>4, SMT
  <2>1. q = n \div 255
    BY <1>1 DEF OwnSizes
  <2>2. IsSize(Sei!PayloadSize(n), n, q)
    BY <2>0, <2>1, PayloadSizeMeans
  <2>3. q \in Nat /\ n = 255 * q + (n % 255) /\ n % 255 \in 0 .. 254
    BY <2>2 DEF IsSize
  <2> QED
    BY <2>0, <2>3
<1>6. Len(Sei!SeiUnit(c)) = h + q + n + 3 /\ IsBytes(Sei!SeiUnit(c))
  BY <1>2 DEF UnitIs, IsBytes
<1>7. IsLength(h + q + n + 3)
  BY <1>3, <1>4, <1>5, SMT DEF IsLength
<1> QED
  BY <1>6, <1>7

LEMMA PieceIs ==
  ASSUME codec \in {"h264", "h265"}, NEW prefix, NEW body, NEW content, Piece(prefix, body, content)
  PROVE  /\ IsLength(Len(body)) /\ Len(body) > 0
         /\ Len(prefix) \in {3, 4}
         /\ ~isAnnexb => BigIs(prefix, Len(body))
<1>1. IsLength(Len(body)) /\ Len(body) > 0
  <2>1. CASE Own(body, content)
    <3>1. IsBytes(content) /\ Sei!Short(content)
      BY <2>1, SeiConstants DEF Own
    <3>2. IsLength(Len(body))
      BY <2>1, <3>1, OwnLength DEF Own
    <3>3. Len(body) > 0
      <4>1. PICK h, q, n : OwnSizes(content, h, q, n)
        BY DEF OwnSizes
      <4>2. UnitIs(Sei!SeiUnit(content), content, h, q, n)
        BY <3>1, <4>1, UnitMeans DEF IsBytes, OwnSizes
      <4>3. h \in {1, 2}
        BY <4>1, HeaderMeans DEF OwnSizes
      <4>4. n \in Nat
        BY <3>1, <4>1, BytesMeans DEF OwnSizes
      <4>5. q \in Nat
        <5>1. q = n \div 255
          BY <4>1 DEF OwnSizes
        <5>2. IsSize(Sei!PayloadSize(n), n, q)
          BY <4>4, <5>1, PayloadSizeMeans
        <5> QED
          BY <5>2 DEF IsSize
      <4>6. Len(body) = h + q + n + 3
        BY <2>1, <4>2 DEF UnitIs, Own
      <4>7. h + q + n + 3 > 0
        BY <4>3, <4>4, <4>5
      <4> QED
        BY <4>6, <4>7
    <3> QED
      BY <3>2, <3>3
  <2>2. CASE Other(body, content)
    <3>1. IsBytes(body) /\ body # <<>> /\ Sei!Short(body)
      BY <2>2 DEF Other, IsOther, Sei!Standard, IsBytes
    <3>2. Len(body) \in Nat /\ Len(body) # 0
      BY <3>1, EmptySeq, BytesMeans DEF IsBytes
    <3> QED
      BY <3>1, <3>2, SMT DEF Sei!Short, IsLength
  <2> QED
    BY <2>1, <2>2 DEF Piece
<1>2. isAnnexb => Len(prefix) \in {3, 4}
  BY DEF Piece, Sei!StartCodes
<1>3. ~isAnnexb => BigIs(prefix, Len(body))
  BY <1>1, BigMeans DEF Piece
<1>4. ~isAnnexb => Len(prefix) \in {3, 4}
  BY <1>3 DEF BigIs
<1> QED
  BY <1>1, <1>2, <1>3, <1>4

(* Either action puts one into the packet.                               *)
LEMMA PutMeans ==
  ASSUME codec \in {"h264", "h265"}, Sei!PutSei \/ Sei!PutUnit
  PROVE  \E prefix, body, content :
            Piece(prefix, body, content) /\ Sei!Put(Len(body), content, prefix \o body)
<1>1. \A s \in Sei!StartCodes : IsBytes(s)
  <2>1. IsBytes(<<0, 0, 1>>) /\ IsBytes(<<0, 0, 0, 1>>)
    BY DEF IsBytes, Sei!Byte
  <2> QED
    BY <2>1 DEF Sei!StartCodes
<1>2. CASE Sei!PutSei
  <2>1. PICK c \in Contents : Sei!Put(Len(Sei!SeiUnit(c)), c, Sei!Written(c))
    BY <1>2 DEF Sei!PutSei
  <2>2. PICK body, prefix : /\ body = Sei!SeiUnit(c)
                            /\ prefix = IF isAnnexb THEN <<0, 0, 0, 1>> ELSE Sei!BigEndian(Len(body))
    OBVIOUS
  <2>3. IsBytes(body) /\ IsLength(Len(body))
    BY <2>2, OwnLength, SeiConstants
  <2>4. IsBytes(prefix)
    <3>1. BigIs(Sei!BigEndian(Len(body)), Len(body))
      BY <2>3, BigMeans
    <3>2. IsBytes(Sei!BigEndian(Len(body)))
      BY <3>1 DEF BigIs
    <3>3. <<0, 0, 0, 1>> \in Sei!StartCodes
      BY DEF Sei!StartCodes
    <3> QED
      BY <1>1, <2>2, <3>2, <3>3
  <2>5. Sei!Written(c) = prefix \o body
    BY <2>2 DEF Sei!Written
  <2>6. Piece(prefix, body, c)
    BY <2>2, <2>3, <2>4 DEF Piece, Own, Prefix4, Sei!StartCodes
  <2> QED
    BY <2>1, <2>2, <2>5, <2>6
<1>3. CASE Sei!PutUnit
  <2>1. PICK body \in Units[codec] :
          \E prefix \in IF isAnnexb THEN Sei!StartCodes ELSE {Sei!BigEndian(Len(body))} :
            Sei!Put(Len(body), Sei!Nothing, prefix \o body)
    BY <1>3 DEF Sei!PutUnit
  <2>2. PICK prefix \in IF isAnnexb THEN Sei!StartCodes ELSE {Sei!BigEndian(Len(body))} :
            Sei!Put(Len(body), Sei!Nothing, prefix \o body)
    BY <2>1
  <2>3. IsOther(body)
    BY SeiConstants
  <2>4. IsBytes(body) /\ IsLength(Len(body))
    <3>1. IsBytes(body) /\ Sei!Short(body)
      BY <2>3 DEF IsOther, Sei!Standard, IsBytes
    <3>2. Len(body) \in Nat
      BY <3>1, BytesMeans
    <3> QED
      BY <3>1, <3>2, SMT DEF Sei!Short, IsLength
  <2>5. IsBytes(prefix)
    <3>1. BigIs(Sei!BigEndian(Len(body)), Len(body))
      BY <2>4, BigMeans
    <3>2. IsBytes(Sei!BigEndian(Len(body)))
      BY <3>1 DEF BigIs
    <3> QED
      BY <1>1, <2>2, <3>2
  <2>6. Piece(prefix, body, Sei!Nothing)
    BY <2>2, <2>3, <2>4, <2>5 DEF Piece, Other
  <2> QED
    BY <2>2, <2>6
<1> QED
  BY <1>2, <1>3

(* A unit is in the packet between two offsets.                          *)
UnitIn(prefix, body, from, to) ==
    /\ Lies(from, prefix) /\ Lies(from + Len(prefix), body)
    /\ to = from + Len(prefix) + Len(body)
UnitAt(k, from, to) ==
    \E prefix, body :
        /\ Piece(prefix, body, units[k].content) /\ units[k].length = Len(body)
        /\ UnitIn(prefix, body, from, to)

(* The inductive invariant: the packet is made of the units, one behind  *)
(* the other; what was found is what there was to be found.              *)
AnyUnit == [length : Nat, content : Seq(Sei!Byte) \cup {Sei!Nothing}]
Offsets(at) ==
    /\ at \in [1 .. Len(units) + 1 -> Nat] /\ at[1] = 0 /\ at[Len(units) + 1] = Size
    /\ \A k \in 1 .. Len(units) : UnitAt(k, at[k], at[k + 1])
Answer(content) ==
    /\ content \in Seq(Sei!Byte) \cup {Sei!Nothing}
    /\ ~Sei!Ambiguous => content = Sei!Wanted
Composed ==
    /\ codec \in {"h264", "h265"} /\ isAnnexb \in BOOLEAN /\ IsPacket
    /\ units \in Seq(AnyUnit) /\ Len(units) <= MaxUnits
    /\ \E at : Offsets(at)
    /\ found # Sei!Unread => Answer(found)

(* What stays as it is while the packet grows.                           *)
LEMMA LiesStays ==
  ASSUME IsPacket, NEW b, IsBytes(b), packet' = packet \o b,
         NEW u \in Nat, NEW s, IsBytes(s), Lies(u, s)
  PROVE  Lies(u, s)'
<1>1. PICK z \in Nat, l \in Nat, m \in Nat : z = Size /\ l = Len(s) /\ m = Len(b)
  BY BytesMeans, PacketMeans
<1>2. Size' = z + m /\ \A i \in 0 .. z - 1 : Sei!At(i)' = Sei!At(i)
  BY <1>1, Grown
<1>3. u + l <= z /\ \A j \in 1 .. l : Sei!At(u + j - 1) = s[j]
  BY <1>1 DEF Lies
<1>4. ASSUME NEW j \in 1 .. l PROVE Sei!At(u + j - 1)' = s[j]
  <2>1. PICK i \in 0 .. z - 1 : i = u + j - 1
    BY <1>3
  <2>2. Sei!At(i)' = Sei!At(i)
    BY <1>2
  <2>3. Sei!At(u + j - 1) = s[j]
    BY <1>3
  <2> QED
    BY <2>1, <2>2, <2>3
<1>5. u + l <= Size'
  BY <1>2, <1>3
<1> QED
  BY <1>1, <1>4, <1>5 DEF Lies

LEMMA PieceStays ==
  ASSUME codec' = codec, isAnnexb' = isAnnexb, NEW prefix, NEW body, NEW content,
         Piece(prefix, body, content)
  PROVE  Piece(prefix, body, content)'
<1>1. Sei!SeiUnit(content)' = Sei!SeiUnit(content)
  BY DEF Sei!SeiUnit, Sei!Header
<1>2. Own(body, content) => Own(body, content)'
  BY <1>1 DEF Own
<1>3. Other(body, content) => Other(body, content)'
  BY DEF Other, IsOther
<1> QED
  BY <1>2, <1>3 DEF Piece

LEMMA UnitStays ==
  ASSUME IsPacket, NEW b, IsBytes(b), packet' = packet \o b, codec \in {"h264", "h265"},
         codec' = codec, isAnnexb' = isAnnexb, NEW k, units'[k] = units[k],
         NEW from \in Nat, NEW to, UnitAt(k, from, to)
  PROVE  UnitAt(k, from, to)'
<1>1. PICK prefix, body :
        /\ Piece(prefix, body, units[k].content) /\ units[k].length = Len(body)
        /\ UnitIn(prefix, body, from, to)
  BY DEF UnitAt
<1>2. PICK c : c = units[k].content
  OBVIOUS
<1>3. Piece(prefix, body, c)'
  BY <1>1, <1>2, PieceStays
<1>4. IsBytes(prefix) /\ IsBytes(body) /\ Len(prefix) \in Nat
  BY <1>1, BytesMeans DEF Piece
<1>5. Lies(from, prefix)' /\ Lies(from + Len(prefix), body)'
  <2>1. PICK u \in Nat : u = from + Len(prefix)
    BY <1>4
  <2>2. Lies(u, body)'
    BY <1>1, <1>4, <2>1, LiesStays DEF UnitIn
  <2>3. Lies(from, prefix)'
    BY <1>1, <1>4, LiesStays DEF UnitIn
  <2> QED
    BY <2>1, <2>2, <2>3
<1>6. UnitIn(prefix, body, from, to)'
  BY <1>1, <1>5 DEF UnitIn
<1> QED
  BY <1>1, <1>2, <1>3, <1>6 DEF UnitAt

(* The unit put behind the others.                                       *)
LEMMA UnitNew ==
  ASSUME IsPacket, NEW prefix, NEW body, NEW content, Piece(prefix, body, content),
         packet' = packet \o (prefix \o body), codec \in {"h264", "h265"},
         codec' = codec, isAnnexb' = isAnnexb,
         NEW k, units'[k] = [length |-> Len(body), content |-> content],
         NEW z \in Nat, z = Size
  PROVE  IsPacket' /\ \E to \in Nat : Size' = to /\ UnitAt(k, z, to)'
<1>1. IsBytes(prefix) /\ IsBytes(body)
  BY DEF Piece
<1>2. PICK m \in Nat, l \in Nat : m = Len(prefix) /\ l = Len(body)
  BY <1>1, BytesMeans
<1> DEFINE b == prefix \o body
<1>3. IsJoin(b, prefix, body, m, l)
  BY <1>1, <1>2, Joined DEF IsBytes
<1>4. /\ IsBytes(b) /\ Len(b) = m + l
      /\ \A i \in 1 .. m : b[i] = prefix[i]
      /\ \A i \in 1 .. l : b[m + i] = body[i]
  BY <1>3 DEF IsJoin, IsBytes
<1> HIDE DEF b
<1>5. packet' = packet \o b
  BY DEF b
<1>6. /\ IsPacket' /\ Size' = z + (m + l)
      /\ \A j \in 1 .. m + l : Sei!At(z + j - 1)' = b[j]
  <2>1. IsPacket' /\ Size' = z + Len(b)
    BY <1>4, <1>5, Grown
  <2>2. \A j \in 1 .. Len(b) : Sei!At(z + j - 1)' = b[j]
    BY <1>4, <1>5, Grown
  <2> QED
    BY <1>4, <2>1, <2>2
<1>7. Lies(z, prefix)'
  <2>1. ASSUME NEW j \in 1 .. m PROVE Sei!At(z + j - 1)' = prefix[j]
    BY <1>4, <1>6
  <2>2. z + m <= Size'
    BY <1>6
  <2> QED
    BY <1>2, <2>1, <2>2 DEF Lies
<1>8. PICK u \in Nat : u = z + m
  OBVIOUS
<1>9. Lies(u, body)'
  <2>1. ASSUME NEW j \in 1 .. l PROVE Sei!At(u + j - 1)' = body[j]
    <3>1. PICK i \in 1 .. m + l : i = m + j
      OBVIOUS
    <3>2. u + j - 1 = z + i - 1
      BY <1>8, <3>1
    <3>3. Sei!At(z + i - 1)' = b[i]
      BY <1>6
    <3>4. b[m + j] = body[j]
      BY <1>4
    <3> QED
      BY <3>1, <3>2, <3>3, <3>4
  <2>2. u + l <= Size'
    BY <1>6, <1>8
  <2> QED
    BY <1>2, <2>1, <2>2 DEF Lies
<1>10. Piece(prefix, body, content)'
  BY PieceStays
<1>11. PICK to \in Nat : to = z + m + l
  OBVIOUS
<1>12. Size' = to
  BY <1>6, <1>11
<1>13. UnitIn(prefix, body, z, to)'
  BY <1>2, <1>7, <1>8, <1>9, <1>11 DEF UnitIn
<1>14. UnitAt(k, z, to)'
  <2>1. units'[k].content = content /\ units'[k].length = Len(body)
    OBVIOUS
  <2> QED
    BY <1>10, <1>13, <2>1 DEF UnitAt
<1> QED
  BY <1>6, <1>12, <1>14

(* Each action keeps the invariant.                                      *)
LEMMA ComposedInit == ASSUME Sei!Init PROVE Composed
<1>1. packet = <<>> /\ units = <<>> /\ found = Sei!Unread
  BY DEF Sei!Init
<1>2. IsPacket /\ units \in Seq(AnyUnit) /\ Len(units) = 0 /\ Size = 0
  BY <1>1, EmptySeq DEF IsPacket, Size
<1>3. codec \in {"h264", "h265"} /\ isAnnexb \in BOOLEAN
  BY DEF Sei!Init
<1>4. Offsets([k \in 1 .. 1 |-> 0])
  BY <1>2 DEF Offsets
<1>5. Len(units) <= MaxUnits
  BY <1>2, SeiConstants
<1> QED
  BY <1>1, <1>2, <1>3, <1>4, <1>5 DEF Composed

LEMMA ComposedPut == ASSUME Composed, Sei!PutSei \/ Sei!PutUnit PROVE Composed'
<1>1. codec \in {"h264", "h265"} /\ isAnnexb \in BOOLEAN /\ IsPacket /\ units \in Seq(AnyUnit)
  BY DEF Composed
<1>2. PICK prefix, body, content :
        Piece(prefix, body, content) /\ Sei!Put(Len(body), content, prefix \o body)
  BY <1>1, PutMeans
<1>3. /\ found = Sei!Unread /\ Len(units) < MaxUnits
      /\ units' = Append(units, [length |-> Len(body), content |-> content])
      /\ packet' = packet \o (prefix \o body)
      /\ codec' = codec /\ isAnnexb' = isAnnexb /\ found' = found
  BY <1>2 DEF Sei!Put
<1>4. PICK at : Offsets(at)
  BY DEF Composed
<1>b. PICK b : b = prefix \o body
  OBVIOUS
<1>5. PICK n \in Nat, z \in Nat : n = Len(units) /\ z = Size /\ b = prefix \o body
  <2>1. Len(units) \in Nat
    BY <1>1
  <2> QED
    BY <1>1, <1>b, <2>1, PacketMeans
<1>6. IsBytes(prefix) /\ IsBytes(body) /\ IsBytes(b)
  BY <1>2, <1>5 DEF Piece, IsBytes
<1>7. PICK new : new = [length |-> Len(body), content |-> content]
  OBVIOUS
<1>8. new \in AnyUnit
  <2>1. Len(body) \in Nat
    BY <1>6, BytesMeans
  <2>2. content \in Seq(Sei!Byte) \cup {Sei!Nothing}
    BY <1>2, SeiConstants DEF Piece, Own, Other, IsBytes
  <2> QED
    BY <1>7, <2>1, <2>2 DEF AnyUnit
<1>9. /\ units' \in Seq(AnyUnit) /\ Len(units') = n + 1 /\ units'[n + 1] = new
      /\ \A k \in 1 .. n : units'[k] = units[k]
  BY <1>1, <1>3, <1>5, <1>7, <1>8
<1>10. PICK to \in Nat : IsPacket' /\ Size' = to /\ UnitAt(n + 1, z, to)'
  <2>1. units'[n + 1] = [length |-> Len(body), content |-> content]
    BY <1>7, <1>9
  <2>2. PICK k : k = n + 1
    OBVIOUS
  <2>3. IsPacket' /\ \E to \in Nat : Size' = to /\ UnitAt(k, z, to)'
    BY <1>1, <1>2, <1>3, <1>5, <2>1, <2>2, UnitNew
  <2> QED
    BY <2>2, <2>3
<1> DEFINE next == [k \in 1 .. n + 2 |-> IF k = n + 2 THEN to ELSE at[k]]
<1>11. at \in [1 .. n + 1 -> Nat] /\ at[1] = 0 /\ at[n + 1] = z
  BY <1>4, <1>5 DEF Offsets
<1>12. next \in [1 .. n + 2 -> Nat] /\ next[1] = 0 /\ next[n + 2] = to /\ next[n + 1] = z
  BY <1>11
<1>13. ASSUME NEW k \in 1 .. n PROVE UnitAt(k, next[k], next[k + 1])'
  <2>1. next[k] = at[k] /\ next[k + 1] = at[k + 1] /\ at[k] \in Nat
    BY <1>11
  <2>2. UnitAt(k, at[k], at[k + 1])
    BY <1>4, <1>5 DEF Offsets
  <2>3. PICK u, v : u \in Nat /\ u = at[k] /\ v = at[k + 1]
    BY <2>1
  <2>4. UnitAt(k, u, v)'
    BY <1>1, <1>3, <1>5, <1>6, <1>9, <2>2, <2>3, UnitStays
  <2> HIDE DEF next
  <2> QED
    BY <2>1, <2>3, <2>4
<1> HIDE DEF next
<1>14. UnitAt(n + 1, next[n + 1], next[n + 1 + 1])'
  <2>1. n + 1 + 1 = n + 2
    OBVIOUS
  <2> QED
    BY <1>10, <1>12, <2>1
<1>15. \A k \in 1 .. n + 1 : UnitAt(k, next[k], next[k + 1])'
  <2>1. \A k \in 1 .. n + 1 : k \in 1 .. n \/ k = n + 1
    OBVIOUS
  <2> QED
    BY <1>13, <1>14, <2>1
<1>16. Offsets(next)'
  <2>1. Len(units') + 1 = n + 2
    BY <1>9
  <2> QED
    BY <1>9, <1>10, <1>12, <1>15, <2>1 DEF Offsets
<1>17. Len(units') <= MaxUnits
  BY <1>3, <1>5, <1>9, SeiConstants
<1> QED
  BY <1>1, <1>3, <1>9, <1>10, <1>16, <1>17 DEF Composed

(* Nothing changes but what was found.                                   *)
LEMMA ComposedKept ==
  ASSUME Composed, UNCHANGED <<codec, isAnnexb, units, packet>>,
         NEW c, found' = c, c # Sei!Unread => Answer(c)
  PROVE  Composed'
<1>1. codec' = codec /\ isAnnexb' = isAnnexb /\ units' = units /\ packet' = packet
  OBVIOUS
<1>2. ASSUME NEW u, NEW s, Lies(u, s) PROVE Lies(u, s)'
  BY <1>1, <1>2 DEF Lies, Sei!At, Size
<1>3. ASSUME NEW k, NEW from, NEW to, UnitAt(k, from, to) PROVE UnitAt(k, from, to)'
  <2>1. PICK prefix, body, content :
          /\ Piece(prefix, body, content) /\ content = units[k].content
          /\ units[k].length = Len(body)
          /\ UnitIn(prefix, body, from, to)
    BY <1>3 DEF UnitAt
  <2>2. Piece(prefix, body, content)'
    BY <1>1, <2>1, PieceStays
  <2>3. UnitIn(prefix, body, from, to)'
    BY <1>2, <2>1 DEF UnitIn
  <2> QED
    BY <1>1, <2>1, <2>2, <2>3 DEF UnitAt
<1>4. PICK at : Offsets(at)
  BY DEF Composed
<1>5. Offsets(at)'
  <2>1. ASSUME NEW k \in 1 .. Len(units) PROVE UnitAt(k, at[k], at[k + 1])'
    <3>1. PICK u, v : u = at[k] /\ v = at[k + 1]
      OBVIOUS
    <3>2. UnitAt(k, u, v)
      BY <1>4, <3>1 DEF Offsets
    <3> QED
      BY <1>3, <3>1, <3>2
  <2> QED
    BY <1>1, <1>4, <2>1 DEF Offsets, Size
<1>6. c # Sei!Unread => Answer(c)'
  BY <1>1 DEF Answer, Sei!Ambiguous, Sei!Wanted, Sei!Accepted
<1> QED
  BY <1>1, <1>5, <1>6 DEF Composed, IsPacket

LEMMA ComposedStays == ASSUME Composed, UNCHANGED sei PROVE Composed'
BY ComposedKept DEF sei, Composed

(* What a search finds has the type of what it may find.                 *)
LEMMA SearchTyped ==
  ASSUME NEW N, NEW V, NEW val, NEW stop, NEW next, Ahead(N, V, val, stop, next),
         NEW f, Searches(f, val, stop, next)
  PROVE  \A i \in Nat : f[i] \in V
<1> USE DEF Ahead, Searches
<1> DEFINE Good == {n \in Nat : \A i \in Nat : i + n >= N => f[i] \in V}
<1>1. 0 \in Good
  OBVIOUS
<1>2. ASSUME NEW n \in Nat, n \in Good PROVE n + 1 \in Good
  <2> SUFFICES ASSUME NEW i \in Nat, i + (n + 1) >= N PROVE f[i] \in V
    OBVIOUS
  <2>1. CASE stop[i]
    BY <2>1
  <2>2. CASE ~stop[i]
    <3>1. next[i] \in Nat /\ next[i] + n >= N
      BY <2>2
    <3>2. f[next[i]] \in V
      BY <1>2, <3>1
    <3> QED
      BY <2>2, <3>2
  <2> QED
    BY <2>1, <2>2
<1> HIDE DEF Good
<1>3. N \in Good
  BY <1>1, <1>2, Induct
<1> QED
  BY <1>3 DEF Good

(* The reader of AVCC, unit by unit.                                     *)
Content == Seq(Sei!Byte) \cup {Sei!Nothing}
AvccEnd(i) == i + 4 + Sei!Value([k \in 1 .. 4 |-> Sei!At(i + k - 1)])
AvccStops(i) == i + 4 > Len(packet) \/ AvccEnd(i) > Len(packet)
AvccContent(i) == Sei!GetSeiBuffer(i + 4 + Len(Sei!Header), AvccEnd(i))
AvccFinds(i) ==
    i + 4 + Len(Sei!Header) <= AvccEnd(i) /\ Sei!IsSei(i + 4) /\ Sei!Accepted(AvccContent(i))
AvccAt(f, i) ==
    IF AvccStops(i) THEN Sei!Nothing
    ELSE IF AvccFinds(i) THEN AvccContent(i)
    ELSE f[AvccEnd(i)]

LEMMA AvccIs == Sei!AvccRead = (CHOOSE f : f = [i \in Nat |-> AvccAt(f, i)])[0]
BY DEF Sei!AvccRead, AvccAt, AvccEnd, AvccStops, AvccContent, AvccFinds

LEMMA AvccEndMeans ==
  ASSUME IsPacket, NEW i \in Nat PROVE AvccEnd(i) \in Nat /\ AvccEnd(i) >= i + 4
<1>1. \A k \in 1 .. 4 : Sei!At(i + k - 1) \in Nat
  <2>1. \A k \in 1 .. 4 : i + k - 1 \in Nat
    OBVIOUS
  <2> QED
    BY <2>1, AtMeans
<1>2. PICK a \in Nat, b \in Nat, c \in Nat, d \in Nat :
        [k \in 1 .. 4 |-> Sei!At(i + k - 1)] = [k \in 1 .. 4 |-> Sei!At(i + k - 1)]
        /\ a = Sei!At(i + 1 - 1) /\ b = Sei!At(i + 2 - 1) /\ c = Sei!At(i + 3 - 1) /\ d = Sei!At(i + 4 - 1)
  BY <1>1
<1>3. Sei!Value([k \in 1 .. 4 |-> Sei!At(i + k - 1)]) = ((a * 256 + b) * 256 + c) * 256 + d
  BY <1>2 DEF Sei!Value
<1> QED
  BY <1>3 DEF AvccEnd

LEMMA AvccMeans ==
  ASSUME IsPacket, codec \in {"h264", "h265"}
  PROVE  \E f : /\ Sei!AvccRead = f[0]
                /\ \A i \in Nat : f[i] = AvccAt(f, i)
                /\ \A i \in Nat : f[i] \in Content
<1> DEFINE stop == [i \in Nat |-> AvccStops(i) \/ AvccFinds(i)]
           val == [i \in Nat |-> IF AvccStops(i) \/ ~AvccFinds(i) THEN Sei!Nothing
                                 ELSE AvccContent(i)]
           next == [i \in Nat |-> AvccEnd(i)]
<1>1. \A i \in Nat : AvccEnd(i) \in Nat /\ AvccEnd(i) >= i + 4
  BY AvccEndMeans
<1>2. \A i \in Nat : AvccStops(i) \in BOOLEAN /\ AvccFinds(i) \in BOOLEAN
  BY DEF AvccStops, AvccFinds, Sei!IsSei, Sei!Accepted, Sei!H264Accepts
<1>3. val \in [Nat -> Content]
  <2> SUFFICES ASSUME NEW i \in Nat, ~AvccStops(i), AvccFinds(i) PROVE AvccContent(i) \in Content
    BY DEF Content
  <2>0. i + 4 + Len(Sei!Header) \in Nat /\ AvccEnd(i) \in Nat
    BY <1>1, HeaderMeans
  <2>1. PICK p \in Nat, e \in Nat : p = i + 4 + Len(Sei!Header) /\ e = AvccEnd(i)
    BY <2>0
  <2>2. Size \in Nat /\ e <= Size /\ p <= e
    BY <2>1, PacketMeans DEF AvccStops, AvccFinds, Size
  <2>3. Sei!GetSeiBuffer(p, e) \in Content
    BY <2>2, BufferMeans DEF Content
  <2> QED
    BY <2>1, <2>3 DEF AvccContent
<1>4. stop \in [Nat -> BOOLEAN] /\ next \in [Nat -> Nat]
  BY <1>1, <1>2
<1>5. \A i \in Nat : ~stop[i] => next[i] > i
  BY <1>1
<1>6. PICK N \in Nat : N = Len(packet)
  BY PacketMeans DEF Size
<1>0. \A i \in Nat : i >= N => AvccStops(i)
  BY <1>6 DEF AvccStops
<1>a. Ahead(N, Content, val, stop, next)
  BY <1>0, <1>3, <1>4, <1>5 DEF Ahead
<1>7. \A f : \A i \in Nat : AvccAt(f, i) = IF stop[i] THEN val[i] ELSE f[next[i]]
  BY <1>2 DEF AvccAt
<1> HIDE DEF stop, val, next
<1>8. PICK f \in [Nat -> Content] : Searches(f, val, stop, next)
  BY <1>a, Search
<1>9. f = [i \in Nat |-> AvccAt(f, i)]
  <2>1. \A i \in Nat : f[i] = AvccAt(f, i)
    BY <1>7, <1>8 DEF Searches
  <2> QED
    BY <2>1
<1>10. PICK g : g = CHOOSE h : h = [i \in Nat |-> AvccAt(h, i)]
  OBVIOUS
<1>11. g = [i \in Nat |-> AvccAt(g, i)]
  BY <1>9, <1>10
<1>12. \A i \in Nat : g[i] = AvccAt(g, i)
  BY <1>11
<1>13. Searches(g, val, stop, next)
  BY <1>7, <1>12 DEF Searches
<1>14. \A i \in Nat : g[i] \in Content
  BY <1>a, <1>13, SearchTyped
<1> QED
  BY <1>10, <1>12, <1>14, AvccIs

(* The least of the numbers from i on.                                   *)
From(S, i) == {j \in S : j >= i}

LEMMA FromMeans ==
  ASSUME NEW S, S \subseteq Nat, NEW i \in Nat, From(S, i) # {}
  PROVE  /\ Sei!Min(From(S, i)) \in S /\ Sei!Min(From(S, i)) \in Nat /\ Sei!Min(From(S, i)) >= i
         /\ \A j \in S : j >= i => Sei!Min(From(S, i)) <= j
<1>1. From(S, i) \subseteq Nat
  BY DEF From
<1>2. \E n \in From(S, i) : \A m \in From(S, i) : n <= m
  BY <1>1, Least
<1>3. Sei!Min(From(S, i)) \in From(S, i) /\ \A m \in From(S, i) : Sei!Min(From(S, i)) <= m
  BY <1>2 DEF Sei!Min
<1> QED
  BY <1>3 DEF From

(* The start codes.                                                      *)
Codes == {i \in 0 .. Len(packet) - 1 : Sei!StartCode(i) # 0}

LEMMA CodeMeans ==
  ASSUME IsPacket, NEW i \in Nat, Sei!StartCode(i) # 0
  PROVE  Sei!StartCode(i) \in {3, 4} /\ i + 4 < Size
<1>1. Sei!StartCode(i) \in {3, 4} /\ ~(Len(packet) - i <= 4)
  BY DEF Sei!StartCode
<1> QED
  BY <1>1, PacketMeans DEF Size

(* H.264: from start code to start code.                                 *)
H264Unit(i) == Sei!Min(From(Codes, i)) + Sei!StartCode(Sei!Min(From(Codes, i)))
H264Content(i) == Sei!GetSeiBuffer(H264Unit(i) + 1, Len(packet))
H264Finds(i) == Sei!At(H264Unit(i)) = 6 /\ Sei!H264Accepts(H264Content(i))
H264At(f, i) ==
    IF From(Codes, i) = {} THEN Sei!Nothing
    ELSE IF H264Finds(i) THEN H264Content(i)
    ELSE f[H264Unit(i) + 1]

LEMMA H264Is == Sei!H264AnnexbRead = (CHOOSE f : f = [i \in Nat |-> H264At(f, i)])[0]
BY DEF Sei!H264AnnexbRead, H264At, H264Unit, H264Content, H264Finds, From, Codes

LEMMA H264Means ==
  ASSUME IsPacket
  PROVE  \E f : /\ Sei!H264AnnexbRead = f[0]
                /\ \A i \in Nat : f[i] = H264At(f, i)
                /\ \A i \in Nat : f[i] \in Content
<1> DEFINE Ends(i) == From(Codes, i) = {}
           stop == [i \in Nat |-> Ends(i) \/ H264Finds(i)]
           val == [i \in Nat |-> IF Ends(i) THEN Sei!Nothing ELSE
                                 IF H264Finds(i) THEN H264Content(i) ELSE Sei!Nothing]
           next == [i \in Nat |-> IF Ends(i) THEN i ELSE H264Unit(i) + 1]
<1>1. PICK N \in Nat : N = Size
  BY PacketMeans
<1>2. ASSUME NEW i \in Nat, ~Ends(i)
      PROVE  H264Unit(i) \in Nat /\ H264Unit(i) >= i /\ H264Unit(i) < N /\ i < N
  <2>1. Codes \subseteq Nat
    BY DEF Codes
  <2>2. PICK m \in Nat : m = Sei!Min(From(Codes, i)) /\ m \in Codes /\ m >= i
    BY <1>2, <2>1, FromMeans
  <2>3. Sei!StartCode(m) \in {3, 4} /\ m + 4 < N
    BY <1>1, <2>2, CodeMeans DEF Codes
  <2>4. H264Unit(i) = m + Sei!StartCode(m)
    BY <2>2 DEF H264Unit
  <2> QED
    BY <2>2, <2>3, <2>4
<1>3. ASSUME NEW i \in Nat, ~Ends(i) PROVE H264Content(i) \in Content
  <2>1. PICK p \in Nat : p = H264Unit(i) + 1 /\ p <= N
    BY <1>2, <1>3
  <2>2. Sei!GetSeiBuffer(p, N) \in Content
    BY <1>1, <2>1, BufferMeans DEF Content
  <2> QED
    BY <1>1, <2>1, <2>2 DEF H264Content, Size
<1>4. \A i \in Nat : Ends(i) \in BOOLEAN /\ H264Finds(i) \in BOOLEAN
  BY DEF H264Finds, Sei!H264Accepts
<1>5. Sei!Nothing \in Content
  BY DEF Content
<1> HIDE DEF Ends
<1>6. val \in [Nat -> Content] /\ stop \in [Nat -> BOOLEAN] /\ next \in [Nat -> Nat]
  BY <1>2, <1>3, <1>4, <1>5
<1>7. ASSUME NEW i \in Nat, ~stop[i] PROVE next[i] > i
  <2>1. ~Ends(i) /\ next[i] = H264Unit(i) + 1
    BY <1>7
  <2>2. H264Unit(i) \in Nat /\ H264Unit(i) >= i
    BY <1>2, <2>1
  <2> QED
    BY <2>1, <2>2
<1>8. ASSUME NEW i \in Nat, i >= N PROVE stop[i]
  <2>1. Ends(i)
    BY <1>2, <1>8
  <2> QED
    BY <2>1
<1>9. Ahead(N, Content, val, stop, next)
  BY <1>6, <1>7, <1>8 DEF Ahead
<1>10. \A f : \A i \in Nat : H264At(f, i) = IF stop[i] THEN val[i] ELSE f[next[i]]
  BY <1>4 DEF H264At, Ends
<1> HIDE DEF stop, val, next
<1>11. PICK f \in [Nat -> Content] : Searches(f, val, stop, next)
  BY <1>9, Search
<1>12. f = [i \in Nat |-> H264At(f, i)]
  <2>1. \A i \in Nat : f[i] = H264At(f, i)
    BY <1>10, <1>11 DEF Searches
  <2> QED
    BY <2>1
<1>13. PICK g : g = CHOOSE h : h = [i \in Nat |-> H264At(h, i)]
  OBVIOUS
<1>14. g = [i \in Nat |-> H264At(g, i)]
  BY <1>12, <1>13
<1>15. \A i \in Nat : g[i] = H264At(g, i)
  BY <1>14
<1>16. Searches(g, val, stop, next)
  BY <1>10, <1>15 DEF Searches
<1>17. \A i \in Nat : g[i] \in Content
  BY <1>9, <1>16, SearchTyped
<1> QED
  BY <1>13, <1>15, <1>17, H264Is

(* H.265: from two zeros to the next.                                    *)
Zeros == {i \in 0 .. Len(packet) - 5 : Sei!Starts(i, <<0, 0>>)}
H265Zeros(i) == Sei!Min(From(Zeros, i))
H265Unit(i) == H265Zeros(i) + Sei!StartCode(H265Zeros(i)) + 2
H265Content(i) == Sei!GetSeiBuffer(H265Unit(i), Len(packet))
H265Finds(i) == H265Unit(i) < Len(packet) /\ H265Content(i) # Sei!Nothing
H265At(f, i) ==
    IF From(Zeros, i) = {} THEN Sei!Nothing
    ELSE IF Sei!StartCode(H265Zeros(i)) = 0 THEN f[H265Zeros(i) + 4]
    ELSE IF H265Finds(i) THEN H265Content(i)
    ELSE f[H265Unit(i)]

LEMMA H265Is == Sei!H265AnnexbRead = (CHOOSE f : f = [i \in Nat |-> H265At(f, i)])[0]
BY DEF Sei!H265AnnexbRead, H265At, H265Unit, H265Content, H265Finds, H265Zeros, From, Zeros

LEMMA H265Means ==
  ASSUME IsPacket
  PROVE  \E f : /\ Sei!H265AnnexbRead = f[0]
                /\ \A i \in Nat : f[i] = H265At(f, i)
                /\ \A i \in Nat : f[i] \in Content
<1> DEFINE Ends(i) == From(Zeros, i) = {}
           Skips(i) == Sei!StartCode(H265Zeros(i)) = 0
           Finds(i) == ~Skips(i) /\ H265Finds(i)
           stop == [i \in Nat |-> Ends(i) \/ Finds(i)]
           val == [i \in Nat |-> IF Ends(i) THEN Sei!Nothing ELSE
                                 IF Finds(i) THEN H265Content(i) ELSE Sei!Nothing]
           next == [i \in Nat |-> IF Ends(i) THEN i
                                  ELSE IF Skips(i) THEN H265Zeros(i) + 4 ELSE H265Unit(i)]
<1>1. PICK N \in Nat : N = Size
  BY PacketMeans
<1>2. ASSUME NEW i \in Nat, ~Ends(i)
      PROVE  /\ H265Zeros(i) \in Nat /\ H265Zeros(i) >= i /\ i < N
             /\ ~Skips(i) => H265Unit(i) \in Nat /\ H265Unit(i) > i
  <2>1. Zeros \subseteq Nat
    BY DEF Zeros
  <2>2. PICK m \in Nat : m = H265Zeros(i) /\ m \in Zeros /\ m >= i
    BY <1>2, <2>1, FromMeans DEF H265Zeros
  <2>3. m < N
    BY <1>1, <2>2 DEF Zeros, Size
  <2>4. Sei!StartCode(m) # 0 => Sei!StartCode(m) \in {3, 4}
    BY <2>2, CodeMeans
  <2>5. H265Unit(i) = m + Sei!StartCode(m) + 2 /\ (Skips(i) <=> Sei!StartCode(m) = 0)
    BY <2>2 DEF H265Unit
  <2> HIDE DEF Skips
  <2> QED
    BY <2>2, <2>3, <2>4, <2>5
<1>3. ASSUME NEW i \in Nat, ~Ends(i), Finds(i) PROVE H265Content(i) \in Content
  <2>1. PICK p \in Nat : p = H265Unit(i) /\ p <= N
    BY <1>1, <1>2, <1>3 DEF H265Finds, Size
  <2>2. Sei!GetSeiBuffer(p, N) \in Content
    BY <1>1, <2>1, BufferMeans DEF Content
  <2> QED
    BY <1>1, <2>1, <2>2 DEF H265Content, Size
<1>4. \A i \in Nat : Ends(i) \in BOOLEAN /\ Finds(i) \in BOOLEAN
  BY DEF H265Finds
<1>5. Sei!Nothing \in Content
  BY DEF Content
<1>6. \A f : \A i \in Nat : H265At(f, i) = IF stop[i] THEN val[i] ELSE f[next[i]]
  <2>1. ASSUME NEW f, NEW i \in Nat PROVE H265At(f, i) = IF Ends(i) \/ Finds(i) THEN val[i] ELSE f[next[i]]
    BY DEF H265At
  <2> QED
    BY <2>1
<1> HIDE DEF Ends, Skips, Finds
<1>7. val \in [Nat -> Content] /\ stop \in [Nat -> BOOLEAN]
  BY <1>3, <1>4, <1>5
<1>8. next \in [Nat -> Nat]
  BY <1>2
<1>9. ASSUME NEW i \in Nat, ~stop[i] PROVE next[i] > i
  <2>1. ~Ends(i)
    BY <1>9
  <2>2. CASE Skips(i)
    <3>1. H265Zeros(i) \in Nat /\ H265Zeros(i) >= i /\ next[i] = H265Zeros(i) + 4
      BY <1>2, <2>1, <2>2
    <3> QED
      BY <3>1
  <2>3. CASE ~Skips(i)
    <3>1. H265Unit(i) \in Nat /\ H265Unit(i) > i /\ next[i] = H265Unit(i)
      BY <1>2, <2>1, <2>3
    <3> QED
      BY <3>1
  <2> QED
    BY <2>2, <2>3
<1>10. ASSUME NEW i \in Nat, i >= N PROVE stop[i]
  <2>1. Ends(i)
    BY <1>2, <1>10
  <2> QED
    BY <2>1
<1>11. Ahead(N, Content, val, stop, next)
  BY <1>7, <1>8, <1>9, <1>10 DEF Ahead
<1> HIDE DEF stop, val, next
<1>12. PICK f \in [Nat -> Content] : Searches(f, val, stop, next)
  BY <1>11, Search
<1>13. f = [i \in Nat |-> H265At(f, i)]
  <2>1. \A i \in Nat : f[i] = H265At(f, i)
    BY <1>6, <1>12 DEF Searches
  <2> QED
    BY <2>1
<1>14. PICK g : g = CHOOSE h : h = [i \in Nat |-> H265At(h, i)]
  OBVIOUS
<1>15. g = [i \in Nat |-> H265At(g, i)]
  BY <1>13, <1>14
<1>16. \A i \in Nat : g[i] = H265At(g, i)
  BY <1>15
<1>17. Searches(g, val, stop, next)
  BY <1>6, <1>16 DEF Searches
<1>18. \A i \in Nat : g[i] \in Content
  BY <1>11, <1>17, SearchTyped
<1> QED
  BY <1>14, <1>16, <1>18, H265Is

(* What a reader meets: what is in front of a unit, ...                  *)
ZeroZeroOne(i) == Sei!At(i) = 0 /\ Sei!At(i + 1) = 0 /\ Sei!At(i + 2) = 1
LongCode(i) == Sei!At(i) = 0 /\ Sei!At(i + 1) = 0 /\ Sei!At(i + 2) = 0 /\ Sei!At(i + 3) = 1
Framed(from, u, to) ==
    /\ from \in Nat /\ u \in Nat /\ to \in Nat /\ u < to /\ to <= Size
    /\ u = from + 3 \/ u = from + 4
    /\ isAnnexb => (u = from + 3 => ZeroZeroOne(from)) /\ (u = from + 4 => LongCode(from))
    /\ ~isAnnexb => /\ u = from + 4 /\ AvccEnd(from) = to
                    /\ ZeroZeroOne(from) => to - u \in 256 .. 511
                    /\ LongCode(from) => to - u = 1

(* ... user data that count, ...                                         *)
OursIn(c, from, u, to) ==
    /\ isAnnexb => u = from + 4
    /\ u + Len(Sei!Header) < to
    /\ \A end \in Nat : end >= to => Sei!GetSeiBuffer(u + Len(Sei!Header), end) = c
    /\ Sei!At(u) = IF codec = "h264" THEN 6 ELSE 78

(* ... and what is passed over.                                          *)
OthersIn(u, to) ==
    /\ Sei!At(to - 1) # 0
    /\ \A i \in Nat : i >= u /\ i + 2 < to => ~ZeroZeroOne(i)
    /\ codec = "h264" /\ Sei!At(u) % 32 = 6 =>
         \A end \in Nat : Reads(to, end) => ~Sei!H264Accepts(Sei!GetSeiBuffer(u + 1, end))
    /\ codec = "h265" =>
         u + 2 <= to /\ \A end \in Nat : Reads(to, end) => Sei!GetSeiBuffer(u + 2, end) = Sei!Nothing

(* In front of a unit.                                                   *)
LEMMA FrameMeans ==
  ASSUME IsPacket, codec \in {"h264", "h265"}, NEW from \in Nat, NEW to,
         NEW prefix, NEW body, NEW content, Piece(prefix, body, content),
         UnitIn(prefix, body, from, to)
  PROVE  \E u : /\ Framed(from, u, to) /\ Lies(u, body) /\ to - u = Len(body) /\ to = u + Len(body)
                /\ isAnnexb /\ prefix = Prefix4 => u = from + 4
<1>1. PICK m \in {3, 4}, l \in Nat : m = Len(prefix) /\ l = Len(body) /\ l > 0
  BY PieceIs DEF IsLength
<1>2. PICK u \in Nat : u = from + m
  BY <1>1
<1>3. to = u + l /\ Lies(u, body) /\ Lies(from, prefix)
  BY <1>1, <1>2 DEF UnitIn
<1>4. to <= Size
  BY <1>1, <1>3 DEF Lies
<1>5. \A j \in 1 .. m : Sei!At(from + j - 1) = prefix[j]
  BY <1>1, <1>3 DEF Lies
<1>6. /\ Sei!At(from) = prefix[1] /\ Sei!At(from + 1) = prefix[2] /\ Sei!At(from + 2) = prefix[3]
      /\ m = 4 => Sei!At(from + 3) = prefix[4]
  <2>1. /\ from + 1 - 1 = from /\ from + 2 - 1 = from + 1 /\ from + 3 - 1 = from + 2
        /\ from + 4 - 1 = from + 3 /\ 1 \in 1 .. m /\ 2 \in 1 .. m /\ 3 \in 1 .. m
        /\ (m = 4 => 4 \in 1 .. m)
    BY <1>1
  <2> QED
    BY <1>5, <2>1
<1>7. ASSUME isAnnexb
      PROVE  (m = 3 => ZeroZeroOne(from)) /\ (m = 4 => LongCode(from)) /\ (prefix = Prefix4 => m = 4)
  <2>1. prefix = <<0, 0, 1>> \/ prefix = <<0, 0, 0, 1>>
    BY <1>7 DEF Piece, Sei!StartCodes
  <2>2. CASE prefix = <<0, 0, 1>>
    BY <1>1, <1>6, <2>2 DEF ZeroZeroOne, Prefix4
  <2>3. CASE prefix = <<0, 0, 0, 1>>
    BY <1>1, <1>6, <2>3 DEF LongCode
  <2> QED
    BY <2>1, <2>2, <2>3
<1>8. ASSUME ~isAnnexb
      PROVE  /\ m = 4 /\ AvccEnd(from) = to
             /\ ZeroZeroOne(from) => l \in 256 .. 511
             /\ LongCode(from) => l = 1
  <2>1. BigIs(prefix, l)
    BY <1>1, <1>8, PieceIs
  <2>2. /\ m = 4 /\ l = ((prefix[1] * 256 + prefix[2]) * 256 + prefix[3]) * 256 + prefix[4]
        /\ prefix[1] = 0 /\ prefix[2] = 0 /\ prefix[3] = 1 => l \in 256 .. 511
        /\ prefix[1] = 0 /\ prefix[2] = 0 /\ prefix[3] = 0 /\ prefix[4] = 1 => l = 1
    BY <1>1, <2>1 DEF BigIs
  <2>3. Sei!Value([k \in 1 .. 4 |-> Sei!At(from + k - 1)]) = l
    <3>1. Sei!Value([k \in 1 .. 4 |-> Sei!At(from + k - 1)])
            = ((Sei!At(from + 1 - 1) * 256 + Sei!At(from + 2 - 1)) * 256 + Sei!At(from + 3 - 1)) * 256
              + Sei!At(from + 4 - 1)
      BY DEF Sei!Value
    <3>2. /\ from + 1 - 1 = from /\ from + 2 - 1 = from + 1 /\ from + 3 - 1 = from + 2
          /\ from + 4 - 1 = from + 3
      OBVIOUS
    <3> QED
      BY <1>6, <2>2, <3>1, <3>2
  <2>4. AvccEnd(from) = to
    BY <1>2, <1>3, <2>2, <2>3 DEF AvccEnd
  <2> QED
    BY <1>6, <2>2, <2>4 DEF ZeroZeroOne, LongCode
<1>9. u < to /\ to \in Nat /\ to - u = l /\ (m = 3 <=> u = from + 3) /\ (m = 4 <=> u = from + 4)
  <2>0. l > 0
    BY <1>1
  <2>1. u < u + l /\ u + l \in Nat /\ u + l - u = l
    BY <2>0
  <2>3. m = 3 => u = from + 3 /\ u # from + 4
    BY <1>2
  <2>4. m = 4 => u = from + 4 /\ u # from + 3
    BY <1>2
  <2>2. (m = 3 <=> u = from + 3) /\ (m = 4 <=> u = from + 4)
    BY <2>3, <2>4
  <2> QED
    BY <1>3, <2>1, <2>2
<1>10. Framed(from, u, to)
  BY <1>1, <1>4, <1>7, <1>8, <1>9 DEF Framed
<1> QED
  BY <1>1, <1>3, <1>7, <1>9, <1>10

(* Our user data count, unless there are none and the codec is H.264.    *)
LEMMA OursCount ==
  ASSUME codec \in {"h264", "h265"}, NEW c, IsBytes(c)
  PROVE  Sei!Accepted(c) <=> (codec = "h265" \/ c # <<>>)
<1>1. c # Sei!Nothing
  <2>1. Len(Sei!Nothing) = 1 /\ Sei!Nothing[1] = 256
    BY DEF Sei!Nothing
  <2>2. Len(c) = 1 => c[1] \in 0 .. 255
    <3>1. c \in [1 .. Len(c) -> 0 .. 255]
      BY BytesMeans
    <3>2. 1 \in 1 .. 1
      OBVIOUS
    <3> QED
      BY <3>1, <3>2
  <2> QED
    BY <2>1, <2>2
<1> QED
  BY <1>1 DEF Sei!Accepted, Sei!H264Accepts

(* A unit with user data in a packet: they are found in it.              *)
LEMMA OwnMeans ==
  ASSUME IsPacket, codec \in {"h264", "h265"}, NEW c, IsBytes(c),
         NEW u \in Nat, NEW to \in Nat, Lies(u, Sei!SeiUnit(c)), to = u + Len(Sei!SeiUnit(c))
  PROVE  /\ u + Len(Sei!Header) < to
         /\ \A end \in Nat : end >= to => Sei!GetSeiBuffer(u + Len(Sei!Header), end) = c
         /\ Sei!At(u) = IF codec = "h264" THEN 6 ELSE 78
<1>1. PICK h, q, n : OwnSizes(c, h, q, n)
  BY DEF OwnSizes
<1>2. OwnAt(c, u, h, q, n)
  BY <1>1, OwnLies
<1>3. h = Len(Sei!Header) /\ h \in {1, 2}
  BY <1>1, HeaderMeans DEF OwnSizes
<1>4. u + Len(Sei!Header) < to
  <2>1. n \in Nat /\ q \in Nat /\ to = u + (h + q + n + 3)
    BY <1>2 DEF OwnAt
  <2> QED
    BY <1>3, <2>1
<1>5. ASSUME NEW end \in Nat, end >= to PROVE Sei!GetSeiBuffer(u + Len(Sei!Header), end) = c
  <2>1. Within(u, Sei!SeiUnit(c), end)
    BY <1>5 DEF Within
  <2> QED
    BY <2>1, OwnFound
<1>6. Sei!At(u) = Sei!Header[1]
  <2>1. \A j \in 1 .. h : Sei!At(u + j - 1) = Sei!Header[j]
    BY <1>2 DEF OwnAt
  <2>2. 1 \in 1 .. h /\ u + 1 - 1 = u
    BY <1>3
  <2> QED
    BY <2>1, <2>2
<1>7. Sei!Header[1] = IF codec = "h264" THEN 6 ELSE 78
  BY HeaderMeans
<1> QED
  BY <1>4, <1>5, <1>6, <1>7

(* One without, of H.264, has no zero in it.                             *)
LEMMA EmptyMeans ==
  ASSUME IsPacket, codec = "h264", NEW c, c = <<>>,
         NEW u \in Nat, NEW to \in Nat, Lies(u, Sei!SeiUnit(c)), to = u + Len(Sei!SeiUnit(c))
  PROVE  OthersIn(u, to)
<1>0. codec \in {"h264", "h265"} /\ IsBytes(c) /\ Len(c) = 0
  BY EmptySeq DEF IsBytes
<1>1. PICK h, q, n : OwnSizes(c, h, q, n)
  BY DEF OwnSizes
<1>2. OwnAt(c, u, h, q, n)
  BY <1>0, <1>1, OwnLies
<1>3. h = 1 /\ n = 16 /\ q = 0 /\ Sei!Header[1] = 6
  <2>1. h = 1 /\ Sei!Header[1] = 6
    BY <1>1, HeaderMeans DEF OwnSizes
  <2>2. n = 16 + 0
    BY <1>0, <1>1 DEF OwnSizes
  <2>3. q = n \div 255
    BY <1>1 DEF OwnSizes
  <2> QED
    BY <2>1, <2>2, <2>3
<1>4. to = u + 20
  <2>1. to = u + (h + q + n + 3)
    BY <1>2 DEF OwnAt
  <2> QED
    BY <1>3, <2>1
<1>5. ASSUME NEW i \in Nat, i >= u, i < to PROVE Sei!At(i) # 0
  <2>1. PICK j \in 0 .. 19 : j = i - u /\ i = u + j
    BY <1>4, <1>5
  <2>2. /\ \A k \in 1 .. h : Sei!At(u + k - 1) = Sei!Header[k]
        /\ Sei!At(u + h) = 5 /\ Sei!At(u + h + q + 1) = n % 255
        /\ \A k \in 1 .. 16 : Sei!At(u + h + q + 1 + k) = OurUuid[k]
    BY <1>2 DEF OwnAt
  <2>3. CASE j = 0
    <3>1. 1 \in 1 .. h /\ u + 1 - 1 = i
      BY <1>3, <2>1, <2>3
    <3>2. Sei!At(u + 1 - 1) = Sei!Header[1]
      BY <2>2, <3>1
    <3> QED
      BY <1>3, <3>1, <3>2
  <2>4. CASE j = 1
    <3>1. i = u + h
      BY <1>3, <2>1, <2>4
    <3> QED
      BY <2>2, <3>1
  <2>5. CASE j = 2
    <3>1. i = u + h + q + 1 /\ n % 255 = 16
      BY <1>3, <2>1, <2>5
    <3> QED
      BY <2>2, <3>1
  <2>6. CASE j \in 3 .. 18
    <3>1. PICK k \in 1 .. 16 : k = j - 2
      BY <2>6
    <3>2. i = u + h + q + 1 + k
      BY <1>3, <2>1, <2>6, <3>1
    <3>3. OurUuid[k] > 1
      BY UuidMeans
    <3>4. Sei!At(u + h + q + 1 + k) = OurUuid[k]
      BY <2>2
    <3> QED
      BY <3>2, <3>3, <3>4
  <2>7. CASE j = 19
    <3>1. UnitIs(Sei!SeiUnit(c), c, h, q, n)
      BY <1>0, <1>1, UnitMeans DEF IsBytes, OwnSizes
    <3>2. Sei!SeiUnit(c)[h + q + n + 3] = 128 /\ Len(Sei!SeiUnit(c)) = h + q + n + 3
      BY <3>1 DEF UnitIs
    <3>3. h + q + n + 3 = 20
      BY <1>3
    <3>4. \A k \in 1 .. 20 : Sei!At(u + k - 1) = Sei!SeiUnit(c)[k]
      BY <3>2, <3>3 DEF Lies
    <3>5. 20 \in 1 .. 20 /\ u + 20 - 1 = i
      BY <2>1, <2>7
    <3>6. Sei!At(u + 20 - 1) = Sei!SeiUnit(c)[20]
      BY <3>4, <3>5
    <3> QED
      BY <3>2, <3>3, <3>5, <3>6
  <2> QED
    BY <2>1, <2>3, <2>4, <2>5, <2>6, <2>7
<1>6. Sei!At(to - 1) # 0
  <2>1. to - 1 \in Nat /\ to - 1 >= u /\ to - 1 < to
    BY <1>4
  <2> QED
    BY <1>5, <2>1
<1>7. ASSUME NEW i \in Nat, i >= u, i + 2 < to PROVE ~ZeroZeroOne(i)
  <2>1. i < to
    BY <1>7
  <2> QED
    BY <1>5, <1>7, <2>1 DEF ZeroZeroOne
<1>8. ASSUME NEW end \in Nat, Reads(to, end) PROVE ~Sei!H264Accepts(Sei!GetSeiBuffer(u + 1, end))
  <2>1. Sei!GetSeiBuffer(u + Len(Sei!Header), end) = c
    BY <1>0, <1>8, OwnMeans DEF Reads
  <2>2. Len(Sei!Header) = 1
    BY HeaderMeans
  <2> QED
    BY <2>1, <2>2 DEF Sei!H264Accepts
<1> QED
  BY <1>6, <1>7, <1>8 DEF OthersIn

(* A unit of others in a packet is passed over.                          *)
LEMMA OtherMeans ==
  ASSUME IsPacket, codec \in {"h264", "h265"}, NEW unit, IsOther(unit),
         NEW u \in Nat, NEW to \in Nat, Lies(u, unit), to = u + Len(unit)
  PROVE  OthersIn(u, to)
<1>1. IsBytes(unit) /\ unit # <<>> /\ unit[Len(unit)] # 0
  BY DEF IsOther, Sei!Standard, IsBytes
<1>2. PICK l \in Nat : l = Len(unit)
  BY <1>1, BytesMeans
<1>3. l > 0 /\ to = u + l
  <2>1. l # 0
    BY <1>1, <1>2, EmptySeq DEF IsBytes
  <2> QED
    BY <1>2, <2>1
<1>4. \A j \in 1 .. l : Sei!At(u + j - 1) = unit[j]
  BY <1>2 DEF Lies
<1>5. \A j \in 3 .. l : ~(unit[j - 2] = 0 /\ unit[j - 1] = 0 /\ unit[j] = 1)
  BY <1>2 DEF IsOther, Sei!Standard
<1>6. Sei!At(to - 1) # 0
  <2>1. l \in 1 .. l /\ u + l - 1 = to - 1
    BY <1>3
  <2>2. Sei!At(u + l - 1) = unit[l]
    BY <1>4, <2>1
  <2> QED
    BY <1>1, <1>2, <2>1, <2>2
<1>7. ASSUME NEW i \in Nat, i >= u, i + 2 < to PROVE ~ZeroZeroOne(i)
  <2>1. PICK j \in 3 .. l : j = i - u + 3
    BY <1>3, <1>7
  <2>2. /\ j - 2 \in 1 .. l /\ u + (j - 2) - 1 = i
        /\ j - 1 \in 1 .. l /\ u + (j - 1) - 1 = i + 1
        /\ j \in 1 .. l /\ u + j - 1 = i + 2
    BY <2>1
  <2>3. /\ Sei!At(u + (j - 2) - 1) = unit[j - 2] /\ Sei!At(u + (j - 1) - 1) = unit[j - 1]
        /\ Sei!At(u + j - 1) = unit[j]
    BY <1>4, <2>2, Zenon
  <2> QED
    BY <1>5, <2>2, <2>3 DEF ZeroZeroOne
<1>8. Sei!At(u) = unit[1]
  <2>1. 1 \in 1 .. l /\ u + 1 - 1 = u
    BY <1>3
  <2> QED
    BY <1>4, <2>1
<1>9. ASSUME codec = "h264", Sei!At(u) % 32 = 6, NEW end \in Nat, Reads(to, end)
      PROVE  ~Sei!H264Accepts(Sei!GetSeiBuffer(u + 1, end))
  <2>1. Sei!NotOurs(unit, 1)
    BY <1>8, <1>9 DEF IsOther
  <2>2. PICK h \in Nat : h = 1
    OBVIOUS
  <2>3. Sei!GetSeiBuffer(u + h, end) = Sei!Nothing
    BY <1>1, <1>9, <2>1, <2>2, OthersPassed
  <2> QED
    BY <2>2, <2>3 DEF Sei!H264Accepts
<1>10. ASSUME codec = "h265" PROVE u + 2 <= to
  <2>1. Sei!NotOurs(unit, 2)
    BY <1>10 DEF IsOther
  <2>2. 2 <= l
    BY <1>2, <2>1 DEF Sei!NotOurs
  <2> QED
    BY <1>3, <2>2
<1>11. ASSUME codec = "h265", NEW end \in Nat, Reads(to, end)
       PROVE  Sei!GetSeiBuffer(u + 2, end) = Sei!Nothing
  <2>1. Sei!NotOurs(unit, 2)
    BY <1>11 DEF IsOther
  <2>2. PICK h \in Nat : h = 2
    OBVIOUS
  <2> QED
    BY <1>1, <1>11, <2>1, <2>2, OthersPassed
<1> QED
  BY <1>6, <1>7, <1>9, <1>10, <1>11 DEF OthersIn

(* So each unit of a packet counts or is passed over.                    *)
IsUnit(k, from, u, to) ==
    /\ Framed(from, u, to) /\ units[k].length = to - u
    /\ IF Sei!Accepted(units[k].content) THEN OursIn(units[k].content, from, u, to)
       ELSE OthersIn(u, to)

LEMMA UnitIsOne ==
  ASSUME IsPacket, codec \in {"h264", "h265"}, NEW k, NEW from \in Nat, NEW to, UnitAt(k, from, to)
  PROVE  \E u : IsUnit(k, from, u, to)
<1>1. PICK prefix, body, c :
        /\ Piece(prefix, body, c) /\ c = units[k].content /\ units[k].length = Len(body)
        /\ UnitIn(prefix, body, from, to)
  BY DEF UnitAt
<1>2. PICK u : /\ Framed(from, u, to) /\ Lies(u, body) /\ to - u = Len(body) /\ to = u + Len(body)
               /\ isAnnexb /\ prefix = Prefix4 => u = from + 4
  BY <1>1, FrameMeans
<1>3. u \in Nat /\ to \in Nat
  BY <1>2 DEF Framed
<1>4. CASE Other(body, c)
  <2>1. ~Sei!Accepted(c)
    BY <1>4 DEF Other, Sei!Accepted, Sei!H264Accepts
  <2>2. OthersIn(u, to)
    BY <1>2, <1>3, <1>4, OtherMeans DEF Other
  <2> QED
    BY <1>1, <1>2, <2>1, <2>2 DEF IsUnit
<1>5. CASE Own(body, c) /\ (isAnnexb => prefix = Prefix4)
  <2>1. IsBytes(c) /\ body = Sei!SeiUnit(c)
    BY <1>5, SeiConstants DEF Own
  <2>2. CASE Sei!Accepted(c)
    <3>1. /\ u + Len(Sei!Header) < to
          /\ \A end \in Nat : end >= to => Sei!GetSeiBuffer(u + Len(Sei!Header), end) = c
          /\ Sei!At(u) = IF codec = "h264" THEN 6 ELSE 78
      BY <1>2, <1>3, <2>1, OwnMeans
    <3>2. OursIn(c, from, u, to)
      BY <1>2, <1>5, <3>1 DEF OursIn
    <3> QED
      BY <1>1, <1>2, <2>2, <3>2 DEF IsUnit
  <2>3. CASE ~Sei!Accepted(c)
    <3>1. codec = "h264" /\ c = <<>>
      BY <2>1, <2>3, OursCount
    <3>2. OthersIn(u, to)
      BY <1>2, <1>3, <2>1, <3>1, EmptyMeans
    <3> QED
      BY <1>1, <1>2, <2>3, <3>2 DEF IsUnit
  <2> QED
    BY <2>2, <2>3
<1> QED
  BY <1>1, <1>4, <1>5 DEF Piece

(* The units of a packet, and the offsets they start at; in Annex B there  *)
(* is a zero behind each.                                                *)
Laid(at, n) ==
    /\ n = Len(units) /\ at \in [1 .. n + 1 -> Nat] /\ at[1] = 0 /\ at[n + 1] = Size
    /\ \A k \in 1 .. n : \E u : IsUnit(k, at[k], u, at[k + 1])
    /\ isAnnexb => \A k \in 1 .. n : Sei!At(at[k + 1]) = 0

LEMMA LaidOut == ASSUME Composed PROVE \E n, at : n \in Nat /\ Laid(at, n)
<1>1. /\ codec \in {"h264", "h265"} /\ IsPacket /\ units \in Seq(AnyUnit)
      /\ \E at : Offsets(at)
  BY DEF Composed
<1>2. PICK at : Offsets(at)
  BY <1>1
<1>3. PICK n \in Nat : n = Len(units)
  BY <1>1
<1>4. at \in [1 .. n + 1 -> Nat] /\ at[1] = 0 /\ at[n + 1] = Size
  BY <1>2, <1>3 DEF Offsets
<1>5. ASSUME NEW k \in 1 .. n PROVE \E u : IsUnit(k, at[k], u, at[k + 1])
  <2>1. PICK from, to : from \in Nat /\ from = at[k] /\ to = at[k + 1]
    BY <1>4
  <2>2. UnitAt(k, from, to)
    BY <1>2, <1>3, <2>1 DEF Offsets
  <2>3. from \in Nat
    BY <2>1
  <2>4. \E u : IsUnit(k, from, u, to)
    BY <1>1, <2>2, <2>3, UnitIsOne
  <2> QED
    BY <2>1, <2>4
<1>6. ASSUME isAnnexb, NEW k \in 1 .. n PROVE Sei!At(at[k + 1]) = 0
  <2>1. CASE k = n
    <3>1. at[k + 1] = Len(packet) /\ Len(packet) \in Nat
      BY <1>1, <1>4, <2>1, PacketMeans DEF Size
    <3> QED
      BY <3>1 DEF Sei!At
  <2>2. CASE k < n
    <3>1. PICK j \in 1 .. n : j = k + 1
      BY <2>2
    <3>2. PICK u : IsUnit(j, at[j], u, at[j + 1])
      BY <1>5
    <3>3. PICK from, to : from = at[j] /\ to = at[j + 1]
      OBVIOUS
    <3>4. Framed(from, u, to)
      BY <3>2, <3>3 DEF IsUnit
    <3>5. ZeroZeroOne(from) \/ LongCode(from)
      BY <1>6, <3>4 DEF Framed
    <3> QED
      BY <3>1, <3>3, <3>5 DEF ZeroZeroOne, LongCode
  <2> QED
    BY <2>1, <2>2
<1> QED
  BY <1>3, <1>4, <1>5, <1>6 DEF Laid

(* A search that goes from unit to unit finds the first user data.       *)
LEMMA UnitByUnit ==
  ASSUME NEW n \in Nat, NEW at, Laid(at, n), NEW f, f[at[n + 1]] = Sei!Nothing,
         \A k \in 1 .. n : f[at[k]] = IF Sei!Accepted(units[k].content)
                                      THEN units[k].content ELSE f[at[k + 1]]
  PROVE  f[0] = Sei!Wanted
<1> DEFINE S == {k \in 1 .. n + 1 : f[at[k]] = WantedFrom(k)}
<1>1. n = Len(units) /\ at[1] = 0
  BY DEF Laid
<1>2. /\ Sei!Wanted = WantedFrom(1)
      /\ WantedFrom(n + 1) = Sei!Nothing
      /\ \A k \in 1 .. n : WantedFrom(k) = IF Sei!Accepted(units[k].content)
                                           THEN units[k].content ELSE WantedFrom(k + 1)
  BY <1>1, WantedMeans
<1>3. n + 1 \in S
  BY <1>2
<1>4. ASSUME NEW k \in 1 .. n, k + 1 \in S PROVE k \in S
  <2>1. k \in 1 .. n + 1
    OBVIOUS
  <2>2. f[at[k + 1]] = WantedFrom(k + 1)
    BY <1>4
  <2>3. f[at[k]] = WantedFrom(k)
    BY <1>2, <2>2, Zenon
  <2> QED
    BY <2>1, <2>3
<1> HIDE DEF S
<1>5. 1 \in S
  BY <1>3, <1>4, Downward
<1> QED
  BY <1>1, <1>2, <1>5 DEF S

(* AVCC: from a unit to the next.                                        *)
LEMMA AvccStep ==
  ASSUME IsPacket, codec \in {"h264", "h265"}, ~isAnnexb,
         NEW k, NEW from, NEW u, NEW to, IsUnit(k, from, u, to),
         NEW f, f[from] = AvccAt(f, from)
  PROVE  f[from] = IF Sei!Accepted(units[k].content) THEN units[k].content ELSE f[to]
<1>0. PICK c : c = units[k].content
  OBVIOUS
<1>1. PICK h \in {1, 2} : /\ c = units[k].content /\ h = Len(Sei!Header)
                          /\ codec = "h264" => h = 1
                          /\ codec = "h265" => h = 2
  <2>1. /\ Len(Sei!Header) \in {1, 2}
        /\ codec = "h264" => Len(Sei!Header) = 1
        /\ codec = "h265" => Len(Sei!Header) = 2
    BY HeaderMeans
  <2> QED
    BY <1>0, <2>1
<1>2. /\ from \in Nat /\ u \in Nat /\ to \in Nat /\ u < to /\ to <= Size
      /\ u = from + 4 /\ AvccEnd(from) = to
  BY DEF IsUnit, Framed
<1>3. PICK z \in Nat : z = Size
  BY PacketMeans
<1>4. ~AvccStops(from)
  <2>1. ~(from + 4 > z) /\ ~(to > z)
    BY <1>2, <1>3
  <2> QED
    BY <1>2, <1>3, <2>1 DEF AvccStops, Size
<1>5. /\ AvccContent(from) = Sei!GetSeiBuffer(u + Len(Sei!Header), to)
      /\ AvccContent(from) = Sei!GetSeiBuffer(u + h, to)
  BY <1>1, <1>2 DEF AvccContent
<1>6. CASE Sei!Accepted(c)
  <2>1. OursIn(c, from, u, to)
    BY <1>1, <1>6 DEF IsUnit
  <2>2. Sei!GetSeiBuffer(u + Len(Sei!Header), to) = c
    BY <1>2, <2>1 DEF OursIn
  <2>3. u + h <= to
    BY <1>1, <1>2, <2>1 DEF OursIn
  <2>4. Sei!IsSei(u)
    <3>1. Sei!At(u) = IF codec = "h264" THEN 6 ELSE 78
      BY <2>1 DEF OursIn
    <3>2. 6 % 32 = 6 /\ (78 \div 2) % 64 = 39
      OBVIOUS
    <3> QED
      BY <3>1, <3>2 DEF Sei!IsSei
  <2>5. AvccFinds(from)
    BY <1>1, <1>2, <1>5, <1>6, <2>2, <2>3, <2>4 DEF AvccFinds
  <2> QED
    BY <1>1, <1>4, <1>5, <1>6, <2>2, <2>5 DEF AvccAt
<1>7. CASE ~Sei!Accepted(c)
  <2>1. OthersIn(u, to)
    BY <1>1, <1>7 DEF IsUnit
  <2>2. CASE codec = "h264"
    <3>0. ASSUME Sei!At(u) % 32 = 6 PROVE ~Sei!H264Accepts(Sei!GetSeiBuffer(u + 1, to))
      <4>1. Reads(to, to)
        BY <1>2 DEF Reads
      <4> QED
        BY <1>2, <2>1, <2>2, <3>0, <4>1, Zenon DEF OthersIn
    <3>1. Sei!IsSei(u) => ~Sei!Accepted(AvccContent(from))
      BY <1>1, <1>5, <2>2, <3>0 DEF Sei!IsSei, Sei!Accepted
    <3>2. ~AvccFinds(from)
      BY <1>2, <3>1 DEF AvccFinds
    <3> QED
      BY <1>1, <1>2, <1>4, <1>7, <3>2 DEF AvccAt
  <2>3. CASE codec = "h265"
    <3>0. Sei!GetSeiBuffer(u + 2, to) = Sei!Nothing
      <4>1. Reads(to, to)
        BY <1>2 DEF Reads
      <4> QED
        BY <1>2, <2>1, <2>3, <4>1, Zenon DEF OthersIn
    <3>1. AvccContent(from) = Sei!Nothing
      BY <1>1, <1>5, <2>3, <3>0
    <3>2. ~AvccFinds(from)
      BY <2>3, <3>1 DEF AvccFinds, Sei!Accepted
    <3> QED
      BY <1>1, <1>2, <1>4, <1>7, <3>2 DEF AvccAt
  <2> QED
    BY <2>2, <2>3
<1> QED
  BY <1>1, <1>6, <1>7

LEMMA AvccFound ==
  ASSUME IsPacket, codec \in {"h264", "h265"}, ~isAnnexb, NEW n \in Nat, NEW at, Laid(at, n)
  PROVE  Sei!AvccRead = Sei!Wanted
<1>1. PICK f : Sei!AvccRead = f[0] /\ \A i \in Nat : f[i] = AvccAt(f, i)
  BY AvccMeans
<1>2. PICK z \in Nat : z = Size
  BY PacketMeans
<1>3. f[at[n + 1]] = Sei!Nothing
  <2>1. z + 4 > z
    OBVIOUS
  <2>2. AvccStops(z)
    BY <1>2, <2>1 DEF AvccStops, Size
  <2>3. f[z] = Sei!Nothing
    BY <1>1, <2>2 DEF AvccAt
  <2> QED
    BY <1>2, <2>3 DEF Laid
<1>4. ASSUME NEW k \in 1 .. n
      PROVE  f[at[k]] = IF Sei!Accepted(units[k].content) THEN units[k].content ELSE f[at[k + 1]]
  <2>1. PICK u : IsUnit(k, at[k], u, at[k + 1])
    BY DEF Laid
  <2>2. PICK from, to : from \in Nat /\ from = at[k] /\ to = at[k + 1]
    BY <2>1 DEF IsUnit, Framed
  <2>3. f[from] = IF Sei!Accepted(units[k].content) THEN units[k].content ELSE f[to]
    BY <1>1, <2>1, <2>2, AvccStep
  <2> QED
    BY <2>2, <2>3
<1>5. f[0] = Sei!Wanted
  BY <1>3, <1>4, UnitByUnit
<1> QED
  BY <1>1, <1>5

(* What a start code is.                                                 *)
LEMMA StartsMeans ==
  ASSUME NEW i \in Nat
  PROVE  /\ Sei!Starts(i, <<0, 0>>) <=> Sei!At(i) = 0 /\ Sei!At(i + 1) = 0
         /\ Sei!Starts(i, <<0, 0, 1>>) <=> ZeroZeroOne(i)
         /\ Sei!Starts(i, <<0, 0, 0, 1>>) <=> LongCode(i)
<1>1. i + 1 - 1 = i /\ i + 2 - 1 = i + 1 /\ i + 3 - 1 = i + 2 /\ i + 4 - 1 = i + 3
  OBVIOUS
<1>2. Sei!Starts(i, <<0, 0>>) <=> Sei!At(i) = 0 /\ Sei!At(i + 1) = 0
  <2>1. Sei!Starts(i, <<0, 0>>) <=> \A k \in {1, 2} : Sei!At(i + k - 1) = <<0, 0>>[k]
    BY DEF Sei!Starts
  <2> QED
    BY <1>1, <2>1
<1>3. Sei!Starts(i, <<0, 0, 1>>) <=> ZeroZeroOne(i)
  <2>1. Sei!Starts(i, <<0, 0, 1>>) <=> \A k \in {1, 2, 3} : Sei!At(i + k - 1) = <<0, 0, 1>>[k]
    BY DEF Sei!Starts
  <2> QED
    BY <1>1, <2>1 DEF ZeroZeroOne
<1>4. Sei!Starts(i, <<0, 0, 0, 1>>) <=> LongCode(i)
  <2>1. Sei!Starts(i, <<0, 0, 0, 1>>)
          <=> \A k \in {1, 2, 3, 4} : Sei!At(i + k - 1) = <<0, 0, 0, 1>>[k]
    BY DEF Sei!Starts
  <2> QED
    BY <1>1, <2>1 DEF LongCode
<1> QED
  BY <1>2, <1>3, <1>4

LEMMA StartCodeIs ==
  ASSUME IsPacket, NEW i \in Nat, NEW z \in Nat, z = Size
  PROVE  Sei!StartCode(i) = IF z - i <= 4 THEN 0
                            ELSE IF ZeroZeroOne(i) THEN 3 ELSE IF LongCode(i) THEN 4 ELSE 0
BY StartsMeans DEF Sei!StartCode, Size

(* The guess is right, except for a packet in AVCC of an unlucky length. *)
LEMMA GuessIs ==
  ASSUME IsPacket, NEW z \in Nat, z = Size
  PROVE  Sei!LooksAnnexb <=> (z > 3 /\ ZeroZeroOne(0)) \/ (z > 4 /\ LongCode(0))
BY StartsMeans DEF Sei!LooksAnnexb, Size

LEMMA GuessMeans ==
  ASSUME IsPacket, isAnnexb \in BOOLEAN, NEW n \in Nat, n # 0, NEW at, Laid(at, n)
  PROVE  /\ isAnnexb => Sei!LooksAnnexb
         /\ ~isAnnexb /\ ~Sei!Ambiguous => ~Sei!LooksAnnexb
<1>1. 1 \in 1 .. n /\ 1 + 1 = 2
  OBVIOUS
<1>2. PICK u : IsUnit(1, at[1], u, at[1 + 1])
  BY <1>1 DEF Laid
<1>3. PICK to : to = at[1 + 1]
  OBVIOUS
<1>4. Framed(0, u, to) /\ units[1].length = to - u
  BY <1>2, <1>3 DEF Laid, IsUnit
<1>5. PICK z \in Nat : z = Size
  BY PacketMeans
<1>6. u \in Nat /\ to \in Nat /\ u < to /\ to <= z /\ (u = 3 \/ u = 4)
  BY <1>4, <1>5 DEF Framed
<1>7. ASSUME isAnnexb PROVE Sei!LooksAnnexb
  <2>1. (u = 3 => ZeroZeroOne(0)) /\ (u = 4 => LongCode(0))
    BY <1>4, <1>7 DEF Framed
  <2>2. (u = 3 => z > 3) /\ (u = 4 => z > 4)
    BY <1>6
  <2> QED
    BY <1>5, <1>6, <2>1, <2>2, GuessIs
<1>8. ASSUME ~isAnnexb, Sei!LooksAnnexb PROVE Sei!Ambiguous
  <2>1. ZeroZeroOne(0) \/ LongCode(0)
    BY <1>5, <1>8, GuessIs
  <2>2. to - u \in 256 .. 511 \/ to - u = 1
    BY <1>4, <1>8, <2>1 DEF Framed
  <2> QED
    BY <1>4, <1>8, <2>2 DEF Sei!Ambiguous
<1> QED
  BY <1>7, <1>8

(* H.264 in Annex B. Nothing is found between two offsets without a start *)
(* code.                                                                 *)
LEMMA SameFrom ==
  ASSUME NEW S, S \subseteq Nat, NEW i \in Nat, NEW j \in Nat, i <= j,
         \A k \in Nat : i <= k /\ k < j => k \notin S
  PROVE  From(S, i) = From(S, j)
<1>1. ASSUME NEW k \in S PROVE k >= i <=> k >= j
  <2>1. k \in Nat /\ ~(i <= k /\ k < j)
    OBVIOUS
  <2> QED
    BY <2>1
<1> QED
  BY <1>1 DEF From

LEMMA CodesAre == ASSUME IsPacket PROVE Codes = {i \in Nat : Sei!StartCode(i) # 0}
<1>1. PICK z \in Nat : z = Size
  BY PacketMeans
<1>2. \A i \in Nat : Sei!StartCode(i) # 0 => i + 4 < z
  BY <1>1, CodeMeans
<1>3. Codes = {i \in 0 .. z - 1 : Sei!StartCode(i) # 0}
  BY <1>1 DEF Codes, Size
<1>4. \A i \in Nat : i + 4 < z => i \in 0 .. z - 1
  OBVIOUS
<1> QED
  BY <1>2, <1>3, <1>4

LEMMA NoCodeIn ==
  ASSUME IsPacket, NEW u \in Nat, NEW to \in Nat, OthersIn(u, to), NEW j \in Nat, u <= j, j < to
  PROVE  Sei!StartCode(j) = 0
<1>1. PICK z \in Nat : z = Size
  BY PacketMeans
<1>2. Sei!At(to - 1) # 0 /\ \A i \in Nat : i >= u /\ i + 2 < to => ~ZeroZeroOne(i)
  BY DEF OthersIn
<1>3. ASSUME ZeroZeroOne(j) PROVE FALSE
  <2>1. j + 2 < to \/ j = to - 1 \/ j + 1 = to - 1
    OBVIOUS
  <2> QED
    BY <1>2, <1>3, <2>1 DEF ZeroZeroOne
<1>4. ASSUME LongCode(j) PROVE FALSE
  <2>1. PICK i \in Nat : i = j + 1
    OBVIOUS
  <2>2. ZeroZeroOne(i)
    <3>1. i + 1 = j + 2 /\ i + 2 = j + 3
      BY <2>1
    <3> QED
      BY <1>4, <2>1, <3>1 DEF ZeroZeroOne, LongCode
  <2>3. (i >= u /\ i + 2 < to) \/ j = to - 1 \/ j + 1 = to - 1 \/ j + 2 = to - 1
    BY <2>1
  <2> QED
    BY <1>2, <1>4, <2>2, <2>3 DEF LongCode
<1> QED
  BY <1>1, <1>3, <1>4, StartCodeIs

(* A start code in front of a unit.                                      *)
LEMMA CodeInFront ==
  ASSUME IsPacket, isAnnexb, NEW from, NEW u, NEW to, Framed(from, u, to), from + 4 < Size
  PROVE  Sei!StartCode(from) = u - from /\ u - from \in {3, 4}
<1>1. PICK z \in Nat : z = Size
  BY PacketMeans
<1>2. /\ from \in Nat /\ u \in Nat /\ (u = from + 3 \/ u = from + 4)
      /\ (u = from + 3 => ZeroZeroOne(from)) /\ (u = from + 4 => LongCode(from))
  BY DEF Framed
<1>3. ~(z - from <= 4)
  BY <1>1, <1>2
<1>4. LongCode(from) => ~ZeroZeroOne(from)
  BY DEF LongCode, ZeroZeroOne
<1> QED
  BY <1>1, <1>2, <1>3, <1>4, StartCodeIs

LEMMA H264Step ==
  ASSUME IsPacket, codec = "h264", isAnnexb,
         NEW k, NEW from, NEW u, NEW to, IsUnit(k, from, u, to), Sei!At(to) = 0,
         NEW f, \A i \in Nat : f[i] = H264At(f, i)
  PROVE  f[from] = IF Sei!Accepted(units[k].content) THEN units[k].content ELSE f[to]
<1>1. PICK c : c = units[k].content
  OBVIOUS
<1>2. /\ from \in Nat /\ u \in Nat /\ to \in Nat /\ u < to /\ to <= Size
      /\ (u = from + 3 \/ u = from + 4) /\ Framed(from, u, to)
  BY DEF IsUnit, Framed
<1>3. PICK z \in Nat : z = Size /\ z = Len(packet)
  BY PacketMeans DEF Size
<1>4. Codes = {i \in Nat : Sei!StartCode(i) # 0}
  BY CodesAre
<1>5. ASSUME Sei!Accepted(c)
      PROVE  /\ u = from + 4 /\ Sei!At(u) = 6 /\ Sei!H264Accepts(c)
             /\ \A end \in Nat : end >= to => Sei!GetSeiBuffer(u + 1, end) = c
  <2>1. OursIn(c, from, u, to)
    BY <1>1, <1>5 DEF IsUnit
  <2>2. Len(Sei!Header) = 1
    BY HeaderMeans
  <2>3. u = from + 4 /\ Sei!At(u) = 6
    BY <2>1 DEF OursIn
  <2>4. Sei!H264Accepts(c)
    BY <1>5 DEF Sei!Accepted
  <2>5. \A end \in Nat : end >= to => Sei!GetSeiBuffer(u + 1, end) = c
    BY <2>1, <2>2 DEF OursIn
  <2> QED
    BY <2>3, <2>4, <2>5
<1>6. ASSUME ~Sei!Accepted(c) PROVE OthersIn(u, to)
  BY <1>1, <1>6 DEF IsUnit
<1>7. CASE from + 4 < z
  <2>1. PICK s \in {3, 4} : s = Sei!StartCode(from) /\ u = from + s
    <3>1. Sei!StartCode(from) = u - from /\ u - from \in {3, 4}
      BY <1>2, <1>3, <1>7, CodeInFront
    <3> QED
      BY <1>2, <3>1
  <2>2. from \in Codes /\ Codes \subseteq Nat
    BY <1>2, <1>4, <2>1
  <2>3. From(Codes, from) # {} /\ Sei!Min(From(Codes, from)) = from
    <3>1. from \in From(Codes, from)
      BY <1>2, <2>2 DEF From
    <3>2. PICK m \in Nat : m = Sei!Min(From(Codes, from)) /\ m >= from /\ m <= from
      <4>1. /\ Sei!Min(From(Codes, from)) \in Nat /\ Sei!Min(From(Codes, from)) >= from
            /\ \A j \in Codes : j >= from => Sei!Min(From(Codes, from)) <= j
        BY <1>2, <2>2, <3>1, FromMeans
      <4>2. from >= from
        BY <1>2
      <4> QED
        BY <2>2, <4>1, <4>2
    <3> QED
      BY <1>2, <3>1, <3>2
  <2>4. H264Unit(from) = u
    BY <2>1, <2>3 DEF H264Unit
  <2>5. H264Content(from) = Sei!GetSeiBuffer(u + 1, z)
    BY <1>3, <2>4 DEF H264Content
  <2>6. z >= to
    BY <1>2, <1>3
  <2>7. CASE Sei!Accepted(c)
    <3>1. H264Content(from) = c /\ H264Finds(from)
      BY <1>5, <2>4, <2>5, <2>6, <2>7 DEF H264Finds
    <3> QED
      BY <1>1, <1>2, <2>3, <2>7, <3>1 DEF H264At
  <2>8. CASE ~Sei!Accepted(c)
    <3>1. Sei!At(u) = 6 => ~Sei!H264Accepts(H264Content(from))
      <4>1. 6 % 32 = 6
        OBVIOUS
      <4> QED
        BY <1>6, <2>5, <2>6, <2>8, <4>1 DEF OthersIn, Reads
    <3>2. f[from] = f[u + 1]
      <4>1. ~H264Finds(from)
        BY <2>4, <3>1 DEF H264Finds
      <4> QED
        BY <1>2, <2>3, <2>4, <4>1 DEF H264At
    <3>3. PICK v \in Nat : v = u + 1 /\ v <= to
      BY <1>2
    <3>4. \A j \in Nat : v <= j /\ j < to => j \notin Codes
      <4>1. ASSUME NEW j \in Nat, v <= j, j < to PROVE Sei!StartCode(j) = 0
        <5>1. u <= j
          BY <1>2, <3>3, <4>1
        <5> QED
          BY <1>2, <1>6, <2>8, <4>1, <5>1, NoCodeIn
      <4> QED
        BY <1>4, <4>1
    <3>5. From(Codes, v) = From(Codes, to)
      BY <1>2, <2>2, <3>3, <3>4, SameFrom
    <3>6. f[v] = f[to]
      BY <1>2, <3>5 DEF H264At, H264Finds, H264Content, H264Unit
    <3> QED
      BY <1>1, <2>8, <3>2, <3>3, <3>6
  <2> QED
    BY <2>7, <2>8
<1>8. CASE ~(from + 4 < z)
  <2>1. u = from + 3 /\ to >= from
    BY <1>2, <1>3, <1>8
  <2>2. ~Sei!Accepted(c)
    <3>1. u # from + 4
      BY <1>2, <2>1
    <3> QED
      BY <1>5, <3>1
  <2>3. \A j \in Codes : j + 4 < z /\ j \in Nat
    BY <1>3, <1>4, CodeMeans
  <2>4. From(Codes, from) = {} /\ From(Codes, to) = {}
    <3>1. ASSUME NEW j \in Codes PROVE ~(j >= from) /\ ~(j >= to)
      <4>1. j \in Nat /\ j + 4 < z
        BY <2>3
      <4> QED
        BY <1>2, <1>8, <2>1, <4>1
    <3> QED
      BY <3>1 DEF From
  <2>5. f[from] = Sei!Nothing /\ f[to] = Sei!Nothing
    BY <1>2, <2>4 DEF H264At
  <2> QED
    BY <1>1, <2>2, <2>5
<1> QED
  BY <1>7, <1>8

LEMMA H264Found ==
  ASSUME IsPacket, codec = "h264", isAnnexb, NEW n \in Nat, NEW at, Laid(at, n)
  PROVE  Sei!H264AnnexbRead = Sei!Wanted
<1>1. PICK f : Sei!H264AnnexbRead = f[0] /\ \A i \in Nat : f[i] = H264At(f, i)
  BY H264Means
<1>2. PICK z \in Nat : z = Size
  BY PacketMeans
<1>3. f[at[n + 1]] = Sei!Nothing
  <2>1. ASSUME NEW j \in Codes PROVE ~(j >= z)
    <3>1. j \in Nat /\ j + 4 < z
      BY <1>2, CodesAre, CodeMeans
    <3> QED
      BY <3>1
  <2>2. From(Codes, z) = {}
    BY <2>1 DEF From
  <2>3. f[z] = Sei!Nothing
    BY <1>1, <2>2 DEF H264At
  <2> QED
    BY <1>2, <2>3 DEF Laid
<1>4. ASSUME NEW k \in 1 .. n
      PROVE  f[at[k]] = IF Sei!Accepted(units[k].content) THEN units[k].content ELSE f[at[k + 1]]
  <2>1. PICK u : IsUnit(k, at[k], u, at[k + 1])
    BY DEF Laid
  <2>2. PICK from, to : from = at[k] /\ to = at[k + 1]
    OBVIOUS
  <2>3. Sei!At(to) = 0
    BY <2>2 DEF Laid
  <2>4. f[from] = IF Sei!Accepted(units[k].content) THEN units[k].content ELSE f[to]
    BY <1>1, <2>1, <2>2, <2>3, H264Step
  <2> QED
    BY <2>2, <2>4
<1>5. f[0] = Sei!Wanted
  BY <1>3, <1>4, UnitByUnit
<1> QED
  BY <1>1, <1>5

(* H.265 in Annex B. Past two zeros that do not begin a start code four   *)
(* bytes are passed over, which never lead far into the next unit.       *)
LEMMA ZerosAre ==
  ASSUME IsPacket, NEW z \in Nat, z = Size
  PROVE  Zeros = {i \in Nat : i + 4 < z /\ Sei!At(i) = 0 /\ Sei!At(i + 1) = 0}
<1>1. Zeros = {i \in 0 .. z - 5 : Sei!Starts(i, <<0, 0>>)}
  BY DEF Zeros, Size
<1>2. \A i : i \in 0 .. z - 5 <=> i \in Nat /\ i + 4 < z
  OBVIOUS
<1> QED
  BY <1>1, <1>2, StartsMeans

(* Where nothing more is to be found.                                    *)
LEMMA H265Ends ==
  ASSUME NEW i \in Nat, From(Zeros, i) = {}, NEW f, f[i] = H265At(f, i)
  PROVE  f[i] = Sei!Nothing
BY DEF H265At

(* The same from two offsets without zeros between them.                 *)
LEMMA H265Same ==
  ASSUME NEW i \in Nat, NEW j \in Nat, From(Zeros, i) = From(Zeros, j),
         NEW f, \A k \in Nat : f[k] = H265At(f, k)
  PROVE  f[i] = f[j]
BY DEF H265At, H265Finds, H265Content, H265Unit, H265Zeros

LEMMA H265Walk ==
  ASSUME IsPacket, NEW u \in Nat, NEW to \in Nat, u < to, OthersIn(u, to),
         NEW f, \A i \in Nat : f[i] = H265At(f, i), f[to + 1] = f[to]
  PROVE  \A i \in u .. to + 1 : f[i] = f[to]
<1>1. PICK z \in Nat : z = Size
  BY PacketMeans
<1>2. Zeros = {i \in Nat : i + 4 < z /\ Sei!At(i) = 0 /\ Sei!At(i + 1) = 0} /\ Zeros \subseteq Nat
  BY <1>1, ZerosAre
<1>3. ASSUME NEW i \in Nat, u <= i, i < to,
             \A j \in Nat : i < j /\ j <= to + 1 => f[j] = f[to]
      PROVE  f[i] = f[to]
  <2>1. CASE From(Zeros, i) = {}
    <3>1. From(Zeros, to) = {}
      <4>1. ASSUME NEW j \in Nat, j >= to PROVE j >= i
        BY <1>3, <4>1
      <4> QED
        BY <1>2, <2>1, <4>1 DEF From
    <3> QED
      BY <2>1, <3>1, H265Ends
  <2>2. CASE From(Zeros, i) # {}
    <3>1. PICK m \in Nat : /\ m = H265Zeros(i) /\ m >= i /\ m \in Zeros
                           /\ \A j \in Zeros : j >= i => m <= j
      BY <1>2, <2>2, FromMeans DEF H265Zeros
    <3>2. CASE m >= to
      <4>1. ASSUME NEW j \in Nat, i <= j, j < to PROVE j \notin Zeros
        <5>1. j >= i /\ ~(m <= j)
          BY <3>2, <4>1
        <5> QED
          BY <3>1, <5>1
      <4>2. From(Zeros, i) = From(Zeros, to)
        <5>1. i <= to
          BY <1>3
        <5> QED
          BY <1>2, <4>1, <5>1, SameFrom
      <4> QED
        BY <4>2, H265Same
    <3>3. CASE m < to
      <4>1. Sei!At(m) = 0 /\ Sei!At(m + 1) = 0 /\ Sei!At(to - 1) # 0
        BY <1>2, <3>1 DEF OthersIn
      <4>2. m # to - 1 /\ m + 1 # to - 1
        BY <4>1
      <4>3. m + 4 <= to + 1 /\ m + 4 \in Nat /\ i < m + 4
        BY <1>3, <3>1, <3>3, <4>2
      <4>4. Sei!StartCode(m) = 0
        <5>1. u <= m
          BY <1>3, <3>1
        <5> QED
          BY <3>3, <5>1, NoCodeIn
      <4>5. f[i] = f[m + 4]
        BY <2>2, <3>1, <4>4 DEF H265At
      <4> QED
        BY <1>3, <4>3, <4>5
    <3>4. m >= to \/ m < to
      OBVIOUS
    <3> QED
      BY <3>2, <3>3, <3>4
  <2> QED
    BY <2>1, <2>2
<1> DEFINE Good == {d \in Nat : \A i \in Nat : u <= i /\ i <= to + 1 /\ to <= i + d => f[i] = f[to]}
<1>4. 0 \in Good
  <2>1. ASSUME NEW i \in Nat, u <= i, i <= to + 1, to <= i + 0 PROVE f[i] = f[to]
    <3>1. i = to \/ i = to + 1
      BY <2>1
    <3> QED
      BY <3>1
  <2> QED
    BY <2>1
<1>5. ASSUME NEW d \in Nat, d \in Good PROVE d + 1 \in Good
  <2>1. ASSUME NEW i \in Nat, u <= i, i <= to + 1, to <= i + (d + 1) PROVE f[i] = f[to]
    <3>1. CASE i < to
      <4>1. ASSUME NEW j \in Nat, i < j, j <= to + 1 PROVE f[j] = f[to]
        <5>1. u <= j /\ to <= j + d
          BY <2>1, <4>1
        <5> QED
          BY <1>5, <4>1, <5>1
      <4> QED
        BY <1>3, <2>1, <3>1, <4>1
    <3>2. CASE i >= to
      <4>1. i = to \/ i = to + 1
        BY <2>1, <3>2
      <4> QED
        BY <4>1
    <3> QED
      BY <3>1, <3>2
  <2> QED
    BY <2>1
<1> HIDE DEF Good
<1>6. to \in Good
  BY <1>4, <1>5, Induct
<1>7. ASSUME NEW i \in u .. to + 1 PROVE f[i] = f[to]
  <2>1. i \in Nat /\ u <= i /\ i <= to + 1 /\ to <= i + to
    OBVIOUS
  <2> QED
    BY <1>6, <2>1 DEF Good
<1> QED
  BY <1>7

(* A start code where the search stands.                                 *)
LEMMA H265Code ==
  ASSUME IsPacket, NEW z \in Nat, z = Size, NEW i \in Nat, NEW s \in {3, 4}, Sei!StartCode(i) = s,
         i + 4 < z, Sei!At(i) = 0, Sei!At(i + 1) = 0, NEW v \in Nat, v = i + s + 2,
         NEW f, f[i] = H265At(f, i)
  PROVE  f[i] = IF v < z /\ Sei!GetSeiBuffer(v, z) # Sei!Nothing
                THEN Sei!GetSeiBuffer(v, z) ELSE f[v]
<1>1. i \in Zeros /\ Zeros \subseteq Nat
  BY ZerosAre
<1>2. From(Zeros, i) # {} /\ H265Zeros(i) = i
  <2>1. i \in From(Zeros, i) /\ i >= i
    BY <1>1 DEF From
  <2>2. /\ H265Zeros(i) \in Nat /\ H265Zeros(i) >= i
        /\ \A j \in Zeros : j >= i => H265Zeros(i) <= j
    BY <1>1, <2>1, FromMeans DEF H265Zeros
  <2>3. H265Zeros(i) <= i
    BY <1>1, <2>1, <2>2
  <2> QED
    BY <2>1, <2>2, <2>3
<1>3. H265Unit(i) = v
  BY <1>2 DEF H265Unit
<1>4. H265Content(i) = Sei!GetSeiBuffer(v, z)
  BY <1>3 DEF H265Content, Size
<1>5. H265Finds(i) <=> v < z /\ Sei!GetSeiBuffer(v, z) # Sei!Nothing
  BY <1>3, <1>4 DEF H265Finds, Size
<1>6. Sei!StartCode(H265Zeros(i)) # 0
  BY <1>2
<1> QED
  BY <1>2, <1>3, <1>4, <1>5, <1>6 DEF H265At

(* From a unit to the next, from where it starts and from one byte later, *)
(* which is where the four bytes passed over may end.                    *)
LEMMA H265Step ==
  ASSUME IsPacket, codec = "h265", isAnnexb,
         NEW k, NEW from, NEW u, NEW to, IsUnit(k, from, u, to), Sei!At(to) = 0,
         NEW f, \A i \in Nat : f[i] = H265At(f, i), f[to + 1] = f[to]
  PROVE  /\ f[from] = IF Sei!Accepted(units[k].content) THEN units[k].content ELSE f[to]
         /\ f[from + 1] = f[from]
<1>1. PICK c : c = units[k].content
  OBVIOUS
<1>2. /\ from \in Nat /\ u \in Nat /\ to \in Nat /\ u < to /\ to <= Size
      /\ (u = from + 3 \/ u = from + 4) /\ Framed(from, u, to)
      /\ (u = from + 3 => ZeroZeroOne(from)) /\ (u = from + 4 => LongCode(from))
  BY DEF IsUnit, Framed
<1>3. PICK z \in Nat : z = Size
  BY PacketMeans
<1>4. ASSUME Sei!Accepted(c)
      PROVE  /\ u = from + 4 /\ u + 2 < to /\ c # Sei!Nothing
             /\ \A end \in Nat : end >= to => Sei!GetSeiBuffer(u + 2, end) = c
  <2>1. OursIn(c, from, u, to)
    BY <1>1, <1>4 DEF IsUnit
  <2>2. Len(Sei!Header) = 2
    BY HeaderMeans
  <2>3. c # Sei!Nothing
    BY <1>4 DEF Sei!Accepted
  <2> QED
    BY <2>1, <2>2, <2>3 DEF OursIn
<1>5. ASSUME ~Sei!Accepted(c)
      PROVE  /\ OthersIn(u, to) /\ u + 2 <= to
             /\ \A end \in Nat : end >= to => Sei!GetSeiBuffer(u + 2, end) = Sei!Nothing
  <2>1. OthersIn(u, to)
    BY <1>1, <1>5 DEF IsUnit
  <2> QED
    BY <2>1 DEF OthersIn, Reads
<1>6. PICK v \in Nat : v = u + 2 /\ v <= to /\ z >= to /\ (Sei!Accepted(c) => v < z)
  BY <1>2, <1>3, <1>4, <1>5
<1>7. Sei!GetSeiBuffer(v, z) = IF Sei!Accepted(c) THEN c ELSE Sei!Nothing
  BY <1>4, <1>5, <1>6
<1>8. ~Sei!Accepted(c) => \A i \in u .. to + 1 : f[i] = f[to]
  BY <1>2, <1>5, H265Walk
<1>9. f[from] = IF Sei!Accepted(c) THEN c ELSE f[to]
  <2>1. PICK s \in {3, 4} : s = Sei!StartCode(from) /\ u = from + s
    <3>1. from + 4 < z
      BY <1>2, <1>6
    <3>2. Sei!StartCode(from) = u - from /\ u - from \in {3, 4}
      BY <1>2, <1>3, <3>1, CodeInFront
    <3> QED
      BY <1>2, <3>2
  <2>2. from + 4 < z /\ v = from + s + 2
    BY <1>2, <1>6, <2>1
  <2>3. Sei!At(from) = 0 /\ Sei!At(from + 1) = 0
    BY <1>2 DEF ZeroZeroOne, LongCode
  <2>4. f[from] = IF v < z /\ Sei!GetSeiBuffer(v, z) # Sei!Nothing
                  THEN Sei!GetSeiBuffer(v, z) ELSE f[v]
    BY <1>2, <1>3, <1>6, <2>1, <2>2, <2>3, H265Code
  <2>5. v \in u .. to + 1
    BY <1>2, <1>6
  <2> QED
    BY <1>4, <1>6, <1>7, <1>8, <2>4, <2>5
<1>10. CASE u = from + 4
  <2>1. PICK i \in Nat : i = from + 1
    BY <1>2
  <2>2. ZeroZeroOne(i)
    <3>1. i + 1 = from + 2 /\ i + 2 = from + 3
      BY <1>2, <2>1
    <3> QED
      BY <1>2, <1>10, <2>1, <3>1 DEF ZeroZeroOne, LongCode
  <2>3. i + 4 < z /\ v = i + 3 + 2 /\ ~(z - i <= 4)
    BY <1>2, <1>6, <1>10, <2>1
  <2>4. Sei!StartCode(i) = 3
    BY <1>3, <2>2, <2>3, StartCodeIs
  <2>5. Sei!At(i) = 0 /\ Sei!At(i + 1) = 0
    BY <2>2 DEF ZeroZeroOne
  <2>6. f[i] = IF v < z /\ Sei!GetSeiBuffer(v, z) # Sei!Nothing
               THEN Sei!GetSeiBuffer(v, z) ELSE f[v]
    BY <1>3, <1>6, <2>3, <2>4, <2>5, H265Code
  <2>7. v \in u .. to + 1
    BY <1>2, <1>6
  <2>8. f[i] = IF Sei!Accepted(c) THEN c ELSE f[to]
    BY <1>4, <1>6, <1>7, <1>8, <2>6, <2>7
  <2> QED
    BY <1>1, <1>9, <2>1, <2>8
<1>11. CASE u = from + 3
  <2>1. ~Sei!Accepted(c)
    <3>1. u # from + 4
      BY <1>2, <1>11
    <3> QED
      BY <1>4, <3>1
  <2>2. PICK i \in Nat : i = from + 1 /\ i <= u
    BY <1>2, <1>11
  <2>3. /\ Zeros = {j \in Nat : j + 4 < z /\ Sei!At(j) = 0 /\ Sei!At(j + 1) = 0}
        /\ Zeros \subseteq Nat
    BY <1>3, ZerosAre
  <2>4. ASSUME NEW j \in Nat, i <= j, j < u PROVE j \notin Zeros
    <3>1. j = from + 1 \/ j = from + 2
      BY <1>2, <1>11, <2>2, <2>4
    <3>2. Sei!At(from + 2) = 1 /\ (j = from + 1 => j + 1 = from + 2)
      BY <1>2, <1>11 DEF ZeroZeroOne
    <3> QED
      BY <2>3, <3>1, <3>2
  <2>5. From(Zeros, i) = From(Zeros, u)
    BY <1>2, <2>2, <2>3, <2>4, SameFrom
  <2>6. f[i] = f[u]
    BY <1>2, <2>5, H265Same
  <2>7. f[u] = f[to]
    <3>1. u \in u .. to + 1
      BY <1>2
    <3> QED
      BY <1>8, <2>1, <3>1
  <2> QED
    BY <1>1, <1>9, <2>1, <2>2, <2>6, <2>7
<1> QED
  BY <1>1, <1>2, <1>9, <1>10, <1>11

LEMMA H265Found ==
  ASSUME IsPacket, codec = "h265", isAnnexb, NEW n \in Nat, NEW at, Laid(at, n)
  PROVE  Sei!H265AnnexbRead = Sei!Wanted
<1>1. PICK f : Sei!H265AnnexbRead = f[0] /\ \A i \in Nat : f[i] = H265At(f, i)
  BY H265Means
<1>2. PICK z \in Nat : z = Size
  BY PacketMeans
<1>3. /\ n = Len(units) /\ at \in [1 .. n + 1 -> Nat] /\ at[1] = 0 /\ at[n + 1] = z
      /\ \A k \in 1 .. n : \E u : IsUnit(k, at[k], u, at[k + 1])
      /\ \A k \in 1 .. n : Sei!At(at[k + 1]) = 0
  BY <1>2 DEF Laid
<1>4. ASSUME NEW i \in Nat, i >= z PROVE f[i] = Sei!Nothing
  <2>1. ASSUME NEW j \in Zeros PROVE ~(j >= i)
    <3>1. j \in Nat /\ j + 4 < z
      BY <1>2, ZerosAre
    <3> QED
      BY <1>4, <3>1
  <2>2. From(Zeros, i) = {}
    BY <2>1 DEF From
  <2> QED
    BY <1>1, <2>2, H265Ends
<1>5. f[z] = Sei!Nothing /\ f[z + 1] = Sei!Nothing
  BY <1>4
<1>6. /\ Sei!Wanted = WantedFrom(1)
      /\ WantedFrom(n + 1) = Sei!Nothing
      /\ \A k \in 1 .. n : WantedFrom(k) = IF Sei!Accepted(units[k].content)
                                           THEN units[k].content ELSE WantedFrom(k + 1)
  BY <1>3, WantedMeans
<1> DEFINE S == {k \in 1 .. n + 1 : f[at[k]] = WantedFrom(k) /\ f[at[k] + 1] = WantedFrom(k)}
<1>7. n + 1 \in S
  BY <1>3, <1>5, <1>6
<1>8. ASSUME NEW k \in 1 .. n, k + 1 \in S PROVE k \in S
  <2>1. k \in 1 .. n + 1
    OBVIOUS
  <2>2. PICK u : IsUnit(k, at[k], u, at[k + 1])
    BY <1>3
  <2>3. PICK from, to : from = at[k] /\ to = at[k + 1]
    OBVIOUS
  <2>a. Sei!At(to) = 0
    BY <1>3, <2>3
  <2>4. f[to] = WantedFrom(k + 1) /\ f[to + 1] = WantedFrom(k + 1)
    BY <1>8, <2>3
  <2>5. /\ f[from] = IF Sei!Accepted(units[k].content) THEN units[k].content ELSE f[to]
        /\ f[from + 1] = f[from]
    BY <1>1, <2>2, <2>3, <2>4, <2>a, H265Step
  <2>6. f[from] = WantedFrom(k) /\ f[from + 1] = WantedFrom(k)
    BY <1>6, <2>4, <2>5, Zenon
  <2> QED
    BY <2>1, <2>3, <2>6
<1> HIDE DEF S
<1>9. 1 \in S
  BY <1>7, <1>8, Downward
<1> QED
  BY <1>1, <1>3, <1>6, <1>9 DEF S

(* What a reader makes of a packet.                                      *)
LEMMA ReadMeans == ASSUME Composed, units # <<>> PROVE Answer(Sei!Read)
<1>1. codec \in {"h264", "h265"} /\ isAnnexb \in BOOLEAN /\ IsPacket
  BY DEF Composed
<1>2. PICK n, at : n \in Nat /\ Laid(at, n)
  BY LaidOut
<1>3. n # 0
  <2>1. units \in Seq(AnyUnit) /\ n = Len(units)
    BY <1>2 DEF Composed, Laid
  <2> QED
    BY <2>1, EmptySeq
<1>4. Sei!Read \in Content
  <2>1. Sei!AvccRead \in Content
    BY <1>1, AvccMeans
  <2>2. Sei!H264AnnexbRead \in Content
    BY <1>1, H264Means
  <2>3. Sei!H265AnnexbRead \in Content
    BY <1>1, H265Means
  <2> QED
    BY <2>1, <2>2, <2>3 DEF Sei!Read
<1>5. ASSUME ~Sei!Ambiguous PROVE Sei!Read = Sei!Wanted
  <2>1. Sei!LooksAnnexb <=> isAnnexb
    BY <1>1, <1>2, <1>3, <1>5, GuessMeans
  <2>2. CASE ~isAnnexb
    BY <1>1, <1>2, <2>1, <2>2, AvccFound DEF Sei!Read
  <2>3. CASE isAnnexb /\ codec = "h264"
    BY <1>1, <1>2, <2>1, <2>3, H264Found DEF Sei!Read
  <2>4. CASE isAnnexb /\ codec = "h265"
    BY <1>1, <1>2, <2>1, <2>4, H265Found DEF Sei!Read
  <2> QED
    BY <1>1, <2>2, <2>3, <2>4
<1> QED
  BY <1>4, <1>5 DEF Answer, Content

LEMMA ComposedRead == ASSUME Composed, Sei!ReadPacket PROVE Composed'
<1>1. units # <<>> /\ found' = Sei!Read /\ UNCHANGED <<codec, isAnnexb, units, packet>>
  BY DEF Sei!ReadPacket
<1>2. PICK c : c = Sei!Read /\ Answer(c)
  BY <1>1, ReadMeans
<1> QED
  BY <1>1, <1>2, ComposedKept

(* The size allocated is that of what is written.                        *)
LEMMA SizeIs ==
  ASSUME codec = "h264", NEW c, IsBytes(c)
  PROVE  Len(Sei!SeiUnit(c)) = Sei!CalcNaluSize(Len(c))
<1>1. PICK h, q, n : OwnSizes(c, h, q, n)
  BY DEF OwnSizes
<1>2. UnitIs(Sei!SeiUnit(c), c, h, q, n)
  BY <1>1, UnitMeans DEF IsBytes, OwnSizes
<1>3. Len(Sei!SeiUnit(c)) = h + q + n + 3 /\ h = 1
  BY <1>2, HeaderMeans DEF UnitIs
<1>4. PICK l \in Nat : l = Len(c)
  BY BytesMeans
<1>5. n = 16 + l /\ q = n \div 255 /\ q = (l + 16) \div 255
  BY <1>1, <1>4 DEF OwnSizes
<1>6. Sei!CalcNaluSize(l) = 1 + 1 + (l + 16) \div 255 + 1 + l + 16 + 1
  BY UuidMeans DEF Sei!CalcNaluSize
<1>7. q \in Nat
  BY <1>5
<1>8. h + q + n + 3 = 1 + 1 + q + 1 + l + 16 + 1
  BY <1>3, <1>5, <1>7
<1> QED
  BY <1>3, <1>4, <1>5, <1>6, <1>8

LEMMA ComposedMeans == ASSUME Composed PROVE Sei!FirstFound
<1>1. Sei!TypeOK
  <2>1. found \in {Sei!Unread, Sei!Nothing} \cup Seq(Sei!Byte)
    BY DEF Composed, Answer
  <2> QED
    BY <2>1 DEF Composed, Sei!TypeOK, IsPacket
<1>2. found # Sei!Unread /\ ~Sei!Ambiguous => found = Sei!Wanted
  BY DEF Composed, Answer
<1>3. \A c \in Contents : codec = "h264" => Len(Sei!SeiUnit(c)) = Sei!CalcNaluSize(Len(c))
  BY SizeIs, SeiConstants
<1> QED
  BY <1>1, <1>2, <1>3 DEF Sei!FirstFound

(* The user data found in a packet are the first that were put into it,   *)
(* for any user data, any other units that are as the standards have     *)
(* them, either codec and either form, unless the packet is in AVCC and   *)
(* its first unit of an unlucky length; what is allocated for them is what *)
(* is written.                                                           *)
THEOREM FirstFoundCorrect == PartsSpec => []FirstFound
<1> DEFINE Inv == part = "sei" => Composed
<1>1. PartsInit => Inv
  BY ComposedInit DEF PartsInit
<1>2. Inv /\ [PartsNext]_<<part, vars, encoder, sei, buffer, stat>> => Inv'
  <2> SUFFICES ASSUME Composed, part = "sei",
                      [PartsNext]_<<part, vars, encoder, sei, buffer, stat>>
               PROVE  Composed'
    BY DEF PartsNext
  <2>1. \/ Sei!PutSei \/ Sei!PutUnit
        \/ Sei!ReadPacket
        \/ UNCHANGED sei
    BY DEF PartsNext, Sei!Next
  <2> QED
    BY <2>1, ComposedPut, ComposedRead, ComposedStays
<1>3. Inv => FirstFound
  BY ComposedMeans DEF FirstFound
<1> HIDE DEF Inv
<1> QED
  BY <1>1, <1>2, <1>3, PTL DEF PartsSpec
=============================================================================
