------------------------------ MODULE StatTool ------------------------------
(***************************************************************************)
(* otl::StatTool (otl_timer.cpp): how fast a counter grows, from a ring of *)
(* records of which one is made a second at most. Times are in seconds; a  *)
(* call may come at any time, which is what makes the records irregular.   *)
(* One thread uses the tool.                                               *)
(***************************************************************************)
EXTENDS Integers, Sequences, SequencesExt

CONSTANTS
    mTotalLayers,   \* the records in the ring, 5 if nothing is said
    Second,         \* the units of time between two records
    Amounts,        \* what an update may add
    Start,          \* the time of the first call at the earliest
    MaxTime,        \* bound: the last time
    MaxCount        \* bound: the sum of all updates

StatAssumption ==
    /\ mTotalLayers \in Nat \ {0} /\ Second \in Nat \ {0}
    /\ Amounts \subseteq Nat
    /\ Start \in Nat \ {0} /\ MaxTime \in Nat /\ MaxCount \in Nat

Empty == [bytes |-> 0, timeMsec |-> 0]
Layers == 0 .. mTotalLayers - 1

VARIABLES
    mLayers, mCurrentIndex, mRecordCount, mStatisCount, mStatisUpdateLastTime,
    now,        \* getTimeMsec()
    total,      \* the sum of all updates
    records     \* the records since the last reset, oldest first

vars == <<mLayers, mCurrentIndex, mRecordCount, mStatisCount,
          mStatisUpdateLastTime, now, total, records>>

(* The constructor leaves mStatisUpdateLastTime as it finds it: it may     *)
(* seem that there was an update a moment ago, or in the future, or none.  *)
Init ==
    /\ mLayers = [i \in Layers |-> Empty]
    /\ mCurrentIndex = 0 /\ mRecordCount = 0 /\ mStatisCount = 0
    /\ mStatisUpdateLastTime \in -1 .. MaxTime
    /\ now = Start
    /\ total = 0 /\ records = <<>>

Tick ==
    /\ now < MaxTime
    /\ now' = now + 1
    /\ UNCHANGED <<mLayers, mCurrentIndex, mRecordCount, mStatisCount,
                   mStatisUpdateLastTime, total, records>>

(* The difference is unsigned: a time in the future is long ago.           *)
TooSoon ==
    /\ mStatisUpdateLastTime > 0
    /\ now - mStatisUpdateLastTime \in 0 .. Second - 1

(* update: what is counted between two records goes into the next one.     *)
Count(n) ==
    /\ total + n <= MaxCount
    /\ total' = total + n
    /\ mStatisCount' = mStatisCount + n

UpdateOnly(n) ==
    /\ TooSoon
    /\ Count(n)
    /\ UNCHANGED <<mLayers, mCurrentIndex, mRecordCount, mStatisUpdateLastTime, now, records>>

UpdateRecord(n) ==
    /\ ~TooSoon
    /\ Count(n)
    /\ mStatisUpdateLastTime' = now
    /\ mLayers' = [mLayers EXCEPT ![mCurrentIndex] =
                      [bytes |-> mStatisCount', timeMsec |-> now]]
    /\ mCurrentIndex' = (mCurrentIndex + 1) % mTotalLayers
    /\ mRecordCount' = IF mRecordCount < mTotalLayers THEN mRecordCount + 1 ELSE mRecordCount
    /\ records' = Append(records, [bytes |-> total', timeMsec |-> now])
    /\ now' = now

(* Definitions marked "Variant" are what a plausible slip would make of the *)
(* definition after them; no specification uses one. Variant: the index is *)
(* not set back.                                                           *)
Reset_KeepsIndex ==
    /\ mRecordCount' = 0
    /\ mLayers' = [i \in Layers |-> Empty]
    /\ records' = <<>>
    /\ UNCHANGED <<mCurrentIndex, mStatisCount, mStatisUpdateLastTime, now, total>>

(* reset: the records are forgotten, the count and the time of the last    *)
(* record go on.                                                           *)
Reset ==
    /\ mCurrentIndex' = 0 /\ mRecordCount' = 0
    /\ mLayers' = [i \in Layers |-> Empty]
    /\ records' = <<>>
    /\ UNCHANGED <<mStatisCount, mStatisUpdateLastTime, now, total>>

(* getSpeed divides the bytes between two records by the time between them *)
(* (0 by 0 when they are the same one).                                    *)
Newest == IF mRecordCount < mTotalLayers
          THEN IF mCurrentIndex > 0 THEN mCurrentIndex - 1 ELSE 0
          ELSE (mTotalLayers + mCurrentIndex - 1) % mTotalLayers
Oldest == IF mRecordCount < mTotalLayers THEN 0 ELSE mCurrentIndex

Speed == [byteDiff |-> mLayers[Newest].bytes - mLayers[Oldest].bytes,
          timeDiff |-> mLayers[Newest].timeMsec - mLayers[Oldest].timeMsec]

Next ==
    \/ Tick
    \/ \E n \in Amounts : UpdateOnly(n) \/ UpdateRecord(n)
    \/ Reset

Spec == Init /\ [][Next]_vars
-----------------------------------------------------------------------------
TypeOK ==
    /\ mLayers \in [Layers -> [bytes : Nat, timeMsec : Nat]]
    /\ mCurrentIndex \in Layers /\ mRecordCount \in 0 .. mTotalLayers

(* The records the speed should be computed from: as many of the last ones *)
(* as the ring holds.                                                      *)
Window == SubSeq(records, Len(records) - mRecordCount + 1, Len(records))

(* Once it has two records, the tool tells the growth and the time between *)
(* the first and the last record of its window, wherever the ring's index  *)
(* stands and through resets; two records are never less than a second     *)
(* apart, so that no speed divides by 0, and what is counted between two   *)
(* records is in the later one, whatever memory the constructor found.     *)
SpeedOfWindow ==
    /\ TypeOK
    /\ mRecordCount = IF Len(records) < mTotalLayers THEN Len(records) ELSE mTotalLayers
    /\ Len(Window) >= 2 =>
          Speed = [byteDiff |-> Last(Window).bytes - Head(Window).bytes,
                   timeDiff |-> Last(Window).timeMsec - Head(Window).timeMsec]
    /\ \A i \in 2 .. Len(records) :
          records[i].timeMsec - records[i - 1].timeMsec >= Second
=============================================================================
