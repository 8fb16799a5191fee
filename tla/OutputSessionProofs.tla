------------------------- MODULE OutputSessionProofs ------------------------
(* Theorems about the outputer and its sessions, for any number of         *)
(* packets, of sessions and of interleavings: the output thread never uses *)
(* a context that is not open, and what is seen of the packets is the      *)
(* stream that PacketStream promises.                                      *)
EXTENDS OutputSession, SequenceTheorems, TLAPS

(* The first packet of a sequence, and the others.                         *)
LEMMA HeadAndTail ==
  ASSUME NEW S, NEW s \in Seq(S), s # <<>>
  PROVE /\ Head(s) \in S /\ Tail(s) \in Seq(S)
        /\ s = <<Head(s)>> \o Tail(s)
BY HeadTailProperties, EmptySeq

(* An outputer that was just made has its types.                           *)
LEMMA TypeInit == Init => TypeOK
<1>1. 0 \in 0 .. MaxSessions /\ 0 \in 0 .. MaxPackets /\ <<>> \in Seq(Packets)
  BY OutputerAssumption
<1> QED
  BY <1>1 DEF Init, TypeOK

(* Every step of the owner, of the thread and of those who send packets    *)
(* keeps the types, and the thread has a packet in its hand exactly while  *)
(* it writes.                                                              *)
LEMMA TypeNext == TypeOK /\ [Next]_vars => TypeOK'
<1> SUFFICES ASSUME TypeOK, [Next]_vars PROVE TypeOK'
  OBVIOUS
<1>0. \A p \in Packets : p # NoPacket
  BY OutputerAssumption DEF Packets, NoPacket
<1>1. CASE InputPacket
  <2>1. input' \in 0 .. MaxPackets /\ input + 1 \in Packets
    BY <1>1, OutputerAssumption DEF InputPacket, TypeOK, Packets
  <2>2. Append(queue, input + 1) \in Seq(Packets)
    BY <2>1 DEF TypeOK
  <2>3. queue' \in Seq(Packets) /\ leaked' \subseteq Packets
    <3>1. shut => queue' = queue /\ leaked' = leaked \cup {input + 1}
      BY <1>1, Zenon DEF InputPacket
    <3>2. ~shut => queue' = Append(queue, input + 1) /\ leaked' = leaked
      BY <1>1 DEF InputPacket
    <3>3. queue \in Seq(Packets) /\ leaked \subseteq Packets
      BY DEF TypeOK
    <3> QED
      BY <2>1, <2>2, <3>1, <3>2, <3>3
  <2> QED
    BY <1>1, <2>1, <2>3 DEF InputPacket, TypeOK, states
<1>2. CASE OpenFails \/ Open
  BY <1>2, OutputerAssumption DEF OpenFails, Open, MayOpen, TypeOK, states, packets
<1>3. CASE CloseBegin \/ CloseStored \/ CloseQueue
  BY <1>3 DEF CloseBegin, CloseStored, CloseQueue, TypeOK, states, packets
<1>4. CASE CloseEnd
  <2>1. ToSet(queue) \subseteq Packets
    BY DEF TypeOK, ToSet
  <2>2. queue' \in Seq(Packets) /\ leaked' \subseteq Packets
    BY <1>4, <2>1, EmptySeq DEF CloseEnd, TypeOK
  <2> QED
    BY <1>4, <2>2 DEF CloseEnd, TypeOK, states
<1>5. CASE Start \/ Turn \/ ChangeState \/ WriteTrailer \/ Leave
  <2>1. CASE Start \/ Turn \/ Leave
    BY <2>1 DEF Start, Turn, Leave, TypeOK, states, packets
  <2>2. CASE ChangeState
    BY <2>2 DEF ChangeState, Reinitialize, TestRepeat, TypeOK, packets
  <2>3. CASE WriteTrailer
    BY <2>3 DEF WriteTrailer, TypeOK, states, packets
  <2> QED
    BY <1>5, <2>1, <2>2, <2>3
<1>6. CASE PopPacket
  <2>1. CASE queue = <<>>
    BY <1>6, <2>1 DEF PopPacket, TypeOK, states
  <2>2. CASE queue # <<>>
    <3>1. Head(queue) \in Packets /\ Tail(queue) \in Seq(Packets)
      BY <2>2, HeadAndTail DEF TypeOK
    <3> QED
      BY <1>0, <1>6, <2>2, <3>1 DEF PopPacket, TypeOK, states
  <2> QED
    BY <2>1, <2>2
<1>7. CASE WritePacket
  <2>1. hand \in Packets
    BY <1>7 DEF WritePacket, TypeOK
  <2>2. Append(written, hand) \in Seq(Packets)
    BY <2>1 DEF TypeOK
  <2> QED
    BY <1>7, <2>2 DEF WritePacket, TypeOK, states
<1>8. CASE Drain
  <2>1. Head(queue) \in Packets /\ Tail(queue) \in Seq(Packets)
    BY <1>8, HeadAndTail DEF Drain, TypeOK
  <2> QED
    BY <1>8, <2>1 DEF Drain, TypeOK, states
<1>9. CASE UNCHANGED vars
  BY <1>9 DEF vars, states, packets, TypeOK
<1> QED
  BY <1>1, <1>2, <1>3, <1>4, <1>5, <1>6, <1>7, <1>8, <1>9
     DEF Next, CloseStep, Output, OutputBesideWriting

(* Every reachable state of the outputer has its type.                     *)
THEOREM OutputerTypeCorrect == Spec => []TypeOK
BY TypeInit, TypeNext, PTL DEF Spec
-----------------------------------------------------------------------------
(* What ContextAlive needs to be inductive. Between two turns the flag of  *)
(* the thread tells whether the context still has to be closed, and the    *)
(* state "Service" that it has a header. Until the owner closes the thread *)
(* only serves; a close whose stores are seen in their order lets it drain *)
(* at once, and only one that is seen the other way round sends it to      *)
(* outputInitialize, where the header may be lost.                         *)
TurnsAlive ==
    /\ thread = "turn" => IF m_threadOutputIsRunning THEN ctx \in {"allocated", "header"}
                                                     ELSE ctx = "trailer"
    /\ thread = "turn" /\ m_threadOutputIsRunning /\ m_outputState = "Service"
          => ctx = "header"
    /\ thread \in {"initialize", "service", "writing", "down", "draining", "leaving"}
          => m_threadOutputIsRunning

ServesUntilClosed ==
    thread # "none" /\ owner = "idle" =>
        /\ thread \in {"starting", "turn", "service", "writing"}
        /\ thread = "turn" => m_threadOutputIsRunning
        /\ m_outputState = "Service"

SwappedFirst ==
    /\ owner = "stateDown" => swapped
    /\ thread # "none" /\ ~swapped =>
          /\ m_outputState # "Init" /\ thread # "initialize"
          /\ m_outputState = "Down" \/ thread = "down" => ~m_repeat
          /\ ctx \in {"header", "trailer"} /\ thread # "undefined"

Alive == ContextAlive /\ TurnsAlive /\ ServesUntilClosed /\ SwappedFirst

(* Each of the two stores of the close keeps it.                           *)
LEMMA AliveClose ==
  ASSUME Alive, CloseBegin \/ CloseStored \/ CloseQueue PROVE Alive'
<1>0. TypeOK /\ TypeOK'
  BY TypeNext DEF Alive, ContextAlive, Next, CloseStep
<1>1. CASE CloseBegin
  <2>1. CASE m_repeat' = FALSE /\ swapped' = FALSE /\ owner' = "repeatOff"
             /\ m_outputState' = m_outputState
    BY <1>0, <1>1, <2>1 DEF CloseBegin, Alive, ContextAlive, TurnsAlive, ServesUntilClosed,
                            SwappedFirst, packets
  <2>2. CASE m_outputState' = "Down" /\ swapped' = TRUE /\ owner' = "stateDown"
             /\ m_repeat' = m_repeat
    BY <1>0, <1>1, <2>2 DEF CloseBegin, Alive, ContextAlive, TurnsAlive, ServesUntilClosed,
                            SwappedFirst, packets
  <2> QED
    BY <1>1, <2>1, <2>2 DEF CloseBegin
<1>2. CASE CloseStored
  BY <1>0, <1>2 DEF CloseStored, Alive, ContextAlive, TurnsAlive, ServesUntilClosed,
                    SwappedFirst, packets
<1>3. CASE CloseQueue
  BY <1>0, <1>3 DEF CloseQueue, Alive, ContextAlive, TurnsAlive, ServesUntilClosed,
                    SwappedFirst, states, packets
<1> QED
  BY <1>1, <1>2, <1>3

(* So does each step of the thread.                                        *)
LEMMA AliveThread ==
  ASSUME Alive, Output PROVE Alive'
<1>0. TypeOK /\ TypeOK'
  BY TypeNext DEF Alive, ContextAlive, Next
<1>1. CASE Start \/ Turn
  BY <1>0, <1>1 DEF Start, Turn, Alive, ContextAlive, TurnsAlive, ServesUntilClosed,
                    SwappedFirst, TypeOK, states, packets
<1>2. CASE ChangeState
  <2>1. CASE Reinitialize
    BY <1>0, <1>2, <2>1 DEF ChangeState, Reinitialize, Alive, ContextAlive, TurnsAlive,
                            ServesUntilClosed, SwappedFirst
  <2>2. CASE TestRepeat
    BY <1>0, <1>2, <2>2 DEF ChangeState, TestRepeat, Alive, ContextAlive, TurnsAlive,
                            ServesUntilClosed, SwappedFirst
  <2> QED
    BY <1>2, <2>1, <2>2 DEF ChangeState
<1>3. CASE PopPacket \/ WritePacket \/ Drain
  BY <1>0, <1>3 DEF PopPacket, WritePacket, Drain, Alive, ContextAlive, TurnsAlive,
                    ServesUntilClosed, SwappedFirst, states
<1>4. CASE WriteTrailer \/ Leave
  BY <1>0, <1>4 DEF WriteTrailer, Leave, Alive, ContextAlive, TurnsAlive, ServesUntilClosed,
                    SwappedFirst, states, packets
<1> QED
  BY <1>1, <1>2, <1>3, <1>4 DEF Output, OutputBesideWriting

(* No step takes the context away from a thread that will use it.          *)
LEMMA AliveNext == Alive /\ [Next]_vars => Alive'
<1> SUFFICES ASSUME Alive, [Next]_vars PROVE Alive'
  OBVIOUS
<1>0. TypeOK /\ TypeOK'
  BY TypeNext DEF Alive, ContextAlive
<1>1. CASE InputPacket
  BY <1>0, <1>1 DEF InputPacket, Alive, ContextAlive, TurnsAlive, ServesUntilClosed,
                    SwappedFirst, states
<1>2. CASE OpenFails \/ Open
  BY <1>0, <1>2 DEF OpenFails, Open, MayOpen, Alive, ContextAlive, TurnsAlive,
                    ServesUntilClosed, SwappedFirst, states, packets
<1>3. CASE CloseEnd
  BY <1>0, <1>3 DEF CloseEnd, Alive, ContextAlive, TurnsAlive, ServesUntilClosed, SwappedFirst
<1>4. CASE UNCHANGED vars
  BY <1>0, <1>4 DEF vars, states, packets, Alive, ContextAlive, TurnsAlive, ServesUntilClosed,
                    SwappedFirst
<1> QED
  BY <1>1, <1>2, <1>3, <1>4, AliveClose, AliveThread DEF Next, CloseStep

(* The output thread writes packets only to a context that has its header  *)
(* and no trailer, and ends with the trailer written, however often the    *)
(* owner opens and closes; a trailer without a header takes a close whose  *)
(* stores are seen the other way round.                                    *)
THEOREM ContextCorrect == Spec => []ContextAlive
<1>1. Init => Alive
  BY TypeInit DEF Init, Alive, ContextAlive, TurnsAlive, ServesUntilClosed, SwappedFirst
<1>2. Alive => ContextAlive
  BY DEF Alive
<1> QED
  BY <1>1, <1>2, AliveNext, PTL DEF Spec
-----------------------------------------------------------------------------
(* Why packets are lost in a close only: the thread drains the queue, and  *)
(* leaves, and the queue is shut down, only between the two ends of        *)
(* closeOutputStream.                                                      *)
ClosedByOwner ==
    /\ shut \/ thread \in {"draining", "leaving", "ended"} => owner # "idle"
    /\ thread = "turn" /\ ~m_threadOutputIsRunning => owner # "idle"

(* Nothing but the owner's close makes the thread leave its loop.          *)
LEMMA ClosedByOwnerNext == Alive /\ ClosedByOwner /\ [Next]_vars => ClosedByOwner'
<1> SUFFICES ASSUME Alive, ClosedByOwner, [Next]_vars PROVE ClosedByOwner'
  OBVIOUS
<1>0. TypeOK /\ TurnsAlive /\ ServesUntilClosed
  BY DEF Alive, ContextAlive
<1>1. CASE InputPacket \/ Drain \/ PopPacket \/ WritePacket
  BY <1>0, <1>1 DEF InputPacket, Drain, PopPacket, WritePacket, ClosedByOwner,
                    TurnsAlive, states
<1>2. CASE OpenFails \/ Open
  BY <1>2 DEF OpenFails, Open, MayOpen, ClosedByOwner, states, packets
<1>3. CASE CloseBegin \/ CloseStored \/ CloseQueue
  BY <1>3 DEF CloseBegin, CloseStored, CloseQueue, ClosedByOwner, states, packets
<1>4. CASE CloseEnd
  BY <1>4 DEF CloseEnd, ClosedByOwner
<1>5. CASE Start \/ Turn \/ ChangeState
  BY <1>0, <1>5 DEF Start, Turn, ChangeState, Reinitialize, TestRepeat, ClosedByOwner,
                    TurnsAlive, ServesUntilClosed, states, packets
<1>6. CASE WriteTrailer \/ Leave
  BY <1>0, <1>6 DEF WriteTrailer, Leave, ClosedByOwner, ServesUntilClosed, states, packets
<1>7. CASE UNCHANGED vars
  BY <1>7 DEF vars, states, packets, ClosedByOwner
<1> QED
  BY <1>1, <1>2, <1>3, <1>4, <1>5, <1>6, <1>7
     DEF Next, CloseStep, Output, OutputBesideWriting

(* What a user of the outputer can see: the packets that wait, the one in  *)
(* the hand of the thread before all others.                               *)
Wait == (IF hand = NoPacket THEN <<>> ELSE <<hand>>) \o queue
Gone == discarded \cup leaked

(* With nothing in the hand it is the queue.                               *)
LEMMA WaitIsQueue ==
  ASSUME NEW q \in Seq(Packets)
  PROVE <<>> \o q = q
BY ConcatEmptySeq

(* A packet that is appended to the queue is appended to all that wait.    *)
LEMMA AppendToWait ==
  ASSUME NEW s \in Seq(Packets), NEW q \in Seq(Packets), NEW k \in Packets
  PROVE s \o Append(q, k) = Append(s \o q, k)
<1>1. Append(q, k) = q \o <<k>> /\ <<k>> \in Seq(Packets) /\ s \o q \in Seq(Packets)
  BY AppendIsConcat
<1>2. Append(s \o q, k) = (s \o q) \o <<k>>
  BY <1>1, AppendIsConcat
<1> QED
  BY <1>1, <1>2, ConcatAssociative

(* Head and tail of what waits while a packet is written.                  *)
LEMMA HandFirst ==
  ASSUME NEW h \in Packets, NEW q \in Seq(Packets)
  PROVE <<h>> \o q # <<>> /\ Head(<<h>> \o q) = h /\ Tail(<<h>> \o q) = q
<1> DEFINE s == <<h>> \o q
<1>1. <<h>> \in Seq(Packets) /\ Len(<<h>>) = 1 /\ s \in Seq(Packets) /\ Len(s) = 1 + Len(q)
  BY ConcatProperties
<1>2. s[1] = h /\ \A i \in 1 .. Len(q) : s[i + 1] = q[i]
  BY <1>1
<1>3. s # <<>>
  BY <1>1
<1>4. Tail(s) \in Seq(Packets) /\ Len(Tail(s)) = Len(q) /\ \A i \in 1 .. Len(q) : Tail(s)[i] = s[i + 1]
  BY <1>1, <1>3
<1> QED
  BY <1>1, <1>2, <1>3, <1>4

(* The steps of the outputer are those of the stream, or are not seen.     *)
LEMMA StreamNext ==
  Alive /\ ClosedByOwner /\ [Next]_vars =>
      [Stream!Next]_<<input, Wait, written, Gone, owner # "idle">>
<1> SUFFICES ASSUME Alive, ClosedByOwner, [Next]_vars
             PROVE  Stream!Next \/ UNCHANGED <<input, Wait, written, Gone, owner # "idle">>
  BY DEF Stream!Next, Stream!Accept, Stream!Refuse, Stream!Write, Stream!Lose,
         Stream!CloseBegin, Stream!CloseEnd
<1>0. TypeOK /\ queue \in Seq(Packets) /\ \A q \in Packets : q # NoPacket
  BY OutputerAssumption DEF Alive, ContextAlive, TypeOK, Packets, NoPacket
<1>1. CASE InputPacket
  <2>1. input + 1 \in Packets
    BY <1>0, <1>1, OutputerAssumption DEF InputPacket, TypeOK, Packets
  <2>2. CASE shut
    <3>1. owner # "idle"
      BY <2>2 DEF ClosedByOwner
    <3>2. Stream!Refuse
      BY <1>1, <2>2, <3>1 DEF InputPacket, Stream!Refuse
    <3> QED
      BY <3>2 DEF Stream!Next
  <2>3. CASE ~shut
    <3> DEFINE first == IF hand = NoPacket THEN <<>> ELSE <<hand>>
    <3>1. first \in Seq(Packets)
      <4>1. hand # NoPacket => <<hand>> \in Seq(Packets)
        BY <1>0 DEF TypeOK
      <4> QED
        BY <4>1, EmptySeq
    <3>2. Wait' = Append(Wait, input + 1)
      <4>1. Wait' = first \o Append(queue, input + 1)
        BY <1>1, <2>3 DEF InputPacket, Wait
      <4>2. Wait = first \o queue
        BY DEF Wait
      <4> HIDE DEF first
      <4> QED
        BY <1>0, <2>1, <3>1, <4>1, <4>2, AppendToWait
    <3>3. Stream!Accept
      BY <1>1, <2>3, <3>2 DEF InputPacket, Stream!Accept, Wait
    <3> QED
      BY <3>3 DEF Stream!Next
  <2> QED
    BY <2>2, <2>3
<1>2. CASE CloseBegin
  <2>1. Stream!CloseBegin
    BY <1>2 DEF CloseBegin, Stream!CloseBegin, packets
  <2> QED
    BY <2>1 DEF Stream!Next
<1>3. CASE CloseEnd
  <2>1. hand = NoPacket
    BY <1>0, <1>3 DEF CloseEnd, TypeOK
  <2>2. Wait = queue /\ Wait' = <<>>
    BY <1>0, <1>3, <2>1, WaitIsQueue, EmptySeq DEF CloseEnd, Wait
  <2>3. ToSet(queue) = Stream!ToSet(Wait)
    BY <2>2 DEF ToSet, Stream!ToSet
  <2>4. Stream!CloseEnd
    BY <1>3, <2>2, <2>3 DEF CloseEnd, Stream!CloseEnd, Wait
  <2> QED
    BY <2>4 DEF Stream!Next
<1>4. CASE PopPacket
  <2>1. hand = NoPacket /\ Wait = queue
    BY <1>0, <1>4, WaitIsQueue DEF PopPacket, TypeOK, Wait
  <2>2. CASE queue = <<>>
    BY <1>4, <2>2 DEF PopPacket, Wait, Gone
  <2>3. CASE queue # <<>>
    <3>1. Head(queue) \in Packets /\ queue = <<Head(queue)>> \o Tail(queue)
      BY <1>0, <2>3, HeadAndTail
    <3>2. Wait' = queue
      <4>1. hand' = Head(queue) /\ queue' = Tail(queue) /\ hand' # NoPacket
        BY <1>0, <1>4, <2>3, <3>1 DEF PopPacket
      <4>2. Wait' = <<hand'>> \o queue'
        BY <4>1 DEF Wait
      <4> QED
        BY <3>1, <4>1, <4>2
    <3> QED
      BY <1>4, <2>1, <3>2 DEF PopPacket, Gone
  <2> QED
    BY <2>2, <2>3
<1>5. CASE WritePacket
  <2>1. hand \in Packets /\ hand # NoPacket /\ hand' = NoPacket /\ queue' = queue
    BY <1>0, <1>5 DEF WritePacket, TypeOK
  <2>2. Wait = <<hand>> \o queue /\ Wait' = queue
    BY <1>0, <2>1, WaitIsQueue DEF Wait
  <2>3. Wait # <<>> /\ Head(Wait) = hand /\ Tail(Wait) = queue
    BY <1>0, <2>1, <2>2, HandFirst
  <2>4. Stream!Write
    BY <1>5, <2>2, <2>3 DEF WritePacket, Stream!Write, Wait
  <2> QED
    BY <2>4 DEF Stream!Next
<1>6. CASE Drain
  <2>1. hand = NoPacket /\ hand' = NoPacket /\ owner # "idle" /\ owner' = owner
    BY <1>0, <1>6 DEF Drain, TypeOK, ClosedByOwner
  <2>2. Tail(queue) \in Seq(Packets)
    BY <1>0, <1>6, HeadAndTail DEF Drain
  <2>3. Wait = queue /\ Wait' = Tail(queue)
    BY <1>0, <1>6, <2>1, <2>2, WaitIsQueue DEF Drain, Wait
  <2>4. Stream!Lose
    BY <1>6, <2>1, <2>3 DEF Drain, Stream!Lose, Wait
  <2> QED
    BY <2>4 DEF Stream!Next
<1>7. CASE OpenFails \/ Open \/ CloseStored \/ CloseQueue
  BY <1>7 DEF OpenFails, Open, CloseStored, CloseQueue, packets, Wait, Gone
<1>8. CASE Start \/ Turn \/ ChangeState \/ WriteTrailer \/ Leave
  BY <1>8 DEF Start, Turn, ChangeState, Reinitialize, TestRepeat, WriteTrailer, Leave,
              packets, Wait, Gone
<1>9. CASE UNCHANGED vars
  BY <1>9 DEF vars, packets, Wait, Gone
<1> QED
  BY <1>1, <1>2, <1>3, <1>4, <1>5, <1>6, <1>7, <1>8, <1>9
     DEF Next, CloseStep, Output, OutputBesideWriting

(* To those who send packets the outputer is the stream of PacketStream:   *)
(* packets are written in the order they came in, and are lost only        *)
(* between the two ends of closeOutputStream, whatever the steps of owner  *)
(* and thread.                                                             *)
THEOREM OutputerImplementsStream == Spec => ImplementsStream
<1>1. Init => Stream!Init
  BY EmptySeq, WaitIsQueue DEF Init, Stream!Init
<1>2. Init => Alive /\ ClosedByOwner
  BY TypeInit DEF Init, Alive, ContextAlive, TurnsAlive, ServesUntilClosed, SwappedFirst,
                  ClosedByOwner
<1>3. Alive /\ ClosedByOwner /\ [Next]_vars =>
        [Stream!Next]_<<input, (IF hand = NoPacket THEN <<>> ELSE <<hand>>) \o queue, written,
                        discarded \cup leaked, owner # "idle">>
  BY StreamNext DEF Wait, Gone
<1> QED
  BY <1>1, <1>2, <1>3, AliveNext, ClosedByOwnerNext, PTL DEF Spec, ImplementsStream, Stream!Spec
-----------------------------------------------------------------------------
(* A session is an outputer: timing the packets changes nothing else.      *)
LEMMA SessionSteps == [SNext]_svars => [Next]_vars
BY DEF SNext, svars, SetParameter, OpenStream, WriteSmoothed, Untimed, Next, Output

(* Whatever the smoother makes of the timestamps, the outputer in which it *)
(* is takes the steps of the outputer alone.                               *)
THEOREM SessionIsOutputer == SSpec => Spec
<1>1. SInit => Init
  BY DEF SInit
<1> QED
  BY <1>1, SessionSteps, PTL DEF SSpec, Spec

(* What was proved of the outputer holds with the smoother in it.          *)
THEOREM SessionCorrect == SSpec => []ContextAlive /\ ImplementsStream
BY SessionIsOutputer, ContextCorrect, OutputerImplementsStream, PTL
-----------------------------------------------------------------------------
(* What of the smoother the timestamps of a session rest on, whichever     *)
(* parameters it has.                                                      *)
Smooth ==
    /\ history \in Seq(Int) /\ base \in Int /\ offset \in Int
    /\ lastOut \in Nat \cup {NoPts}
    /\ base = NoPts <=> lastOut = NoPts

(* Parameters that are a mixture of presets.                               *)
LEMMA MixturesAreParameters ==
  ASSUME NEW p \in Mixtures
  PROVE  p.weight \in 1 .. Whole /\ p.maxJump \in Nat /\ p.minIncrement \in Nat \ {0}
BY SessionAssumption DEF Mixtures

(* The increment of the smoother is no less than its minimum.              *)
LEMMA IncrementMinimum ==
  ASSUME Smooth, NEW p \in Mixtures, NEW raw \in Int
  PROVE  /\ Smoother(p)!SmoothIncrement(raw) \in Int
         /\ Smoother(p)!SmoothIncrement(raw) >= p.minIncrement
<1>1. p.weight \in Int /\ p.minIncrement \in Nat /\ Whole \in Nat \ {0}
  BY MixturesAreParameters, SessionAssumption
<1>2. \A a \in Int : \A b \in Nat \ {0} : a \div b \in Int
  OBVIOUS
<1>3. Smoother(p)!AverageIncrement \in Int
  <2>1. CASE Len(history) >= 2
    <3>1. Len(history) \in Nat /\ 1 \in 1 .. Len(history) /\ Len(history) \in 1 .. Len(history)
      BY <2>1, LenProperties DEF Smooth
    <3>2. history[Len(history)] \in Int /\ history[1] \in Int
      BY <3>1, ElementOfSeq DEF Smooth
    <3>3. history[Len(history)] - history[1] \in Int /\ Len(history) - 1 \in Nat \ {0}
      BY <2>1, <3>1, <3>2
    <3> QED
      BY <1>2, <2>1, <3>3 DEF Smoother!AverageIncrement
  <2>2. CASE ~(Len(history) >= 2)
    BY <1>1, <2>2 DEF Smoother!AverageIncrement
  <2> QED
    BY <2>1, <2>2
<1>4. p.weight * raw + (Whole - p.weight) * Smoother(p)!AverageIncrement \in Int
  BY <1>1, <1>3
<1>5. (p.weight * raw + (Whole - p.weight) * Smoother(p)!AverageIncrement) \div Whole \in Int
  BY <1>1, <1>2, <1>4
<1> QED
  BY <1>1, <1>5 DEF Smoother!SmoothIncrement, Smoother!Most

(* A packet that follows others of its session is given a later timestamp, *)
(* and the first of a session is given 0.                                  *)
LEMMA TimedLater ==
  ASSUME Smooth, NEW p \in Mixtures,
         \/ Smoother(p)!Invent
         \/ \E pts \in Pts : Smoother(p)!First(pts) \/ Smoother(p)!Follow(pts)
  PROVE  Smooth' /\ lastOut' \in Nat /\ (IF lastOut = NoPts THEN lastOut' = 0 ELSE lastOut < lastOut')
<1>a. /\ p.minIncrement \in Nat \ {0} /\ NoPts \in Int /\ NoPts < 0
      /\ Pts \subseteq Int /\ NoPts \notin Pts
  BY MixturesAreParameters, SessionAssumption
<1>b. /\ history \in Seq(Int) /\ base \in Int /\ offset \in Int /\ lastOut \in Nat \cup {NoPts}
      /\ (base = NoPts <=> lastOut = NoPts)
  BY DEF Smooth
<1>c. ASSUME NEW out \in Nat, Smoother(p)!Output(out)
      PROVE  history' \in Seq(Int) /\ lastOut' = out /\ lastOut' # NoPts
  <2>1. lastOut' = out /\ history' = Smoother(p)!Remembered(out)
    BY <1>c DEF Smoother!Output
  <2>2. Append(history, out) \in Seq(Int) /\ Tail(Append(history, out)) \in Seq(Int)
    BY <1>b
  <2> QED
    BY <1>a, <2>1, <2>2 DEF Smoother!Remembered
<1>1. CASE Smoother(p)!Invent
  <2>1. CASE lastOut = NoPts
    BY <1>1, <1>a, <1>b, <1>c, <2>1 DEF Smoother!Invent, Smooth
  <2>2. CASE lastOut # NoPts
    <3>1. lastOut + p.minIncrement \in Nat /\ lastOut < lastOut + p.minIncrement
      BY <1>a, <1>b, <2>2
    <3>2. Smoother(p)!Output(lastOut + p.minIncrement) /\ base' = base /\ offset' = offset
      BY <1>1, <2>2 DEF Smoother!Invent
    <3> QED
      BY <1>b, <1>c, <2>2, <3>1, <3>2 DEF Smooth
  <2> QED
    BY <2>1, <2>2
<1>2. ASSUME NEW pts \in Pts, Smoother(p)!First(pts)
      PROVE  Smooth' /\ lastOut = NoPts /\ lastOut' = 0
  <2>1. base = NoPts /\ base' = pts /\ offset' = 0 /\ Smoother(p)!Output(0)
    BY <1>2 DEF Smoother!First
  <2>2. history' \in Seq(Int) /\ lastOut' = 0 /\ lastOut' # NoPts
    BY <1>c, <2>1
  <2> QED
    BY <1>a, <1>b, <2>1, <2>2 DEF Smooth
<1>3. ASSUME NEW pts \in Pts, Smoother(p)!Follow(pts)
      PROVE  Smooth' /\ lastOut # NoPts /\ lastOut < lastOut' /\ lastOut' \in Nat
  <2> DEFINE out == Smoother(p)!Increasing(pts)
             raw == Smoother(p)!Relative(pts) - lastOut
  <2>1. base # NoPts /\ base' = Smoother(p)!NewBase(pts) /\ offset' = Smoother(p)!NewOffset(pts)
        /\ Smoother(p)!Output(out)
    BY <1>3 DEF Smoother!Follow
  <2>2. lastOut \in Nat
    BY <1>b, <2>1
  <2>3. Smoother(p)!NewBase(pts) \in Int \ {NoPts} /\ Smoother(p)!NewOffset(pts) \in Int
    BY <1>a, <1>b, <2>1, <2>2 DEF Smoother!NewBase, Smoother!NewOffset
  <2>4. Smoother(p)!Relative(pts) \in Int /\ raw \in Int
    BY <1>a, <2>2, <2>3 DEF Smoother!Relative
  <2>5. Smoother(p)!SmoothIncrement(raw) \in Int /\ Smoother(p)!SmoothIncrement(raw) >= p.minIncrement
    BY <2>4, IncrementMinimum
  <2>6. out \in Nat /\ lastOut < out
    BY <1>a, <2>2, <2>4, <2>5 DEF Smoother!Increasing
  <2> HIDE DEF out, raw
  <2>7. history' \in Seq(Int) /\ lastOut' = out /\ lastOut' # NoPts
    BY <1>c, <2>1, <2>6
  <2> QED
    BY <1>b, <2>1, <2>2, <2>3, <2>6, <2>7 DEF Smooth
<1> QED
  BY <1>1, <1>2, <1>3

(* The inductive invariant for SessionsTimed: no timestamp is of a session *)
(* to come, and while a stream is open the smoother is at the last         *)
(* timestamp of its session, or at its start if no packet of that session  *)
(* has been written.                                                       *)
Stamp == [session : Nat, pts : Nat]

TimesIncrease ==
    /\ Len(stamps) = Len(written)
    /\ \A i \in 1 .. Len(stamps) :
          IF i > 1 /\ stamps[i - 1].session = stamps[i].session
          THEN stamps[i - 1].pts < stamps[i].pts
          ELSE stamps[i].pts = 0

Latest ==
    /\ stamps # <<>> => stamps[Len(stamps)].session <= opened
    /\ \/ thread = "none"
       \/ /\ lastOut = NoPts
          /\ stamps # <<>> => stamps[Len(stamps)].session < opened
       \/ /\ stamps # <<>>
          /\ stamps[Len(stamps)].session = opened
          /\ stamps[Len(stamps)].pts = lastOut

Timed == TypeOK /\ Smooth /\ stamps \in Seq(Stamp) /\ TimesIncrease /\ Latest

(* An opening, which may fail, begins another session.                     *)
LEMMA OpeningTimed == ASSUME Timed, OpenStream PROVE Timed'
<1>1. TypeOK' /\ opened' = opened + 1 /\ written' = written /\ stamps' = stamps
  <2>1. Next
    BY DEF OpenStream, Next
  <2> QED
    BY <2>1, TypeNext DEF OpenStream, OpenFails, Open, packets, Timed
<1>2. ASSUME NEW p \in Mixtures, Smoother(p)!Reset
      PROVE  history' = <<>> /\ lastOut' = NoPts /\ base' = NoPts /\ offset' = 0
  BY <1>2 DEF Smoother!Reset
<1>3. Smooth'
  <2>1. CASE OpenFails /\ ctx' = ctx /\ UNCHANGED smoothing
    BY <2>1 DEF Timed, Smooth, smoothing
  <2>2. CASE ~(OpenFails /\ ctx' = ctx /\ UNCHANGED smoothing)
    <3>1. PICK p \in Mixtures : p = params /\ Smoother(p)!Reset
      BY <2>2 DEF OpenStream
    <3>2. history' = <<>> /\ lastOut' = NoPts /\ base' = NoPts /\ offset' = 0
      BY <1>2, <3>1
    <3> QED
      BY <3>2, SessionAssumption, EmptySeq DEF Smooth
  <2> QED
    BY <2>1, <2>2
<1>4. Latest'
  <2>1. opened \in Nat
    BY OutputerAssumption DEF Timed, TypeOK
  <2>2. ASSUME stamps # <<>> PROVE stamps[Len(stamps)].session < opened + 1
    <3>1. Len(stamps) \in 1 .. Len(stamps)
      BY <2>2, LenProperties, EmptySeq DEF Timed
    <3>2. stamps[Len(stamps)] \in Stamp
      BY <3>1, ElementOfSeq DEF Timed
    <3>3. stamps[Len(stamps)].session \in Nat
      BY <3>2 DEF Stamp
    <3> QED
      BY <2>1, <2>2, <3>3 DEF Timed, Latest
  <2>3. stamps # <<>> => stamps[Len(stamps)].session <= opened + 1
    <3>1. ASSUME stamps # <<>> PROVE stamps[Len(stamps)].session \in Nat
      <4>1. Len(stamps) \in 1 .. Len(stamps)
        BY <3>1, LenProperties, EmptySeq DEF Timed
      <4>2. stamps[Len(stamps)] \in Stamp
        BY <4>1, ElementOfSeq DEF Timed
      <4> QED
        BY <4>2 DEF Stamp
    <3> QED
      BY <2>1, <2>2, <3>1
  <2>4. CASE thread' = "none"
    BY <1>1, <2>3, <2>4 DEF Latest
  <2>5. CASE thread' # "none"
    <3>1. lastOut' = NoPts
      BY <1>2, <2>5 DEF OpenStream, OpenFails, MayOpen
    <3> QED
      BY <1>1, <2>2, <2>3, <3>1 DEF Latest
  <2> QED
    BY <2>4, <2>5
<1> QED
  BY <1>1, <1>3, <1>4 DEF Timed, TimesIncrease

(* A packet that is written gets the next timestamp of its session.        *)
LEMMA WritingTimed == ASSUME Timed, WriteSmoothed PROVE Timed'
<1> DEFINE n == Len(stamps)
           s == [session |-> opened, pts |-> lastOut']
<1>1. TypeOK' /\ opened' = opened /\ hand \in Packets /\ thread # "none"
  <2>1. WritePacket /\ Next
    BY DEF WriteSmoothed, Next, Output
  <2> QED
    BY <2>1, TypeNext DEF WritePacket, Timed, TypeOK
<1>2. Smooth' /\ lastOut' \in Nat /\ (IF lastOut = NoPts THEN lastOut' = 0 ELSE lastOut < lastOut')
  BY TimedLater DEF WriteSmoothed, Timed
<1>3. s \in Stamp /\ stamps \in Seq(Stamp) /\ n \in Nat
  BY <1>2, LenProperties, OutputerAssumption DEF Stamp, Timed, TypeOK
<1>4. stamps' = Append(stamps, s) /\ written' = Append(written, hand)
  BY DEF WriteSmoothed, WritePacket
<1>5. s.session = opened /\ s.pts = lastOut'
  OBVIOUS
<1> HIDE DEF s
<1>6. /\ stamps' \in Seq(Stamp) /\ Len(stamps') = n + 1 /\ stamps'[n + 1] = s
      /\ \A i \in 1 .. n : stamps'[i] = stamps[i]
  BY <1>3, <1>4, AppendProperties
<1>7. Len(written') = Len(written) + 1
  BY <1>1, <1>4, AppendProperties DEF Timed, TypeOK
<1>8. n > 0 <=> stamps # <<>>
  BY <1>3, EmptySeq
<1>9. IF n + 1 > 1 /\ stamps'[n].session = s.session THEN stamps'[n].pts < s.pts ELSE s.pts = 0
  <2>1. CASE lastOut = NoPts
    <3>1. n > 0 => stamps'[n].session # s.session
      <4>1. n > 0 => stamps[n].session \in Nat /\ stamps[n].pts \in Nat /\ stamps'[n] = stamps[n]
        <5>1. n > 0 => n \in 1 .. n /\ stamps[n] \in Stamp
          BY <1>3, ElementOfSeq
        <5> QED
          BY <1>6, <5>1 DEF Stamp
      <4>2. NoPts < 0 /\ NoPts \in Int /\ opened \in Nat
        BY SessionAssumption, OutputerAssumption DEF Timed, TypeOK
      <4> QED
        BY <1>1, <1>5, <1>8, <2>1, <4>1, <4>2 DEF Timed, Latest
    <3> QED
      BY <1>2, <1>3, <1>5, <2>1, <3>1
  <2>2. CASE lastOut # NoPts
    BY <1>1, <1>2, <1>3, <1>5, <1>6, <1>8, <2>2 DEF Timed, Latest
  <2> QED
    BY <2>1, <2>2
<1>10. TimesIncrease'
  <2>1. ASSUME NEW i \in 1 .. n + 1
        PROVE  IF i > 1 /\ stamps'[i - 1].session = stamps'[i].session
               THEN stamps'[i - 1].pts < stamps'[i].pts
               ELSE stamps'[i].pts = 0
    <3>1. CASE i = n + 1
      BY <1>3, <1>6, <1>9, <3>1
    <3>2. CASE i \in 1 .. n
      <4>1. stamps'[i] = stamps[i] /\ (i > 1 => stamps'[i - 1] = stamps[i - 1])
        BY <1>3, <1>6, <3>2
      <4> QED
        BY <3>2, <4>1 DEF Timed, TimesIncrease
    <3> QED
      BY <1>3, <3>1, <3>2
  <2> QED
    BY <1>6, <1>7, <2>1 DEF Timed, TimesIncrease
<1>11. Latest'
  <2>1. opened \in Nat
    BY OutputerAssumption DEF Timed, TypeOK
  <2> QED
    BY <1>1, <1>3, <1>5, <1>6, <2>1, EmptySeq DEF Latest
<1> QED
  BY <1>1, <1>2, <1>6, <1>10, <1>11 DEF Timed

(* Every step of a session keeps the timestamps in order.                  *)
LEMMA TimedNext == Timed /\ [SNext]_svars => Timed'
<1> SUFFICES ASSUME Timed, [SNext]_svars PROVE Timed'
  OBVIOUS
<1>1. TypeOK'
  BY SessionSteps, TypeNext DEF Timed
<1>2. CASE SetParameter \/ Untimed \/ UNCHANGED svars
  <2>1. UNCHANGED <<smoothing, stamps, written, opened>> /\ (thread = "none" => thread' = "none")
    BY <1>2 DEF SetParameter, Untimed, svars, vars, packets, InputPacket, CloseBegin, CloseStep,
                CloseStored, CloseQueue, CloseEnd, OutputBesideWriting, Start, Turn, ChangeState,
                Reinitialize, TestRepeat, PopPacket, Drain, WriteTrailer, Leave
  <2> QED
    BY <1>1, <2>1 DEF smoothing, Timed, Smooth, TimesIncrease, Latest
<1> QED
  BY <1>2, OpeningTimed, WritingTimed DEF SNext

(* Each session's timestamps start at 0 and increase, whenever packets     *)
(* were handed over, whichever parameters were set in between, one field   *)
(* at a time, and whichever openings failed.                               *)
THEOREM SessionsTimedCorrect == SSpec => []SessionsTimed
<1>1. ASSUME SInit PROVE Timed
  <2> USE <1>1
  <2>1. /\ TypeOK /\ stamps = <<>> /\ written = <<>>
        /\ history = <<>> /\ lastOut = NoPts /\ base = NoPts /\ offset = 0
    <3>1. Init /\ stamps = <<>>
      BY DEF SInit
    <3>2. history = <<>> /\ lastOut = NoPts /\ base = NoPts /\ offset = 0
      BY DEF SInit, Smoother!Init
    <3>3. TypeOK /\ written = <<>>
      BY <3>1, TypeInit DEF Init
    <3> QED
      BY <3>1, <3>2, <3>3
  <2> QED
    BY <2>1, SessionAssumption DEF Timed, Smooth, TimesIncrease, Latest
<1>2. Timed => SessionsTimed
  BY DEF Timed, TimesIncrease, SessionsTimed
<1> QED
  BY <1>1, <1>2, TimedNext, PTL DEF SSpec
=============================================================================
