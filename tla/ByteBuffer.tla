----------------------------- MODULE ByteBuffer -----------------------------
(***************************************************************************)
(* otl::ByteBuffer (otl_baseclass.cpp): numbers are pushed at the back of  *)
(* a block of memory that grows, and popped at its back and at its front,  *)
(* and otl::Detection, which is written into such a buffer and read from   *)
(* it. A number is the sequence of its digits, a byte each, the most       *)
(* significant first; the machine stores the least significant first. The  *)
(* bytes of the values pushed are all different, so that it shows when one *)
(* is lost, doubled or in the wrong place.                                 *)
(***************************************************************************)
EXTENDS Integers, Sequences, SequencesExt

CONSTANTS
    Kinds,      \* the types of numbers that are pushed and popped
    FirstCap,   \* the bytes of a new buffer, 1024
    MaxBytes,   \* bound: the bytes pushed
    MaxBoxes,   \* bound: the boxes of a Detection, and of its reader before it
    Careful     \* whether pop is called for no more than size() bytes

Width == [int8 |-> 1, int16 |-> 2, int32 |-> 4, int64 |-> 8, float |-> 4, double |-> 8]

ByteBufferAssumption ==
    /\ Kinds \subseteq DOMAIN Width
    /\ FirstCap \in Nat \ {0}
    /\ MaxBytes \in Nat /\ MaxBoxes \in Nat
    /\ Careful \in BOOLEAN

VARIABLES
    buf,        \* the buffer: bytes (m_size of them), front and back offset
    pushed,     \* how many bytes were pushed
    held,       \* the bytes that should be in the buffer
    got,        \* what the last call returned
    due,        \* what it should have returned
    sent,       \* the boxes of the Detection in front of the buffer, if any
    m_bboxes    \* the boxes of the Detection that is read

vars == <<buf, pushed, held, got, due, sent, m_bboxes>>

Fails == <<>>
Byte(origin, n, i) == <<origin, n, i>>
Junk(n) == [i \in 1 .. n |-> Byte("junk", 0, 0)]

(* size() and the test of pop_front, where a difference below 0 becomes a  *)
(* large size_t.                                                           *)
Size(b) == b.back - b.front
FrontHas(b, n) == Size(b) < 0 \/ n <= Size(b)

(* check_underflow                                                         *)
BackHas(b, n) == n <= b.back

(* check_buffer: the capacity is doubled until there is room.              *)
Growing(start, need) ==
    LET size[i \in 0 .. need] == IF i = 0 THEN start ELSE 2 * size[i - 1]
    IN size

Capacity(b, need) ==
    LET old == Len(b.bytes)
        size == Growing(IF old = 0 THEN FirstCap ELSE old, need)
    IN IF need <= old THEN old
       ELSE size[CHOOSE i \in 0 .. need : /\ need <= size[i]
                                         /\ \A j \in 0 .. i - 1 : size[j] < need]

Room(b, need) == b.bytes \o Junk(Capacity(b, need) - Len(b.bytes))

(* push_internal                                                           *)
Stored(b, raw) ==
    LET need == b.back + Len(raw)
        room == Room(b, need)
    IN [bytes |-> [i \in 1 .. Len(room) |->
                      IF i \in b.back + 1 .. need THEN raw[i - b.back] ELSE room[i]],
        front |-> b.front, back |-> need]

(* htonl, or htons: the digits the other way round.                        *)
Swapped(v) == Reverse(v)

(* Definitions marked "Variant" are what a plausible slip would make of the *)
(* definition after them; no specification uses one. Variant: the two      *)
(* halves stay where they are.                                             *)
Swapped64_InPlace(v) == Swapped(SubSeq(v, 1, 4)) \o Swapped(SubSeq(v, 5, 8))

(* bm_htonll: the lower half becomes the upper one, and both are swapped.  *)
Swapped64(v) == Swapped(SubSeq(v, 5, 8)) \o Swapped(SubSeq(v, 1, 4))

(* What push_back makes of a number, and pop of what it read: the same     *)
(* exchange of digits, for integers of two bytes and more alone.           *)
Ordered(k, v) ==
    CASE k = "int64" -> Swapped64(v)
      [] k \in {"int16", "int32"} -> Swapped(v)
      [] OTHER -> v

Memory(v) == Reverse(v)
PushBack(b, k, v) == Stored(b, Memory(Ordered(k, v)))
Number(k, raw) == Ordered(k, Memory(raw))

(* pop_internal: what is read, and the buffer afterwards                   *)
PopRead(b, k) ==
    IF BackHas(b, Width[k])
    THEN Number(k, SubSeq(b.bytes, b.back - Width[k] + 1, b.back)) ELSE Fails
PopBuffer(b, k) == IF BackHas(b, Width[k]) THEN [b EXCEPT !.back = @ - Width[k]] ELSE b

(* pop_front_internal: once the back is before the front it reads on into  *)
(* whatever is there.                                                      *)
FrontRead(b, k) ==
    IF FrontHas(b, Width[k])
    THEN Number(k, [i \in 1 .. Width[k] |->
                       IF b.front + i <= Len(b.bytes) THEN b.bytes[b.front + i] ELSE Byte("junk", 0, 0)])
    ELSE Fails
FrontBuffer(b, k) == IF FrontHas(b, Width[k]) THEN [b EXCEPT !.front = @ + Width[k]] ELSE b

(* The constructors: an empty buffer, and a copy of bytes, whose capacity  *)
(* is 0 if there are none.                                                 *)
NewBuffer == [bytes |-> Junk(FirstCap), front |-> 0, back |-> 0]
CopyOf(raw) == [bytes |-> raw, front |-> 0, back |-> Len(raw)]
-----------------------------------------------------------------------------
(* The numbers a Detection is written as: its type, how many boxes it has, *)
(* and of each box four coordinates, a confidence and a class.             *)
Typed == [i \in 1 .. 4 |-> Byte("type", 0, i)]
Count(n) == [i \in 1 .. 4 |-> Byte("count", n, i)]
BoxKinds == <<"float", "float", "float", "float", "float", "int32">>
Field(box, f) == [i \in 1 .. 4 |-> Byte("box", 6 * box + f, i)]
Box(box) == [f \in 1 .. 6 |-> Field(box, f)]

Fields(boxes) ==
    <<<<"int32", Typed>>, <<"int32", Count(Len(boxes))>>>>
    \o [i \in 1 .. 6 * Len(boxes) |->
           LET f == ((i - 1) % 6) + 1 IN <<BoxKinds[f], boxes[(i - 1) \div 6 + 1][f]>>]

(* toByteBuffer: the buffer after so many of the numbers                   *)
Writing(fields) ==
    LET after[n \in 0 .. Len(fields)] ==
            IF n = 0 THEN NewBuffer ELSE PushBack(after[n - 1], fields[n][1], fields[n][2])
    IN after

ToByteBuffer(boxes) == Writing(Fields(boxes))[Len(Fields(boxes))]

(* fromByteBuffer: the numbers one after the other; a count that cannot be *)
(* read is 0. The boxes are put behind those the object has.               *)
Reading(b, kinds) ==
    LET after[n \in 0 .. Len(kinds)] ==
            IF n = 0 THEN [b |-> b, read |-> <<>>]
            ELSE LET r == after[n - 1]
                 IN [b |-> FrontBuffer(r.b, kinds[n]),
                     read |-> Append(r.read, FrontRead(r.b, kinds[n]))]
    IN after

ReadOn(b, kinds) == Reading(b, kinds)[Len(kinds)]

Boxes(numbers) == [j \in 1 .. Len(numbers) \div 6 |-> SubSeq(numbers, 6 * j - 5, 6 * j)]

FromByteBuffer(b) ==
    LET header == ReadOn(b, <<"int32", "int32">>)
        count == IF header.read[2] = Fails THEN 0
                 ELSE CHOOSE n \in 0 .. MaxBoxes : header.read[2] = Count(n)
        rest == ReadOn(header.b, [i \in 1 .. 6 * count |-> BoxKinds[((i - 1) % 6) + 1]])
    IN [b |-> rest.b, boxes |-> Boxes(rest.read)]
-----------------------------------------------------------------------------
(* How numbers should lie in the buffer: integers with the most            *)
(* significant byte first, floating point as the machine stores it.        *)
Wire(k, v) == IF k \in {"float", "double"} THEN Reverse(v) ELSE v

Laid(fields) ==
    [i \in 1 .. 4 * Len(fields) |->
        LET field == fields[(i - 1) \div 4 + 1] IN Wire(field[1], field[2])[((i - 1) % 4) + 1]]

Init ==
    /\ \E n \in {0, 3} : \E copy \in BOOLEAN :
        /\ held = [i \in 1 .. (IF copy THEN n ELSE 0) |-> Byte("copied", 0, i)]
        /\ buf = IF copy THEN CopyOf(held) ELSE NewBuffer
    /\ pushed = 0
    /\ got = Fails /\ due = Fails
    /\ sent = {}
    /\ m_bboxes = <<>>

(* push_back. Growing may fail, and then nothing changes.                  *)
Push(k) ==
    LET v == [i \in 1 .. Width[k] |-> Byte("pushed", pushed, i)]
    IN /\ pushed + Width[k] <= MaxBytes
       /\ pushed' = pushed + Width[k]
       /\ \/ /\ buf' = PushBack(buf, k, v)
             /\ held' = held \o Wire(k, v)
          \/ /\ Capacity(buf, buf.back + Width[k]) > Len(buf.bytes)
             /\ UNCHANGED <<buf, held>>
       /\ got' = Fails /\ due' = Fails
       /\ UNCHANGED <<sent, m_bboxes>>

(* pop, by a caller who looks at size() first or starts at the back of a   *)
(* buffer nothing was taken from in front, or by any caller.               *)
Pop(k) ==
    LET w == Width[k]
    IN /\ Careful => w <= Size(buf) \/ buf.front = 0
       /\ got' = PopRead(buf, k)
       /\ buf' = PopBuffer(buf, k)
       /\ IF w <= Len(held)
          THEN /\ due' = Wire(k, SubSeq(held, Len(held) - w + 1, Len(held)))
               /\ held' = SubSeq(held, 1, Len(held) - w)
          ELSE due' = Fails /\ held' = held
       /\ sent' = {}
       /\ UNCHANGED <<pushed, m_bboxes>>

(* pop_front                                                               *)
PopFront(k) ==
    LET w == Width[k]
    IN /\ got' = FrontRead(buf, k)
       /\ buf' = FrontBuffer(buf, k)
       /\ IF w <= Len(held)
          THEN /\ due' = Wire(k, SubSeq(held, 1, w))
               /\ held' = SubSeq(held, w + 1, Len(held))
          ELSE due' = Fails /\ held' = held
       /\ sent' = {}
       /\ UNCHANGED <<pushed, m_bboxes>>

(* A Detection is written into a new buffer, of which the receiver has a   *)
(* copy. As a bound, numbers are pushed after the last Detection only.     *)
Send(n) ==
    LET boxes == [j \in 1 .. n |-> Box(j)]
        made == ToByteBuffer(boxes)
    IN /\ pushed = 0
       /\ sent' = {boxes}
       /\ buf' = CopyOf(SubSeq(made.bytes, 1, made.back))
       /\ held' = Laid(Fields(boxes))
       /\ got' = Fails /\ due' = Fails
       /\ UNCHANGED <<pushed, m_bboxes>>

(* It is read into an object that may have boxes already, the whole of it, *)
(* whatever was pushed behind it.                                          *)
Receive ==
    \E boxes \in sent :
       /\ Len(m_bboxes) <= MaxBoxes
       /\ LET read == FromByteBuffer(buf)
          IN buf' = read.b /\ m_bboxes' = m_bboxes \o read.boxes
       /\ got' = m_bboxes' /\ due' = m_bboxes \o boxes
       /\ held' = SubSeq(held, 8 + 24 * Len(boxes) + 1, Len(held))
       /\ sent' = {}
       /\ pushed' = pushed

Next ==
    \/ \E k \in Kinds : Push(k) \/ Pop(k) \/ PopFront(k)
    \/ \E n \in 0 .. MaxBoxes : Send(n)
    \/ Receive

Spec == Init /\ [][Next]_vars
-----------------------------------------------------------------------------
TypeOK ==
    /\ buf.back \in Nat /\ buf.front \in Nat /\ buf.back <= Len(buf.bytes)
    /\ pushed \in 0 .. MaxBytes
    /\ Len(m_bboxes) <= 2 * MaxBoxes

(* Whatever is pushed and popped at the two ends, in whatever types, a     *)
(* number comes back as it was pushed, its bytes as the wire format has    *)
(* them, and a Detection with its boxes, over every growth of the memory,  *)
(* as long as pop is asked for no more than size() bytes.                  *)
ValuesComeBack ==
    /\ TypeOK
    /\ got = due
    /\ SubSeq(buf.bytes, buf.front + 1, buf.back) = held
=============================================================================
