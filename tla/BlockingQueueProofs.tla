------------------------ MODULE BlockingQueueProofs ------------------------
(***************************************************************************)
(* The blocking queue is correct for every number of producers and         *)
(* consumers, every limit and every batch size. Its steps refine those of  *)
(* the abstract channel, so it inherits order, conservation and capacity,  *)
(* which are proved of the channel first; that nobody waits without a      *)
(* reason is an inductive invariant of the queue itself.                   *)
(***************************************************************************)
EXTENDS BlockingQueue, FiniteSetTheorems, SequenceTheorems, TLAPS

(* What holds of the abstract channel whatever its parameters: order,      *)
(* conservation and capacity. The three need one another: an item is new   *)
(* because everything sent so far is accounted for, and the items shed are *)
(* none of those kept because the order is strict.                         *)
CTypeOK ==
    /\ queue \in Seq(Channel!Item)
    /\ m_stop \in BOOLEAN
    /\ sent \in [Producers -> Nat]
    /\ delivered \in Seq(Channel!Item)
    /\ evicted \subseteq Channel!Item

(* Concatenation as an operator the provers do not look into unless told.  *)
Join(s, t) == s \o t

CInv == CTypeOK /\ Channel!Fifo /\ Channel!Conserved /\ Channel!Capacity

(* Concatenation is associative.                                           *)
LEMMA Regroup ==
    \A S : \A s, a, b \in Seq(S) : (s \o a) \o b = s \o (a \o b)
BY ConcatAssociative

(* Moving the first items of a sequence to the end of the one before it    *)
(* changes nothing in the concatenation of the two: what Receive does.     *)
LEMMA MoveFront ==
    ASSUME NEW S, NEW s \in Seq(S), NEW t \in Seq(S), NEW n \in 1 .. Len(t)
    PROVE  /\ SubSeq(t, 1, n) \in Seq(S)
           /\ SubSeq(t, n + 1, Len(t)) \in Seq(S)
           /\ Join(Join(s, SubSeq(t, 1, n)), SubSeq(t, n + 1, Len(t))) = Join(s, t)
<1>1. SubSeq(t, 1, n) \in Seq(S) /\ SubSeq(t, n + 1, Len(t)) \in Seq(S)
  BY SubSeqProperties
<1>2. SubSeq(t, 1, n) \o SubSeq(t, n + 1, Len(t)) = t
  BY ConcatAdjacentSubSeq, SubSeqFull
<1>3. PICK a \in Seq(S), b \in Seq(S) :
         a = SubSeq(t, 1, n) /\ b = SubSeq(t, n + 1, Len(t))
  BY <1>1
<1>4. (s \o a) \o b = s \o (a \o b)
  BY ONLY s \in Seq(S), a \in Seq(S), b \in Seq(S), Regroup, SMTT(30)
<1>5. s \o (a \o b) = s \o t
  BY ONLY <1>2, <1>3
<1>6. (s \o SubSeq(t, 1, n)) \o SubSeq(t, n + 1, Len(t)) = s \o t
  BY ONLY <1>3, <1>4, <1>5
<1> QED BY <1>1, <1>6 DEF Join

(* The positions of a concatenation, told apart by the part they are in.   *)
LEMMA TailIndex ==
    ASSUME NEW S, NEW d \in Seq(S), NEW s \in Seq(S)
    PROVE  LET h == d \o s
           IN  /\ h \in Seq(S) /\ Len(h) = Len(d) + Len(s)
               /\ \A i \in 1 .. Len(d) : i \in 1 .. Len(h) /\ h[i] = d[i]
               /\ \A k \in 1 .. Len(s) :
                     Len(d) + k \in 1 .. Len(h) /\ h[Len(d) + k] = s[k]
               /\ \A i \in 1 .. Len(h) :
                     i \in 1 .. Len(d) \/ \E k \in 1 .. Len(s) : i = Len(d) + k
<1> DEFINE h == d \o s
<1>1. /\ h \in Seq(S) /\ Len(h) = Len(d) + Len(s)
      /\ \A i \in 1 .. Len(d) + Len(s) :
            h[i] = IF i <= Len(d) THEN d[i] ELSE s[i - Len(d)]
  BY ConcatProperties
<1>2. Len(d) \in Nat /\ Len(s) \in Nat
  OBVIOUS
<1> HIDE DEF h
<1>3. \A i \in 1 .. Len(d) : i \in 1 .. Len(h) /\ h[i] = d[i]
  BY <1>1, <1>2
<1>4. \A k \in 1 .. Len(s) : Len(d) + k \in 1 .. Len(h) /\ h[Len(d) + k] = s[k]
  <2> TAKE k \in 1 .. Len(s)
  <2>1. Len(d) + k \in 1 .. Len(h) /\ ~(Len(d) + k <= Len(d)) /\ (Len(d) + k) - Len(d) = k
    BY <1>1, <1>2
  <2> QED BY <2>1, <1>1
<1>5. \A i \in 1 .. Len(h) : i \in 1 .. Len(d) \/ \E k \in 1 .. Len(s) : i = Len(d) + k
  <2> TAKE i \in 1 .. Len(h)
  <2>1. i \in 1 .. Len(d) \/ (i - Len(d) \in 1 .. Len(s) /\ i = Len(d) + (i - Len(d)))
    BY <1>1, <1>2
  <2> QED BY <2>1
<1> QED BY <1>1, <1>3, <1>4, <1>5 DEF h

(* Thinning out the tail s of an ordered sequence, by a strictly rising    *)
(* choice m of the positions that stay, leaves it ordered and splits its   *)
(* items into those that stay and those that go: what SendShedding and     *)
(* Discard do.                                                             *)
Thins(m, kept, s, gone) ==
    /\ m \in [1 .. Len(kept) -> 1 .. Len(s)]
    /\ \A i, j \in 1 .. Len(kept) : i < j => m[i] < m[j]
    /\ \A i \in 1 .. Len(kept) : kept[i] = s[m[i]]
    /\ gone = {s[i] : i \in {k \in 1 .. Len(s) :
                                \A j \in 1 .. Len(kept) : m[j] # k}}

(* A history stays ordered, and splits into what stays and what goes,      *)
(* when the sequence at its end is thinned.                                *)
LEMMA ThinnedTail ==
    ASSUME NEW d \in Seq(Channel!Item), NEW s \in Seq(Channel!Item),
           NEW kept \in Seq(Channel!Item),
           NEW m, NEW gone, Thins(m, kept, s, gone), Channel!Ordered(Join(d, s))
    PROVE  /\ Channel!Ordered(Join(d, kept))
           /\ Channel!ToSet(Join(d, kept)) \cup gone = Channel!ToSet(Join(d, s))
           /\ Channel!ToSet(Join(d, kept)) \cap gone = {}
<1> DEFINE h == d \o s
           g == d \o kept
           at == [i \in 1 .. Len(g) |->
                    IF i <= Len(d) THEN i ELSE Len(d) + m[i - Len(d)]]
<1>1. /\ Len(d) \in Nat /\ Len(s) \in Nat /\ Len(kept) \in Nat
      /\ \A j \in 1 .. Len(kept) : m[j] \in 1 .. Len(s) /\ kept[j] = s[m[j]]
      /\ \A i, j \in 1 .. Len(kept) : i < j => m[i] < m[j]
  BY DEF Thins
<1>0. gone = {s[i] : i \in {k \in 1 .. Len(s) : \A j \in 1 .. Len(kept) : m[j] # k}}
  BY DEF Thins
<1>2. /\ h \in Seq(Channel!Item) /\ Len(h) = Len(d) + Len(s)
      /\ \A i \in 1 .. Len(d) : i \in 1 .. Len(h) /\ h[i] = d[i]
      /\ \A k \in 1 .. Len(s) : Len(d) + k \in 1 .. Len(h) /\ h[Len(d) + k] = s[k]
      /\ \A i \in 1 .. Len(h) :
            i \in 1 .. Len(d) \/ \E k \in 1 .. Len(s) : i = Len(d) + k
  BY TailIndex
<1>3. /\ g \in Seq(Channel!Item) /\ Len(g) = Len(d) + Len(kept)
      /\ \A i \in 1 .. Len(d) : i \in 1 .. Len(g) /\ g[i] = d[i]
      /\ \A j \in 1 .. Len(kept) : Len(d) + j \in 1 .. Len(g) /\ g[Len(d) + j] = kept[j]
      /\ \A i \in 1 .. Len(g) :
            i \in 1 .. Len(d) \/ \E j \in 1 .. Len(kept) : i = Len(d) + j
  BY TailIndex
<1>4. /\ \A i \in 1 .. Len(d) : at[i] = i
      /\ \A j \in 1 .. Len(kept) : at[Len(d) + j] = Len(d) + m[j]
  <2>1. ASSUME NEW i \in 1 .. Len(d) PROVE at[i] = i
    BY <1>1, <1>3
  <2>2. ASSUME NEW j \in 1 .. Len(kept) PROVE at[Len(d) + j] = Len(d) + m[j]
    <3>1. Len(d) + j \in 1 .. Len(g) /\ ~(Len(d) + j <= Len(d)) /\ (Len(d) + j) - Len(d) = j
      BY <1>1, <1>3
    <3> QED BY <3>1
  <2> QED BY <2>1, <2>2
<1> HIDE DEF h, g, at
<1>5. \A i \in 1 .. Len(g) : at[i] \in 1 .. Len(h) /\ g[i] = h[at[i]]
  <2> TAKE i \in 1 .. Len(g)
  <2>1. CASE i \in 1 .. Len(d)
    BY <2>1, <1>2, <1>3, <1>4
  <2>2. ASSUME NEW j \in 1 .. Len(kept), i = Len(d) + j
        PROVE  at[i] \in 1 .. Len(h) /\ g[i] = h[at[i]]
    <3>1. PICK k \in 1 .. Len(s) : m[j] = k /\ kept[j] = s[k]
      BY <1>1
    <3>2. at[i] = Len(d) + k /\ g[i] = s[k]
      BY <2>2, <3>1, <1>3, <1>4
    <3> QED BY <3>2, <1>2
  <2> QED BY <2>1, <2>2, <1>3
<1>7. \A i, j \in 1 .. Len(g) : i < j => at[i] < at[j]
  <2> SUFFICES ASSUME NEW i \in 1 .. Len(g), NEW j \in 1 .. Len(g), i < j
               PROVE  at[i] < at[j]
    OBVIOUS
  <2>1. CASE j \in 1 .. Len(d)
    <3>1. i \in 1 .. Len(d)
      BY <2>1, <1>1, <1>3
    <3> QED BY <2>1, <3>1, <1>4
  <2>2. CASE i \in 1 .. Len(d) /\ j \notin 1 .. Len(d)
    <3> PICK n \in 1 .. Len(kept) : j = Len(d) + n
      BY <2>2, <1>3
    <3>1. PICK k \in 1 .. Len(s) : m[n] = k
      BY <1>1
    <3>2. at[i] = i /\ at[j] = Len(d) + k
      BY <2>2, <3>1, <1>4
    <3> QED BY <2>2, <3>2, <1>1
  <2>3. CASE i \notin 1 .. Len(d)
    <3>1. PICK k \in 1 .. Len(kept) : i = Len(d) + k
      BY <2>3, <1>3
    <3>2. j \notin 1 .. Len(d)
      BY <3>1, <1>1
    <3>3. PICK n \in 1 .. Len(kept) : j = Len(d) + n
      BY <3>2, <1>3
    <3>4. m[k] < m[n] /\ m[k] \in Nat /\ m[n] \in Nat
      BY <3>1, <3>3, <1>1
    <3>5. at[i] = Len(d) + m[k] /\ at[j] = Len(d) + m[n]
      BY <3>1, <3>3, <1>4
    <3> QED BY <3>4, <3>5, <1>1
  <2> QED BY <2>1, <2>2, <2>3
<1>8. Channel!Ordered(g)
  <2> SUFFICES ASSUME NEW i \in 1 .. Len(g), NEW j \in 1 .. Len(g),
                      i < j, g[i].from = g[j].from
               PROVE  g[i].num < g[j].num
    BY DEF Channel!Ordered
  <2>1. Channel!Ordered(h)
    BY DEF h, Join
  <2>2. /\ at[i] \in 1 .. Len(h) /\ g[i] = h[at[i]]
        /\ at[j] \in 1 .. Len(h) /\ g[j] = h[at[j]]
        /\ at[i] < at[j]
    BY <1>5, <1>7
  <2> QED BY <2>1, <2>2, Zenon DEF Channel!Ordered
<1>9. \A k \in 1 .. Len(h) :
         (\E i \in 1 .. Len(g) : at[i] = k) \/ h[k] \in gone
  <2> SUFFICES ASSUME NEW k \in 1 .. Len(s)
               PROVE  \/ \E i \in 1 .. Len(g) : at[i] = Len(d) + k
                      \/ h[Len(d) + k] \in gone
    <3> TAKE i \in 1 .. Len(h)
    <3>1. CASE i \in 1 .. Len(d)
      BY <3>1, <1>3, <1>4
    <3>2. CASE \E k \in 1 .. Len(s) : i = Len(d) + k
      BY <3>2
    <3> QED BY <3>1, <3>2, <1>2
  <2>1. CASE \E j \in 1 .. Len(kept) : m[j] = k
    BY <2>1, <1>3, <1>4, Zenon
  <2>2. CASE \A j \in 1 .. Len(kept) : m[j] # k
    BY <2>2, <1>0, <1>2
  <2> QED BY <2>1, <2>2
<1>10. \A x \in gone : \E k \in 1 .. Len(h) :
          h[k] = x /\ \A i \in 1 .. Len(g) : at[i] # k
  <2> TAKE x \in gone
  <2>1. PICK k \in 1 .. Len(s) : s[k] = x /\ \A j \in 1 .. Len(kept) : m[j] # k
    BY <1>0
  <2>2. ASSUME NEW i \in 1 .. Len(d) PROVE at[i] # Len(d) + k
    BY <1>1, <1>4
  <2>3. ASSUME NEW j \in 1 .. Len(kept) PROVE at[Len(d) + j] # Len(d) + k
    <3>1. PICK n \in 1 .. Len(s) : m[j] = n /\ n # k
      BY <2>1, <1>1
    <3>2. at[Len(d) + j] = Len(d) + n
      BY <3>1, <1>4
    <3> QED BY <3>1, <3>2, <1>1
  <2>4. \A i \in 1 .. Len(g) : at[i] # Len(d) + k
    <3> TAKE i \in 1 .. Len(g)
    <3>1. CASE \E j \in 1 .. Len(kept) : i = Len(d) + j
      BY <3>1, <2>3
    <3> QED BY <3>1, <2>2, <1>3
  <2> QED BY <2>1, <2>4, <1>2
<1>11. /\ Channel!ToSet(g) = {g[i] : i \in 1 .. Len(g)}
       /\ Channel!ToSet(h) = {h[i] : i \in 1 .. Len(h)}
  BY <1>2, <1>3, LenProperties DEF Channel!ToSet
<1>12. Channel!ToSet(g) \cup gone = Channel!ToSet(h)
  <2>1. ASSUME NEW i \in 1 .. Len(g) PROVE g[i] \in Channel!ToSet(h)
    BY <1>5, <1>11
  <2>2. ASSUME NEW x \in gone PROVE x \in Channel!ToSet(h)
    <3> PICK k \in 1 .. Len(h) : h[k] = x
      BY <1>10
    <3> QED BY <1>11
  <2>3. ASSUME NEW x \in Channel!ToSet(h), x \notin gone PROVE x \in Channel!ToSet(g)
    <3>1. PICK k \in 1 .. Len(h) : h[k] = x
      BY <1>11
    <3>2. PICK i \in 1 .. Len(g) : at[i] = k
      BY <2>3, <3>1, <1>9
    <3>3. g[i] = x
      BY <3>1, <3>2, <1>5
    <3> QED BY <3>3, <1>11
  <2>4. \A x \in Channel!ToSet(g) : x \in Channel!ToSet(h)
    BY <2>1, <1>11
  <2> QED BY ONLY <2>2, <2>3, <2>4, Zenon
<1>13. \A i, j \in 1 .. Len(h) : h[i] = h[j] => i = j
  <2>1. ASSUME NEW i \in 1 .. Len(h), NEW j \in 1 .. Len(h), i < j
        PROVE  h[i] # h[j]
    <3>1. h[i] \in Channel!Item /\ h[j] \in Channel!Item /\ Channel!Ordered(h)
      BY <1>2, ElementOfSeq DEF h, Join
    <3>2. h[i].from = h[j].from => h[i].num < h[j].num
      BY <2>1, <3>1 DEF Channel!Ordered
    <3> QED BY <3>1, <3>2 DEF Channel!Item
  <2>2. \A i, j \in 1 .. Len(h) : i = j \/ i < j \/ j < i
    OBVIOUS
  <2> QED BY <2>1, <2>2
<1>14. Channel!ToSet(g) \cap gone = {}
  <2> SUFFICES ASSUME NEW i \in 1 .. Len(g), g[i] \in gone PROVE FALSE
    BY <1>11
  <2> PICK k \in 1 .. Len(h) : h[k] = g[i] /\ at[i] # k
    BY <1>10
  <2> QED BY <1>5, <1>13
<1> QED BY <1>8, <1>12, <1>14 DEF h, g, Join
-----------------------------------------------------------------------------
(* A new item is younger than all those of its producer.                   *)
LEMMA NewIsYoungest ==
    ASSUME CTypeOK, Channel!Conserved, NEW p \in Producers
    PROVE  /\ Channel!NextItem(p) \in Channel!Item /\ Channel!NextItem(p).from = p
           /\ \A it \in Channel!Sent : it.from = p => it.num < Channel!NextItem(p).num
           /\ Channel!NextItem(p) \notin Channel!Sent
<1>1. sent[p] \in Nat
  BY DEF CTypeOK
<1>2. /\ Channel!NextItem(p) = [from |-> p, num |-> sent[p] + 1]
      /\ Channel!NextItem(p).from = p /\ Channel!NextItem(p).num = sent[p] + 1
      /\ Channel!NextItem(p) \in Channel!Item
  BY <1>1 DEF Channel!NextItem, Channel!Item
<1>3. ASSUME NEW it \in Channel!Sent, it.from = p PROVE it.num < Channel!NextItem(p).num
  <2>1. PICK k \in 1 .. sent[p] : it.num = k
    <3>1. PICK q \in Producers : it \in {[from |-> q, num |-> k] : k \in 1 .. sent[q]}
      BY Zenon DEF Channel!Sent
    <3>2. PICK k \in 1 .. sent[q] : it = [from |-> q, num |-> k]
      BY <3>1
    <3> QED BY <3>2, <1>3
  <2> QED BY <2>1, <1>1, <1>2
<1>4. Channel!NextItem(p) \notin Channel!Sent
  BY <1>1, <1>2, <1>3
<1> QED BY <1>2, <1>3, <1>4

(* What sending to a thinned channel does to the history: its last item is *)
(* the new one.                                                            *)
LEMMA AppendYoungest ==
    ASSUME NEW h \in Seq(Channel!Item), Channel!Ordered(h), NEW it \in Channel!Item,
           \A x \in Channel!ToSet(h) : x.from = it.from => x.num < it.num
    PROVE  /\ Append(h, it) \in Seq(Channel!Item)
           /\ Channel!Ordered(Append(h, it))
           /\ Channel!ToSet(Append(h, it)) = Channel!ToSet(h) \cup {it}
<1> DEFINE g == Append(h, it)
<1>1. /\ g \in Seq(Channel!Item) /\ Len(g) = Len(h) + 1 /\ Len(h) \in Nat
      /\ \A i \in 1 .. Len(h) : g[i] = h[i]
      /\ g[Len(h) + 1] = it
  BY AppendProperties
<1> HIDE DEF g
<1>2. \A i \in 1 .. Len(h) : h[i] \in Channel!ToSet(h)
  BY LenProperties DEF Channel!ToSet
<1>3. Channel!Ordered(g)
  <2> SUFFICES ASSUME NEW i \in 1 .. Len(g), NEW j \in 1 .. Len(g),
                      i < j, g[i].from = g[j].from
               PROVE  g[i].num < g[j].num
    BY DEF Channel!Ordered
  <2>1. CASE j = Len(h) + 1
    <3>1. i \in 1 .. Len(h) /\ g[i] = h[i] /\ g[j] = it
      BY <2>1, <1>1
    <3> QED BY <3>1, <1>2
  <2>2. CASE j # Len(h) + 1
    <3>1. /\ i \in 1 .. Len(h) /\ g[i] = h[i]
          /\ j \in 1 .. Len(h) /\ g[j] = h[j]
      BY <2>2, <1>1
    <3> QED BY <3>1 DEF Channel!Ordered
  <2> QED BY <2>1, <2>2
<1>4. /\ Channel!ToSet(g) = {g[i] : i \in 1 .. Len(g)}
      /\ Channel!ToSet(h) = {h[i] : i \in 1 .. Len(h)}
  BY <1>1, LenProperties DEF Channel!ToSet
<1>5. \A x : x \in Channel!ToSet(g) <=> x \in Channel!ToSet(h) \cup {it}
  <2>1. ASSUME NEW x, x \in Channel!ToSet(g) PROVE x \in Channel!ToSet(h) \cup {it}
    <3> PICK i \in 1 .. Len(g) : g[i] = x
      BY <2>1, <1>4
    <3> QED BY <1>1, <1>2
  <2>2. ASSUME NEW x, x \in Channel!ToSet(h) PROVE x \in Channel!ToSet(g)
    <3> PICK i \in 1 .. Len(h) : h[i] = x
      BY <2>2, <1>4
    <3>1. i \in 1 .. Len(g) /\ g[i] = x
      BY <1>1
    <3> QED BY <3>1, <1>4
  <2>3. it \in Channel!ToSet(g)
    <3>1. Len(h) + 1 \in 1 .. Len(g)
      BY <1>1
    <3> QED BY <3>1, <1>1, <1>4
  <2> QED BY <2>1, <2>2, <2>3
<1> QED BY <1>1, <1>3, <1>5 DEF g

(* The new item joins the items sent so far, and nothing else does.        *)
LEMMA SentGrows ==
    ASSUME CTypeOK, NEW p \in Producers,
           sent' = [sent EXCEPT ![p] = @ + 1]
    PROVE  Channel!Sent' = Channel!Sent \cup {Channel!NextItem(p)}
<1>1. sent[p] \in Nat /\ sent'[p] = sent[p] + 1
  BY DEF CTypeOK
<1>2. \A q \in Producers : q # p => sent'[q] = sent[q]
  BY DEF CTypeOK
<1>3. 1 .. sent'[p] = (1 .. sent[p]) \cup {sent[p] + 1}
  BY <1>1
<1> DEFINE of(q, n) == {[from |-> q, num |-> k] : k \in 1 .. n}
<1>4. of(p, sent'[p]) = of(p, sent[p]) \cup {Channel!NextItem(p)}
  BY <1>3 DEF Channel!NextItem
<1>5. Channel!Sent = UNION {of(q, sent[q]) : q \in Producers}
  BY DEF Channel!Sent
<1>6. Channel!Sent' = UNION {of(q, sent'[q]) : q \in Producers}
  BY DEF Channel!Sent
<1> HIDE DEF of
<1>7. \A x : x \in Channel!Sent' <=> x \in Channel!Sent \cup {Channel!NextItem(p)}
  <2>1. ASSUME NEW x, x \in Channel!Sent' PROVE x \in Channel!Sent \cup {Channel!NextItem(p)}
    <3> PICK q \in Producers : x \in of(q, sent'[q])
      BY <2>1, <1>6, Zenon
    <3>1. CASE q = p
      BY <3>1, <1>4, <1>5
    <3>2. CASE q # p
      BY <3>2, <1>2, <1>5
    <3> QED BY <3>1, <3>2
  <2>2. ASSUME NEW x, x \in Channel!Sent PROVE x \in Channel!Sent'
    <3> PICK q \in Producers : x \in of(q, sent[q])
      BY <2>2, <1>5, Zenon
    <3>1. CASE q = p
      BY <3>1, <1>4, <1>6
    <3>2. CASE q # p
      BY <3>2, <1>2, <1>6
    <3> QED BY <3>1, <3>2
  <2>3. Channel!NextItem(p) \in Channel!Sent'
    BY <1>4, <1>6
  <2> QED BY <2>1, <2>2, <2>3
<1> QED BY <1>7
-----------------------------------------------------------------------------
(* An empty channel keeps every promise.                                   *)
LEMMA InitHolds == ASSUME Channel!ChannelAssumption, Channel!CInit PROVE CInv
<1>1. CTypeOK
  <2>1. queue \in Seq(Channel!Item) /\ delivered \in Seq(Channel!Item)
    BY EmptySeq DEF Channel!CInit
  <2> QED BY <2>1 DEF Channel!CInit, CTypeOK
<1>2. Channel!History = <<>>
  BY DEF Channel!CInit, Channel!History
<1>3. Channel!Fifo
  BY <1>2 DEF Channel!Fifo, Channel!Ordered
<1>4. Channel!Sent = {}
  <2> SUFFICES ASSUME NEW x \in Channel!Sent PROVE FALSE
    OBVIOUS
  <2> PICK q \in Producers : x \in {[from |-> q, num |-> k] : k \in 1 .. sent[q]}
    BY Zenon DEF Channel!Sent
  <2> QED BY DEF Channel!CInit
<1>5. Channel!Conserved
  BY <1>2, <1>4 DEF Channel!CInit, Channel!Conserved, Channel!ToSet
<1>6. Channel!Capacity
  BY DEF Channel!CInit, Channel!Capacity, Channel!Bounded, Channel!ChannelAssumption
<1> QED BY <1>1, <1>3, <1>5, <1>6 DEF CInv

(* A send to a channel with room appends an item younger than all of its   *)
(* producer.                                                               *)
LEMMA SendKeeps ==
    ASSUME Channel!ChannelAssumption, CInv, NEW p \in Producers, Channel!Send(p)
    PROVE  CInv'
<1> DEFINE it == Channel!NextItem(p)
<1>1. /\ it \in Channel!Item /\ it \notin Channel!Sent /\ it.from = p
      /\ \A x \in Channel!Sent : x.from = it.from => x.num < it.num
  BY NewIsYoungest DEF CInv
<1>2. CTypeOK'
  BY <1>1, AppendProperties DEF CInv, CTypeOK, Channel!Send
<1>3. Channel!History \in Seq(Channel!Item)
  BY DEF CInv, CTypeOK, Channel!History
<1>4. Channel!History' = Append(Channel!History, it)
  BY <1>1 DEF CInv, CTypeOK, Channel!History, Channel!Send
<1>5. Channel!ToSet(Channel!History) \subseteq Channel!Sent
  BY DEF CInv, Channel!Conserved
<1>6. /\ Channel!Ordered(Append(Channel!History, it))
      /\ Channel!ToSet(Append(Channel!History, it)) = Channel!ToSet(Channel!History) \cup {it}
  BY <1>1, <1>3, <1>5, AppendYoungest DEF CInv, Channel!Fifo
<1>7. Channel!Sent' = Channel!Sent \cup {it}
  BY SentGrows DEF CInv, Channel!Send
<1>8. Channel!Fifo'
  BY <1>4, <1>6 DEF Channel!Fifo
<1>9. Channel!Conserved'
  <2>1. evicted' = evicted
    BY DEF Channel!Send
  <2> QED BY <2>1, <1>1, <1>4, <1>6, <1>7 DEF CInv, Channel!Conserved
<1>10. Channel!Capacity'
  BY <1>1, AppendProperties
        DEF CInv, CTypeOK, Channel!Capacity, Channel!Bounded, Channel!Send,
            Channel!ChannelAssumption
<1> QED BY <1>2, <1>8, <1>9, <1>10 DEF CInv

(* What shedding spares is a thinning of the channel.                      *)
LEMMA SparedThins ==
    ASSUME NEW s \in Seq(Channel!Item), NEW n \in 0 .. Len(s),
           NEW at \in [1 .. n -> 1 .. Len(s)], Channel!Spared(at, Len(s))
    PROVE  LET kept == [i \in 1 .. n |-> s[at[i]]]
               gone == {s[k] : k \in 1 .. Len(s) \ Channel!Range(at)}
           IN  kept \in Seq(Channel!Item) /\ Len(kept) = n /\ Thins(at, kept, s, gone)
<1> DEFINE kept == [i \in 1 .. n |-> s[at[i]]]
           gone == {s[k] : k \in 1 .. Len(s) \ Channel!Range(at)}
<1>1. n \in Nat /\ Len(s) \in Nat /\ Len(at) = n
  OBVIOUS
<1>2. \A i \in 1 .. n : at[i] \in 1 .. Len(s) /\ s[at[i]] \in Channel!Item
  BY ElementOfSeq
<1>3. kept \in Seq(Channel!Item) /\ Len(kept) = n
  BY <1>1, <1>2
<1>4. \A i, j \in 1 .. n : i < j => at[i] < at[j]
  BY <1>1 DEF Channel!Spared
<1>5. 1 .. Len(s) \ Channel!Range(at) = {k \in 1 .. Len(s) : \A j \in 1 .. Len(kept) : at[j] # k}
  BY <1>3 DEF Channel!Range
<1>6. gone = {s[i] : i \in {k \in 1 .. Len(s) : \A j \in 1 .. Len(kept) : at[j] # k}}
  BY <1>5
<1>7. Thins(at, kept, s, gone)
  BY <1>3, <1>4, <1>6 DEF Thins
<1> QED BY <1>3, <1>7

(* A send that sheds moves half of the channel to the evicted items.       *)
LEMMA SendSheddingKeeps ==
    ASSUME Channel!ChannelAssumption, CInv, NEW p \in Producers, Channel!SendShedding(p)
    PROVE  CInv'
<1>0. PICK n \in 0 .. Len(queue) : \E at \in [1 .. n -> 1 .. Len(queue)] :
         /\ Channel!Spared(at, Len(queue))
         /\ queue' = Append([i \in 1 .. n |-> queue[at[i]]], Channel!NextItem(p))
         /\ evicted' = evicted \cup {queue[k] : k \in 1 .. Len(queue) \ Channel!Range(at)}
  BY DEF Channel!SendShedding
<1>a. PICK at \in [1 .. n -> 1 .. Len(queue)] :
         /\ Channel!Spared(at, Len(queue))
         /\ queue' = Append([i \in 1 .. n |-> queue[at[i]]], Channel!NextItem(p))
         /\ evicted' = evicted \cup {queue[k] : k \in 1 .. Len(queue) \ Channel!Range(at)}
  BY <1>0
<1> DEFINE it == Channel!NextItem(p)
           kept == [i \in 1 .. n |-> queue[at[i]]]
           gone == {queue[k] : k \in 1 .. Len(queue) \ Channel!Range(at)}
           h == Join(delivered, kept)
<1>1. /\ it \in Channel!Item /\ it \notin Channel!Sent /\ it.from = p
      /\ \A x \in Channel!Sent : x.from = it.from => x.num < it.num
  BY NewIsYoungest DEF CInv
<1>2. /\ queue \in Seq(Channel!Item) /\ delivered \in Seq(Channel!Item)
      /\ evicted \subseteq Channel!Item
      /\ Channel!Ordered(Join(delivered, queue))
      /\ Channel!ToSet(Join(delivered, queue)) \cup evicted = Channel!Sent
      /\ Channel!ToSet(Join(delivered, queue)) \cap evicted = {}
  BY DEF CInv, CTypeOK, Channel!Fifo, Channel!Conserved, Channel!History, Join
<1>3. kept \in Seq(Channel!Item) /\ Len(kept) = n /\ Thins(at, kept, queue, gone)
  BY <1>a, <1>2, SparedThins
<1>b. 2 * n \in {Len(queue), Len(queue) + 1}
  <2>1. Len(at) = n
    OBVIOUS
  <2> QED BY <1>a, <2>1 DEF Channel!Spared
<1>7. /\ queue' = Append(kept, it) /\ delivered' = delivered /\ m_stop' = m_stop
      /\ evicted' = evicted \cup gone /\ sent' = [sent EXCEPT ![p] = @ + 1]
      /\ DropFn /\ Channel!Bounded /\ Len(queue) >= Limit
  BY <1>a DEF Channel!SendShedding
<1> HIDE DEF it, kept, gone
<1>4. /\ Channel!Ordered(h)
      /\ Channel!ToSet(h) \cup gone = Channel!ToSet(Join(delivered, queue))
      /\ Channel!ToSet(h) \cap gone = {}
  BY <1>2, <1>3, ThinnedTail
<1>5. h \in Seq(Channel!Item) /\ Channel!ToSet(h) \subseteq Channel!Sent
  BY <1>2, <1>3, <1>4, ConcatProperties DEF Join
<1>6. /\ Channel!Ordered(Append(h, it))
      /\ Channel!ToSet(Append(h, it)) = Channel!ToSet(h) \cup {it}
  BY <1>1, <1>4, <1>5, AppendYoungest
<1>8. Channel!History' = Append(h, it)
  BY <1>1, <1>2, <1>3, <1>7 DEF Channel!History, Join
<1>9. Channel!Sent' = Channel!Sent \cup {it}
  BY <1>7, SentGrows DEF CInv, it
<1>10. CTypeOK'
  <2>1. gone \subseteq Channel!Item
    <3>1. Channel!ToSet(Join(delivered, queue)) \subseteq Channel!Item
      BY <1>2, ConcatProperties, ElementOfSeq, LenProperties DEF Channel!ToSet, Join
    <3> QED BY <3>1, <1>4
  <2> QED BY <2>1, <1>1, <1>3, <1>7, AppendProperties DEF CInv, CTypeOK
<1>11. Channel!Fifo'
  BY <1>6, <1>8 DEF Channel!Fifo
<1>12. Channel!Conserved'
  BY <1>1, <1>2, <1>4, <1>6, <1>7, <1>8, <1>9 DEF Channel!Conserved
<1>13. Channel!Capacity'
  <2>1. /\ Len(queue') = n + 1 /\ Len(queue) \in Nat /\ n \in Nat
        /\ 2 * n = Len(queue) \/ 2 * n = Len(queue) + 1
    BY <1>1, <1>2, <1>3, <1>7, <1>b, AppendProperties
  <2>2. Len(queue) <= Limit \/ Len(queue) <= 2
    BY <1>7 DEF CInv, Channel!Capacity
  <2>3. Limit \in Nat /\ Limit > 0
    BY <1>7 DEF Channel!Bounded, Channel!ChannelAssumption
  <2>4. Len(queue') <= Limit \/ Len(queue') <= 2
    BY <2>1, <2>2, <2>3
  <2> QED BY <2>4, <1>7 DEF Channel!Capacity
<1> QED BY <1>10, <1>11, <1>12, <1>13 DEF CInv

(* A reception moves items within the history.                             *)
LEMMA ReceiveKeeps ==
    ASSUME Channel!ChannelAssumption, CInv, Channel!Receive
    PROVE  CInv'
<1>1. PICK n \in 1 .. Len(queue) :
         /\ delivered' = delivered \o SubSeq(queue, 1, n)
         /\ queue' = SubSeq(queue, n + 1, Len(queue))
         /\ UNCHANGED <<m_stop, sent, evicted>>
  BY DEF Channel!Receive
<1>2. queue \in Seq(Channel!Item) /\ delivered \in Seq(Channel!Item)
  BY DEF CInv, CTypeOK
<1>3. /\ Channel!History' = Channel!History
      /\ queue' \in Seq(Channel!Item) /\ delivered' \in Seq(Channel!Item)
  <2>1. SubSeq(queue, 1, n) \in Seq(Channel!Item)
    BY <1>2, MoveFront
  <2>2. queue' \in Seq(Channel!Item) /\ delivered' \in Seq(Channel!Item)
    BY <2>1, <1>1, <1>2, MoveFront, ConcatProperties
  <2>3. Join(Join(delivered, SubSeq(queue, 1, n)), SubSeq(queue, n + 1, Len(queue)))
           = Join(delivered, queue)
    BY <1>2, MoveFront
  <2>4. Channel!History' = Channel!History
    BY ONLY <2>3, <1>1 DEF Channel!History, Join
  <2> QED BY <2>2, <2>4
<1>4. Len(queue') <= Len(queue) /\ Len(queue) \in Nat /\ Len(queue') \in Nat
  BY <1>1, <1>2
<1>5. CTypeOK'
  BY <1>1, <1>3 DEF CInv, CTypeOK
<1>6. Channel!Fifo' /\ Channel!Conserved'
  BY <1>1, <1>3 DEF CInv, Channel!Fifo, Channel!Conserved, Channel!Sent
<1>7. Channel!Capacity'
  BY <1>1, <1>4 DEF CInv, Channel!Capacity, Channel!Bounded, Channel!ChannelAssumption
<1> QED BY <1>5, <1>6, <1>7 DEF CInv

(* A discard moves the oldest items to the evicted ones.                   *)
LEMMA DiscardKeeps ==
    ASSUME Channel!ChannelAssumption, CInv, Channel!Discard
    PROVE  CInv'
<1>1. PICK n \in 1 .. Len(queue) :
         /\ evicted' = evicted \cup {queue[i] : i \in 1 .. n}
         /\ queue' = SubSeq(queue, n + 1, Len(queue))
         /\ UNCHANGED <<m_stop, sent, delivered>>
  BY DEF Channel!Discard
<1> DEFINE kept == SubSeq(queue, n + 1, Len(queue))
           gone == {queue[i] : i \in 1 .. n}
           m == [i \in 1 .. Len(kept) |-> n + i]
<1>2. /\ queue \in Seq(Channel!Item) /\ delivered \in Seq(Channel!Item)
      /\ evicted \subseteq Channel!Item
      /\ Len(queue) \in Nat
      /\ Channel!Ordered(Join(delivered, queue))
      /\ Channel!ToSet(Join(delivered, queue)) \cup evicted = Channel!Sent
      /\ Channel!ToSet(Join(delivered, queue)) \cap evicted = {}
  BY DEF CInv, CTypeOK, Channel!Fifo, Channel!Conserved, Channel!History, Join
<1>3. /\ kept \in Seq(Channel!Item) /\ Len(kept) = Len(queue) - n
      /\ \A i \in 1 .. Len(kept) : kept[i] = queue[n + i]
  BY <1>2
<1> HIDE DEF kept
<1>4. /\ m \in [1 .. Len(kept) -> 1 .. Len(queue)]
      /\ \A i \in 1 .. Len(kept) : m[i] = n + i
      /\ \A i, j \in 1 .. Len(kept) : i < j => m[i] < m[j]
      /\ \A i \in 1 .. Len(kept) : kept[i] = queue[m[i]]
  BY <1>2, <1>3
<1>5. gone = {queue[i] : i \in {k \in 1 .. Len(queue) :
                                 \A j \in 1 .. Len(kept) : m[j] # k}}
  <2>1. 1 .. n = {k \in 1 .. Len(queue) : \A j \in 1 .. Len(kept) : n + j # k}
    <3>1. ASSUME NEW k \in 1 .. Len(queue), k > n PROVE \E j \in 1 .. Len(kept) : n + j = k
      <4>1. k - n \in 1 .. Len(kept) /\ n + (k - n) = k
        BY <3>1, <1>2, <1>3
      <4> QED BY <4>1
    <3>2. ASSUME NEW k \in 1 .. n
          PROVE  k \in 1 .. Len(queue) /\ \A j \in 1 .. Len(kept) : n + j # k
      BY <1>2, <1>3
    <3>3. ASSUME NEW k \in 1 .. Len(queue), \A j \in 1 .. Len(kept) : n + j # k
          PROVE  k \in 1 .. n
      BY <3>1, <3>3
    <3> QED BY <3>2, <3>3
  <2> QED BY <2>1, <1>4
<1> HIDE DEF gone, m
<1>5a. Thins(m, kept, queue, gone)
  BY <1>4, <1>5 DEF Thins
<1>6. /\ Channel!Ordered(Join(delivered, kept))
      /\ Channel!ToSet(Join(delivered, kept)) \cup gone = Channel!ToSet(Join(delivered, queue))
      /\ Channel!ToSet(Join(delivered, kept)) \cap gone = {}
  BY <1>2, <1>3, <1>5a, ThinnedTail
<1>7. /\ queue' = kept /\ evicted' = evicted \cup gone /\ Channel!History' = Join(delivered, kept)
      /\ Channel!Sent' = Channel!Sent /\ m_stop' = m_stop
  BY <1>1 DEF kept, gone, Channel!History, Join, Channel!Sent
<1>8. CTypeOK'
  <2>1. gone \subseteq Channel!Item
    BY <1>2, ElementOfSeq DEF gone
  <2> QED BY <2>1, <1>1, <1>3, <1>7 DEF CInv, CTypeOK
<1>9. Channel!Fifo' /\ Channel!Conserved'
  BY <1>2, <1>6, <1>7 DEF Channel!Fifo, Channel!Conserved
<1>10. Channel!Capacity'
  BY <1>1, <1>2, <1>3, <1>7 DEF CInv, Channel!Capacity, Channel!Bounded, Channel!ChannelAssumption
<1> QED BY <1>8, <1>9, <1>10 DEF CInv

(* Closing the channel, or leaving it alone.                               *)
LEMMA CloseKeeps ==
    ASSUME Channel!ChannelAssumption, CInv, Channel!Close \/ UNCHANGED Channel!cvars
    PROVE  CInv'
<1>1. /\ UNCHANGED <<queue, sent, delivered, evicted>>
      /\ m_stop' \in BOOLEAN /\ (m_stop' = m_stop \/ m_stop' = TRUE)
  BY DEF Channel!Close, Channel!cvars, CInv, CTypeOK
<1> QED BY <1>1 DEF CInv, CTypeOK, Channel!Fifo, Channel!Conserved, Channel!Capacity,
                    Channel!Bounded, Channel!History, Channel!Sent

(* In a channel, items of one producer are received in the order sent,     *)
(* each at most once, none vanishes, and the bound is kept.                *)
THEOREM ChannelCorrect == Channel!CSpec => []CInv
<1>0. Channel!ChannelAssumption
  BY QueueAssumption DEF Channel!ChannelAssumption
<1>1. Channel!CInit => CInv
  BY <1>0, InitHolds
<1>2. CInv /\ [Channel!CNext]_(Channel!cvars) => CInv'
  BY <1>0, SendKeeps, SendSheddingKeeps, ReceiveKeeps, DiscardKeeps, CloseKeeps DEF Channel!CNext
<1> QED BY <1>1, <1>2, PTL DEF Channel!CSpec
-----------------------------------------------------------------------------
(* Editing a call record keeps it one.                                     *)
LEMMA PushEdit ==
    ASSUME push \in [Producers -> PushCall], NEW p \in Producers,
           NEW pc \in {"out", "running", "waiting"}
    PROVE  /\ [push EXCEPT ![p].pc = pc] \in [Producers -> PushCall]
           /\ \A left \in Nat :
                [push EXCEPT ![p].left = left, ![p].pc = pc] \in [Producers -> PushCall]
<1>1. push[p] \in PushCall
  OBVIOUS
<1>2. \A left \in Nat : /\ [push[p] EXCEPT !.pc = pc] \in PushCall
                        /\ [push[p] EXCEPT !.left = left, !.pc = pc] \in PushCall
  BY <1>1 DEF PushCall
<1>3. [push EXCEPT ![p].pc = pc] \in [Producers -> PushCall]
  BY <1>2
<1>4. ASSUME NEW left \in Nat
      PROVE  [push EXCEPT ![p].left = left, ![p].pc = pc] \in [Producers -> PushCall]
  BY <1>2
<1> QED BY <1>3, <1>4

(* Editing a pop record keeps it one.                                      *)
LEMMA PopEdit ==
    ASSUME pop \in [Consumers -> PopCall], NEW c \in Consumers,
           NEW pc \in {"out", "running", "waiting", "expired", "unlocked"}
    PROVE  /\ [pop EXCEPT ![c].pc = pc] \in [Consumers -> PopCall]
           /\ \A objs \in Seq(Item) :
                [pop EXCEPT ![c].objs = objs, ![c].pc = pc] \in [Consumers -> PopCall]
           /\ \A is \in BOOLEAN :
                [pop EXCEPT ![c].is_timeout = is, ![c].pc = pc] \in [Consumers -> PopCall]
           /\ \A ret \in {0, -1} :
                [pop EXCEPT ![c].pc = pc, ![c].ret = ret] \in [Consumers -> PopCall]
<1>1. pop[c] \in PopCall
  OBVIOUS
<1>2. /\ [pop[c] EXCEPT !.pc = pc] \in PopCall
      /\ \A objs \in Seq(Item) : [pop[c] EXCEPT !.objs = objs, !.pc = pc] \in PopCall
      /\ \A is \in BOOLEAN : [pop[c] EXCEPT !.is_timeout = is, !.pc = pc] \in PopCall
      /\ \A ret \in {0, -1} : [pop[c] EXCEPT !.pc = pc, !.ret = ret] \in PopCall
  BY <1>1 DEF PopCall
<1>3. [pop EXCEPT ![c].pc = pc] \in [Consumers -> PopCall]
  BY <1>2
<1>4. ASSUME NEW objs \in Seq(Item)
      PROVE  [pop EXCEPT ![c].objs = objs, ![c].pc = pc] \in [Consumers -> PopCall]
  BY <1>2
<1>5. ASSUME NEW is \in BOOLEAN
      PROVE  [pop EXCEPT ![c].is_timeout = is, ![c].pc = pc] \in [Consumers -> PopCall]
  BY <1>2
<1>6. ASSUME NEW ret \in {0, -1}
      PROVE  [pop EXCEPT ![c].pc = pc, ![c].ret = ret] \in [Consumers -> PopCall]
  BY <1>2
<1> QED BY <1>3, <1>4, <1>5, <1>6

(* A broadcast turns calls into calls.                                     *)
LEMMA WakeAllType ==
    /\ push \in [Producers -> PushCall] => WakeAll(push) \in [Producers -> PushCall]
    /\ pop \in [Consumers -> PopCall] => WakeAll(pop) \in [Consumers -> PopCall]
BY DEF WakeAll, PushCall, PopCall

(* A signal turns calls into calls, whichever waiter it picks.             *)
LEMMA WakeOneType ==
    pop \in [Consumers -> PopCall] =>
        \A calls \in WakeOne(pop, PopWaiters) : calls \in [Consumers -> PopCall]
<1> SUFFICES ASSUME pop \in [Consumers -> PopCall], NEW calls \in WakeOne(pop, PopWaiters)
             PROVE  calls \in [Consumers -> PopCall]
  OBVIOUS
<1>1. CASE PopWaiters = {}
  BY <1>1 DEF WakeOne
<1>2. CASE PopWaiters # {}
  <2>1. PICK t \in PopWaiters : calls = [pop EXCEPT ![t].pc = "running"]
    BY <1>2 DEF WakeOne
  <2>2. t \in Consumers
    BY DEF PopWaiters
  <2> QED BY <2>1, <2>2, PopEdit
<1> QED BY <1>1, <1>2

(* What editing the push calls does to the items they have left.           *)
Unfinished == \A p \in Producers : push[p].pc # "out" => push[p].left > 0

(* A broadcast gives no producer a call without items.                     *)
LEMMA WakeUnfinished ==
    ASSUME TypeOK, push' = push \/ push' = WakeAll(push)
    PROVE  Unfinished'
BY DEF TypeOK, Unfinished, WakeAll, PushCall

(* The next item of a producer is an item.                                 *)
LEMMA NextItemType ==
    ASSUME TypeOK, NEW p \in Producers
    PROVE  NextItem(p) \in Item
BY DEF TypeOK, NextItem, Item

(* Cutting a sequence in two leaves two sequences of its items.            *)
LEMMA FrontType ==
    ASSUME NEW s \in Seq(Item), NEW n \in 0 .. Len(s)
    PROVE  /\ SubSeq(s, 1, n) \in Seq(Item) /\ Len(SubSeq(s, 1, n)) = n
           /\ SubSeq(s, n + 1, Len(s)) \in Seq(Item)
           /\ Len(SubSeq(s, n + 1, Len(s))) = Len(s) - n
OBVIOUS

(* What drop_half_ keeps is a sequence of items, what it sheds a set.      *)
LEMMA HalvesType ==
    ASSUME NEW s \in Seq(Item)
    PROVE  KeptHalf(s) \in Seq(Item) /\ ShedHalf(s) \subseteq Item
<1> DEFINE n == (Len(s) + 1) \div 2
<1>1. n \in Nat /\ \A i \in 1 .. n : 2 * i - 1 \in 1 .. Len(s)
  OBVIOUS
<1>2. \A i \in 1 .. n : s[2 * i - 1] \in Item
  BY <1>1, ElementOfSeq
<1>3. KeptHalf(s) \in Seq(Item)
  BY <1>1, <1>2 DEF KeptHalf
<1>4. \A i \in 1 .. (Len(s) \div 2) : 2 * i \in 1 .. Len(s)
  OBVIOUS
<1>5. ShedHalf(s) \subseteq Item
  BY <1>4, ElementOfSeq DEF ShedHalf
<1> QED BY <1>3, <1>5
-----------------------------------------------------------------------------
(* A new queue has its type.                                               *)
LEMMA TypeInit == Init => TypeOK
<1> SUFFICES ASSUME Init PROVE TypeOK
  OBVIOUS
<1>1. queue \in Seq(Item) /\ delivered \in Seq(Item) /\ << >> \in Seq(Item)
  BY EmptySeq DEF Init
<1>2. push \in [Producers -> PushCall]
  BY DEF Init, PushCall
<1>3. pop \in [Consumers -> PopCall]
  BY <1>1 DEF Init, PopCall
<1> QED BY <1>1, <1>2, <1>3 DEF Init, TypeOK

(* Every step of every thread keeps the types.                             *)
LEMMA TypeNext == TypeOK /\ [Next]_vars => TypeOK'
<1> SUFFICES ASSUME TypeOK, [Next]_vars PROVE TypeOK'
  OBVIOUS
<1>0. TypeOK' <=> /\ queue' \in Seq(Item) /\ m_stop' \in BOOLEAN
                  /\ lock' \in Producers \cup {NoThread}
                  /\ push' \in [Producers -> PushCall] /\ Unfinished'
                  /\ pop' \in [Consumers -> PopCall]
                  /\ sent' \in [Producers -> Nat]
                  /\ delivered' \in Seq(Item) /\ evicted' \subseteq Item
  BY DEF TypeOK, Unfinished
<1>1. ASSUME NEW p \in Producers, CallPush(p) PROVE TypeOK'
  <2>1. PICK many \in BOOLEAN, n \in 1 .. MaxBatch :
          push' = [push EXCEPT ![p] = [pc |-> "running", many |-> many, left |-> n]]
    BY <1>1 DEF CallPush
  <2>2. n \in Nat /\ n > 0
    BY QueueAssumption
  <2>3. push' \in [Producers -> PushCall] /\ Unfinished'
    BY <2>1, <2>2 DEF TypeOK, PushCall, Unfinished
  <2> QED BY <1>0, <1>1, <2>3 DEF CallPush, TypeOK
<1>2. ASSUME NEW p \in Producers, PushWait(p) PROVE TypeOK'
  <2>1. push' \in [Producers -> PushCall]
    BY <1>2, PushEdit DEF PushWait, TypeOK
  <2>2. Unfinished'
    BY <1>2 DEF PushWait, TypeOK, PushCall, Unfinished
  <2> QED BY <1>0, <1>2, <2>1, <2>2 DEF PushWait, TypeOK
<1>3. ASSUME NEW p \in Producers, PushItem(p) PROVE TypeOK'
  <2>1. queue' \in Seq(Item) /\ evicted' \subseteq Item
    <3>1. KeptHalf(queue) \in Seq(Item) /\ ShedHalf(queue) \subseteq Item
      BY HalvesType DEF TypeOK
    <3>2. NextItem(p) \in Item
      BY NextItemType
    <3>3. /\ Append(KeptHalf(queue), NextItem(p)) \in Seq(Item)
          /\ Append(queue, NextItem(p)) \in Seq(Item)
      BY <3>1, <3>2, AppendProperties DEF TypeOK
    <3>4. Store(p) /\ evicted \subseteq Item
      BY <1>3 DEF PushItem, TypeOK
    <3> QED BY <3>1, <3>3, <3>4 DEF Store
  <2>2. sent' \in [Producers -> Nat]
    BY <1>3 DEF PushItem, TypeOK
  <2>3. pop' \in [Consumers -> PopCall]
    BY <1>3, WakeAllType, WakeOneType DEF PushItem, AfterItem, TypeOK
  <2>4. push' \in [Producers -> PushCall] /\ Unfinished' /\ lock' \in Producers \cup {NoThread}
    <3>1. push[p].left \in Nat /\ push[p].left > 0 /\ push[p].left - 1 \in Nat
      <4>1. push[p] \in PushCall /\ push[p].left > 0
        BY <1>3 DEF PushItem, TypeOK
      <4> QED BY <4>1 DEF PushCall
    <3> DEFINE done == ~push[p].many \/ m_stop \/ push[p].left - 1 = 0
    <3>2. /\ push' = [push EXCEPT ![p].left = push[p].left - 1,
                                 ![p].pc = IF done THEN "out" ELSE "running"]
          /\ lock' = IF done THEN NoThread ELSE p
      BY <1>3 DEF PushItem, AfterItem
    <3>3. (IF done THEN "out" ELSE "running") \in {"out", "running", "waiting"}
      OBVIOUS
    <3>4. ~done => push[p].left - 1 > 0
      BY <3>1
    <3> HIDE DEF done
    <3>5. push' \in [Producers -> PushCall]
      BY <3>1, <3>2, <3>3, PushEdit DEF TypeOK
    <3>6. Unfinished'
      BY <3>2, <3>4 DEF TypeOK, PushCall, Unfinished
    <3> QED BY <3>2, <3>5, <3>6 DEF TypeOK
  <2> QED BY <1>0, <1>3, <2>1, <2>2, <2>3, <2>4 DEF PushItem, TypeOK
<1>4. ASSUME NEW c \in Consumers, CallPop(c) PROVE TypeOK'
  <2>1. [pc |-> "running", is_timeout |-> FALSE, ret |-> 0, objs |-> <<>>] \in PopCall
    BY EmptySeq DEF PopCall
  <2>2. pop' \in [Consumers -> PopCall]
    BY <1>4, <2>1 DEF CallPop, TypeOK
  <2> QED BY <1>0, <1>4, <2>2, WakeUnfinished DEF CallPop, TypeOK
<1>5. ASSUME NEW c \in Consumers, PopWait(c) \/ Expire(c) PROVE TypeOK'
  <2>1. pop' \in [Consumers -> PopCall]
    <3>1. CASE PopWait(c)
      BY <3>1, PopEdit DEF PopWait, TypeOK
    <3>2. CASE Expire(c)
      BY <3>2, PopEdit DEF Expire, TypeOK
    <3> QED BY <1>5, <3>1, <3>2
  <2> QED BY <1>0, <1>5, <2>1, WakeUnfinished DEF PopWait, Expire, TypeOK
<1>6. ASSUME NEW c \in Consumers, PopTake(c) PROVE TypeOK'
  <2> DEFINE n == IF Len(queue) < MaxNum THEN Len(queue) ELSE MaxNum
  <2>1. n \in 0 .. Len(queue)
    BY QueueAssumption DEF TypeOK
  <2>2. /\ SubSeq(queue, 1, n) \in Seq(Item)
        /\ SubSeq(queue, n + 1, Len(queue)) \in Seq(Item)
    BY <2>1, FrontType DEF TypeOK
  <2> HIDE DEF n
  <2>3. queue' \in Seq(Item) /\ delivered' \in Seq(Item)
    BY <1>6, <2>2, ConcatProperties DEF PopTake, TypeOK, n
  <2>4. pop' \in [Consumers -> PopCall]
    BY <1>6, <2>2, PopEdit DEF PopTake, TypeOK, n
  <2> QED BY <1>0, <1>6, <2>3, <2>4, WakeAllType, WakeUnfinished DEF PopTake, TypeOK
<1>7. ASSUME NEW c \in Consumers, PopTimeout(c) \/ PopReturn(c) PROVE TypeOK'
  <2>1. CASE PopTimeout(c)
    BY <1>0, <2>1, PopEdit, WakeUnfinished DEF PopTimeout, TypeOK
  <2>2. CASE PopReturn(c)
    <3>1. (IF ~m_stop /\ pop[c].is_timeout THEN -1 ELSE 0) \in {0, -1}
      OBVIOUS
    <3> QED BY <1>0, <2>2, <3>1, PopEdit, WakeUnfinished DEF PopReturn, TypeOK
  <2> QED BY <1>7, <2>1, <2>2
<1>8. ASSUME Stop PROVE TypeOK'
  BY <1>0, <1>8, WakeAllType, WakeUnfinished DEF Stop, TypeOK
<1>9. ASSUME Drop PROVE TypeOK'
  <2>1. PICK num \in DropNums :
          LET n == IF num = 0 THEN Len(queue) ELSE num
          IN  /\ n <= Len(queue)
              /\ evicted' = evicted \cup {queue[i] : i \in 1 .. n}
              /\ queue' = SubSeq(queue, n + 1, Len(queue))
    BY <1>9 DEF Drop
  <2> DEFINE n == IF num = 0 THEN Len(queue) ELSE num
  <2>2. n \in 0 .. Len(queue)
    BY <2>1, QueueAssumption DEF TypeOK
  <2>3. queue' \in Seq(Item)
    BY <2>1, <2>2, FrontType DEF TypeOK
  <2>4. evicted' \subseteq Item
    BY <2>1, <2>2, ElementOfSeq DEF TypeOK
  <2> QED BY <1>0, <1>9, <2>3, <2>4, WakeAllType, WakeUnfinished DEF Drop, TypeOK
<1>10. ASSUME SpuriousWake PROVE TypeOK'
  <2>1. push' \in [Producers -> PushCall] /\ pop' \in [Consumers -> PopCall]
    <3>1. CASE pop' = pop /\ push' \in {[push EXCEPT ![p].pc = "running"] : p \in PushWaiters}
      <4>1. PICK p \in Producers : push' = [push EXCEPT ![p].pc = "running"]
        BY <3>1 DEF PushWaiters
      <4> QED BY <3>1, <4>1, PushEdit DEF TypeOK
    <3>2. CASE push' = push /\ pop' \in {[pop EXCEPT ![c].pc = "running"] : c \in PopWaiters}
      <4>1. PICK c \in Consumers : pop' = [pop EXCEPT ![c].pc = "running"]
        BY <3>2 DEF PopWaiters
      <4> QED BY <3>2, <4>1, PopEdit DEF TypeOK
    <3> QED BY <1>10, <3>1, <3>2 DEF SpuriousWake
  <2>2. Unfinished'
    BY <1>10 DEF SpuriousWake, PushWaiters, TypeOK, PushCall, Unfinished
  <2> QED BY <1>0, <1>10, <2>1, <2>2 DEF SpuriousWake, TypeOK
<1>11. CASE UNCHANGED vars
  BY <1>0, <1>11, WakeUnfinished DEF vars, TypeOK
<1> QED BY <1>1, <1>2, <1>3, <1>4, <1>5, <1>6, <1>7, <1>8, <1>9, <1>10, <1>11
        DEF Next, Producer, Consumer

(* In every state of the queue each variable has the type it is meant to   *)
(* have.                                                                   *)
THEOREM TypeCorrect == Spec => []TypeOK
BY TypeInit, TypeNext, PTL DEF Spec
-----------------------------------------------------------------------------
(* The part of the state a user of the queue can see.                      *)
seen == <<queue, m_stop, sent, delivered, evicted>>

(* drop_half_ spares what the channel does: the places 1, 3, 5, ...        *)
LEMMA HalfIsSpared ==
    ASSUME NEW s \in Seq(Item)
    PROVE  \E n \in 0 .. Len(s) : \E at \in [1 .. n -> 1 .. Len(s)] :
             /\ Channel!Spared(at, Len(s))
             /\ KeptHalf(s) = [i \in 1 .. n |-> s[at[i]]]
             /\ ShedHalf(s) = {s[k] : k \in 1 .. Len(s) \ Channel!Range(at)}
<1> DEFINE n == (Len(s) + 1) \div 2
           at == [i \in 1 .. n |-> 2 * i - 1]
<1>1. Len(s) \in Nat /\ n \in 0 .. Len(s) /\ 2 * n \in {Len(s), Len(s) + 1}
  OBVIOUS
<1>2. /\ at \in [1 .. n -> 1 .. Len(s)] /\ Len(at) = n
      /\ \A i \in 1 .. n : at[i] = 2 * i - 1
  BY <1>1
<1> HIDE DEF at
<1>3. KeptHalf(s) = [i \in 1 .. n |-> s[at[i]]]
  BY <1>2 DEF KeptHalf
<1> HIDE DEF n
<1>4. \A k \in 1 .. Len(s) : k \in Channel!Range(at) <=> k % 2 = 1
  <2> TAKE k \in 1 .. Len(s)
  <2>1. k \in Channel!Range(at) <=> \E i \in 1 .. n : k = 2 * i - 1
    BY <1>2 DEF Channel!Range
  <2>2. k % 2 = 1 => k = 2 * ((k + 1) \div 2) - 1 /\ (k + 1) \div 2 \in 1 .. n
    BY <1>1
  <2>3. \A i \in 1 .. n : k = 2 * i - 1 => k % 2 = 1
    BY <1>1
  <2> QED BY <2>1, <2>2, <2>3
<1>5. ShedHalf(s) = {s[k] : k \in 1 .. Len(s) \ Channel!Range(at)}
  <2>1. ASSUME NEW i \in 1 .. (Len(s) \div 2)
        PROVE  2 * i \in 1 .. Len(s) \ Channel!Range(at)
    <3>1. 2 * i \in 1 .. Len(s) /\ (2 * i) % 2 = 0
      BY <1>1
    <3> QED BY <1>4, <3>1
  <2>2. ASSUME NEW k \in 1 .. Len(s) \ Channel!Range(at)
        PROVE  k \div 2 \in 1 .. (Len(s) \div 2) /\ k = 2 * (k \div 2)
    <3>1. k % 2 # 1
      BY <1>4
    <3> QED BY <1>1, <3>1
  <2> QED BY <2>1, <2>2 DEF ShedHalf
<1>6. Channel!Spared(at, Len(s))
  <2>1. \A i, j \in 1 .. Len(at) : i < j => at[i] < at[j]
    BY <1>1, <1>2
  <2>2. Len(s) > 0 => 1 \in Channel!Range(at)
    BY <1>1, <1>4
  <2>3. \A k \in 1 .. Len(s) - 1 : k \in Channel!Range(at) <=> k + 1 \notin Channel!Range(at)
    <3> TAKE k \in 1 .. Len(s) - 1
    <3>1. k \in 1 .. Len(s) /\ k + 1 \in 1 .. Len(s) /\ (k % 2 = 1 <=> (k + 1) % 2 # 1)
      BY <1>1
    <3> QED BY <1>4, <3>1
  <2> QED BY <1>1, <1>2, <2>1, <2>2, <2>3 DEF Channel!Spared
<1> QED BY <1>1, <1>2, <1>3, <1>5, <1>6

(* Every step of the queue is a step of the channel or is not seen.        *)
LEMMA StepRefines ==
    TypeOK /\ [Next]_vars => [Channel!CNext]_seen
<1> SUFFICES ASSUME TypeOK, [Next]_vars PROVE [Channel!CNext]_seen
  OBVIOUS
<1>1. ASSUME NEW p \in Producers, PushItem(p) PROVE Channel!CNext
  <2>1. CASE Full
    <3>1. /\ queue' = Append(KeptHalf(queue), Channel!NextItem(p))
          /\ evicted' = evicted \cup ShedHalf(queue)
          /\ sent' = [sent EXCEPT ![p] = @ + 1]
          /\ UNCHANGED <<m_stop, delivered>>
          /\ DropFn /\ Channel!Bounded /\ Len(queue) >= Limit
      BY <1>1, <2>1 DEF PushItem, Store, Full, Channel!Bounded, Channel!NextItem, NextItem
    <3>2. PICK n \in 0 .. Len(queue) : \E at \in [1 .. n -> 1 .. Len(queue)] :
             /\ Channel!Spared(at, Len(queue))
             /\ KeptHalf(queue) = [i \in 1 .. n |-> queue[at[i]]]
             /\ ShedHalf(queue) = {queue[k] : k \in 1 .. Len(queue) \ Channel!Range(at)}
      BY HalfIsSpared DEF TypeOK
    <3>3. Channel!SendShedding(p)
      BY <3>1, <3>2 DEF Channel!SendShedding
    <3> QED BY <3>3 DEF Channel!CNext
  <2>2. CASE ~Full
    <3>1. Channel!Bounded => Len(queue) < Limit
      BY <2>2, QueueAssumption DEF Full, Channel!Bounded, TypeOK
    <3>2. Channel!Send(p)
      BY <1>1, <2>2, <3>1 DEF PushItem, Store, Channel!Send, Channel!NextItem, NextItem
    <3> QED BY <3>2 DEF Channel!CNext
  <2> QED BY <2>1, <2>2
<1>2. ASSUME NEW c \in Consumers, PopTake(c) PROVE Channel!CNext \/ UNCHANGED seen
  <2> DEFINE n == IF Len(queue) < MaxNum THEN Len(queue) ELSE MaxNum
  <2>1. n \in 0 .. Len(queue) /\ n <= MaxNum
    BY QueueAssumption DEF TypeOK
  <2>2. /\ queue' = SubSeq(queue, n + 1, Len(queue))
        /\ delivered' = delivered \o SubSeq(queue, 1, n)
        /\ UNCHANGED <<m_stop, sent, evicted>>
        /\ ~TooFew
    BY <1>2 DEF PopTake
  <2>3. CASE n = 0
    <3>1. Len(queue) = 0
      BY <2>3, QueueAssumption DEF TypeOK
    <3>2. queue = <<>>
      BY <3>1, EmptySeq DEF TypeOK
    <3>3. queue' = <<>> /\ delivered' = delivered
      BY <2>2, <2>3, <3>1, SubSeqEmpty, ConcatEmptySeq DEF TypeOK
    <3> QED BY <2>2, <3>2, <3>3 DEF seen
  <2>4. CASE n # 0
    <3>1. n \in 1 .. Len(queue)
      BY <2>1, <2>4
    <3>2. m_stop \/ (Len(queue) >= MinNum /\ (n >= MinNum \/ n = MaxNum))
      BY <2>2, QueueAssumption DEF TooFew, TypeOK
    <3>3. Channel!Receive
      BY <2>1, <2>2, <3>1, <3>2 DEF Channel!Receive
    <3> QED BY <3>3 DEF Channel!CNext
  <2> QED BY <2>3, <2>4
<1>3. ASSUME Drop PROVE Channel!CNext \/ UNCHANGED seen
  <2>1. PICK num \in DropNums :
          LET n == IF num = 0 THEN Len(queue) ELSE num
          IN  /\ n <= Len(queue)
              /\ evicted' = evicted \cup {queue[i] : i \in 1 .. n}
              /\ queue' = SubSeq(queue, n + 1, Len(queue))
    BY <1>3 DEF Drop
  <2> DEFINE n == IF num = 0 THEN Len(queue) ELSE num
  <2>2. n \in 0 .. Len(queue)
    BY <2>1, QueueAssumption DEF TypeOK
  <2>3. UNCHANGED <<m_stop, sent, delivered>>
    BY <1>3 DEF Drop
  <2>4. CASE n = 0
    <3>1. queue' = queue
      BY <2>1, <2>4, SubSeqFull DEF TypeOK
    <3>2. evicted' = evicted
      BY <2>1, <2>4
    <3> QED BY <2>3, <3>1, <3>2 DEF seen
  <2>5. CASE n # 0
    <3>1. n \in 1 .. Len(queue)
      BY <2>2, <2>5
    <3>2. Channel!Discard
      BY <2>1, <2>3, <3>1 DEF Channel!Discard
    <3> QED BY <3>2 DEF Channel!CNext
  <2> QED BY <2>4, <2>5
<1>4. ASSUME Stop PROVE Channel!CNext
  BY <1>4 DEF Stop, Channel!CNext, Channel!Close
<1>5. ASSUME NEW p \in Producers, CallPush(p) \/ PushWait(p) PROVE UNCHANGED seen
  BY <1>5 DEF CallPush, PushWait, seen
<1>6. ASSUME NEW c \in Consumers,
             CallPop(c) \/ PopWait(c) \/ Expire(c) \/ PopTimeout(c) \/ PopReturn(c)
      PROVE  UNCHANGED seen
  BY <1>6 DEF CallPop, PopWait, Expire, PopTimeout, PopReturn, seen
<1>7. ASSUME SpuriousWake PROVE UNCHANGED seen
  BY <1>7 DEF SpuriousWake, seen
<1>8. CASE UNCHANGED vars
  BY <1>8 DEF vars, seen
<1> QED BY <1>1, <1>2, <1>3, <1>4, <1>5, <1>6, <1>7, <1>8
        DEF Next, Producer, Consumer

(* The locks, the condition variables and the waiting of otl::BlockingQueue*)
(* do not show: to its users it is the abstract channel.                   *)
THEOREM QueueImplementsChannel == Spec => ImplementsChannel
<1>1. Init => Channel!CInit
  BY DEF Init, Channel!CInit
<1>2. TypeOK /\ [Next]_vars => [Channel!CNext]_(Channel!cvars)
  BY StepRefines DEF seen, Channel!cvars
<1> QED BY <1>1, <1>2, TypeCorrect, PTL DEF Spec, ImplementsChannel, Channel!CSpec

(* Items of one producer leave the queue in the order they were pushed,    *)
(* each at most once; none is lost or invented; and the limit is kept.     *)
THEOREM QueueCorrect == Spec => [](Fifo /\ Conserved /\ Capacity)
<1>1. CInv => Fifo /\ Conserved /\ Capacity
  BY DEF CInv, Fifo, Conserved, Capacity
<1> QED BY <1>1, ChannelCorrect, QueueImplementsChannel, PTL DEF ImplementsChannel, Channel!CSpec
-----------------------------------------------------------------------------
(* A producer can wait only on a full queue, and every step that makes     *)
(* room or stops the queue empties the set of waiters.                     *)
LEMMA NoPushWaiters ==
    ASSUME TypeOK, push' = WakeAll(push)
    PROVE  PushWaiters' = {}
BY DEF TypeOK, PushWaiters, WakeAll, PushCall

(* No step leaves a producer waiting without a reason.                     *)
LEMMA PushWaitersNext ==
    TypeOK /\ PushWaitersJustified /\ [Next]_vars => PushWaitersJustified'
<1> SUFFICES ASSUME TypeOK, PushWaitersJustified, [Next]_vars, PushWaiters' # {}
             PROVE  Full' /\ ~DropFn
  BY DEF PushWaitersJustified
<1>1. ASSUME NEW p \in Producers, CallPush(p) PROVE Full' /\ ~DropFn
  <2>1. PushWaiters' \subseteq PushWaiters
    BY <1>1 DEF CallPush, PushWaiters, TypeOK
  <2> QED BY <1>1, <2>1 DEF CallPush, PushWaitersJustified, Full
<1>2. ASSUME NEW p \in Producers, PushWait(p) PROVE Full' /\ ~DropFn
  BY <1>2 DEF PushWait, Full
<1>3. ASSUME NEW p \in Producers, PushItem(p) PROVE Full' /\ ~DropFn
  <2>1. PushWaiters' \subseteq PushWaiters
    BY <1>3 DEF PushItem, AfterItem, PushWaiters, TypeOK, PushCall
  <2>2. Full /\ ~DropFn
    BY <2>1 DEF PushWaitersJustified
  <2> QED BY <1>3, <2>2 DEF PushItem
<1>4. ASSUME NEW c \in Consumers,
             CallPop(c) \/ PopWait(c) \/ Expire(c) \/ PopTimeout(c) \/ PopReturn(c)
      PROVE  Full' /\ ~DropFn
  BY <1>4 DEF CallPop, PopWait, Expire, PopTimeout, PopReturn,
              PushWaitersJustified, PushWaiters, Full
<1>5. ASSUME NEW c \in Consumers, PopTake(c) PROVE FALSE
  BY <1>5, NoPushWaiters DEF PopTake
<1>6. ASSUME Stop \/ Drop PROVE FALSE
  BY <1>6, NoPushWaiters DEF Stop, Drop
<1>7. ASSUME SpuriousWake PROVE Full' /\ ~DropFn
  <2>1. PushWaiters # {}
    BY <1>7 DEF SpuriousWake, PushWaiters, TypeOK, PushCall
  <2> QED BY <1>7, <2>1 DEF SpuriousWake, PushWaitersJustified, Full
<1>8. CASE UNCHANGED vars
  BY <1>8 DEF vars, PushWaitersJustified, PushWaiters, Full
<1> QED BY <1>1, <1>2, <1>3, <1>4, <1>5, <1>6, <1>7, <1>8
        DEF Next, Producer, Consumer

(* No producer is left blocked on a queue that has room, sheds, or was     *)
(* stopped.                                                                *)
THEOREM PushWaitersCorrect == Spec => []PushWaitersJustified
<1>1. Init => PushWaitersJustified
  BY DEF Init, PushWaitersJustified, PushWaiters
<1> QED BY <1>1, PushWaitersNext, TypeCorrect, PTL DEF Spec
-----------------------------------------------------------------------------
(* A consumer waits only while the queue is open; and whenever a consumer  *)
(* waits, every item that completes a batch has a running consumer to      *)
(* collect it. Each signal adds an item and a runner, each collection      *)
(* takes a runner and at least one item.                                   *)
Backed == ~m_stop /\ Len(queue) < MinNum + Cardinality(Running)

(* The consumers that run can be counted.                                  *)
LEMMA RunningFinite ==
    /\ IsFiniteSet(Running) /\ Cardinality(Running) \in Nat
    /\ IsFiniteSet(Running') /\ Cardinality(Running') \in Nat
<1>1. Running \in SUBSET Consumers /\ Running' \in SUBSET Consumers
  BY DEF Running
<1> QED BY <1>1, QueueAssumption, FS_Subset, FS_CardinalityType

(* A consumer that begins to run is one more...                            *)
LEMMA StartRunning ==
    ASSUME NEW c, c \notin Running, Running' = Running \cup {c}
    PROVE  Cardinality(Running') = Cardinality(Running) + 1
BY RunningFinite, FS_AddElement

(* ... and one that ceases to run is one less.                             *)
LEMMA StopRunning ==
    ASSUME NEW c, c \in Running, Running' = Running \ {c}
    PROVE  Cardinality(Running') = Cardinality(Running) - 1
BY RunningFinite, FS_RemoveElement

(* A broadcast leaves no consumer waiting.                                 *)
LEMMA NoPopWaiters ==
    ASSUME TypeOK, pop' = WakeAll(pop)
    PROVE  PopWaiters' = {}
BY DEF TypeOK, PopWaiters, WakeAll, PopCall

(* No step loses the wake-up a waiting consumer depends on.                *)
LEMMA PopWaitersNext ==
    TypeOK /\ PopWaitersServed /\ [Next]_vars => PopWaitersServed'
<1> SUFFICES ASSUME TypeOK, PopWaitersServed, [Next]_vars, PopWaiters' # {}
             PROVE  Backed'
  BY DEF PopWaitersServed, Backed
<1>0. /\ PopWaiters # {} => Backed
      /\ Len(queue) \in Nat /\ MinNum \in Nat \ {0} /\ MaxNum \in Nat \ {0}
      /\ queue \in Seq(Item)
      /\ pop \in [Consumers -> PopCall]
  BY QueueAssumption DEF PopWaitersServed, Backed, TypeOK
<1>1. ASSUME NEW p \in Producers, CallPush(p) \/ PushWait(p) PROVE Backed'
  <2>1. Running' = Running /\ PopWaiters' = PopWaiters /\ UNCHANGED <<queue, m_stop>>
    BY <1>1 DEF CallPush, PushWait, PopWaiters, Running
  <2> QED BY <1>0, <2>1 DEF Backed
<1>2. ASSUME NEW p \in Producers, PushItem(p) PROVE Backed'
  <2>1. CASE ~push[p].many
    BY <1>2, <2>1, NoPopWaiters DEF PushItem, AfterItem
  <2>2. CASE push[p].many /\ m_stop
    BY <1>0, <1>2, <2>2 DEF PushItem, AfterItem, PopWaiters, Backed
  <2>3. CASE push[p].many /\ ~m_stop
    <3>1. pop' \in WakeOne(pop, PopWaiters)
      BY <1>2, <2>3 DEF PushItem, AfterItem
    <3>2. PopWaiters # {}
      BY <3>1 DEF WakeOne, PopWaiters
    <3>3. PICK t \in PopWaiters : pop' = [pop EXCEPT ![t].pc = "running"]
      BY <3>1, <3>2 DEF WakeOne
    <3>4. t \notin Running /\ Running' = Running \cup {t}
      BY <1>0, <3>3 DEF PopWaiters, Running, PopCall
    <3>5. Len(queue') <= Len(queue) + 1 /\ Len(queue') \in Nat
      <4>1. NextItem(p) \in Item
        BY NextItemType
      <4>2. CASE Full
        <5>1. KeptHalf(queue) \in Seq(Item) /\ Len(KeptHalf(queue)) <= Len(queue)
          <6>1. Len(KeptHalf(queue)) = (Len(queue) + 1) \div 2
            BY <1>0 DEF KeptHalf
          <6> QED BY <6>1, <1>0, HalvesType
        <5> QED BY <1>0, <1>2, <4>1, <4>2, <5>1, AppendProperties DEF PushItem, Store
      <4>3. CASE ~Full
        BY <1>0, <1>2, <4>1, <4>3, AppendProperties DEF PushItem, Store
      <4> QED BY <4>2, <4>3
    <3>6. Cardinality(Running') = Cardinality(Running) + 1
      BY <3>4, StartRunning
    <3>7. m_stop' = m_stop
      BY <1>2 DEF PushItem
    <3> QED BY <1>0, <3>2, <3>5, <3>6, <3>7, RunningFinite DEF Backed
  <2> QED BY <2>1, <2>2, <2>3
<1>3. ASSUME NEW c \in Consumers, CallPop(c) PROVE Backed'
  <2>1. /\ c \notin Running /\ Running' = Running \cup {c} /\ PopWaiters' \subseteq PopWaiters
        /\ UNCHANGED <<queue, m_stop>>
    BY <1>0, <1>3 DEF CallPop, Running, PopWaiters, PopCall
  <2>2. Cardinality(Running') = Cardinality(Running) + 1
    BY <2>1, StartRunning
  <2> QED BY <1>0, <2>1, <2>2, RunningFinite DEF Backed
<1>4. ASSUME NEW c \in Consumers, PopWait(c) PROVE Backed'
  BY <1>0, <1>4, RunningFinite DEF PopWait, TooFew, Backed
<1>5. ASSUME NEW c \in Consumers, PopTake(c) PROVE Backed'
  <2>1. PopWaiters' \subseteq PopWaiters /\ c \in Running /\ Running' = Running \ {c}
    BY <1>0, <1>5 DEF PopTake, PopWaiters, Running, PopCall
  <2>2. Backed /\ Len(queue) >= MinNum
    BY <1>0, <1>5, <2>1 DEF PopTake, TooFew, Backed
  <2>3. Len(queue') <= Len(queue) - 1 /\ Len(queue') \in Nat
    BY <1>0, <1>5, <2>2 DEF PopTake
  <2>4. Cardinality(Running') = Cardinality(Running) - 1
    BY <2>1, StopRunning
  <2>5. m_stop' = m_stop
    BY <1>5 DEF PopTake
  <2> QED BY <1>0, <2>2, <2>3, <2>4, <2>5, RunningFinite DEF Backed
<1>6. ASSUME NEW c \in Consumers, Expire(c) \/ PopTimeout(c) \/ PopReturn(c) PROVE Backed'
  <2>1. /\ Running' = Running /\ PopWaiters' \subseteq PopWaiters
        /\ UNCHANGED <<queue, m_stop>>
    <3>1. CASE Expire(c)
      BY <1>0, <3>1 DEF Expire, Running, PopWaiters, PopCall
    <3>2. CASE PopTimeout(c)
      BY <1>0, <3>2 DEF PopTimeout, Running, PopWaiters, PopCall
    <3>3. CASE PopReturn(c)
      BY <1>0, <3>3 DEF PopReturn, Running, PopWaiters, PopCall
    <3> QED BY <1>6, <3>1, <3>2, <3>3
  <2> QED BY <1>0, <2>1 DEF Backed
<1>7. ASSUME Stop PROVE FALSE
  BY <1>7, NoPopWaiters DEF Stop
<1>8. ASSUME Drop PROVE Backed'
  <2>1. Running' = Running /\ PopWaiters' = PopWaiters /\ m_stop' = m_stop
    BY <1>8 DEF Drop, Running, PopWaiters
  <2>2. Len(queue') <= Len(queue) /\ Len(queue') \in Nat
    <3>1. PICK num \in DropNums :
            LET n == IF num = 0 THEN Len(queue) ELSE num
            IN  n <= Len(queue) /\ queue' = SubSeq(queue, n + 1, Len(queue))
      BY <1>8 DEF Drop
    <3>2. (IF num = 0 THEN Len(queue) ELSE num) \in 0 .. Len(queue)
      BY <1>0, <3>1, QueueAssumption
    <3> QED BY <1>0, <3>1, <3>2, FrontType
  <2> QED BY <1>0, <2>1, <2>2, RunningFinite DEF Backed
<1>9. ASSUME SpuriousWake PROVE Backed'
  <2>1. CASE pop' = pop
    BY <1>0, <1>9, <2>1 DEF SpuriousWake, PopWaiters, Running, Backed
  <2>2. CASE pop' \in {[pop EXCEPT ![c].pc = "running"] : c \in PopWaiters}
    <3>1. PICK t \in PopWaiters : pop' = [pop EXCEPT ![t].pc = "running"]
      BY <2>2
    <3>2. t \notin Running /\ Running' = Running \cup {t}
      BY <1>0, <3>1 DEF PopWaiters, Running, PopCall
    <3>3. Cardinality(Running') = Cardinality(Running) + 1
      BY <3>2, StartRunning
    <3>4. UNCHANGED <<queue, m_stop>>
      BY <1>9 DEF SpuriousWake
    <3> QED BY <1>0, <3>1, <3>3, <3>4, RunningFinite DEF Backed
  <2> QED BY <1>9, <2>1, <2>2 DEF SpuriousWake
<1>10. CASE UNCHANGED vars
  BY <1>0, <1>10 DEF vars, PopWaiters, Running, Backed
<1> QED BY <1>1, <1>2, <1>3, <1>4, <1>5, <1>6, <1>7, <1>8, <1>9, <1>10
        DEF Next, Producer, Consumer

(* One signal per item is enough: no consumer is left waiting on a stopped *)
(* queue, or beside a batch that nobody is about to collect.               *)
THEOREM PopWaitersCorrect == Spec => []PopWaitersServed
<1>1. Init => PopWaitersServed
  BY DEF Init, PopWaitersServed, PopWaiters
<1> QED BY <1>1, PopWaitersNext, TypeCorrect, PTL DEF Spec
-----------------------------------------------------------------------------
(* What the record of a call may hold at each point of pop_front: nothing  *)
(* is taken or decided before the mutex is released, after that the call   *)
(* has timed out or has a reason to return, and what it returned stays.    *)
Pending(r) == ~r.is_timeout /\ r.ret = 0 /\ r.objs = <<>>

Justified(r, stopped) ==
    Len(r.objs) >= MinNum \/ Len(r.objs) = MaxNum \/ stopped

Sound(r, stopped) ==
    /\ r.pc \in {"running", "waiting", "expired"} => Pending(r)
    /\ r.is_timeout => r.objs = <<>>
    /\ r.ret = -1 => r.objs = <<>>
    /\ r.pc = "unlocked" => r.is_timeout \/ Justified(r, stopped)

PopSound == \A c \in Consumers : Sound(pop[c], m_stop)

(* Waking a consumer keeps its record sound, and a queue once stopped      *)
(* stays stopped.                                                          *)
LEMMA WokenSound ==
    ASSUME NEW r \in PopCall, Sound(r, m_stop), m_stop => m_stop'
    PROVE  /\ Sound(r, m_stop')
           /\ r.pc = "waiting" => Sound([r EXCEPT !.pc = "running"], m_stop')
BY DEF Sound, Pending, Justified, PopCall

(* A step that wakes some consumers and does nothing else to the calls     *)
(* keeps them sound.                                                       *)
LEMMA WakeSound ==
    ASSUME TypeOK, PopSound, m_stop => m_stop',
           pop' \in [Consumers -> PopCall],
           \A c \in Consumers :
              \/ pop'[c] = pop[c]
              \/ pop[c].pc = "waiting" /\ pop'[c] = [pop[c] EXCEPT !.pc = "running"]
    PROVE  PopSound'
<1> SUFFICES ASSUME NEW c \in Consumers PROVE Sound(pop'[c], m_stop')
  BY DEF PopSound
<1>1. pop[c] \in PopCall /\ Sound(pop[c], m_stop)
  BY DEF TypeOK, PopSound
<1> QED BY <1>1, WokenSound

(* A step that changes the record of one consumer keeps all sound when the *)
(* new record is.                                                          *)
LEMMA OneCallSound ==
    ASSUME TypeOK, PopSound, m_stop' = m_stop, NEW c \in Consumers, NEW r \in PopCall,
           pop' = [pop EXCEPT ![c] = r], Sound(r, m_stop)
    PROVE  PopSound'
<1> SUFFICES ASSUME NEW d \in Consumers PROVE Sound(pop'[d], m_stop')
  BY DEF PopSound
<1>1. Sound(pop[d], m_stop)
  BY DEF PopSound
<1>2. pop'[d] = IF d = c THEN r ELSE pop[d]
  BY DEF TypeOK
<1> QED BY <1>1, <1>2

(* Every step keeps the records sound.                                     *)
LEMMA PopSoundNext == TypeOK /\ PopSound /\ [Next]_vars => PopSound'
<1> SUFFICES ASSUME TypeOK, PopSound, [Next]_vars PROVE PopSound'
  OBVIOUS
<1>0. pop \in [Consumers -> PopCall] /\ pop' \in [Consumers -> PopCall]
  BY TypeNext DEF TypeOK
<1>1. ASSUME NEW p \in Producers, PushItem(p) PROVE PopSound'
  <2>1. m_stop' = m_stop
    BY <1>1 DEF PushItem
  <2>2. pop' = pop \/ pop' = WakeAll(pop) \/ pop' \in WakeOne(pop, PopWaiters)
    BY <1>1 DEF PushItem, AfterItem
  <2>3. \A c \in Consumers :
           \/ pop'[c] = pop[c]
           \/ pop[c].pc = "waiting" /\ pop'[c] = [pop[c] EXCEPT !.pc = "running"]
    BY <1>0, <2>2 DEF WakeAll, WakeOne, PopWaiters
  <2> QED BY <1>0, <2>1, <2>3, WakeSound
<1>2. ASSUME NEW c \in Consumers, CallPop(c) PROVE PopSound'
  <2> DEFINE r == [pc |-> "running", is_timeout |-> FALSE, ret |-> 0, objs |-> <<>>]
  <2>1. r \in PopCall /\ Sound(r, m_stop)
    BY EmptySeq DEF PopCall, Sound, Pending
  <2>2. pop' = [pop EXCEPT ![c] = r] /\ m_stop' = m_stop
    BY <1>2 DEF CallPop
  <2> HIDE DEF r
  <2> QED BY <2>1, <2>2, OneCallSound
<1>3. ASSUME NEW c \in Consumers, NEW pc \in {"waiting", "expired"},
             pop[c].pc \in {"running", "waiting"}, m_stop' = m_stop,
             pop' = [pop EXCEPT ![c].pc = pc]
      PROVE  PopSound'
  <2> DEFINE r == [pop[c] EXCEPT !.pc = pc]
  <2>1. pop[c] \in PopCall /\ Sound(pop[c], m_stop)
    BY <1>0 DEF PopSound
  <2>2. r \in PopCall /\ Sound(r, m_stop)
    BY <2>1, <1>3 DEF PopCall, Sound, Pending
  <2>3. pop' = [pop EXCEPT ![c] = r]
    BY <1>3
  <2> HIDE DEF r
  <2> QED BY <1>3, <2>2, <2>3, OneCallSound
<1>4. ASSUME NEW c \in Consumers, PopTake(c) PROVE PopSound'
  <2> DEFINE n == IF Len(queue) < MaxNum THEN Len(queue) ELSE MaxNum
             taken == SubSeq(queue, 1, n)
             r == [pop[c] EXCEPT !.objs = taken, !.pc = "unlocked"]
  <2>1. pop[c] \in PopCall /\ Sound(pop[c], m_stop)
    BY <1>0 DEF PopSound
  <2>2. n \in 0 .. Len(queue)
    BY QueueAssumption DEF TypeOK
  <2>3. taken \in Seq(Item) /\ Len(taken) = n
    BY <2>2, FrontType DEF TypeOK
  <2>4. pop[c].pc = "running" /\ m_stop' = m_stop /\ pop' = [pop EXCEPT ![c] = r]
    BY <1>4 DEF PopTake
  <2>5. n >= MinNum \/ n = MaxNum \/ m_stop
    BY <1>4, QueueAssumption DEF PopTake, TooFew, TypeOK
  <2>6. r \in PopCall
    BY <2>1, <2>3 DEF PopCall
  <2>7. /\ r.objs = taken /\ r.pc = "unlocked" /\ r.ret = 0 /\ ~r.is_timeout
    BY <2>1, <2>4 DEF PopCall, Sound, Pending
  <2>8. Justified(r, m_stop)
    BY <2>3, <2>5, <2>7 DEF Justified
  <2>9. Sound(r, m_stop)
    BY <2>7, <2>8 DEF Sound
  <2> HIDE DEF r
  <2> QED BY <2>4, <2>6, <2>9, OneCallSound
<1>5. ASSUME NEW c \in Consumers, PopTimeout(c) PROVE PopSound'
  <2> DEFINE r == [pop[c] EXCEPT !.is_timeout = TRUE, !.pc = "unlocked"]
  <2>1. pop[c] \in PopCall /\ Sound(pop[c], m_stop)
    BY <1>0 DEF PopSound
  <2>2. pop[c].pc = "expired" /\ m_stop' = m_stop /\ pop' = [pop EXCEPT ![c] = r]
    BY <1>5 DEF PopTimeout
  <2>3. r \in PopCall /\ Sound(r, m_stop)
    BY <2>1, <2>2 DEF PopCall, Sound, Pending
  <2> HIDE DEF r
  <2> QED BY <2>2, <2>3, OneCallSound
<1>6. ASSUME NEW c \in Consumers, PopReturn(c) PROVE PopSound'
  <2> DEFINE code == IF ~m_stop /\ pop[c].is_timeout THEN -1 ELSE 0
             r == [pop[c] EXCEPT !.pc = "out", !.ret = code]
  <2>1. pop[c] \in PopCall /\ Sound(pop[c], m_stop)
    BY <1>0 DEF PopSound
  <2>2. m_stop' = m_stop /\ pop' = [pop EXCEPT ![c] = r]
    BY <1>6 DEF PopReturn
  <2>3. code \in {0, -1} /\ (code = -1 => pop[c].is_timeout)
    OBVIOUS
  <2> HIDE DEF code
  <2>4. r \in PopCall /\ Sound(r, m_stop)
    BY <2>1, <2>3 DEF PopCall, Sound, Pending
  <2> HIDE DEF r
  <2> QED BY <2>2, <2>4, OneCallSound
<1>7. ASSUME Stop PROVE PopSound'
  <2>1. \A c \in Consumers :
           \/ pop'[c] = pop[c]
           \/ pop[c].pc = "waiting" /\ pop'[c] = [pop[c] EXCEPT !.pc = "running"]
    BY <1>0, <1>7 DEF Stop, WakeAll
  <2>2. m_stop => m_stop'
    BY <1>7 DEF Stop
  <2> QED BY <1>0, <2>1, <2>2, WakeSound
<1>8. ASSUME SpuriousWake PROVE PopSound'
  <2>1. \A c \in Consumers :
           \/ pop'[c] = pop[c]
           \/ pop[c].pc = "waiting" /\ pop'[c] = [pop[c] EXCEPT !.pc = "running"]
    BY <1>0, <1>8 DEF SpuriousWake, PopWaiters
  <2> QED BY <1>0, <1>8, <2>1, WakeSound DEF SpuriousWake
<1>9. ASSUME UNCHANGED <<pop, m_stop>> PROVE PopSound'
  BY <1>9 DEF PopSound
<1>10. ASSUME NEW p \in Producers, CallPush(p) \/ PushWait(p) PROVE PopSound'
  BY <1>9, <1>10 DEF CallPush, PushWait
<1>11. ASSUME NEW c \in Consumers, PopWait(c) \/ Expire(c) PROVE PopSound'
  BY <1>3, <1>11 DEF PopWait, Expire
<1>12. CASE Drop \/ UNCHANGED vars
  BY <1>9, <1>12 DEF Drop, vars
<1> QED BY <1>1, <1>2, <1>4, <1>5, <1>6, <1>7, <1>8, <1>10, <1>11, <1>12
        DEF Next, Producer, Consumer

(* pop_front tells the truth: -1 comes with no items, and a call returns   *)
(* with less than a batch only after its deadline or on a stopped queue,   *)
(* even though m_stop is read again after the mutex was released.          *)
THEOREM PopResultCorrect == Spec => []PopResult
<1>1. Init => PopSound
  BY DEF Init, PopSound, Sound, Pending
<1>2. PopSound => PopResult
  BY DEF PopSound, Sound, Justified, PopResult
<1> QED BY <1>1, <1>2, PopSoundNext, TypeCorrect, PTL DEF Spec
=============================================================================
