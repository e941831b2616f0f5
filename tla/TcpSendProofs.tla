--------------------------- MODULE TcpSendProofs ----------------------------
(***************************************************************************)
(* Theorems about TcpSend, for a file, buffers, a queue, a window and      *)
(* networks of any size.                                                   *)
(*                                                                         *)
(* The invariant Inv is about the pcb first (Sound, which holds in the     *)
(* middle of a step, too): what was written and is not acknowledged is in  *)
(* the queues, each unit once, snd_buf and snd_queuelen follow, and what   *)
(* is unacknowledged has a timer.  Then it bounds what is in the network   *)
(* and what the client has by what was written.  WindowInv adds what is    *)
(* known of the client's window, OrderInv the order of the queues.         *)
(*                                                                         *)
(* A step of the thread is a chain of functions from pcb to pcb.  Each has *)
(* a lemma that it keeps the pcb sound, and which fields it changes.       *)
(***************************************************************************)
EXTENDS TcpSend, SequenceElements, FiniteSetTheorems, TLAPS

-----------------------------------------------------------------------------
(* Queues                                                                  *)

Queues == Seq(Segments)

\* The segments of a queue that hold the unit n.
Holds(n) == {seg \in Segments : n \in seg.seq .. EndOf(seg) - 1}
Times(q, n) == Occurrences(q, Holds(n))

\* A queue has the segments of two others.
Gathers(q, a, b) ==
    /\ q \in Queues /\ Len(q) = Len(a) + Len(b)
    /\ ToSet(q) = ToSet(a) \cup ToSet(b)
    /\ \A n : Times(q, n) = Times(a, n) + Times(b, n)
    /\ Pbufs(q) = Pbufs(a) + Pbufs(b)

LEMMA SegmentTypes ==
    ASSUME NEW seg \in Segments
    PROVE  /\ seg.seq \in Nat /\ seg.len \in Nat /\ seg.fin \in BOOLEAN /\ seg.pbufs \in Nat
           /\ seg.seq <= Total /\ seg.len <= MSS /\ seg.pbufs <= MSS
           /\ EndOf(seg) \in Nat
           /\ seg.seq \in Int /\ seg.len \in Int /\ seg.pbufs \in Int /\ EndOf(seg) \in Int
  BY SendAssumption DEF Segments, EndOf

LEMMA PbufsSequence ==
    ASSUME NEW q \in Queues
    PROVE  /\ [i \in 1 .. Len(q) |-> q[i].pbufs] \in Seq(Nat)
           /\ [i \in 1 .. Len(q) |-> q[i].pbufs] \in Seq(Int)
           /\ Len([i \in 1 .. Len(q) |-> q[i].pbufs]) = Len(q)
  <1> DEFINE r == [i \in 1 .. Len(q) |-> q[i].pbufs]
  <1>1. PICK n \in Nat : n = Len(q)
    BY DEF Queues
  <1>2. \A i \in 1 .. n : q[i].pbufs \in Nat
    BY <1>1, SegmentTypes, ElementOfSeq DEF Queues
  <1>3. r \in [1 .. n -> Nat]
    BY <1>1, <1>2
  <1>4. r \in Seq(Nat) /\ Len(r) = n
    BY <1>3, SeqDef
  <1> HIDE DEF r
  <1>5. r \in Seq(Int)
    BY <1>4, SeqMonotonic, Nat \subseteq Int
  <1> QED
    BY <1>1, <1>4, <1>5 DEF r

LEMMA PbufsConcat ==
    ASSUME NEW a \in Queues, NEW b \in Queues
    PROVE  Pbufs(a \o b) = Pbufs(a) + Pbufs(b)
  <1> DEFINE c == a \o b
             f == [i \in 1 .. Len(a) |-> a[i].pbufs]
             g == [i \in 1 .. Len(b) |-> b[i].pbufs]
             h == [i \in 1 .. Len(c) |-> c[i].pbufs]
  <1>1. PICK m \in Nat, n \in Nat : m = Len(a) /\ n = Len(b)
    BY DEF Queues
  <1>2. /\ c \in Queues /\ Len(c) = m + n
        /\ \A i \in 1 .. m + n : c[i] = IF i <= m THEN a[i] ELSE b[i - m]
    BY <1>1, ConcatProperties DEF Queues
  <1>3. f \in Seq(Int) /\ Len(f) = m
    BY <1>1, PbufsSequence
  <1>4. g \in Seq(Int) /\ Len(g) = n
    BY <1>1, PbufsSequence
  <1> HIDE DEF c
  <1>5. h \in Seq(Int) /\ Len(h) = m + n
    BY <1>2, PbufsSequence
  <1>6. /\ \A i \in 1 .. m : f[i] = a[i].pbufs
        /\ \A i \in 1 .. n : g[i] = b[i].pbufs
        /\ \A i \in 1 .. m + n : h[i] = c[i].pbufs
    BY <1>1, <1>2
  <1> HIDE DEF f, g, h
  <1>7. /\ f \o g \in Seq(Int) /\ Len(f \o g) = m + n
        /\ \A i \in 1 .. m + n : (f \o g)[i] = IF i <= m THEN f[i] ELSE g[i - m]
    BY <1>3, <1>4, ConcatProperties
  <1>8. ASSUME NEW i \in 1 .. m + n PROVE (f \o g)[i] = h[i]
    <2>1. CASE i <= m
      <3>1. i \in 1 .. m
        BY <2>1
      <3>2. (f \o g)[i] = f[i] /\ c[i] = a[i]
        BY <1>2, <1>7, <2>1
      <3> QED
        BY <1>6, <3>1, <3>2
    <2>2. CASE ~(i <= m)
      <3>1. PICK j \in 1 .. n : j = i - m
        BY <2>2
      <3> QED
        BY <1>2, <1>6, <1>7, <2>2, <3>1
    <2> QED
      BY <2>1, <2>2
  <1>9. f \o g = h
    BY <1>5, <1>7, <1>8, SeqEqual
  <1>10. SumOf(f \o g) = SumOf(f) + SumOf(g)
    BY <1>3, <1>4, SumOfConcat
  <1> QED
    BY <1>9, <1>10 DEF Pbufs, c, f, g, h

LEMMA QueueTypes ==
    ASSUME NEW q \in Queues
    PROVE  /\ Len(q) \in Nat /\ ToSet(q) \subseteq Segments /\ Pbufs(q) \in Int
           /\ DOMAIN q = 1 .. Len(q)
           /\ \A i \in 1 .. Len(q) : q[i] \in Segments /\ q[i] \in ToSet(q)
           /\ \A seg \in ToSet(q) : \E i \in 1 .. Len(q) : q[i] = seg
           /\ \A n : Times(q, n) \in Nat
           /\ \A n : Times(q, n) = 0 <=> \A seg \in ToSet(q) : seg \notin Holds(n)
           /\ q = <<>> <=> Len(q) = 0
  <1>1. Len(q) \in Nat /\ DOMAIN q = 1 .. Len(q) /\ \A i \in 1 .. Len(q) : q[i] \in Segments
    BY LenProperties, ElementOfSeq DEF Queues
  <1>2. ToSet(q) = {q[i] : i \in 1 .. Len(q)}
    BY <1>1 DEF ToSet
  <1>3. Pbufs(q) \in Int
    <2>1. PICK r \in Seq(Int) : r = [i \in 1 .. Len(q) |-> q[i].pbufs]
      BY PbufsSequence
    <2>2. SumOf(r) \in Int
      BY SumOfConcat
    <2> QED
      BY <2>1, <2>2 DEF Pbufs
  <1>4. \A n : /\ Times(q, n) \in Nat
               /\ Times(q, n) = 0 <=> \A i \in 1 .. Len(q) : q[i] \notin Holds(n)
    BY OccurrencesType DEF Times, Queues
  <1>5. q = <<>> <=> Len(q) = 0
    BY EmptySeq DEF Queues
  <1> QED
    BY <1>1, <1>2, <1>3, <1>4, <1>5

LEMMA FewSegments ==
    /\ <<>> \in Queues /\ ToSet(<<>>) = {} /\ Pbufs(<<>>) = 0 /\ \A n : Times(<<>>, n) = 0
    /\ \A seg \in Segments :
          /\ <<seg>> \in Queues /\ ToSet(<<seg>>) = {seg} /\ Pbufs(<<seg>>) = seg.pbufs
          /\ Len(<<seg>>) = 1
          /\ \A n : Times(<<seg>>, n) = IF seg \in Holds(n) THEN 1 ELSE 0
  <1>1. <<>> \in Queues /\ ToSet(<<>>) = {}
    BY EmptyElements DEF Queues
  <1>2. Pbufs(<<>>) = 0
    <2>1. [i \in 1 .. Len(<<>>) |-> <<>>[i].pbufs] = <<>>
      <3>1. PICK r : r = [i \in 1 .. Len(<<>>) |-> <<>>[i].pbufs]
        OBVIOUS
      <3>2. r \in Seq(Int) /\ Len(r) = 0
        BY <1>1, <3>1, PbufsSequence
      <3> QED
        BY <3>1, <3>2
    <2> QED
      BY <2>1, SumOfFew DEF Pbufs
  <1>3. \A n : Times(<<>>, n) = 0
    BY <1>1, QueueTypes
  <1>4. ASSUME NEW seg \in Segments
        PROVE  /\ <<seg>> \in Queues /\ ToSet(<<seg>>) = {seg} /\ Pbufs(<<seg>>) = seg.pbufs
               /\ Len(<<seg>>) = 1
               /\ \A n : Times(<<seg>>, n) = IF seg \in Holds(n) THEN 1 ELSE 0
    <2>1. <<seg>> \in Queues /\ ToSet(<<seg>>) = {seg}
      BY SingleElements DEF Queues
    <2>2. \A n : Times(<<seg>>, n) = IF seg \in Holds(n) THEN 1 ELSE 0
      BY OccurrencesFew DEF Times
    <2>3. PICK q \in Queues : q = <<seg>> /\ Len(q) = 1 /\ q[1] = seg
      <3>1. <<seg>> \in Queues /\ Len(<<seg>>) = 1 /\ <<seg>>[1] = seg
        BY <2>1
      <3> QED
        BY <3>1
    <2>4. PICK r \in Seq(Int) : r = [i \in 1 .. Len(q) |-> q[i].pbufs] /\ Len(r) = 1
      BY <2>3, PbufsSequence
    <2>5. seg.pbufs \in Int
      BY SegmentTypes
    <2>6. PICK x \in Int : x = seg.pbufs
      BY <2>5
    <2>7. r[1] = x
      BY <2>3, <2>4, <2>6
    <2>8. r = <<x>>
      <3>1. <<x>> \in Seq(Int) /\ Len(<<x>>) = 1 /\ <<x>>[1] = x
        OBVIOUS
      <3>2. \A i \in 1 .. 1 : r[i] = <<x>>[i]
        BY <2>7, <3>1
      <3> QED
        BY <2>4, <3>1, <3>2, SeqEqual
    <2>9. Pbufs(<<seg>>) = seg.pbufs
      BY <2>3, <2>4, <2>6, <2>8, SumOfFew DEF Pbufs
    <2> QED
      BY <2>1, <2>2, <2>3, <2>9
  <1> QED
    BY <1>1, <1>2, <1>3, <1>4

LEMMA GathersConcat ==
    ASSUME NEW a \in Queues, NEW b \in Queues
    PROVE  Gathers(a \o b, a, b)
  <1>1. a \o b \in Queues /\ ToSet(a \o b) = ToSet(a) \cup ToSet(b)
    BY ConcatElements DEF Queues
  <1>2. Len(a \o b) = Len(a) + Len(b)
    BY ConcatProperties DEF Queues
  <1>3. \A n : Times(a \o b, n) = Times(a, n) + Times(b, n)
    BY OccurrencesConcat DEF Times, Queues
  <1> QED
    BY <1>1, <1>2, <1>3, PbufsConcat DEF Gathers

LEMMA GathersSplit ==
    ASSUME NEW q \in Queues, NEW k \in 0 .. Len(q)
    PROVE  /\ SubSeq(q, 1, k) \in Queues /\ Len(SubSeq(q, 1, k)) = k
           /\ \A i \in 1 .. k : SubSeq(q, 1, k)[i] = q[i]
           /\ SubSeq(q, k + 1, Len(q)) \in Queues /\ Len(SubSeq(q, k + 1, Len(q))) = Len(q) - k
           /\ \A i \in 1 .. Len(q) - k : SubSeq(q, k + 1, Len(q))[i] = q[k + i]
           /\ q = SubSeq(q, 1, k) \o SubSeq(q, k + 1, Len(q))
           /\ Gathers(q, SubSeq(q, 1, k), SubSeq(q, k + 1, Len(q)))
           /\ ToSet(SubSeq(q, 1, k)) = {q[i] : i \in 1 .. k}
  <1>1. PICK m \in Nat : m = Len(q) /\ \A i \in 1 .. m : q[i] \in Segments
    BY QueueTypes
  <1> DEFINE a == SubSeq(q, 1, k)
             b == SubSeq(q, k + 1, Len(q))
  <1>2. a \in Queues /\ Len(a) = k /\ \A i \in 1 .. k : a[i] = q[i]
    <2>1. \A i \in 1 .. k : q[i] \in Segments
      BY <1>1
    <2>2. /\ a \in Seq(Segments) /\ Len(a) = (IF 1 <= k THEN k - 1 + 1 ELSE 0)
          /\ \A i \in 1 .. k - 1 + 1 : a[i] = q[1 + i - 1]
      BY <1>1, <2>1, SubSeqProperties
    <2>3. \A i \in 1 .. k : i \in 1 .. k - 1 + 1 /\ 1 + i - 1 = i
      BY <1>1
    <2>4. (IF 1 <= k THEN k - 1 + 1 ELSE 0) = k
      BY <1>1
    <2>5. \A i \in 1 .. k : a[i] = q[i]
      BY <2>2, <2>3
    <2> QED
      BY <2>2, <2>4, <2>5 DEF Queues
  <1>3. b \in Queues /\ Len(b) = m - k /\ \A i \in 1 .. m - k : b[i] = q[k + i]
    <2>1. \A i \in k + 1 .. m : q[i] \in Segments
      BY <1>1
    <2>2. /\ b \in Seq(Segments) /\ Len(b) = (IF k + 1 <= m THEN m - (k + 1) + 1 ELSE 0)
          /\ \A i \in 1 .. m - (k + 1) + 1 : b[i] = q[k + 1 + i - 1]
      BY <1>1, <2>1, SubSeqProperties
    <2>3. \A i \in 1 .. m - k : i \in 1 .. m - (k + 1) + 1 /\ k + 1 + i - 1 = k + i
      BY <1>1
    <2>4. (IF k + 1 <= m THEN m - (k + 1) + 1 ELSE 0) = m - k
      BY <1>1
    <2>5. \A i \in 1 .. m - k : b[i] = q[k + i]
      BY <2>2, <2>3
    <2> QED
      BY <2>2, <2>4, <2>5 DEF Queues
  <1> HIDE DEF a, b
  <1>4. q = a \o b
    <2>0. /\ a \o b \in Seq(Segments) /\ Len(a \o b) = Len(a) + Len(b)
          /\ \A i \in 1 .. Len(a) + Len(b) :
                (a \o b)[i] = IF i <= Len(a) THEN a[i] ELSE b[i - Len(a)]
      BY <1>2, <1>3, ConcatProperties DEF Queues
    <2>1. /\ a \o b \in Seq(Segments) /\ Len(a \o b) = k + (m - k)
          /\ \A i \in 1 .. k + (m - k) : (a \o b)[i] = IF i <= k THEN a[i] ELSE b[i - k]
      BY <1>2, <1>3, <2>0
    <2>2. k + (m - k) = m /\ k \in Nat
      BY <1>1
    <2>3. ASSUME NEW i \in 1 .. m PROVE (a \o b)[i] = q[i]
      <3>1. CASE i <= k
        BY <1>2, <2>1, <2>2, <3>1
      <3>2. CASE ~(i <= k)
        <4>1. PICK j \in 1 .. m - k : j = i - k /\ k + j = i
          BY <2>2, <3>2
        <4> QED
          BY <1>3, <2>1, <2>2, <3>2, <4>1
      <3> QED
        BY <3>1, <3>2
    <2>4. q \in Seq(Segments)
      BY DEF Queues
    <2> QED
      BY <1>1, <2>1, <2>2, <2>3, <2>4, SeqEqual
  <1>5. Gathers(a \o b, a, b)
    BY <1>2, <1>3, GathersConcat
  <1>6. ToSet(a) = {q[i] : i \in 1 .. k}
    <2>1. DOMAIN a = 1 .. k
      BY <1>2 DEF Queues
    <2>2. ToSet(a) = {a[i] : i \in 1 .. k}
      BY <2>1 DEF ToSet
    <2> QED
      BY <1>2, <2>2
  <1>7. Gathers(q, a, b)
    BY <1>4, <1>5
  <1> QED
    BY <1>1, <1>2, <1>3, <1>4, <1>6, <1>7 DEF a, b

\* The greatest of a bounded set.
LEMMA MaxOf ==
    ASSUME NEW n \in Nat, NEW S \in SUBSET (0 .. n), S # {}
    PROVE  Max(S) \in S /\ \A y \in S : y <= Max(S)
  <1> DEFINE T == {n - y : y \in S}
  <1>1. T \subseteq Nat /\ T # {}
    <2>1. \A y \in S : y \in 0 .. n /\ n - y \in Nat
      OBVIOUS
    <2>2. PICK y \in S : TRUE
      OBVIOUS
    <2>3. n - y \in T
      OBVIOUS
    <2> QED
      BY <2>1, <2>3
  <1>2. PICK t \in T : \A u \in T : t <= u
    BY <1>1, LeastNat
  <1>3. PICK x \in S : t = n - x
    OBVIOUS
  <1>4. \A y \in S : x >= y
    <2> TAKE y \in S
    <2>1. n - x <= n - y
      BY <1>2, <1>3
    <2>2. x \in Nat /\ y \in Nat
      OBVIOUS
    <2> HIDE DEF T
    <2> QED
      BY <2>1, <2>2
  <1> HIDE DEF T
  <1>5. \E z \in S : \A y \in S : z >= y
    BY <1>3, <1>4
  <1>6. Max(S) \in S /\ \A y \in S : Max(S) >= y
    BY <1>5 DEF Max
  <1> QED
    BY <1>6

LEMMA InsertPlace ==
    ASSUME NEW q \in Queues, NEW seg \in Segments
    PROVE  LET before == {i \in 1 .. Len(q) : q[i].seq < seg.seq}
           IN  /\ Cardinality(before) \in 0 .. Len(q)
               /\ (\A i \in 1 .. Len(q) : q[i].seq < seg.seq) => Cardinality(before) = Len(q)
               /\ (\A i \in 1 .. Len(q) : ~(q[i].seq < seg.seq)) => Cardinality(before) = 0
  <1> DEFINE before == {i \in 1 .. Len(q) : q[i].seq < seg.seq}
  <1>1. Len(q) \in Nat
    BY QueueTypes
  <1>2. IsFiniteSet(1 .. Len(q)) /\ Cardinality(1 .. Len(q)) = Len(q)
    <2>1. PICK n \in Nat : n = Len(q)
      BY <1>1
    <2>2. IsFiniteSet(1 .. n) /\ Cardinality(1 .. n) = IF 1 > n THEN 0 ELSE n - 1 + 1
      BY FS_Interval
    <2>3. Cardinality(1 .. n) = n
      BY <2>2
    <2> QED
      BY <2>1, <2>2, <2>3
  <1>3. before \subseteq 1 .. Len(q)
    OBVIOUS
  <1>4. Cardinality(before) \in Nat /\ Cardinality(before) <= Len(q)
    BY <1>2, <1>3, FS_Subset, FS_CardinalityType
  <1>5. (\A i \in 1 .. Len(q) : q[i].seq < seg.seq) => before = 1 .. Len(q)
    OBVIOUS
  <1>6. (\A i \in 1 .. Len(q) : ~(q[i].seq < seg.seq)) => before = {}
    OBVIOUS
  <1>7. Cardinality({}) = 0
    BY FS_EmptySet
  <1> HIDE DEF before
  <1>8. Cardinality(before) \in 0 .. Len(q)
    BY <1>1, <1>4
  <1>9. (\A i \in 1 .. Len(q) : q[i].seq < seg.seq) => Cardinality(before) = Len(q)
    BY <1>2, <1>5
  <1>10. (\A i \in 1 .. Len(q) : ~(q[i].seq < seg.seq)) => Cardinality(before) = 0
    BY <1>6, <1>7
  <1> QED
    BY <1>8, <1>9, <1>10 DEF before

LEMMA InsertParts ==
    ASSUME NEW q \in Queues, NEW seg \in Segments, NEW k \in 0 .. Len(q)
    PROVE  /\ Gathers(InsertAt(q, 1 + k, seg), q, <<seg>>)
           /\ k = Len(q) => InsertAt(q, 1 + k, seg) = q \o <<seg>>
           /\ k = 0 => InsertAt(q, 1 + k, seg) = <<seg>> \o q
  <1>1. PICK a, b : a = SubSeq(q, 1, k) /\ b = SubSeq(q, k + 1, Len(q))
    OBVIOUS
  <1>2. PICK s : s = <<seg>>
    OBVIOUS
  <1>3. Len(q) \in Nat
    BY QueueTypes
  <1>4. a \in Queues /\ b \in Queues /\ q = a \o b /\ Gathers(q, a, b) /\ Len(a) = k /\ Len(b) = Len(q) - k
    BY <1>1, GathersSplit
  <1>5. s \in Queues
    BY <1>2, FewSegments
  <1>6. InsertAt(q, 1 + k, seg) = (a \o s) \o b
    <2>1. (1 + k) - 1 = k /\ 1 + k = k + 1
      BY <1>3
    <2> QED
      BY <1>1, <1>2, <2>1 DEF InsertAt
  <1>7. PICK c \in Queues : c = a \o s /\ Gathers(c, a, s)
    <2>1. Gathers(a \o s, a, s)
      BY <1>4, <1>5, GathersConcat
    <2> QED
      BY <2>1 DEF Gathers
  <1>8. PICK d \in Queues : d = c \o b /\ Gathers(d, c, b)
    <2>1. Gathers(c \o b, c, b)
      BY <1>4, <1>7, GathersConcat
    <2> QED
      BY <2>1 DEF Gathers
  <1>9. /\ Len(a) \in Int /\ Len(b) \in Int /\ Len(s) \in Int
        /\ Pbufs(a) \in Int /\ Pbufs(b) \in Int /\ Pbufs(s) \in Int
        /\ \A n : Times(a, n) \in Int /\ Times(b, n) \in Int /\ Times(s, n) \in Int
    <2>1. \A r \in Queues : Len(r) \in Int /\ Pbufs(r) \in Int /\ \A n : Times(r, n) \in Int
      BY QueueTypes
    <2> QED
      BY <1>4, <1>5, <2>1
  <1>10. Gathers(d, q, s)
    <2>1. ToSet(d) = ToSet(q) \cup ToSet(s)
      BY <1>4, <1>7, <1>8 DEF Gathers
    <2>2. Len(d) = Len(q) + Len(s)
      BY <1>4, <1>7, <1>8, <1>9 DEF Gathers
    <2>3. Pbufs(d) = Pbufs(q) + Pbufs(s)
      BY <1>4, <1>7, <1>8, <1>9 DEF Gathers
    <2>4. \A n : Times(d, n) = Times(q, n) + Times(s, n)
      BY <1>4, <1>7, <1>8, <1>9 DEF Gathers
    <2> QED
      BY <2>1, <2>2, <2>3, <2>4 DEF Gathers
  <1>11. k = Len(q) => d = q \o s
    <2> SUFFICES ASSUME k = Len(q) PROVE d = q \o s
      OBVIOUS
    <2>1. b = <<>>
      BY <1>3, <1>4, QueueTypes
    <2>2. c \o <<>> = c /\ a \o <<>> = a
      BY <1>4, <1>7, ConcatEmptySeq DEF Queues
    <2> QED
      BY <1>4, <1>7, <1>8, <2>1, <2>2
  <1>12. k = 0 => d = s \o q
    <2> SUFFICES ASSUME k = 0 PROVE d = s \o q
      OBVIOUS
    <2>1. a = <<>>
      BY <1>4, QueueTypes
    <2>2. <<>> \o s = s /\ <<>> \o b = b
      BY <1>4, <1>5, ConcatEmptySeq DEF Queues
    <2> QED
      BY <1>4, <1>7, <1>8, <2>1, <2>2
  <1> QED
    BY <1>2, <1>6, <1>7, <1>8, <1>10, <1>11, <1>12

\* A segment that is put into its place in a queue.
LEMMA InsertGathers ==
    ASSUME NEW q \in Queues, NEW seg \in Segments
    PROVE  /\ Gathers(Insert(q, seg), q, <<seg>>)
           /\ (\A i \in 1 .. Len(q) : q[i].seq < seg.seq) => Insert(q, seg) = q \o <<seg>>
           /\ (\A i \in 1 .. Len(q) : ~(q[i].seq < seg.seq)) => Insert(q, seg) = <<seg>> \o q
  <1>1. PICK k : k = Cardinality({i \in 1 .. Len(q) : q[i].seq < seg.seq})
    OBVIOUS
  <1>2. /\ k \in 0 .. Len(q)
        /\ (\A i \in 1 .. Len(q) : q[i].seq < seg.seq) => k = Len(q)
        /\ (\A i \in 1 .. Len(q) : ~(q[i].seq < seg.seq)) => k = 0
    BY <1>1, InsertPlace
  <1>3. Insert(q, seg) = InsertAt(q, 1 + k, seg)
    BY <1>1 DEF Insert
  <1>4. /\ Gathers(InsertAt(q, 1 + k, seg), q, <<seg>>)
        /\ k = Len(q) => InsertAt(q, 1 + k, seg) = q \o <<seg>>
        /\ k = 0 => InsertAt(q, 1 + k, seg) = <<seg>> \o q
    BY <1>2, InsertParts
  <1> QED
    BY <1>2, <1>3, <1>4

-----------------------------------------------------------------------------
(* Segments that join others                                               *)

\* The recursive function of Joined is what its definition says.
LEMMA JoinedRecursion ==
    ASSUME NEW p, p.unacked \in Queues, p.unsent \in Queues, NEW k \in 0 .. Len(p.unsent)
    PROVE  \E f : /\ f[0] = p.unacked /\ f[k] = Joined(p, k)
                  /\ \A n \in 1 .. k : f[n] = Insert(f[n - 1], p.unsent[n])
  <1> DEFINE Follows(n, f) == /\ f = [i \in 0 .. n |-> f[i]] /\ f[0] = p.unacked
                              /\ \A i \in 1 .. n : f[i] = Insert(f[i - 1], p.unsent[i])
             S == {n \in Nat : \E f : Follows(n, f)}
             F(f) == [n \in 0 .. k |-> IF n = 0 THEN p.unacked ELSE Insert(f[n - 1], p.unsent[n])]
             j == CHOOSE f : f = F(f)
  <1>0. k \in Nat
    BY QueueTypes
  <1>1. 0 \in S
    <2>1. Follows(0, [i \in 0 .. 0 |-> p.unacked])
      OBVIOUS
    <2> QED
      BY <2>1
  <1>2. ASSUME NEW n \in Nat, n \in S
        PROVE  n + 1 \in S
    <2> HIDE DEF Follows
    <2> SUFFICES \E f : Follows(n + 1, f)
      OBVIOUS
    <2>1. PICK f : Follows(n, f)
      BY <1>2
    <2> USE DEF Follows
    <2> DEFINE g == [i \in 0 .. n + 1 |-> IF i <= n THEN f[i] ELSE Insert(f[n], p.unsent[n + 1])]
    <2>3. g[0] = p.unacked
      BY <2>1
    <2>4. ASSUME NEW i \in 1 .. n + 1
          PROVE  g[i] = Insert(g[i - 1], p.unsent[i])
      <3>1. i - 1 \in 0 .. n /\ i - 1 \in 0 .. n + 1
        OBVIOUS
      <3>2. g[i - 1] = f[i - 1]
        BY <3>1
      <3>3. CASE i <= n
        <4>1. i \in 1 .. n /\ i \in 0 .. n + 1
          BY <3>3
        <4>2. g[i] = f[i]
          BY <3>3, <4>1
        <4>3. f[i] = Insert(f[i - 1], p.unsent[i])
          BY <2>1, <4>1
        <4> HIDE DEF g
        <4> QED
          BY <3>2, <4>2, <4>3
      <3>4. CASE ~(i <= n)
        <4>1. i = n + 1 /\ i - 1 = n
          BY <3>4
        <4> QED
          BY <3>2, <4>1
      <3> QED
        BY <3>3, <3>4
    <2>5. Follows(n + 1, g)
      BY <2>3, <2>4
    <2> QED
      BY <2>5
  <1> HIDE DEF S
  <1>3. Nat \subseteq S
    BY <1>1, <1>2, InductionOnNat
  <1> HIDE DEF Follows
  <1>5. \E f : Follows(k, f)
    BY <1>0, <1>3 DEF S
  <1>6. PICK f : Follows(k, f)
    BY <1>5
  <1> USE DEF Follows
  <1>7. f = F(f)
    <2>1. ASSUME NEW n \in 0 .. k
          PROVE  f[n] = IF n = 0 THEN p.unacked ELSE Insert(f[n - 1], p.unsent[n])
      <3>1. n # 0 => n \in 1 .. k
        BY <1>0
      <3> QED
        BY <1>6, <3>1
    <2>2. f = [n \in 0 .. k |-> f[n]]
      BY <1>6
    <2> QED
      BY <2>1, <2>2
  <1>8. j = F(j)
    BY <1>7
  <1>9. Joined(p, k) = j[k]
    BY DEF Joined
  <1> HIDE DEF j
  <1>10. j[0] = p.unacked /\ \A n \in 1 .. k : j[n] = Insert(j[n - 1], p.unsent[n])
    BY <1>0, <1>8
  <1> QED
    BY <1>9, <1>10

LEMMA JoinedGathers ==
    ASSUME NEW p, p.unacked \in Queues, p.unsent \in Queues, NEW k \in 0 .. Len(p.unsent)
    PROVE  Gathers(Joined(p, k), p.unacked, SubSeq(p.unsent, 1, k))
  <1>1. PICK f : /\ f[0] = p.unacked /\ f[k] = Joined(p, k)
                 /\ \A n \in 1 .. k : f[n] = Insert(f[n - 1], p.unsent[n])
    BY JoinedRecursion
  <1>2. PICK u \in Queues, a \in Queues : u = p.unsent /\ a = p.unacked
    OBVIOUS
  <1>3. PICK m \in Nat : m = Len(u) /\ k \in 0 .. m /\ \A i \in 1 .. m : u[i] \in Segments
    BY <1>2, QueueTypes
  <1> DEFINE Pre(n) == SubSeq(u, 1, n)
             S == {n \in Nat : n <= k => Gathers(f[n], a, Pre(n))}
  <1>4. \A n \in 0 .. k : Pre(n) \in Queues /\ Len(Pre(n)) = n /\ \A i \in 1 .. n : Pre(n)[i] = u[i]
    BY <1>3, GathersSplit
  <1>5. 0 \in S
    <2>1. Pre(0) = <<>>
      BY <1>3, <1>4, QueueTypes
    <2>2. Gathers(a, a, <<>>)
      <3>1. Len(a) \in Int /\ Pbufs(a) \in Int /\ \A n : Times(a, n) \in Int
        BY QueueTypes
      <3>2. Len(<<>>) = 0
        OBVIOUS
      <3> QED
        BY <3>1, <3>2, FewSegments DEF Gathers
    <2> HIDE DEF Pre
    <2> QED
      BY <1>1, <1>2, <2>1, <2>2
  <1>6. ASSUME NEW n \in Nat, n \in S PROVE n + 1 \in S
    <2> SUFFICES ASSUME n + 1 <= k PROVE Gathers(f[n + 1], a, Pre(n + 1))
      OBVIOUS
    <2>1. n \in 0 .. k /\ n + 1 \in 0 .. k /\ n + 1 \in 1 .. k /\ n + 1 \in 1 .. m /\ (n + 1) - 1 = n
      BY <1>3
    <2>2. Gathers(f[n], a, Pre(n))
      BY <1>6, <2>1
    <2>3. PICK seg \in Segments : seg = u[n + 1]
      BY <1>3, <2>1
    <2>4. PICK g \in Queues : g = f[n]
      BY <2>2 DEF Gathers
    <2>5. f[n + 1] = Insert(g, seg)
      BY <1>1, <1>2, <2>1, <2>3, <2>4
    <2>6. Gathers(Insert(g, seg), g, <<seg>>)
      BY InsertGathers
    <2>7. Gathers(Pre(n + 1), Pre(n), <<seg>>)
      <3>1. PICK b \in Queues, c \in Queues : b = Pre(n) /\ c = Pre(n + 1)
        BY <1>4, <2>1
      <3>2. /\ Len(b) = n /\ Len(c) = n + 1
            /\ \A i \in 1 .. n : b[i] = u[i]
            /\ \A i \in 1 .. n + 1 : c[i] = u[i]
        BY <1>4, <2>1, <3>1
      <3>3. PICK s \in Queues : s = <<seg>> /\ Len(s) = 1 /\ s[1] = seg
        <4>1. <<seg>> \in Queues /\ Len(<<seg>>) = 1 /\ <<seg>>[1] = seg
          BY FewSegments
        <4> QED
          BY <4>1
      <3>4. /\ b \o s \in Queues /\ Len(b \o s) = n + 1
            /\ \A i \in 1 .. n + 1 : (b \o s)[i] = IF i <= n THEN b[i] ELSE s[i - n]
        <4>1. /\ b \o s \in Queues /\ Len(b \o s) = Len(b) + Len(s)
              /\ \A i \in 1 .. Len(b) + Len(s) : (b \o s)[i] = IF i <= Len(b) THEN b[i] ELSE s[i - Len(b)]
          BY ConcatProperties DEF Queues
        <4> QED
          BY <3>2, <3>3, <4>1
      <3>5. ASSUME NEW i \in 1 .. n + 1 PROVE (b \o s)[i] = c[i]
        <4>1. CASE i <= n
          <5>1. i \in 1 .. n
            BY <4>1
          <5> QED
            BY <3>2, <3>4, <4>1, <5>1
        <4>2. CASE ~(i <= n)
          <5>1. i = n + 1 /\ i - n = 1
            BY <4>2
          <5>2. (b \o s)[i] = s[1]
            BY <3>4, <4>2, <5>1
          <5> QED
            BY <2>3, <3>2, <3>3, <5>1, <5>2
        <4> QED
          BY <4>1, <4>2
      <3>6. b \o s = c
        BY <3>2, <3>4, <3>5, SeqEqual, SMTT(30) DEF Queues
      <3>7. Gathers(b \o s, b, s)
        BY GathersConcat
      <3> HIDE DEF Pre
      <3> QED
        BY <3>1, <3>3, <3>6, <3>7
    <2>8. PICK h : h = f[n + 1] /\ Gathers(h, g, <<seg>>)
      BY <2>5, <2>6
    <2>9. PICK b \in Queues, c \in Queues : b = Pre(n) /\ c = Pre(n + 1)
      BY <1>4, <2>1
    <2>10. Gathers(g, a, b) /\ Gathers(c, b, <<seg>>)
      BY <2>2, <2>4, <2>7, <2>9
    <2>11. /\ \A r \in {a, b, <<seg>>} : Len(r) \in Int /\ Pbufs(r) \in Int /\ \A i : Times(r, i) \in Int
      <3>1. \A r \in Queues : Len(r) \in Int /\ Pbufs(r) \in Int /\ \A i : Times(r, i) \in Int
        BY QueueTypes
      <3>2. <<seg>> \in Queues
        BY FewSegments
      <3> QED
        BY <3>1, <3>2
    <2> HIDE DEF Pre
    <2>12. Gathers(h, a, c)
      <3>1. PICK s : s = <<seg>>
        OBVIOUS
      <3>2. h \in Queues /\ ToSet(h) = ToSet(a) \cup ToSet(c)
        BY <2>8, <2>10, <3>1 DEF Gathers
      <3>3. Len(h) = Len(a) + Len(c)
        BY <2>8, <2>10, <2>11, <3>1 DEF Gathers
      <3>4. Pbufs(h) = Pbufs(a) + Pbufs(c)
        BY <2>8, <2>10, <2>11, <3>1 DEF Gathers
      <3>5. ASSUME NEW i PROVE Times(h, i) = Times(a, i) + Times(c, i)
        <4>1. Times(h, i) = Times(g, i) + Times(s, i)
          BY <2>8, <3>1 DEF Gathers
        <4>2. Times(g, i) = Times(a, i) + Times(b, i) /\ Times(c, i) = Times(b, i) + Times(s, i)
          BY <2>10, <3>1 DEF Gathers
        <4>3. Times(a, i) \in Int /\ Times(b, i) \in Int /\ Times(s, i) \in Int
          BY <2>11, <3>1
        <4> QED
          BY <4>1, <4>2, <4>3
      <3> QED
        BY <3>2, <3>3, <3>4, <3>5 DEF Gathers
    <2> QED
      BY <2>8, <2>9, <2>12
  <1> HIDE DEF S
  <1>7. Nat \subseteq S
    BY <1>5, <1>6, InductionOnNat
  <1>8. Gathers(f[k], a, Pre(k))
    <2>1. k \in Nat /\ k <= k
      BY <1>3
    <2> QED
      BY <1>7, <2>1 DEF S
  <1> QED
    BY <1>1, <1>2, <1>8

-----------------------------------------------------------------------------
(* The pcb as a function of the names of its fields                        *)

Fields == {"state", "unsent", "unacked", "lastack", "nxt", "lbb", "wnd", "wl1", "wl2",
           "buf", "qlen", "cwnd", "running", "nrtx", "dupacks", "infr", "memerr", "fin",
           "acknow", "persist", "rcv", "acked", "left", "closing", "early", "input", "out"}

IsPcb(p) == p = [f \in Fields |-> p[f]]

\* Both are pcbs, and q differs from p in these fields at most.
Keeps(p, q, changed) ==
    IsPcb(p) /\ IsPcb(q) /\ \A f \in Fields \ changed : q[f] = p[f]

LEMMA SendFrame ==
    ASSUME NEW p, IsPcb(p), NEW k
    PROVE  /\ Keeps(p, SendFirst(p, k), {"unsent", "unacked", "nxt", "out", "running",
                                         "acknow", "memerr", "persist"})
           /\ SendFirst(p, k).unsent = SubSeq(p.unsent, k + 1, Len(p.unsent))
           /\ SendFirst(p, k).unacked = Joined(p, k)
           /\ SendFirst(p, k).nxt = Max({p.nxt} \cup {EndOf(p.unsent[i]) : i \in 1 .. k})
           /\ SendFirst(p, k).out = p.out \cup {p.unsent[i] : i \in 1 .. k}
           /\ SendFirst(p, k).running = (p.running \/ k > 0)
           /\ SendFirst(p, k).persist = (p.persist \/ Persists(p, SendFirst(p, k).unsent))
  <1>1. PICK rest : rest = SubSeq(p.unsent, k + 1, Len(p.unsent))
    OBVIOUS
  <1>2. PICK q : q = Send(p, k, rest)
    OBVIOUS
  <1>3. SendFirst(p, k) = q
    BY <1>1, <1>2 DEF SendFirst
  <1>4. /\ Keeps(p, q, {"unsent", "unacked", "nxt", "out", "running",
                        "acknow", "memerr", "persist"})
        /\ q.unsent = rest /\ q.unacked = Joined(p, k)
        /\ q.nxt = Max({p.nxt} \cup {EndOf(p.unsent[i]) : i \in 1 .. k})
        /\ q.out = p.out \cup {p.unsent[i] : i \in 1 .. k}
        /\ q.running = (p.running \/ k > 0)
        /\ q.persist = (p.persist \/ Persists(p, rest))
    BY <1>2, ZenonT(40) DEF Send, Keeps, IsPcb, Fields
  <1> QED
    BY <1>1, <1>3, <1>4

LEMMA EnqueueFrame ==
    ASSUME NEW p, IsPcb(p), NEW len, NEW fin
    PROVE  /\ Keeps(p, Enqueue(p, len, fin), {"unsent", "fin", "lbb", "buf", "qlen"})
           /\ Enqueue(p, len, fin).unsent =
                 IF Chains(p, len)
                 THEN Append(Front(p.unsent), Extended(Last(p.unsent), len, fin))
                 ELSE Append(p.unsent, [seq |-> p.lbb, len |-> len, fin |-> fin, pbufs |-> 1])
           /\ Enqueue(p, len, fin).lbb = p.lbb + (IF fin THEN 1 ELSE len)
           /\ Enqueue(p, len, fin).buf = (p.buf - (IF fin THEN 1 ELSE len)) % 65536
           /\ Enqueue(p, len, fin).qlen = p.qlen + Counted(p, len, fin)
  <1>1. PICK u : u = IF Chains(p, len)
                     THEN Append(Front(p.unsent), Extended(Last(p.unsent), len, fin))
                     ELSE Append(p.unsent, [seq |-> p.lbb, len |-> len, fin |-> fin, pbufs |-> 1])
    OBVIOUS
  <1>6. PICK l : l = p.lbb + (IF fin THEN 1 ELSE len)
    OBVIOUS
  <1>7. PICK b : b = (p.buf - (IF fin THEN 1 ELSE len)) % 65536
    OBVIOUS
  <1>8. PICK c : c = p.qlen + Counted(p, len, fin)
    OBVIOUS
  <1>2. Enqueue(p, len, fin) = [p EXCEPT !.unsent = u, !.fin = @ \/ fin, !.lbb = l, !.buf = b, !.qlen = c]
    BY <1>1, <1>6, <1>7, <1>8 DEF Enqueue
  <1>3. PICK q : q = [p EXCEPT !.unsent = u, !.fin = @ \/ fin, !.lbb = l, !.buf = b, !.qlen = c]
    OBVIOUS
  <1>4. Keeps(p, q, {"unsent", "fin", "lbb", "buf", "qlen"})
    BY <1>3, ZenonT(40) DEF Keeps, IsPcb, Fields
  <1>5. q.unsent = u /\ q.lbb = l /\ q.buf = b /\ q.qlen = c
    BY <1>3 DEF IsPcb, Fields
  <1> QED
    BY <1>1, <1>2, <1>3, <1>4, <1>5, <1>6, <1>7, <1>8

LEMMA InitPcb ==
    ASSUME Init
    PROVE  IsPcb(pcb)
  BY DEF Init, IsPcb, Fields

LEMMA AccountFrame ==
    ASSUME NEW p, IsPcb(p), NEW unacked, NEW unsent
    PROVE  /\ Keeps(p, Free(p, unacked, unsent), {"unacked", "unsent", "qlen", "acked"})
           /\ Free(p, unacked, unsent).unacked = unacked
           /\ Free(p, unacked, unsent).unsent = unsent
           /\ Free(p, unacked, unsent).qlen =
                 p.qlen - (Pbufs(p.unacked \o p.unsent) - Pbufs(unacked \o unsent))
           /\ Free(p, unacked, unsent).acked \in {p.acked, p.acked - 1}
           /\ p.acked = 0 => Free(p, unacked, unsent).acked = 0
  BY ZenonT(40) DEF Free, Account, Keeps, IsPcb, Fields

-----------------------------------------------------------------------------
(* What holds of the pcb, in the middle of a step, too                     *)

States == Writable \cup Closing \cup Over

\* How far the writer, the sending and the acknowledging have come.
Numbers(p) ==
    /\ p.state \in States
    /\ p.lastack \in 0 .. Total + 1 /\ p.nxt \in 0 .. Total + 1 /\ p.lbb \in 0 .. Total + 1
    /\ p.lastack <= p.nxt /\ p.nxt <= p.lbb
    /\ p.left \in 0 .. WriteLen
    /\ p.state \in Writable => p.lbb + p.left <= Total
    /\ p.state \in Closing => p.lbb = Total + 1 /\ p.left = 0
    /\ p.closing => p.lbb >= Total /\ p.left = 0

Counters(p) ==
    /\ p.wnd \in 0 .. PeerBuf /\ p.wl1 \in 0 .. 1 /\ p.wl2 \in 0 .. Total + 1
    /\ p.rcv \in 0 .. 1
    /\ p.buf \in u16_t /\ p.qlen \in 0 .. QueueLen
    /\ p.cwnd \in MSS .. SndBuf
    /\ p.nrtx \in 0 .. MaxRtx + 1 /\ p.dupacks \in 0 .. 4
    /\ p.acked \in 0 .. Total + 1

\* A segment has something in it, nothing beyond what was enqueued, and no more
\* pbufs than units.
Whole(lbb, seg) ==
    /\ seg.seq < EndOf(seg) /\ EndOf(seg) <= lbb
    /\ seg.pbufs >= 1 /\ (seg.pbufs <= seg.len \/ seg.pbufs = 1)
    /\ seg.seq + seg.len <= Total /\ (seg.fin => seg.seq + seg.len = Total)

InQueues(p) == ToSet(p.unacked) \cup ToSet(p.unsent)
TimesIn(p, n) == Times(p.unacked, n) + Times(p.unsent, n)
PbufsIn(p) == Pbufs(p.unacked) + Pbufs(p.unsent)

QueuesType(p) == p.unacked \in Queues /\ p.unsent \in Queues

\* What was written and is not acknowledged is in the queues, once.
Filled(p) ==
    /\ \A seg \in InQueues(p) : Whole(p.lbb, seg)
    /\ \A seg \in ToSet(p.unacked) : EndOf(seg) <= p.nxt
    /\ p.nxt = p.lbb \/ \E seg \in ToSet(p.unsent) : EndOf(seg) = p.lbb
    /\ \A n \in p.lastack .. p.lbb - 1 : TimesIn(p, n) = 1
    /\ p.qlen = PbufsIn(p)
    /\ p.buf = (SndBuf - (p.lbb - p.lastack)) % 65536
Emptied(p) == p.unacked = <<>> /\ p.unsent = <<>>

QueuesState(p) == IF p.state \in Over THEN Emptied(p) ELSE Filled(p)

TimerState(p) == p.unacked # <<>> => p.running

\* What is sent in a step is among what is unacknowledged, and fits.
Sendable(p) ==
    /\ p.out \subseteq ToSet(p.unacked)
    /\ \A seg \in p.out : seg.seq + seg.len <= p.lastack + p.wnd
    /\ p.input => p.out = {}

Sound(p) ==
    /\ IsPcb(p) /\ QueuesType(p)
    /\ Numbers(p) /\ Counters(p) /\ QueuesState(p) /\ TimerState(p) /\ Sendable(p)

-----------------------------------------------------------------------------
(* What each group depends upon                                            *)

NumberFields == {"state", "lastack", "nxt", "lbb", "left", "closing"}
CounterFields == {"wnd", "wl1", "wl2", "rcv", "buf", "qlen", "cwnd", "nrtx", "dupacks", "acked"}
SendFields == {"unsent", "unacked", "nxt", "out", "running", "acknow", "memerr", "persist"}
MarkFields == {"infr", "memerr", "fin", "acknow", "persist", "early"}

LEMMA ConstantTypes ==
    /\ Total \in Nat /\ WriteLen \in Nat \ {0} /\ MSS \in Nat \ {0} /\ QueueLen \in Nat \ {0}
    /\ MaxRtx \in Nat \ {0} /\ PeerBuf \in Nat \ {0} /\ WireSize \in Nat \ {0}
    /\ AcksSize \in Nat \ {0} /\ SndBuf \in Nat
    /\ WriteLen <= MSS /\ SndBuf = 2 * MSS /\ MSS <= SndBuf /\ SndBuf < 65536
  BY SendAssumption

LEMMA MinOfTwo ==
    \A a, b \in Int : /\ Min2(a, b) \in Int /\ Min2(a, b) <= a /\ Min2(a, b) <= b
                     /\ Min2(a, b) \in {a, b}
  BY DEF Min2

LEMMA CountersKept ==
    ASSUME NEW p, NEW q, NEW F, Keeps(p, q, F), F \cap CounterFields = {}, Counters(p)
    PROVE  Counters(q)
  <1>1. \A f \in CounterFields : q[f] = p[f]
    BY DEF Keeps, CounterFields, Fields
  <1>2. q.wnd = p.wnd /\ q.wl1 = p.wl1 /\ q.wl2 = p.wl2 /\ q.rcv = p.rcv
    BY <1>1 DEF CounterFields
  <1>3. q.buf = p.buf /\ q.qlen = p.qlen /\ q.cwnd = p.cwnd
    BY <1>1 DEF CounterFields
  <1>4. q.nrtx = p.nrtx /\ q.dupacks = p.dupacks /\ q.acked = p.acked
    BY <1>1 DEF CounterFields
  <1> QED
    BY <1>2, <1>3, <1>4 DEF Counters

LEMMA NumbersKept ==
    ASSUME NEW p, NEW q, NEW F, Keeps(p, q, F), F \cap NumberFields = {}, Numbers(p)
    PROVE  Numbers(q)
  <1>1. \A f \in NumberFields : q[f] = p[f]
    BY DEF Keeps, NumberFields, Fields
  <1> QED
    BY <1>1 DEF Numbers, NumberFields

LEMMA KeepsTransitive ==
    ASSUME NEW p, NEW q, NEW r, NEW F, NEW G, Keeps(p, q, F), Keeps(q, r, G)
    PROVE  Keeps(p, r, F \cup G)
  BY DEF Keeps

LEMMA KeepsFewer ==
    ASSUME NEW p, NEW q, NEW F, NEW G, F \subseteq G, Keeps(p, q, F)
    PROVE  Keeps(p, q, G)
  BY DEF Keeps

\* Flags that nothing in Sound looks at.
LEMMA MarksSound ==
    ASSUME NEW p, NEW q, Sound(p), Keeps(p, q, MarkFields)
    PROVE  Sound(q)
  <1>1. \A f \in Fields \ MarkFields : q[f] = p[f]
    BY DEF Keeps
  <1>2. /\ q.state = p.state /\ q.unacked = p.unacked /\ q.unsent = p.unsent
        /\ q.lastack = p.lastack /\ q.nxt = p.nxt /\ q.lbb = p.lbb
        /\ q.qlen = p.qlen /\ q.buf = p.buf /\ q.running = p.running
        /\ q.out = p.out /\ q.wnd = p.wnd /\ q.input = p.input
    BY <1>1 DEF Fields, MarkFields
  <1>3. Numbers(q) /\ Counters(q)
    <2>1. MarkFields \cap NumberFields = {} /\ MarkFields \cap CounterFields = {}
      BY DEF MarkFields, NumberFields, CounterFields
    <2> QED
      BY <2>1, NumbersKept, CountersKept DEF Sound
  <1>4. QueuesState(q)
    BY <1>2 DEF Sound, QueuesState, Filled, Emptied, InQueues, TimesIn, PbufsIn
  <1>5. QueuesType(q) /\ TimerState(q) /\ Sendable(q)
    BY <1>2 DEF Sound, QueuesType, TimerState, Sendable
  <1> QED
    BY <1>3, <1>4, <1>5 DEF Sound, Keeps

\* Segments change places.
Conserves(p, q) ==
    /\ QueuesType(q)
    /\ InQueues(q) = InQueues(p) /\ PbufsIn(q) = PbufsIn(p)
    /\ \A n : TimesIn(q, n) = TimesIn(p, n)

LEMMA ConservesFilled ==
    ASSUME NEW p, NEW q, Filled(p), Conserves(p, q),
           q.lbb = p.lbb, q.lastack = p.lastack, q.qlen = p.qlen, q.buf = p.buf,
           \A seg \in ToSet(q.unacked) : EndOf(seg) <= q.nxt,
           q.nxt = q.lbb \/ \E seg \in ToSet(q.unsent) : EndOf(seg) = q.lbb
    PROVE  Filled(q)
  BY DEF Filled, Conserves

-----------------------------------------------------------------------------
(* Output                                                                  *)

LEMMA SendConserves ==
    ASSUME NEW p, IsPcb(p), QueuesType(p), NEW k \in 0 .. Len(p.unsent)
    PROVE  /\ Conserves(p, SendFirst(p, k))
           /\ ToSet(SendFirst(p, k).unacked) =
                 ToSet(p.unacked) \cup {p.unsent[i] : i \in 1 .. k}
           /\ SendFirst(p, k).unsent = SubSeq(p.unsent, k + 1, Len(p.unsent))
           /\ k = 0 => SendFirst(p, k).unacked = p.unacked
  <1>1. PICK a \in Queues, u \in Queues : a = p.unacked /\ u = p.unsent
    BY DEF QueuesType
  <1>2. PICK b \in Queues, c \in Queues :
            /\ b = SubSeq(u, 1, k) /\ c = SubSeq(u, k + 1, Len(u)) /\ Gathers(u, b, c)
            /\ ToSet(b) = {u[i] : i \in 1 .. k} /\ Len(b) = k
    BY <1>1, GathersSplit
  <1>3. PICK j : j = Joined(p, k) /\ Gathers(j, a, b)
    BY <1>1, <1>2, JoinedGathers
  <1>4. PICK q : q = SendFirst(p, k)
    OBVIOUS
  <1>5. q.unacked = j /\ q.unsent = c
    <2>1. SendFirst(p, k).unsent = SubSeq(p.unsent, k + 1, Len(p.unsent))
          /\ SendFirst(p, k).unacked = Joined(p, k)
      BY SendFrame
    <2> QED
      BY <1>1, <1>2, <1>3, <1>4, <2>1
  <1>6. \A r \in {a, b, c} : Pbufs(r) \in Int /\ Len(r) \in Int /\ \A n : Times(r, n) \in Int
    <2>1. \A r \in Queues : Pbufs(r) \in Int /\ Len(r) \in Int /\ \A n : Times(r, n) \in Int
      BY QueueTypes
    <2> QED
      BY <2>1
  <1>7. j \in Queues /\ ToSet(j) = ToSet(a) \cup ToSet(b)
    BY <1>3 DEF Gathers
  <1>8. ToSet(u) = ToSet(b) \cup ToSet(c)
    BY <1>2 DEF Gathers
  <1>9. Pbufs(j) + Pbufs(c) = Pbufs(a) + Pbufs(u)
    <2>1. Pbufs(j) = Pbufs(a) + Pbufs(b)
      BY <1>3 DEF Gathers
    <2>2. Pbufs(u) = Pbufs(b) + Pbufs(c)
      BY <1>2 DEF Gathers
    <2>3. Pbufs(a) \in Int /\ Pbufs(b) \in Int /\ Pbufs(c) \in Int
      BY <1>6
    <2> QED
      BY <2>1, <2>2, <2>3
  <1>10. ASSUME NEW n PROVE Times(j, n) + Times(c, n) = Times(a, n) + Times(u, n)
    <2>1. Times(j, n) = Times(a, n) + Times(b, n)
      BY <1>3 DEF Gathers
    <2>2. Times(u, n) = Times(b, n) + Times(c, n)
      BY <1>2 DEF Gathers
    <2>3. Times(a, n) \in Int /\ Times(b, n) \in Int /\ Times(c, n) \in Int
      BY <1>6
    <2> QED
      BY <2>1, <2>2, <2>3
  <1>11. Conserves(p, q)
    BY <1>1, <1>2, <1>5, <1>7, <1>8, <1>9, <1>10
       DEF Conserves, QueuesType, InQueues, PbufsIn, TimesIn
  <1>12. k = 0 => j = a
    <2> SUFFICES ASSUME k = 0 PROVE Joined(p, 0) = p.unacked
      BY <1>1, <1>3
    <2>1. 0 \in 0 .. Len(p.unsent)
      OBVIOUS
    <2> QED
      BY <1>1, <2>1, JoinedRecursion
  <1> QED
    BY <1>1, <1>2, <1>4, <1>5, <1>7, <1>11, <1>12

LEMMA SendSound ==
    ASSUME NEW p, Sound(p), ~p.input, NEW k \in 0 .. Len(p.unsent),
           \A i \in 1 .. k : Fits(p, p.unsent[i], Min2(p.wnd, p.cwnd))
    PROVE  Sound(SendFirst(p, k)) /\ Keeps(p, SendFirst(p, k), SendFields)
  <1>1. IsPcb(p) /\ QueuesType(p) /\ Numbers(p) /\ Counters(p)
    BY DEF Sound
  <1>2. PICK q : q = SendFirst(p, k)
    OBVIOUS
  <1>3. /\ Keeps(p, q, SendFields)
        /\ q.nxt = Max({p.nxt} \cup {EndOf(p.unsent[i]) : i \in 1 .. k})
        /\ q.out = p.out \cup {p.unsent[i] : i \in 1 .. k}
        /\ q.running = (p.running \/ k > 0)
    <2>1. /\ Keeps(p, SendFirst(p, k), {"unsent", "unacked", "nxt", "out", "running",
                                         "acknow", "memerr", "persist"})
          /\ SendFirst(p, k).nxt = Max({p.nxt} \cup {EndOf(p.unsent[i]) : i \in 1 .. k})
          /\ SendFirst(p, k).out = p.out \cup {p.unsent[i] : i \in 1 .. k}
          /\ SendFirst(p, k).running = (p.running \/ k > 0)
      BY <1>1, SendFrame
    <2> QED
      BY <1>2, <2>1 DEF SendFields
  <1>4. /\ Conserves(p, q)
        /\ ToSet(q.unacked) = ToSet(p.unacked) \cup {p.unsent[i] : i \in 1 .. k}
        /\ k = 0 => q.unacked = p.unacked
    BY <1>1, <1>2, SendConserves
  <1>5. /\ q.state = p.state /\ q.lastack = p.lastack /\ q.lbb = p.lbb /\ q.left = p.left
        /\ q.closing = p.closing /\ q.qlen = p.qlen /\ q.buf = p.buf /\ q.wnd = p.wnd
        /\ q.input = p.input
    BY <1>3 DEF Keeps, SendFields, Fields
  <1>6. /\ \A i \in 1 .. k : p.unsent[i] \in Segments /\ p.unsent[i] \in ToSet(p.unsent)
        /\ Len(p.unsent) \in Nat /\ k \in Nat
        /\ p.unsent = <<>> => k = 0
    BY <1>1, QueueTypes DEF QueuesType
  <1>7. CASE p.state \in Over
    <2>1. k = 0 /\ q.unacked = <<>> /\ p.unsent = <<>>
      BY <1>4, <1>6, <1>7 DEF Sound, QueuesState, Emptied
    <2>2. q.unsent = <<>>
      <3>1. q.unsent = SubSeq(p.unsent, k + 1, Len(p.unsent))
        BY <1>1, <1>2, SendConserves
      <3>2. q.unsent = SubSeq(<<>>, 0 + 1, Len(<<>>))
        BY <2>1, <3>1
      <3>3. q.unsent \in Queues
        BY <1>4 DEF Conserves, QueuesType
      <3>4. <<>> \in Queues /\ 0 \in 0 .. Len(<<>>) /\ Len(<<>>) - 0 = 0
        BY FewSegments
      <3>5. Len(q.unsent) = 0
        BY <3>2, <3>4, GathersSplit
      <3> QED
        BY <3>3, <3>5, QueueTypes
    <2>3. q.nxt = p.nxt
      <3>1. {p.nxt} \cup {EndOf(p.unsent[i]) : i \in 1 .. k} = {p.nxt}
        BY <2>1
      <3>2. p.nxt \in Nat /\ {p.nxt} \in SUBSET (0 .. p.nxt) /\ {p.nxt} # {}
        BY <1>1 DEF Numbers
      <3>3. Max({p.nxt}) \in {p.nxt}
        BY <3>2, MaxOf
      <3> QED
        BY <1>3, <3>1, <3>3
    <2>4. q.out = p.out
      BY <1>3, <2>1
    <2>5. Numbers(q) /\ Counters(q)
      <3>1. Counters(q)
        BY <1>1, <1>3, CountersKept DEF SendFields, CounterFields
      <3> QED
        BY <1>1, <1>5, <2>3, <3>1 DEF Numbers
    <2>6. QueuesState(q) /\ TimerState(q) /\ Sendable(q)
      BY <1>4, <1>5, <1>7, <2>1, <2>2, <2>4
         DEF QueuesState, Emptied, TimerState, Sendable, Sound
    <2> QED
      BY <1>2, <1>3, <1>4, <2>5, <2>6 DEF Sound, Keeps, Conserves
  <1>8. CASE p.state \notin Over
    <2>1. Filled(p)
      BY <1>8 DEF Sound, QueuesState
    <2>2. \A i \in 1 .. k : EndOf(p.unsent[i]) \in 0 .. p.lbb
      BY <1>6, <2>1, SegmentTypes DEF Filled, InQueues, Whole
    <2>3. PICK S : S = {p.nxt} \cup {EndOf(p.unsent[i]) : i \in 1 .. k}
      OBVIOUS
    <2>4. S \in SUBSET (0 .. p.lbb) /\ S # {} /\ p.lbb \in Nat
      BY <1>1, <2>2, <2>3, SMTT(30) DEF Numbers
    <2>5. Max(S) \in S /\ \A y \in S : y <= Max(S)
      BY <2>4, MaxOf
    <2>6. /\ q.nxt \in 0 .. p.lbb /\ p.nxt <= q.nxt
          /\ \A i \in 1 .. k : EndOf(p.unsent[i]) <= q.nxt
      BY <1>3, <2>3, <2>4, <2>5
    <2>7. Numbers(q)
      <3>1. q.nxt \in 0 .. Total + 1 /\ q.lastack <= q.nxt /\ q.nxt <= q.lbb
        BY <1>1, <1>5, <2>6, ConstantTypes DEF Numbers
      <3> QED
        BY <1>1, <1>5, <3>1 DEF Numbers
    <2>8. Counters(q)
      BY <1>1, <1>3, CountersKept DEF SendFields, CounterFields
    <2>9. \A seg \in ToSet(q.unacked) : EndOf(seg) <= q.nxt
      <3>1. \A seg \in ToSet(p.unacked) : seg \in Segments /\ EndOf(seg) <= p.nxt
        BY <1>1, <2>1, QueueTypes DEF QueuesType, Filled
      <3>2. p.nxt \in Int /\ q.nxt \in Int /\ \A seg \in Segments : EndOf(seg) \in Int
        BY <1>1, <2>6, SegmentTypes DEF Numbers
      <3> QED
        BY <1>4, <2>6, <3>1, <3>2
    <2>13. q.nxt = q.lbb \/ \E seg \in ToSet(q.unsent) : EndOf(seg) = q.lbb
      <3>1. CASE p.nxt = p.lbb
        <4>1. q.nxt = q.lbb
          BY <1>5, <2>4, <2>6, <3>1
        <4> QED
          BY <4>1
      <3>2. CASE \E seg \in ToSet(p.unsent) : EndOf(seg) = p.lbb
        <4>1. PICK seg \in ToSet(p.unsent) : EndOf(seg) = p.lbb
          BY <3>2
        <4>2. PICK u \in Queues, c \in Queues :
                 /\ u = p.unsent /\ c = q.unsent
                 /\ ToSet(u) = {u[i] : i \in 1 .. k} \cup ToSet(c)
          <5>1. PICK u \in Queues : u = p.unsent
            BY <1>1 DEF QueuesType
          <5>2. PICK c \in Queues : c = SubSeq(u, k + 1, Len(u)) /\ c = q.unsent
            <6>1. SendFirst(p, k).unsent = SubSeq(p.unsent, k + 1, Len(p.unsent))
              BY <1>1, SendConserves
            <6>2. SubSeq(u, k + 1, Len(u)) \in Queues
              BY <5>1, GathersSplit
            <6> QED
              BY <1>2, <5>1, <6>1, <6>2
          <5>3. /\ Gathers(u, SubSeq(u, 1, k), SubSeq(u, k + 1, Len(u)))
                /\ ToSet(SubSeq(u, 1, k)) = {u[i] : i \in 1 .. k}
            BY <5>1, GathersSplit
          <5>4. ToSet(u) = ToSet(SubSeq(u, 1, k)) \cup ToSet(SubSeq(u, k + 1, Len(u)))
            BY <5>3 DEF Gathers
          <5> QED
            BY <5>1, <5>2, <5>3, <5>4
        <4>3. CASE seg \in ToSet(c)
          BY <1>5, <4>1, <4>2, <4>3
        <4>4. CASE \E i \in 1 .. k : seg = u[i]
          <5>1. PICK i \in 1 .. k : seg = p.unsent[i]
            BY <4>2, <4>4
          <5>2. p.lbb <= q.nxt
            BY <2>6, <4>1, <5>1
          <5>3. q.nxt = q.lbb
            BY <1>5, <2>4, <2>6, <5>2
          <5> QED
            BY <5>3
        <4> QED
          BY <4>1, <4>2, <4>3, <4>4
      <3> QED
        BY <2>1, <3>1, <3>2 DEF Filled
    <2>10. Filled(q)
      BY <1>4, <1>5, <2>1, <2>9, <2>13, ConservesFilled
    <2>11. TimerState(q)
      <3>1. k = 0 \/ k > 0
        BY <1>6
      <3> QED
        BY <1>3, <1>4, <3>1 DEF TimerState, Sound
    <2>12. Sendable(q)
      <3>1. ASSUME NEW i \in 1 .. k
            PROVE  p.unsent[i].seq + p.unsent[i].len <= p.lastack + p.wnd
        <4>1. PICK seg \in Segments : seg = p.unsent[i]
          BY <1>6
        <4>5. p.wnd \in Int /\ p.cwnd \in Int
          BY <1>1, ConstantTypes DEF Counters
        <4>2. seg.seq - p.lastack + seg.len <= Min2(p.wnd, p.cwnd)
          <5>1. Min2(p.wnd, p.cwnd) \in Int
            BY <4>5, MinOfTwo
          <5>2. seg.seq - p.lastack + seg.len \in 0 .. Min2(p.wnd, p.cwnd)
            BY <4>1 DEF Fits
          <5> QED
            BY <5>1, <5>2
        <4>3. Min2(p.wnd, p.cwnd) <= p.wnd /\ Min2(p.wnd, p.cwnd) \in Int /\ p.wnd \in Int
          <5>1. \A w, c \in Int : Min2(w, c) <= w /\ Min2(w, c) \in Int
            BY DEF Min2
          <5> HIDE DEF Min2
          <5> QED
            BY <4>5, <5>1
        <4>4. seg.seq \in Int /\ seg.len \in Int /\ p.lastack \in Int
          BY <1>1, SegmentTypes DEF Numbers
        <4> QED
          BY <4>1, <4>2, <4>3, <4>4
      <3>2. q.out \subseteq ToSet(q.unacked)
        BY <1>3, <1>4 DEF Sound, Sendable
      <3>3. \A seg \in q.out : seg.seq + seg.len <= q.lastack + q.wnd
        BY <1>3, <1>5, <3>1 DEF Sound, Sendable
      <3> QED
        BY <1>5, <3>2, <3>3 DEF Sendable
    <2> QED
      BY <1>2, <1>3, <1>4, <1>5, <1>8, <2>7, <2>8, <2>10, <2>11, <2>12
         DEF Sound, Keeps, Conserves, QueuesState
  <1> QED
    BY <1>7, <1>8

LEMMA BurstFits ==
    ASSUME NEW p, QueuesType(p)
    PROVE  /\ Burst(p) \in 0 .. Len(p.unsent)
           /\ \A i \in 1 .. Burst(p) : Fits(p, p.unsent[i], Min2(p.wnd, p.cwnd))
  <1>1. PICK S : S = {k \in 0 .. Len(p.unsent) : \A i \in 1 .. k : Goes(p, i)}
    OBVIOUS
  <1>2. Len(p.unsent) \in Nat
    BY QueueTypes DEF QueuesType
  <1>3. 0 \in S /\ S \in SUBSET (0 .. Len(p.unsent)) /\ S # {}
    BY <1>1, <1>2
  <1>4. Max(S) \in S
    BY <1>2, <1>3, MaxOf
  <1>5. Burst(p) \in S
    BY <1>1, <1>4 DEF Burst
  <1>6. \A i \in 1 .. Burst(p) : Goes(p, i)
    BY <1>1, <1>5
  <1> QED
    BY <1>1, <1>5, <1>6 DEF Goes

LEMMA OutputSound ==
    ASSUME NEW p, Sound(p)
    PROVE  Sound(Output(p)) /\ Keeps(p, Output(p), SendFields)
  <1>1. IsPcb(p) /\ QueuesType(p)
    BY DEF Sound
  <1>2. CASE Output(p) = p
    BY <1>1, <1>2 DEF Keeps
  <1>3. CASE Output(p) = [p EXCEPT !.acknow = FALSE]
    <2>1. PICK q : q = [p EXCEPT !.acknow = FALSE]
      OBVIOUS
    <2>2. Keeps(p, q, MarkFields) /\ Keeps(p, q, SendFields)
      BY <1>1, <2>1 DEF Keeps, IsPcb, Fields, MarkFields, SendFields
    <2> QED
      BY <1>3, <2>1, <2>2, MarksSound
  <1>4. CASE ~p.input /\ Output(p) = SendFirst(p, Burst(p))
    BY <1>1, <1>4, SendSound, BurstFits
  <1> QED
    BY <1>2, <1>3, <1>4 DEF Output

LargestWord(n) == n = 65535

LEMMA WordsRange ==
    \E n \in Nat : LargestWord(n) /\ u16_t = 0 .. n
  <1>1. PICK n \in Nat : LargestWord(n)
    BY DEF LargestWord
  <1>2. u16_t = 0 .. n
    BY <1>1 DEF LargestWord, u16_t
  <1> QED
    BY <1>1, <1>2

LEMMA BufferArithmetic ==
    /\ \A x, y \in Int : ((x % 65536) - y) % 65536 = (x - y) % 65536
    /\ \A x, y \in Int : ((x % 65536) + y) % 65536 = (x + y) % 65536
    /\ \A x \in Int : x % 65536 \in u16_t
  <1>1. \A x, y \in Int : ((x % 65536) - y) % 65536 = (x - y) % 65536
    OBVIOUS
  <1>2. \A x, y \in Int : ((x % 65536) + y) % 65536 = (x + y) % 65536
    OBVIOUS
  <1>3. ASSUME NEW x \in Int PROVE x % 65536 \in u16_t
    <2>1. x % 65536 \in Int /\ 0 <= x % 65536 /\ x % 65536 <= 65535
      OBVIOUS
    <2>2. PICK y \in Int : y = x % 65536 /\ 0 <= y /\ y <= 65535
      BY <2>1
    <2>3. PICK n \in Nat : LargestWord(n) /\ u16_t = 0 .. n
      BY WordsRange
    <2>4. y <= n
      <3>1. LargestWord(n)
        BY <2>3
      <3>2. n = 65535
        BY <3>1, SMT DEF LargestWord
      <3> QED
        BY <2>2, <3>2, SMT
    <2>5. y \in u16_t
      BY <2>2, <2>3, <2>4
    <2> QED
      BY <2>2, <2>5
  <1> QED
    BY <1>1, <1>2, <1>3

LEMMA WordsAreNaturals ==
    ASSUME NEW x \in u16_t
    PROVE  x \in Nat
  <1>1. PICK n \in Nat : LargestWord(n) /\ u16_t = 0 .. n
    BY WordsRange
  <1> QED
    BY <1>1

LEMMA LastApart ==
    ASSUME NEW u \in Queues, u # <<>>
    PROVE  /\ Last(u) \in Segments /\ Front(u) \in Queues
           /\ Gathers(u, Front(u), <<Last(u)>>) /\ Last(u) \in ToSet(u)
           /\ u = Front(u) \o <<Last(u)>> /\ Len(Front(u)) = Len(u) - 1
           /\ \A i \in 1 .. Len(u) - 1 : Front(u)[i] = u[i]
  <1>1. PICK m \in Nat : m = Len(u) /\ m > 0 /\ u[m] \in Segments /\ u[m] \in ToSet(u)
    BY QueueTypes
  <1>2. PICK k \in 0 .. m : k = m - 1 /\ k + 1 = m
    BY <1>1
  <1>3. PICK a \in Queues, b \in Queues :
            /\ a = SubSeq(u, 1, k) /\ b = SubSeq(u, k + 1, Len(u))
            /\ Gathers(u, a, b) /\ Len(b) = m - k /\ u = a \o b /\ Len(a) = k
            /\ \A i \in 1 .. m - k : b[i] = u[k + i]
            /\ \A i \in 1 .. k : a[i] = u[i]
    BY <1>1, GathersSplit
  <1>4. a = Front(u) /\ Last(u) = u[m]
    BY <1>1, <1>2, <1>3 DEF Front, Last
  <1>5. b = <<u[m]>>
    <2>1. PICK e \in Segments : e = u[m]
      BY <1>1
    <2>2. <<e>> \in Seq(Segments) /\ Len(<<e>>) = 1 /\ <<e>>[1] = e
      OBVIOUS
    <2>3. m - k = 1 /\ k + 1 = m
      BY <1>2
    <2>6. 1 \in 1 .. m - k
      BY <2>3
    <2>7. b[1] = u[k + 1] /\ Len(b) = m - k
      BY <1>3, <2>6
    <2>4. Len(b) = 1 /\ b[1] = e
      BY <2>1, <2>3, <2>7
    <2>5. \A i \in 1 .. 1 : b[i] = <<e>>[i]
      BY <2>2, <2>4
    <2> QED
      BY <2>1, <2>2, <2>4, <2>5, SeqEqual DEF Queues
  <1>6. k = Len(u) - 1
    BY <1>1, <1>2
  <1> QED
    BY <1>1, <1>3, <1>4, <1>5, <1>6

LEMMA PutLast ==
    ASSUME NEW q \in Queues, NEW seg \in Segments
    PROVE  /\ Gathers(Append(q, seg), q, <<seg>>) /\ Append(q, seg) \in Queues
           /\ Append(q, seg) = q \o <<seg>>
  <1>1. Append(q, seg) = q \o <<seg>>
    BY AppendIsConcat DEF Queues
  <1>2. <<seg>> \in Queues
    BY FewSegments
  <1>3. Gathers(q \o <<seg>>, q, <<seg>>)
    BY <1>2, GathersConcat
  <1> QED
    BY <1>1, <1>3 DEF Gathers

-----------------------------------------------------------------------------
(* tcp_enqueue                                                             *)

\* The queue v is u with len units, or the FIN, behind its last one: in the
\* segment seg, which takes the place of what is in old.
Enqueued(p, v, len, fin, tcplen, f, old, seg) ==
    /\ Gathers(p.unsent, f, old) /\ p.unsent = f \o old
    /\ Gathers(v, f, <<seg>>) /\ v = f \o <<seg>>
    /\ EndOf(seg) = p.lbb + tcplen /\ Whole(p.lbb + tcplen, seg)
    /\ seg.seq + seg.len = p.lbb + len /\ seg.fin = fin
    /\ \A n \in 0 .. p.lbb - 1 : Times(<<seg>>, n) = Times(old, n)
    /\ \A n \in p.lbb .. p.lbb + tcplen - 1 : Times(<<seg>>, n) = 1
    /\ seg.pbufs = Pbufs(old) + Counted(p, len, fin)
    /\ \/ old = <<>> /\ seg.seq = p.lbb
       \/ \E last \in Segments : old = <<last>> /\ seg.seq = last.seq

\* What is enqueued makes one segment, the new one or that which it joins.
LEMMA EnqueueSegment ==
    ASSUME NEW p, IsPcb(p), QueuesType(p), Numbers(p), Filled(p), p.lbb <= Total,
           NEW len \in 0 .. MSS, NEW fin \in BOOLEAN, NEW tcplen \in Nat,
           fin => len = 0 /\ tcplen = 1, ~fin => len > 0 /\ tcplen = len,
           p.lbb + tcplen <= Total + 1, p.lbb + len <= Total, fin => p.lbb + len = Total
    PROVE  \E f \in Queues, old \in Queues, seg \in Segments :
              Enqueued(p, Enqueue(p, len, fin).unsent, len, fin, tcplen, f, old, seg)
  <1>1. PICK u \in Queues : u = p.unsent
    BY DEF QueuesType
  <1>2. PICK l \in 0 .. Total : l = p.lbb
    BY ConstantTypes DEF Numbers
  <1>3. PICK v : v = Enqueue(p, len, fin).unsent
    OBVIOUS
  <1>6. /\ Keeps(p, Enqueue(p, len, fin), {"unsent", "fin", "lbb", "buf", "qlen"})
        /\ Enqueue(p, len, fin).unsent =
                 IF Chains(p, len)
                 THEN Append(Front(p.unsent), Extended(Last(p.unsent), len, fin))
                 ELSE Append(p.unsent, [seq |-> p.lbb, len |-> len, fin |-> fin, pbufs |-> 1])
        /\ Enqueue(p, len, fin).lbb = p.lbb + (IF fin THEN 1 ELSE len)
        /\ Enqueue(p, len, fin).buf = (p.buf - (IF fin THEN 1 ELSE len)) % 65536
        /\ Enqueue(p, len, fin).qlen = p.qlen + Counted(p, len, fin)
    BY EnqueueFrame
  <1>4. CASE Chains(p, len)
    <2>1. u # <<>>
      BY <1>1, <1>4 DEF Chains
    <2>2. PICK last \in Segments, f \in Queues :
              /\ last = Last(u) /\ f = Front(u) /\ Gathers(u, f, <<last>>) /\ last \in ToSet(u)
              /\ u = f \o <<last>>
      BY <2>1, LastApart
    <2>3. ~last.fin /\ last.len + len <= MSS /\ last.seq + last.len = l
      BY <1>1, <1>2, <1>4, <2>2 DEF Chains
    <2>4. PICK seg : seg = Extended(last, len, fin)
      OBVIOUS
    <2>5. /\ seg.seq = last.seq /\ seg.len = last.len + len /\ seg.fin = fin
          /\ seg.pbufs = last.pbufs + (IF fin THEN 0 ELSE 1)
          /\ seg = [seq |-> seg.seq, len |-> seg.len, fin |-> seg.fin, pbufs |-> seg.pbufs]
      BY <2>2, <2>4 DEF Extended, Segments
    <2>6. /\ last.seq \in Nat /\ last.len \in Nat /\ last.pbufs \in Nat /\ last.seq <= Total
          /\ last.fin \in BOOLEAN
      BY <2>2, SegmentTypes
    <2>7. EndOf(last) = l
      BY <2>3, <2>6 DEF EndOf
    <2>8. EndOf(seg) = l + tcplen /\ seg.seq + seg.len = l + len
      BY <1>2, <2>3, <2>5, <2>6 DEF EndOf
    <2>9. Whole(l, last)
      BY <1>1, <1>2, <2>2, SMTT(30) DEF Filled, InQueues
    <2>10. last.pbufs >= 1 /\ last.pbufs <= last.len /\ last.len > 0
      BY <1>2, <2>3, <2>6, <2>7, <2>9 DEF Whole, EndOf
    <2>11. seg.pbufs \in 0 .. MSS /\ seg.len \in 0 .. MSS /\ seg.pbufs <= seg.len /\ seg.pbufs >= 1
      BY <2>3, <2>5, <2>6, <2>10, ConstantTypes
    <2>12. seg \in Segments
      BY <2>5, <2>6, <2>11, ConstantTypes DEF Segments
    <2>13. Whole(l + tcplen, seg)
      BY <1>2, <2>5, <2>6, <2>7, <2>8, <2>9, <2>11 DEF Whole
    <2>14. v = Append(f, seg)
      <3>1. v = Append(Front(u), Extended(Last(u), len, fin))
        BY <1>1, <1>3, <1>4, <1>6
      <3> QED
        BY <2>2, <2>4, <3>1
    <2>15. Gathers(v, f, <<seg>>) /\ v = f \o <<seg>>
      BY <2>12, <2>14, PutLast
    <2>16. \A n : /\ Times(<<seg>>, n) = IF n \in seg.seq .. EndOf(seg) - 1 THEN 1 ELSE 0
                  /\ Times(<<last>>, n) = IF n \in last.seq .. EndOf(last) - 1 THEN 1 ELSE 0
      BY <2>12, FewSegments DEF Holds
    <2>17. \A n \in 0 .. l - 1 : Times(<<seg>>, n) = Times(<<last>>, n)
      BY <2>5, <2>6, <2>7, <2>8, <2>16
    <2>18. \A n \in l .. l + tcplen - 1 : Times(<<seg>>, n) = 1
      <3>1. seg.seq <= l
        BY <2>3, <2>5, <2>6
      <3>2. seg.seq \in Int
        BY <2>5, <2>6
      <3> QED
        BY <2>8, <2>16, <3>1, <3>2
    <2>19. Pbufs(<<last>>) = last.pbufs /\ <<last>> \in Queues
      BY FewSegments
    <2>20. seg.pbufs = Pbufs(<<last>>) + Counted(p, len, fin)
      BY <1>4, <2>5, <2>19 DEF Counted
    <2> QED
      <3>1. Enqueued(p, v, len, fin, tcplen, f, <<last>>, seg)
        BY <1>1, <1>2, <2>2, <2>5, <2>8, <2>13, <2>15, <2>17, <2>18, <2>20 DEF Enqueued
      <3> QED
        BY <1>3, <2>2, <2>12, <2>19, <3>1
  <1>5. CASE ~Chains(p, len)
    <2>1. PICK seg : seg = [seq |-> l, len |-> len, fin |-> fin, pbufs |-> 1]
      OBVIOUS
    <2>2. seg \in Segments
      BY <2>1, ConstantTypes DEF Segments
    <2>3. seg.seq = l /\ seg.len = len /\ seg.fin = fin /\ seg.pbufs = 1
      BY <2>1
    <2>4. EndOf(seg) = l + tcplen /\ seg.seq + seg.len = l + len
      BY <2>3 DEF EndOf
    <2>5. Whole(l + tcplen, seg)
      BY <1>2, <2>3, <2>4 DEF Whole
    <2>6. v = Append(u, seg)
      BY <1>1, <1>2, <1>3, <1>5, <1>6, <2>1
    <2>7. Gathers(v, u, <<seg>>) /\ v = u \o <<seg>>
      BY <2>2, <2>6, PutLast
    <2>8. \A n : Times(<<seg>>, n) = IF n \in seg.seq .. EndOf(seg) - 1 THEN 1 ELSE 0
      BY <2>2, FewSegments DEF Holds
    <2>9. \A n \in 0 .. l - 1 : Times(<<seg>>, n) = 0
      BY <2>3, <2>8
    <2>10. \A n \in l .. l + tcplen - 1 : Times(<<seg>>, n) = 1
      BY <2>3, <2>4, <2>8
    <2>11. <<>> \in Queues /\ Pbufs(<<>>) = 0 /\ \A n : Times(<<>>, n) = 0
      BY FewSegments
    <2>12. u = u \o <<>> /\ Gathers(u, u, <<>>)
      <3>1. u = u \o <<>>
        BY ConcatEmptySeq DEF Queues
      <3>2. Gathers(u \o <<>>, u, <<>>)
        BY <2>11, GathersConcat
      <3> QED
        BY <3>1, <3>2
    <2>13. seg.pbufs = Pbufs(<<>>) + Counted(p, len, fin)
      BY <1>5, <2>3, <2>11 DEF Counted
    <2> QED
      <3>1. Enqueued(p, v, len, fin, tcplen, u, <<>>, seg)
        BY <1>1, <1>2, <2>3, <2>4, <2>5, <2>7, <2>9, <2>10, <2>11, <2>12, <2>13 DEF Enqueued
      <3> QED
        BY <1>3, <2>2, <2>11, <3>1
  <1> QED
    BY <1>4, <1>5

LEMMA EnqueueFilled ==
    ASSUME NEW p, IsPcb(p), QueuesType(p), Numbers(p), Counters(p), Filled(p), p.lbb <= Total,
           NEW len \in 0 .. MSS, NEW fin \in BOOLEAN, NEW tcplen \in Nat,
           fin => len = 0 /\ tcplen = 1, ~fin => len > 0 /\ tcplen = len,
           p.lbb + tcplen <= Total + 1, p.lbb + len <= Total, fin => p.lbb + len = Total,
           p.qlen < QueueLen
    PROVE  /\ QueuesType(Enqueue(p, len, fin))
           /\ Filled(Enqueue(p, len, fin))
           /\ Enqueue(p, len, fin).lbb = p.lbb + tcplen
           /\ Counters(Enqueue(p, len, fin))
           /\ Keeps(p, Enqueue(p, len, fin), {"unsent", "fin", "lbb", "buf", "qlen"})
  <1>1. PICK q : q = Enqueue(p, len, fin)
    OBVIOUS
  <1>2. /\ Keeps(p, q, {"unsent", "fin", "lbb", "buf", "qlen"})
        /\ q.lbb = p.lbb + (IF fin THEN 1 ELSE len)
        /\ q.buf = (p.buf - (IF fin THEN 1 ELSE len)) % 65536
        /\ q.qlen = p.qlen + Counted(p, len, fin)
    <2>1. /\ Keeps(p, Enqueue(p, len, fin), {"unsent", "fin", "lbb", "buf", "qlen"})
          /\ Enqueue(p, len, fin).unsent =
                 IF Chains(p, len)
                 THEN Append(Front(p.unsent), Extended(Last(p.unsent), len, fin))
                 ELSE Append(p.unsent, [seq |-> p.lbb, len |-> len, fin |-> fin, pbufs |-> 1])
          /\ Enqueue(p, len, fin).lbb = p.lbb + (IF fin THEN 1 ELSE len)
          /\ Enqueue(p, len, fin).buf = (p.buf - (IF fin THEN 1 ELSE len)) % 65536
          /\ Enqueue(p, len, fin).qlen = p.qlen + Counted(p, len, fin)
      BY EnqueueFrame
    <2> QED
      BY <1>1, <2>1
  <1>3. q.lbb = p.lbb + tcplen /\ q.buf = (p.buf - tcplen) % 65536
    BY <1>2
  <1>4. /\ q.unacked = p.unacked /\ q.lastack = p.lastack /\ q.nxt = p.nxt
        /\ q.wnd = p.wnd /\ q.wl1 = p.wl1 /\ q.wl2 = p.wl2 /\ q.rcv = p.rcv
        /\ q.cwnd = p.cwnd /\ q.nrtx = p.nrtx /\ q.dupacks = p.dupacks /\ q.acked = p.acked
    BY <1>2 DEF Keeps, Fields
  <1>5. PICK f \in Queues, old \in Queues, seg \in Segments :
            Enqueued(p, q.unsent, len, fin, tcplen, f, old, seg)
    <2>1. \E f \in Queues, old \in Queues, seg \in Segments :
              Enqueued(p, Enqueue(p, len, fin).unsent, len, fin, tcplen, f, old, seg)
      BY EnqueueSegment
    <2> QED
      BY <1>1, <2>1
  <1>6. PICK a \in Queues, u \in Queues : a = p.unacked /\ u = p.unsent
    BY DEF QueuesType
  <1>7. PICK s \in Queues : s = <<seg>> /\ ToSet(s) = {seg} /\ Pbufs(s) = seg.pbufs
    BY FewSegments
  <1>8. PICK v \in Queues : v = q.unsent
    BY <1>5 DEF Enqueued, Gathers
  <1>9. p.lbb \in Nat /\ p.lastack \in Nat /\ p.nxt \in Nat
    BY ConstantTypes DEF Numbers
  <1>10. \A r \in Queues : Pbufs(r) \in Int /\ \A n : Times(r, n) \in Int
    BY QueueTypes
  <1>11. ToSet(u) = ToSet(f) \cup ToSet(old) /\ ToSet(v) = ToSet(f) \cup {seg}
    BY <1>5, <1>6, <1>7, <1>8 DEF Enqueued, Gathers
  <1>12. \A e \in InQueues(q) : Whole(q.lbb, e)
    <2>1. ASSUME NEW e \in InQueues(p)
          PROVE  Whole(q.lbb, e)
      <3>1. Whole(p.lbb, e)
        BY <2>1 DEF Filled
      <3>2. e \in Segments
        BY <1>6, <2>1, QueueTypes DEF InQueues
      <3>3. EndOf(e) \in Int
        BY <3>2, SegmentTypes
      <3> QED
        BY <1>3, <1>9, <3>1, <3>3 DEF Whole
    <2>2. InQueues(q) \subseteq InQueues(p) \cup {seg}
      BY <1>4, <1>6, <1>8, <1>11 DEF InQueues
    <2> QED
      BY <1>3, <1>5, <2>1, <2>2 DEF Enqueued
  <1>13. ASSUME NEW n \in q.lastack .. q.lbb - 1
         PROVE  TimesIn(q, n) = 1
    <2>1. /\ Times(u, n) = Times(f, n) + Times(old, n)
          /\ Times(v, n) = Times(f, n) + Times(s, n)
      BY <1>5, <1>6, <1>7, <1>8 DEF Enqueued, Gathers
    <2>2. /\ Times(a, n) \in Int /\ Times(f, n) \in Int
          /\ Times(old, n) \in Int /\ Times(s, n) \in Int
      BY <1>10
    <2>3. CASE n < p.lbb
      <3>1. n \in 0 .. p.lbb - 1 /\ n \in p.lastack .. p.lbb - 1
        BY <1>3, <1>4, <1>9, <2>3
      <3>2. Times(s, n) = Times(old, n)
        BY <1>5, <1>7, <3>1 DEF Enqueued
      <3>3. Times(a, n) + Times(u, n) = 1
        BY <1>6, <3>1 DEF Filled, TimesIn
      <3> QED
        BY <1>4, <1>6, <1>8, <2>1, <2>2, <3>2, <3>3 DEF TimesIn
    <2>4. CASE ~(n < p.lbb)
      <3>1. n \in p.lbb .. p.lbb + tcplen - 1 /\ n \in Int
        BY <1>3, <1>4, <1>9, <2>4
      <3>2. Times(s, n) = 1
        BY <1>5, <1>7, <3>1 DEF Enqueued
      <3>3. \A e \in InQueues(p) : e \notin Holds(n)
        <4>1. ASSUME NEW e \in InQueues(p) PROVE e \notin Holds(n)
          <5>1. EndOf(e) <= p.lbb /\ e \in Segments
            BY <1>6, <4>1, QueueTypes DEF Filled, Whole, InQueues
          <5>2. EndOf(e) \in Int
            BY <5>1, SegmentTypes
          <5> QED
            BY <1>9, <3>1, <5>1, <5>2 DEF Holds
        <4> QED
          BY <4>1
      <3>4. Times(a, n) = 0 /\ Times(f, n) = 0
        <4>1. \A e \in ToSet(a) : e \notin Holds(n)
          BY <1>6, <3>3 DEF InQueues
        <4>2. \A e \in ToSet(f) : e \notin Holds(n)
          BY <1>6, <1>11, <3>3 DEF InQueues
        <4> QED
          BY <4>1, <4>2, QueueTypes
      <3> QED
        BY <1>4, <1>6, <1>8, <2>1, <2>2, <3>2, <3>4 DEF TimesIn
    <2> QED
      BY <1>4, <1>9, <2>3, <2>4
  <1>14. q.qlen = PbufsIn(q) /\ q.qlen \in 0 .. QueueLen
    <2>1. Counted(p, len, fin) \in {0, 1}
      BY DEF Counted
    <2>2. Pbufs(u) = Pbufs(f) + Pbufs(old) /\ Pbufs(v) = Pbufs(f) + Pbufs(s)
      BY <1>5, <1>6, <1>7, <1>8 DEF Enqueued, Gathers
    <2>3. Pbufs(a) \in Int /\ Pbufs(f) \in Int /\ Pbufs(old) \in Int /\ Pbufs(s) \in Int
      BY <1>10
    <2>4. p.qlen = Pbufs(a) + Pbufs(u) /\ p.qlen \in 0 .. QueueLen
      BY <1>6 DEF Filled, PbufsIn, Counters
    <2>5. Pbufs(s) = Pbufs(old) + Counted(p, len, fin)
      BY <1>5, <1>7 DEF Enqueued
    <2>6. q.qlen = Pbufs(a) + Pbufs(v)
      BY <1>2, <2>1, <2>2, <2>3, <2>4, <2>5
    <2>7. q.qlen \in 0 .. QueueLen
      BY <1>2, <2>1, <2>4, ConstantTypes
    <2> QED
      BY <1>4, <1>6, <1>8, <2>6, <2>7 DEF PbufsIn
  <1>15. q.buf = (SndBuf - (q.lbb - q.lastack)) % 65536 /\ q.buf \in u16_t
    <2>1. PICK x \in Int : x = SndBuf - (p.lbb - p.lastack)
      BY <1>9, ConstantTypes
    <2>2. p.buf = x % 65536
      BY <2>1 DEF Filled
    <2>3. q.buf = (x - tcplen) % 65536 /\ x - tcplen \in Int
      BY <1>3, <2>2, BufferArithmetic
    <2>4. x - tcplen = SndBuf - (q.lbb - q.lastack)
      BY <1>3, <1>4, <1>9, <2>1, ConstantTypes
    <2>5. q.buf \in u16_t
      BY <2>3, BufferArithmetic
    <2> QED
      BY <2>3, <2>4, <2>5
  <1>16. Counters(q)
    BY <1>4, <1>14, <1>15 DEF Counters
  <1>17. QueuesType(q)
    BY <1>4, <1>6, <1>8 DEF QueuesType
  <1>18. \A e \in ToSet(q.unacked) : EndOf(e) <= q.nxt
    BY <1>4 DEF Filled
  <1>20. seg \in ToSet(q.unsent) /\ EndOf(seg) = q.lbb
    BY <1>3, <1>5, <1>8, <1>11 DEF Enqueued
  <1>19. Filled(q)
    BY <1>12, <1>13, <1>14, <1>15, <1>18, <1>20 DEF Filled
  <1> QED
    BY <1>1, <1>2, <1>3, <1>16, <1>17, <1>19

-----------------------------------------------------------------------------
(* The writer                                                              *)

WriteFields == SendFields \cup {"fin", "lbb", "buf", "qlen", "left"}
CloseFields == SendFields \cup {"fin", "lbb", "buf", "qlen", "state"}

\* The pcb with len units more, and with the FIN.
More(p, len) == [Enqueue(p, len, FALSE) EXCEPT !.left = @ - len]
Ended(p) == [Enqueue(p, 0, TRUE) EXCEPT !.state = IF @ = "ESTABLISHED" THEN "FIN_WAIT_1" ELSE "LAST_ACK"]

LEMMA MoreSound ==
    ASSUME NEW p, Sound(p), p.state \in Writable, NEW len \in 1 .. MSS, len <= p.left,
           p.qlen < QueueLen
    PROVE  /\ Sound(More(p, len)) /\ Keeps(p, More(p, len), WriteFields)
           /\ More(p, len).lbb = p.lbb + len /\ More(p, len).left = p.left - len
           /\ More(p, len).unsent = Enqueue(p, len, FALSE).unsent
           /\ More(p, len).unacked = p.unacked /\ More(p, len).nxt = p.nxt
           /\ More(p, len).out = p.out
  <1>1. PICK e : e = Enqueue(p, len, FALSE)
    OBVIOUS
  <1>2. p.state \notin Over
    BY DEF Writable, Over
  <1>3. IsPcb(p) /\ QueuesType(p) /\ Numbers(p) /\ Counters(p) /\ Filled(p)
    BY <1>2 DEF Sound, QueuesState
  <1>4. p.lbb + p.left <= Total /\ p.lbb \in Nat /\ p.left \in Nat
    BY <1>3, ConstantTypes DEF Numbers
  <1>5. /\ p.lbb <= Total /\ len \in Nat /\ p.lbb + len <= Total + 1 /\ len > 0 /\ len \in 0 .. MSS
        /\ p.lbb + len <= Total
    BY <1>4, ConstantTypes
  <1>6. /\ QueuesType(Enqueue(p, len, FALSE))
        /\ Filled(Enqueue(p, len, FALSE))
        /\ Enqueue(p, len, FALSE).lbb = p.lbb + len
        /\ Counters(Enqueue(p, len, FALSE))
        /\ Keeps(p, Enqueue(p, len, FALSE), {"unsent", "fin", "lbb", "buf", "qlen"})
    BY <1>3, <1>5, EnqueueFilled
  <1>7. /\ QueuesType(e) /\ Filled(e) /\ e.lbb = p.lbb + len /\ Counters(e)
        /\ Keeps(p, e, {"unsent", "fin", "lbb", "buf", "qlen"})
    BY <1>1, <1>6
  <1>8. PICK q : q = [e EXCEPT !.left = @ - len]
    OBVIOUS
  <1>9. Keeps(e, q, {"left"}) /\ q.left = e.left - len
    BY <1>7, <1>8 DEF Keeps, IsPcb, Fields
  <1>10. q = More(p, len)
    BY <1>1, <1>8 DEF More
  <1>11. /\ q.unacked = p.unacked /\ q.lastack = p.lastack /\ q.nxt = p.nxt /\ q.state = p.state
         /\ q.closing = p.closing /\ q.running = p.running /\ q.out = p.out /\ q.wnd = p.wnd
         /\ q.input = p.input /\ q.left = p.left - len
    BY <1>7, <1>9 DEF Keeps, Fields
  <1>12. /\ q.unsent = e.unsent /\ q.unacked = e.unacked /\ q.lbb = e.lbb /\ q.qlen = e.qlen
         /\ q.buf = e.buf /\ q.lastack = e.lastack /\ q.nxt = e.nxt
    BY <1>9 DEF Keeps, Fields
  <1>13. Counters(q)
    <2>1. {"left"} \cap CounterFields = {}
      BY DEF CounterFields
    <2> QED
      BY <1>7, <1>9, <2>1, CountersKept
  <1>14. QueuesType(q) /\ Filled(q)
    BY <1>7, <1>12 DEF QueuesType, Filled, InQueues, TimesIn, PbufsIn
  <1>15. Numbers(q)
    <2>1. /\ q.lbb = p.lbb + len /\ q.lbb + q.left <= Total /\ q.left \in 0 .. WriteLen
          /\ q.lbb \in 0 .. Total + 1 /\ q.lbb >= p.lbb
      BY <1>3, <1>4, <1>5, <1>7, <1>11, <1>12, ConstantTypes DEF Numbers
    <2>2. ~p.closing
      BY <1>3, <1>4, <1>5, ConstantTypes DEF Numbers
    <2>3. p.state \notin Closing
      BY DEF Writable, Closing
    <2>4. q.nxt <= q.lbb
      BY <1>3, <1>4, <1>11, <2>1 DEF Numbers
    <2> QED
      BY <1>3, <1>11, <2>1, <2>2, <2>3, <2>4 DEF Numbers
  <1>16. TimerState(q) /\ Sendable(q)
    BY <1>11 DEF Sound, TimerState, Sendable
  <1>17. Keeps(p, q, WriteFields) /\ IsPcb(q)
    BY <1>7, <1>9 DEF Keeps, WriteFields, SendFields
  <1> QED
    BY <1>1, <1>2, <1>7, <1>10, <1>11, <1>12, <1>13, <1>14, <1>15, <1>16, <1>17
       DEF Sound, QueuesState

LEMMA EndedSound ==
    ASSUME NEW p, Sound(p), p.state \in Writable, p.lbb = Total, p.left = 0, p.qlen < QueueLen
    PROVE  /\ Sound(Ended(p)) /\ Keeps(p, Ended(p), CloseFields)
           /\ Ended(p).lbb = Total + 1
           /\ Ended(p).state = IF p.state = "ESTABLISHED" THEN "FIN_WAIT_1" ELSE "LAST_ACK"
           /\ Ended(p).unsent = Enqueue(p, 0, TRUE).unsent
           /\ Ended(p).unacked = p.unacked /\ Ended(p).nxt = p.nxt
           /\ Ended(p).out = p.out
  <1>1. PICK e : e = Enqueue(p, 0, TRUE)
    OBVIOUS
  <1>2. p.state \notin Over
    BY DEF Writable, Over
  <1>3. IsPcb(p) /\ QueuesType(p) /\ Numbers(p) /\ Counters(p) /\ Filled(p)
    BY <1>2 DEF Sound, QueuesState
  <1>4. p.lbb \in Nat
    BY ConstantTypes
  <1>5. /\ p.lbb <= Total /\ 1 \in Nat /\ p.lbb + 1 <= Total + 1 /\ 0 \in 0 .. MSS
        /\ p.lbb + 0 = Total /\ p.lbb + 0 <= Total
    BY <1>4, ConstantTypes
  <1>6. \A len \in 0 .. MSS, tcplen \in Nat : len = 0 /\ tcplen = 1 =>
        /\ QueuesType(Enqueue(p, len, TRUE))
        /\ Filled(Enqueue(p, len, TRUE))
        /\ Enqueue(p, len, TRUE).lbb = p.lbb + tcplen
        /\ Counters(Enqueue(p, len, TRUE))
        /\ Keeps(p, Enqueue(p, len, TRUE), {"unsent", "fin", "lbb", "buf", "qlen"})
    <2>1. ASSUME NEW len \in 0 .. MSS, NEW tcplen \in Nat, len = 0, tcplen = 1
          PROVE  /\ QueuesType(Enqueue(p, len, TRUE))
                 /\ Filled(Enqueue(p, len, TRUE))
                 /\ Enqueue(p, len, TRUE).lbb = p.lbb + tcplen
                 /\ Counters(Enqueue(p, len, TRUE))
                 /\ Keeps(p, Enqueue(p, len, TRUE), {"unsent", "fin", "lbb", "buf", "qlen"})
      <3>1. /\ p.lbb <= Total /\ p.lbb + tcplen <= Total + 1 /\ p.lbb + len <= Total
            /\ p.lbb + len = Total
        BY <1>5, <2>1
      <3> QED
        BY <1>3, <2>1, <3>1, EnqueueFilled
    <2> QED
      BY <2>1
  <1>7. /\ QueuesType(e) /\ Filled(e) /\ e.lbb = p.lbb + 1 /\ Counters(e)
        /\ Keeps(p, e, {"unsent", "fin", "lbb", "buf", "qlen"})
    BY <1>1, <1>5, <1>6
  <1>8. PICK s : s = IF e.state = "ESTABLISHED" THEN "FIN_WAIT_1" ELSE "LAST_ACK"
    OBVIOUS
  <1>9. PICK q : q = [e EXCEPT !.state = s]
    OBVIOUS
  <1>10. Keeps(e, q, {"state"}) /\ q.state = s
    BY <1>7, <1>9 DEF Keeps, IsPcb, Fields
  <1>11. q = Ended(p)
    BY <1>1, <1>8, <1>9 DEF Ended
  <1>12. /\ q.unacked = p.unacked /\ q.lastack = p.lastack /\ q.nxt = p.nxt
         /\ q.closing = p.closing /\ q.running = p.running /\ q.out = p.out /\ q.wnd = p.wnd
         /\ q.input = p.input /\ q.left = p.left
         /\ q.state = IF p.state = "ESTABLISHED" THEN "FIN_WAIT_1" ELSE "LAST_ACK"
    BY <1>7, <1>8, <1>10 DEF Keeps, Fields
  <1>13. /\ q.unsent = e.unsent /\ q.unacked = e.unacked /\ q.lbb = e.lbb /\ q.qlen = e.qlen
         /\ q.buf = e.buf /\ q.lastack = e.lastack /\ q.nxt = e.nxt
    BY <1>10 DEF Keeps, Fields
  <1>14. Counters(q)
    <2>1. {"state"} \cap CounterFields = {}
      BY DEF CounterFields
    <2> QED
      BY <1>7, <1>10, <2>1, CountersKept
  <1>15. QueuesType(q) /\ Filled(q)
    BY <1>7, <1>13 DEF QueuesType, Filled, InQueues, TimesIn, PbufsIn
  <1>16. q.state \in Closing /\ q.state \notin Over /\ q.state \notin Writable /\ q.state \in States
    BY <1>12 DEF Closing, Over, Writable, States
  <1>17. Numbers(q)
    <2>1. q.lbb = Total + 1 /\ q.lbb \in 0 .. Total + 1 /\ q.lbb >= p.lbb /\ q.lbb >= Total
      BY <1>7, <1>13, ConstantTypes
    <2>2. q.nxt <= q.lbb
      BY <1>3, <1>4, <1>12, <2>1, ConstantTypes DEF Numbers
    <2> QED
      BY <1>3, <1>12, <1>16, <2>1, <2>2 DEF Numbers
  <1>18. TimerState(q) /\ Sendable(q)
    BY <1>12 DEF Sound, TimerState, Sendable
  <1>19. Keeps(p, q, CloseFields) /\ IsPcb(q)
    BY <1>7, <1>10 DEF Keeps, CloseFields, SendFields
  <1>20. q.lbb = Total + 1
    BY <1>7, <1>13
  <1> QED
    BY <1>1, <1>11, <1>12, <1>13, <1>14, <1>15, <1>16, <1>17, <1>18, <1>19, <1>20
       DEF Sound, QueuesState

LEMMA NagleOutputSound ==
    ASSUME NEW p, Sound(p)
    PROVE  Sound(NagleOutput(p)) /\ Keeps(p, NagleOutput(p), SendFields)
  <1>1. Keeps(p, p, SendFields)
    BY DEF Keeps, Sound
  <1> QED
    BY <1>1, OutputSound DEF NagleOutput

LEMMA MemerrSound ==
    ASSUME NEW p, Sound(p)
    PROVE  /\ Sound([p EXCEPT !.memerr = TRUE])
           /\ Keeps(p, [p EXCEPT !.memerr = TRUE], {"memerr"})
  <1>1. PICK q : q = [p EXCEPT !.memerr = TRUE]
    OBVIOUS
  <1>2. Keeps(p, q, {"memerr"})
    BY <1>1 DEF Keeps, IsPcb, Fields, Sound
  <1>3. Keeps(p, q, MarkFields)
    BY <1>2, KeepsFewer DEF MarkFields
  <1> QED
    BY <1>1, <1>2, <1>3, MarksSound

\* do_writemore: with nothing enqueued, or with something more.
LEMMA WriteUnitsCases ==
    ASSUME NEW p, Sound(p), NEW len \in 0 .. MSS
    PROVE  \/ WriteUnits(p, len) = Output([p EXCEPT !.memerr = TRUE])
           \/ len = 0 /\ WriteUnits(p, len) = NagleOutput(p)
           \/ len # 0 /\ CanEnqueue(p, len) /\ WriteUnits(p, len) = NagleOutput(More(p, len))
  <1>1. CASE len # 0 /\ ~CanEnqueue(p, len)
    BY <1>1 DEF WriteUnits
  <1>2. CASE len # 0 /\ CanEnqueue(p, len)
    BY <1>2 DEF WriteUnits, More
  <1>3. CASE len = 0
    <2>1. PICK q : q = [p EXCEPT !.left = @ - len]
      OBVIOUS
    <2>2. p.left - len = p.left
      BY <1>3, ConstantTypes DEF Sound, Numbers
    <2>3. q = p
      BY <2>1, <2>2 DEF Sound, IsPcb, Fields
    <2> QED
      BY <1>3, <2>1, <2>3 DEF WriteUnits
  <1> QED
    BY <1>1, <1>2, <1>3

LEMMA WriteUnitsSound ==
    ASSUME NEW p, Sound(p), p.state \in Writable, NEW len \in 0 .. MSS, len <= p.left
    PROVE  /\ Sound(WriteUnits(p, len)) /\ Keeps(p, WriteUnits(p, len), WriteFields)
           /\ p.lbb <= WriteUnits(p, len).lbb
  <1>0. p.lbb \in Int
    BY ConstantTypes DEF Sound, Numbers
  <1>1. PICK q : q = WriteUnits(p, len)
    OBVIOUS
  <1>2. CASE q = Output([p EXCEPT !.memerr = TRUE])
    <2>1. PICK r : r = [p EXCEPT !.memerr = TRUE]
      OBVIOUS
    <2>2. Sound(r) /\ Keeps(p, r, {"memerr"})
      BY <2>1, MemerrSound
    <2>3. Sound(q) /\ Keeps(r, q, SendFields)
      BY <1>2, <2>1, <2>2, OutputSound
    <2>4. Keeps(p, q, WriteFields)
      BY <2>2, <2>3 DEF Keeps, WriteFields, SendFields
    <2>5. q.lbb = p.lbb
      BY <2>2, <2>3 DEF Keeps, SendFields, Fields
    <2> QED
      BY <1>0, <1>1, <2>3, <2>4, <2>5
  <1>3. CASE len = 0 /\ q = NagleOutput(p)
    <2>1. Sound(q) /\ Keeps(p, q, SendFields)
      BY <1>3, NagleOutputSound
    <2>2. Keeps(p, q, WriteFields)
      BY <2>1 DEF Keeps, WriteFields
    <2>3. q.lbb = p.lbb
      BY <2>1 DEF Keeps, SendFields, Fields
    <2> QED
      BY <1>0, <1>1, <2>1, <2>2, <2>3
  <1>4. CASE len # 0 /\ CanEnqueue(p, len) /\ q = NagleOutput(More(p, len))
    <2>1. PICK r : r = More(p, len)
      OBVIOUS
    <2>2. len \in 1 .. MSS /\ p.qlen < QueueLen
      BY <1>4, ConstantTypes DEF CanEnqueue
    <2>3. Sound(r) /\ Keeps(p, r, WriteFields) /\ r.lbb = p.lbb + len
      BY <2>1, <2>2, MoreSound
    <2>4. Sound(q) /\ Keeps(r, q, SendFields)
      BY <1>4, <2>1, <2>3, NagleOutputSound
    <2>5. Keeps(p, q, WriteFields)
      BY <2>3, <2>4 DEF Keeps, WriteFields
    <2>6. q.lbb = r.lbb
      BY <2>4 DEF Keeps, SendFields, Fields
    <2> QED
      BY <1>0, <1>1, <2>2, <2>3, <2>4, <2>5, <2>6
  <1> QED
    BY <1>1, <1>2, <1>3, <1>4, WriteUnitsCases

LEMMA WriteMoreSound ==
    ASSUME NEW p, Sound(p), p.state \in Writable
    PROVE  /\ Sound(WriteMore(p)) /\ Keeps(p, WriteMore(p), WriteFields)
           /\ p.lbb <= WriteMore(p).lbb
  <1>1. p.left \in 0 .. WriteLen /\ p.buf \in u16_t
    BY DEF Sound, Numbers, Counters
  <1>2. PICK l \in Int, b \in Int : l = p.left /\ b = p.buf /\ 0 <= b /\ 0 <= l /\ l <= MSS
    <2>1. p.buf \in Int /\ 0 <= p.buf
      <3>1. p.buf \in Nat
        BY <1>1, WordsAreNaturals
      <3> QED
        BY <3>1
    <2> QED
      BY <1>1, <2>1, ConstantTypes
  <1>3. Min2(l, b) \in 0 .. MSS /\ Min2(l, b) <= l
    BY <1>2, ConstantTypes DEF Min2
  <1>4. PICK len \in 0 .. MSS : len = Min2(l, b) /\ len <= p.left
    BY <1>2, <1>3
  <1>5. WriteMore(p) = WriteUnits(p, len)
    BY <1>2, <1>4 DEF WriteMore
  <1> QED
    BY <1>4, <1>5, WriteUnitsSound

\* tcp_close: when all is written.
LEMMA TcpCloseCases ==
    ASSUME NEW p
    PROVE  \/ TcpClose(p) = p /\ p.state \notin Writable
           \/ p.state \in Writable /\ TcpClose(p) = [p EXCEPT !.memerr = TRUE]
           \/ p.state \in Writable /\ p.qlen < QueueLen /\ TcpClose(p) = Output(Ended(p))
  BY DEF TcpClose, CanEnqueue, Ended

Ending == {"FIN_WAIT_1", "LAST_ACK"}

LEMMA TcpCloseSound ==
    ASSUME NEW p, Sound(p), p.state \in Writable => p.lbb = Total /\ p.left = 0
    PROVE  /\ Sound(TcpClose(p)) /\ Keeps(p, TcpClose(p), CloseFields)
           /\ TcpClose(p).state \in Writable => TcpClose(p).lbb = Total
           /\ p.lbb <= TcpClose(p).lbb
           /\ \/ TcpClose(p).state = p.state /\ TcpClose(p).lbb = p.lbb
              \/ p.state \in Writable /\ TcpClose(p).state \in Ending
  <1>0. p.lbb \in Int /\ Total \in Int
    BY ConstantTypes DEF Sound, Numbers
  <1>1. PICK q : q = TcpClose(p)
    OBVIOUS
  <1>2. CASE q = p /\ p.state \notin Writable
    <2>1. Keeps(p, p, CloseFields)
      BY DEF Keeps, Sound
    <2> QED
      BY <1>0, <1>1, <1>2, <2>1
  <1>3. CASE p.state \in Writable /\ q = [p EXCEPT !.memerr = TRUE]
    <2>1. Sound(q) /\ Keeps(p, q, {"memerr"})
      BY <1>3, MemerrSound
    <2>2. Keeps(p, q, CloseFields) /\ q.lbb = p.lbb /\ q.state = p.state
      BY <2>1 DEF Keeps, CloseFields, SendFields, Fields
    <2> QED
      BY <1>0, <1>1, <1>3, <2>1, <2>2
  <1>4. CASE p.state \in Writable /\ p.qlen < QueueLen /\ q = Output(Ended(p))
    <2>1. PICK r : r = Ended(p)
      OBVIOUS
    <2>2. /\ Sound(r) /\ Keeps(p, r, CloseFields) /\ r.lbb = Total + 1
          /\ r.state = IF p.state = "ESTABLISHED" THEN "FIN_WAIT_1" ELSE "LAST_ACK"
      BY <1>4, <2>1, EndedSound
    <2>3. Sound(q) /\ Keeps(r, q, SendFields)
      BY <1>4, <2>1, <2>2, OutputSound
    <2>4. Keeps(p, q, CloseFields)
      BY <2>2, <2>3 DEF Keeps, CloseFields
    <2>5. q.lbb = r.lbb /\ q.state = r.state
      BY <2>3 DEF Keeps, SendFields, Fields
    <2>6. q.state \in Ending /\ q.state \notin Writable
      BY <2>2, <2>5 DEF Ending, Writable
    <2>7. p.lbb <= q.lbb
      BY <1>0, <1>4, <2>2, <2>5
    <2> QED
      BY <1>1, <1>4, <2>3, <2>4, <2>6, <2>7
  <1> QED
    BY <1>1, <1>2, <1>3, <1>4, TcpCloseCases

LEMMA CloseSound ==
    ASSUME NEW p, Sound(p), p.state \in Writable => p.lbb = Total /\ p.left = 0
    PROVE  /\ Sound(Close(p)) /\ Keeps(p, Close(p), CloseFields \cup {"closing"})
           /\ p.lbb <= Close(p).lbb
           /\ Close(p).closing => Close(p).state \in Writable
           /\ \/ Close(p).state = p.state /\ Close(p).lbb = p.lbb
              \/ p.state \in Writable /\ Close(p).state \in Ending
  <1>1. PICK q : q = TcpClose(p)
    OBVIOUS
  <1>2. PICK c : c = (q.state \in Writable)
    OBVIOUS
  <1>3. PICK r : r = [q EXCEPT !.closing = c]
    OBVIOUS
  <1>4. Close(p) = r
    BY <1>1, <1>2, <1>3 DEF Close, Pending
  <1>5. /\ Sound(q) /\ Keeps(p, q, CloseFields) /\ p.lbb <= q.lbb
        /\ q.state \in Writable => q.lbb = Total
        /\ \/ q.state = p.state /\ q.lbb = p.lbb
           \/ p.state \in Writable /\ q.state \in Ending
    BY <1>1, TcpCloseSound
  <1>6. Keeps(q, r, {"closing"}) /\ r.closing = c
    BY <1>3, <1>5 DEF Keeps, IsPcb, Fields, Sound
  <1>7. /\ r.state = q.state /\ r.unacked = q.unacked /\ r.unsent = q.unsent
        /\ r.lastack = q.lastack /\ r.nxt = q.nxt /\ r.lbb = q.lbb /\ r.left = q.left
        /\ r.qlen = q.qlen /\ r.buf = q.buf /\ r.running = q.running
        /\ r.out = q.out /\ r.wnd = q.wnd /\ r.input = q.input
    BY <1>6 DEF Keeps, Fields
  <1>8. q.left = p.left
    BY <1>5 DEF Keeps, CloseFields, SendFields, Fields
  <1>9. q.state \in Writable => p.state \in Writable
    BY <1>5 DEF Writable, Ending
  <1>10. Numbers(r)
    <2>1. r.closing => r.lbb >= Total /\ r.left = 0
      <3> SUFFICES ASSUME r.closing PROVE r.lbb >= Total /\ r.left = 0
        OBVIOUS
      <3>1. q.state \in Writable
        BY <1>2, <1>6
      <3>2. r.lbb = Total /\ r.left = 0
        BY <1>5, <1>7, <1>8, <1>9, <3>1
      <3> QED
        BY <3>2, ConstantTypes
    <2> QED
      BY <1>5, <1>7, <2>1 DEF Sound, Numbers
  <1>11. Counters(r)
    <2>1. {"closing"} \cap CounterFields = {}
      BY DEF CounterFields
    <2> QED
      BY <1>5, <1>6, <2>1, CountersKept DEF Sound
  <1>12. QueuesState(r)
    BY <1>5, <1>7 DEF Sound, QueuesState, Filled, Emptied, InQueues, TimesIn, PbufsIn
  <1>13. QueuesType(r) /\ TimerState(r) /\ Sendable(r) /\ IsPcb(r)
    BY <1>5, <1>6, <1>7 DEF Sound, QueuesType, TimerState, Sendable, Keeps
  <1>14. Keeps(p, r, CloseFields \cup {"closing"})
    BY <1>5, <1>6 DEF Keeps
  <1>15. r.closing => r.state \in Writable
    BY <1>2, <1>6, <1>7
  <1> QED
    BY <1>4, <1>5, <1>7, <1>10, <1>11, <1>12, <1>13, <1>14, <1>15 DEF Sound

LEMMA PbufsNatural ==
    ASSUME NEW q \in Queues
    PROVE  Pbufs(q) \in Nat
  <1>1. PICK r \in Seq(Nat) : r = [i \in 1 .. Len(q) |-> q[i].pbufs]
    BY PbufsSequence
  <1>2. Len(r) \in 0 .. Len(r)
    OBVIOUS
  <1>3. PrefixSums(r)[Len(r)] \in Nat
    BY <1>2, PrefixSumsMonotonic
  <1> QED
    BY <1>1, <1>3 DEF Pbufs, SumOf

LEMMA HeadApart ==
    ASSUME NEW u \in Queues, u # <<>>
    PROVE  /\ Head(u) \in Segments /\ Tail(u) \in Queues /\ Head(u) \in ToSet(u)
           /\ u = <<Head(u)>> \o Tail(u) /\ Gathers(u, <<Head(u)>>, Tail(u))
  <1>1. PICK e \in Segments, t \in Queues : e = Head(u) /\ t = Tail(u) /\ u = <<e>> \o t
    <2>1. Head(u) \in Segments /\ Tail(u) \in Seq(Segments) /\ u = <<Head(u)>> \o Tail(u)
      BY DEF Queues
    <2> QED
      BY <2>1 DEF Queues
  <1>2. <<e>> \in Queues /\ ToSet(<<e>>) = {e}
    BY FewSegments
  <1>3. Gathers(<<e>> \o t, <<e>>, t)
    BY <1>2, GathersConcat
  <1>4. Gathers(u, <<e>>, t)
    BY <1>1, <1>3
  <1>5. ToSet(u) = ToSet(<<e>>) \cup ToSet(t)
    BY <1>4 DEF Gathers
  <1> QED
    BY <1>1, <1>2, <1>4, <1>5

\* v is what is left of u when some segments that end at ack or before are taken
\* off its head, and when all of them are.
Shortened(v, u, ack) ==
    \E k \in 0 .. Len(u) :
        /\ v = SubSeq(u, k + 1, Len(u))
        /\ \A i \in 1 .. k : EndOf(u[i]) <= ack
Cut(v, u, ack) ==
    \E k \in 0 .. Len(u) :
        /\ v = SubSeq(u, k + 1, Len(u))
        /\ \A i \in 1 .. k : EndOf(u[i]) <= ack
        /\ k < Len(u) => ~(EndOf(u[k + 1]) <= ack)

LEMMA UnackedIsCut ==
    ASSUME NEW u \in Queues, NEW ack
    PROVE  Cut(Unacked(u, ack), u, ack)
  <1>1. PICK m \in Nat : m = Len(u)
    BY QueueTypes
  <1>2. PICK S : S = {k \in 0 .. m : \A i \in 1 .. k : EndOf(u[i]) <= ack}
    OBVIOUS
  <1>3. 0 \in S /\ S \in SUBSET (0 .. m) /\ S # {}
    BY <1>2
  <1>4. PICK k : k = Max(S) /\ k \in S /\ \A y \in S : y <= k
    BY <1>3, MaxOf
  <1>5. k \in 0 .. m /\ \A i \in 1 .. k : EndOf(u[i]) <= ack
    BY <1>2, <1>4
  <1>6. k < m => ~(EndOf(u[k + 1]) <= ack)
    <2> SUFFICES ASSUME k < m, EndOf(u[k + 1]) <= ack PROVE FALSE
      OBVIOUS
    <2>1. PICK j \in 0 .. m : j = k + 1
      BY <1>5
    <2>2. \A i \in 1 .. j : i \in 1 .. k \/ i = j
      BY <1>5, <2>1
    <2>3. \A i \in 1 .. j : EndOf(u[i]) <= ack
      BY <1>5, <2>1, <2>2
    <2>4. j \in S
      BY <1>2, <2>3
    <2> QED
      BY <1>4, <1>5, <2>1, <2>4
  <1>7. Unacked(u, ack) = SubSeq(u, k + 1, Len(u))
    BY <1>1, <1>2, <1>4 DEF Unacked
  <1> QED
    BY <1>1, <1>5, <1>6, <1>7 DEF Cut

LEMMA CutShortens ==
    ASSUME NEW u, NEW v, NEW ack, Cut(v, u, ack)
    PROVE  Shortened(v, u, ack)
  BY DEF Cut, Shortened

LEMMA NothingCut ==
    ASSUME NEW u \in Queues, NEW ack
    PROVE  Shortened(u, u, ack)
  <1>1. PICK m \in Nat : m = Len(u)
    BY QueueTypes
  <1>2. 0 \in 0 .. m /\ 0 + 1 = 1
    BY <1>1
  <1>3. SubSeq(u, 1, m) = u
    BY <1>1 DEF Queues
  <1>4. \A i \in 1 .. 0 : EndOf(u[i]) <= ack
    OBVIOUS
  <1> QED
    BY <1>1, <1>2, <1>3, <1>4 DEF Shortened

LEMMA ShortenedQueue ==
    ASSUME NEW u \in Queues, NEW v, NEW ack \in Int, Shortened(v, u, ack)
    PROVE  /\ v \in Queues /\ ToSet(v) \subseteq ToSet(u)
           /\ \A seg \in ToSet(u) : seg \in ToSet(v) \/ EndOf(seg) <= ack
           /\ \A n \in Int : n >= ack => Times(v, n) = Times(u, n)
           /\ Pbufs(v) <= Pbufs(u)
  <1>1. PICK k \in 0 .. Len(u) :
            /\ v = SubSeq(u, k + 1, Len(u))
            /\ \A i \in 1 .. k : EndOf(u[i]) <= ack
    BY DEF Shortened
  <1>2. PICK a \in Queues : a = SubSeq(u, 1, k) /\ Gathers(u, a, v) /\ ToSet(a) = {u[i] : i \in 1 .. k}
    BY <1>1, GathersSplit
  <1>3. v \in Queues
    BY <1>1, GathersSplit
  <1>4. ASSUME NEW n \in Int, n >= ack PROVE Times(v, n) = Times(u, n)
    <2>1. \A seg \in ToSet(a) : EndOf(seg) <= ack /\ seg \in Segments
      BY <1>1, <1>2, QueueTypes
    <2>2. \A seg \in Segments : EndOf(seg) \in Int
      BY SegmentTypes
    <2>3. \A seg \in ToSet(a) : seg \notin Holds(n)
      BY <1>4, <2>1, <2>2 DEF Holds
    <2>4. Times(a, n) = 0 /\ Times(v, n) \in Int
      BY <1>3, <2>3, QueueTypes
    <2>5. Times(u, n) = Times(a, n) + Times(v, n)
      BY <1>2 DEF Gathers
    <2> QED
      BY <2>4, <2>5
  <1>5. Pbufs(v) <= Pbufs(u)
    <2>1. Pbufs(a) \in Nat /\ Pbufs(v) \in Nat
      BY <1>3, PbufsNatural
    <2> QED
      BY <1>2, <2>1 DEF Gathers
  <1>6. \A seg \in ToSet(u) : seg \in ToSet(v) \/ EndOf(seg) <= ack
    BY <1>1, <1>2 DEF Gathers
  <1> QED
    BY <1>2, <1>3, <1>4, <1>5, <1>6 DEF Gathers

-----------------------------------------------------------------------------
(* Input that leaves the queues alone                                      *)

LooseFields == MarkFields \cup {"wnd", "wl1", "wl2", "rcv", "cwnd", "nrtx", "dupacks", "acked"}

LEMMA LooseSound ==
    ASSUME NEW p, NEW q, Sound(p), p.out = {}, Keeps(p, q, LooseFields), Counters(q)
    PROVE  Sound(q) /\ q.out = {}
  <1>1. \A f \in Fields \ LooseFields : q[f] = p[f]
    BY DEF Keeps
  <1>2. /\ q.state = p.state /\ q.unacked = p.unacked /\ q.unsent = p.unsent
        /\ q.lastack = p.lastack /\ q.nxt = p.nxt /\ q.lbb = p.lbb
        /\ q.qlen = p.qlen /\ q.buf = p.buf /\ q.running = p.running
        /\ q.out = p.out /\ q.input = p.input
    BY <1>1 DEF Fields, LooseFields, MarkFields
  <1>3. Numbers(q)
    <2>1. LooseFields \cap NumberFields = {}
      BY DEF LooseFields, MarkFields, NumberFields
    <2> QED
      BY <2>1, NumbersKept DEF Sound
  <1>4. QueuesState(q)
    BY <1>2 DEF Sound, QueuesState, Filled, Emptied, InQueues, TimesIn, PbufsIn
  <1>5. QueuesType(q) /\ TimerState(q) /\ Sendable(q)
    BY <1>2 DEF Sound, QueuesType, TimerState, Sendable
  <1> QED
    BY <1>2, <1>3, <1>4, <1>5 DEF Sound, Keeps

-----------------------------------------------------------------------------
(* tcp_rexmit_fast                                                         *)

\* The first unacknowledged segment goes back to its place among the unsent.
LEMMA FastRetransmitSound ==
    ASSUME NEW p, Sound(p), p.out = {}, p.state \notin Over
    PROVE  /\ Sound(FastRetransmit(p)) /\ FastRetransmit(p).out = {}
           /\ Keeps(p, FastRetransmit(p), {"unacked", "unsent", "nrtx", "cwnd", "infr"})
  <1>1. PICK q : q = FastRetransmit(p)
    OBVIOUS
  <1>2. IsPcb(p) /\ QueuesType(p) /\ Numbers(p) /\ Counters(p) /\ Filled(p)
    BY DEF Sound, QueuesState
  <1>3. CASE p.unacked = <<>> \/ p.infr
    BY <1>1, <1>2, <1>3 DEF FastRetransmit, Keeps
  <1>4. CASE ~(p.unacked = <<>> \/ p.infr)
    <2>1. PICK a \in Queues, u \in Queues : a = p.unacked /\ u = p.unsent
      BY <1>2 DEF QueuesType
    <2>2. PICK e \in Segments, t \in Queues :
              e = Head(a) /\ t = Tail(a) /\ Gathers(a, <<e>>, t)
      BY <1>4, <2>1, HeadApart
    <2>3. PICK v : v = Insert(u, e)
      OBVIOUS
    <2>4. Gathers(v, u, <<e>>)
      BY <2>3, InsertGathers
    <2>5. q = [p EXCEPT !.unacked = t, !.unsent = v, !.nrtx = Min2(@ + 1, MaxRtx + 1),
                        !.cwnd = SndBuf, !.infr = TRUE]
      BY <1>1, <1>4, <2>1, <2>2, <2>3 DEF FastRetransmit
    <2>6. /\ Keeps(p, q, {"unacked", "unsent", "nrtx", "cwnd", "infr"})
          /\ q.unacked = t /\ q.unsent = v
          /\ q.nrtx = Min2(p.nrtx + 1, MaxRtx + 1) /\ q.cwnd = SndBuf
      BY <1>2, <2>5, ZenonT(40) DEF Keeps, IsPcb, Fields
    <2>7. /\ q.state = p.state /\ q.lastack = p.lastack /\ q.nxt = p.nxt /\ q.lbb = p.lbb
          /\ q.qlen = p.qlen /\ q.buf = p.buf /\ q.running = p.running
          /\ q.out = p.out /\ q.input = p.input
          /\ q.wnd = p.wnd /\ q.wl1 = p.wl1 /\ q.wl2 = p.wl2 /\ q.rcv = p.rcv
          /\ q.dupacks = p.dupacks /\ q.acked = p.acked
      BY <2>6 DEF Keeps, Fields
    <2>8. v \in Queues
      BY <2>4 DEF Gathers
    <2>9. /\ ToSet(v) = ToSet(u) \cup ToSet(<<e>>) /\ ToSet(a) = ToSet(<<e>>) \cup ToSet(t)
      BY <2>2, <2>4 DEF Gathers
    <2>10. \A r \in Queues : Pbufs(r) \in Int /\ \A n : Times(r, n) \in Int
      BY QueueTypes
    <2>11. PICK s \in Queues : s = <<e>>
      BY FewSegments
    <2>12. Pbufs(t) + Pbufs(v) = Pbufs(a) + Pbufs(u)
      <3>1. Pbufs(a) = Pbufs(s) + Pbufs(t)
        BY <2>2, <2>11 DEF Gathers
      <3>2. Pbufs(v) = Pbufs(u) + Pbufs(s)
        BY <2>4, <2>11 DEF Gathers
      <3>3. Pbufs(s) \in Int /\ Pbufs(t) \in Int /\ Pbufs(u) \in Int
        BY <2>10
      <3> QED
        BY <3>1, <3>2, <3>3
    <2>13. ASSUME NEW n PROVE Times(t, n) + Times(v, n) = Times(a, n) + Times(u, n)
      <3>1. Times(a, n) = Times(s, n) + Times(t, n)
        BY <2>2, <2>11 DEF Gathers
      <3>2. Times(v, n) = Times(u, n) + Times(s, n)
        BY <2>4, <2>11 DEF Gathers
      <3>3. Times(s, n) \in Int /\ Times(t, n) \in Int /\ Times(u, n) \in Int
        BY <2>10
      <3> QED
        BY <3>1, <3>2, <3>3
    <2>14. Conserves(p, q)
      BY <2>1, <2>6, <2>8, <2>9, <2>12, <2>13
         DEF Conserves, QueuesType, InQueues, PbufsIn, TimesIn
    <2>15. \A seg \in ToSet(q.unacked) : EndOf(seg) <= q.nxt
      BY <1>2, <2>1, <2>6, <2>7, <2>9 DEF Filled
    <2>21. q.nxt = q.lbb \/ \E seg \in ToSet(q.unsent) : EndOf(seg) = q.lbb
      BY <1>2, <2>1, <2>6, <2>7, <2>9 DEF Filled
    <2>16. Filled(q)
      BY <1>2, <2>7, <2>14, <2>15, <2>21, ConservesFilled
    <2>17. q.nrtx \in 0 .. MaxRtx + 1 /\ q.cwnd \in MSS .. SndBuf
      <3>1. p.nrtx \in 0 .. MaxRtx + 1
        BY <1>2 DEF Counters
      <3> QED
        BY <2>6, <3>1, ConstantTypes DEF Min2
    <2>18. Counters(q)
      BY <1>2, <2>7, <2>17 DEF Counters
    <2>19. Numbers(q)
      <3>1. {"unacked", "unsent", "nrtx", "cwnd", "infr"} \cap NumberFields = {}
        BY DEF NumberFields
      <3> QED
        BY <1>2, <2>6, <3>1, NumbersKept
    <2>20. TimerState(q) /\ Sendable(q)
      BY <1>4, <2>7 DEF Sound, TimerState, Sendable
    <2> QED
      BY <1>1, <2>6, <2>7, <2>14, <2>16, <2>18, <2>19, <2>20
         DEF Sound, QueuesState, Conserves, Keeps
  <1> QED
    BY <1>3, <1>4

DuplicateFields == {"unacked", "unsent", "nrtx", "cwnd", "infr", "dupacks"}

LEMMA DuplicateSound ==
    ASSUME NEW p, Sound(p), p.out = {}, p.state \notin Over
    PROVE  /\ Sound(Duplicate(p)) /\ Duplicate(p).out = {}
           /\ Keeps(p, Duplicate(p), DuplicateFields)
  <1>1. PICK d : d = Min2(p.dupacks + 1, 4)
    OBVIOUS
  <1>2. PICK r : r = [p EXCEPT !.dupacks = d]
    OBVIOUS
  <1>3. IsPcb(p) /\ Counters(p)
    BY DEF Sound
  <1>4. Keeps(p, r, {"dupacks"}) /\ r.dupacks = d
    BY <1>2, <1>3 DEF Keeps, IsPcb, Fields
  <1>5. d \in 0 .. 4
    BY <1>1, <1>3 DEF Counters, Min2
  <1>6. /\ r.wnd = p.wnd /\ r.wl1 = p.wl1 /\ r.wl2 = p.wl2 /\ r.rcv = p.rcv
        /\ r.buf = p.buf /\ r.qlen = p.qlen /\ r.cwnd = p.cwnd /\ r.nrtx = p.nrtx
        /\ r.acked = p.acked /\ r.state = p.state
    BY <1>4 DEF Keeps, Fields
  <1>7. Counters(r)
    BY <1>3, <1>4, <1>5, <1>6 DEF Counters
  <1>8. Sound(r) /\ r.out = {}
    <2>1. Keeps(p, r, LooseFields)
      BY <1>4 DEF Keeps, LooseFields
    <2> QED
      BY <1>7, <2>1, LooseSound
  <1>9. Duplicate(p) = Repeated(r)
    BY <1>1, <1>2 DEF Duplicate
  <1>10. CASE r.dupacks = 3
    <2>1. Repeated(r) = FastRetransmit(r)
      BY <1>10 DEF Repeated
    <2>2. /\ Sound(FastRetransmit(r)) /\ FastRetransmit(r).out = {}
          /\ Keeps(r, FastRetransmit(r), {"unacked", "unsent", "nrtx", "cwnd", "infr"})
      BY <1>6, <1>8, FastRetransmitSound
    <2>3. Keeps(p, FastRetransmit(r), DuplicateFields)
      BY <1>4, <2>2 DEF Keeps, DuplicateFields
    <2> QED
      BY <1>9, <2>1, <2>2, <2>3
  <1>11. CASE r.dupacks > 3
    <2>1. PICK c : c = Min2(r.cwnd + MSS, SndBuf)
      OBVIOUS
    <2>2. PICK q : q = [r EXCEPT !.cwnd = c]
      OBVIOUS
    <2>3. Repeated(r) = q
      <3>1. r.dupacks # 3
        BY <1>4, <1>5, <1>11
      <3> QED
        BY <1>11, <2>1, <2>2, <3>1 DEF Repeated
    <2>4. Keeps(r, q, {"cwnd"}) /\ q.cwnd = c
      BY <1>4, <2>2 DEF Keeps, IsPcb, Fields
    <2>5. c \in MSS .. SndBuf
      BY <1>7, <2>1, ConstantTypes DEF Counters, Min2
    <2>6. /\ q.wnd = r.wnd /\ q.wl1 = r.wl1 /\ q.wl2 = r.wl2 /\ q.rcv = r.rcv
          /\ q.buf = r.buf /\ q.qlen = r.qlen /\ q.dupacks = r.dupacks /\ q.nrtx = r.nrtx
          /\ q.acked = r.acked
      BY <2>4 DEF Keeps, Fields
    <2>7. Counters(q)
      BY <1>7, <2>4, <2>5, <2>6 DEF Counters
    <2>8. Keeps(r, q, LooseFields) /\ Keeps(p, q, DuplicateFields)
      BY <1>4, <2>4 DEF Keeps, LooseFields, DuplicateFields
    <2> QED
      BY <1>8, <1>9, <2>3, <2>7, <2>8, LooseSound
  <1>12. CASE ~(r.dupacks = 3) /\ ~(r.dupacks > 3)
    <2>1. Repeated(r) = r
      BY <1>12 DEF Repeated
    <2>2. Keeps(p, r, DuplicateFields)
      BY <1>4 DEF Keeps, DuplicateFields
    <2> QED
      BY <1>8, <1>9, <2>1, <2>2
  <1> QED
    BY <1>10, <1>11, <1>12

-----------------------------------------------------------------------------
(* tcp_receive                                                             *)

\* What comes from the client.
Messages == [seq : 0 .. 1, ack : 0 .. Total + 1, wnd : 0 .. PeerBuf, fin : BOOLEAN]

\* A pcb in the middle of tcp_input.
Ready(p) == Sound(p) /\ p.out = {}

AckFields == DuplicateFields \cup {"qlen", "acked", "buf", "lastack", "running"}
WindowFields == {"wnd", "wl1", "wl2", "persist"}

LEMMA WindowUpdateSound ==
    ASSUME NEW p, Ready(p), NEW m \in Messages
    PROVE  Ready(WindowUpdate(p, m)) /\ Keeps(p, WindowUpdate(p, m), WindowFields)
  <1>1. IsPcb(p) /\ Counters(p) /\ Sound(p) /\ p.out = {}
    BY DEF Ready, Sound
  <1>2. CASE WindowUpdate(p, m) = p
    BY <1>1, <1>2 DEF Ready, Keeps
  <1>3. CASE WindowUpdate(p, m) # p
    <2>1. PICK q : q = WindowUpdate(p, m)
      OBVIOUS
    <2>2. q = [p EXCEPT !.wnd = m.wnd, !.wl1 = m.seq, !.wl2 = m.ack, !.persist = @ /\ m.wnd = 0]
      BY <1>3, <2>1 DEF WindowUpdate
    <2>3. Keeps(p, q, WindowFields) /\ q.wnd = m.wnd /\ q.wl1 = m.seq /\ q.wl2 = m.ack
      BY <1>1, <2>2 DEF Keeps, IsPcb, Fields, WindowFields
    <2>4. /\ q.rcv = p.rcv /\ q.buf = p.buf /\ q.qlen = p.qlen /\ q.cwnd = p.cwnd
          /\ q.nrtx = p.nrtx /\ q.acked = p.acked /\ q.dupacks = p.dupacks
      BY <2>3 DEF Keeps, Fields, WindowFields
    <2>5. m.wnd \in 0 .. PeerBuf /\ m.seq \in 0 .. 1 /\ m.ack \in 0 .. Total + 1
      BY DEF Messages
    <2>6. Counters(q)
      BY <1>1, <2>3, <2>4, <2>5 DEF Counters
    <2>7. Keeps(p, q, LooseFields)
      BY <2>3 DEF Keeps, WindowFields, LooseFields, MarkFields
    <2> QED
      BY <1>1, <2>1, <2>3, <2>6, <2>7, LooseSound DEF Ready
  <1> QED
    BY <1>2, <1>3

\* The queues when v and w are left of them.
Freed(p, r, v, w, ack) ==
    /\ v \in Queues /\ w \in Queues
    /\ ToSet(v) \subseteq ToSet(p.unacked) /\ ToSet(w) \subseteq ToSet(p.unsent)
    /\ \A seg \in ToSet(p.unsent) : seg \in ToSet(w) \/ EndOf(seg) <= ack
    /\ Free(r, v, w).qlen = Pbufs(v) + Pbufs(w)
    /\ Free(r, v, w).qlen \in 0 .. QueueLen
    /\ \A n \in Int : n >= ack => Times(v, n) + Times(w, n) = TimesIn(p, n)

LEMMA FreeQueues ==
    ASSUME NEW p, Sound(p), p.state \notin Over, NEW r, IsPcb(r),
           r.unacked = p.unacked, r.unsent = p.unsent, r.qlen = p.qlen,
           NEW ack \in Int, NEW v, NEW w, Shortened(v, p.unacked, ack),
           Shortened(w, p.unsent, ack)
    PROVE  Freed(p, r, v, w, ack)
  <1>1. PICK a \in Queues, u \in Queues : a = p.unacked /\ u = p.unsent
    BY DEF Sound, QueuesType
  <1>2. /\ v \in Queues /\ ToSet(v) \subseteq ToSet(a) /\ Pbufs(v) <= Pbufs(a)
        /\ \A n \in Int : n >= ack => Times(v, n) = Times(a, n)
    BY <1>1, ShortenedQueue
  <1>3. /\ w \in Queues /\ ToSet(w) \subseteq ToSet(u) /\ Pbufs(w) <= Pbufs(u)
        /\ \A seg \in ToSet(u) : seg \in ToSet(w) \/ EndOf(seg) <= ack
        /\ \A n \in Int : n >= ack => Times(w, n) = Times(u, n)
    BY <1>1, ShortenedQueue
  <1>4. Pbufs(a \o u) = Pbufs(a) + Pbufs(u) /\ Pbufs(v \o w) = Pbufs(v) + Pbufs(w)
    BY <1>2, <1>3, PbufsConcat
  <1>5. Pbufs(a) \in Nat /\ Pbufs(u) \in Nat /\ Pbufs(v) \in Nat /\ Pbufs(w) \in Nat
    BY <1>2, <1>3, PbufsNatural
  <1>6. p.qlen = Pbufs(a) + Pbufs(u) /\ p.qlen \in 0 .. QueueLen
    BY <1>1 DEF Sound, QueuesState, Filled, PbufsIn, Counters
  <1>7. Free(r, v, w).qlen = r.qlen - (Pbufs(r.unacked \o r.unsent) - Pbufs(v \o w))
    BY AccountFrame
  <1>8. Free(r, v, w).qlen = Pbufs(v) + Pbufs(w)
    BY <1>1, <1>4, <1>5, <1>6, <1>7
  <1>9. Free(r, v, w).qlen \in 0 .. QueueLen
    BY <1>2, <1>3, <1>5, <1>6, <1>8, ConstantTypes
  <1>10. \A n \in Int : n >= ack => Times(v, n) + Times(w, n) = TimesIn(p, n)
    BY <1>1, <1>2, <1>3 DEF TimesIn
  <1> QED
    BY <1>1, <1>2, <1>3, <1>8, <1>9, <1>10 DEF Freed

LEMMA NewAckFrame ==
    ASSUME NEW p, IsPcb(p), NEW ack \in Int, p.lastack \in Int, NEW v
    PROVE  /\ Keeps(p, NewAck(p, ack, v), AckFields)
           /\ NewAck(p, ack, v).unacked = v /\ NewAck(p, ack, v).unsent = p.unsent
           /\ NewAck(p, ack, v).lastack = ack
           /\ NewAck(p, ack, v).running = Restarted(v)
           /\ NewAck(p, ack, v).cwnd = Min2(p.cwnd + MSS, SndBuf)
           /\ NewAck(p, ack, v).nrtx = 0 /\ NewAck(p, ack, v).dupacks = 0
           /\ NewAck(p, ack, v).buf = (p.buf + ack - p.lastack) % 65536
           /\ NewAck(p, ack, v).acked \in {ack - p.lastack, ack - p.lastack - 1}
           /\ ack - p.lastack = 0 => NewAck(p, ack, v).acked = 0
           /\ \E r : /\ IsPcb(r) /\ r.unacked = p.unacked /\ r.unsent = p.unsent /\ r.qlen = p.qlen
                     /\ NewAck(p, ack, v).qlen = Free(r, v, p.unsent).qlen
  <1>1. PICK d : d = ack - p.lastack
    OBVIOUS
  <1>2. PICK r : r = [p EXCEPT !.acked = d]
    OBVIOUS
  <1>3. /\ IsPcb(r) /\ Keeps(p, r, {"acked"}) /\ r.acked = d
        /\ r.unacked = p.unacked /\ r.unsent = p.unsent /\ r.qlen = p.qlen
        /\ r.cwnd = p.cwnd /\ r.buf = p.buf
    BY <1>2 DEF Keeps, IsPcb, Fields
  <1>4. PICK s : s = Free(r, v, p.unsent)
    OBVIOUS
  <1>5. /\ Keeps(r, s, {"unacked", "unsent", "qlen", "acked"}) /\ s.unacked = v /\ s.unsent = p.unsent
        /\ s.acked \in {r.acked, r.acked - 1} /\ (r.acked = 0 => s.acked = 0)
    BY <1>3, <1>4, AccountFrame
  <1>6. IsPcb(s) /\ s.cwnd = p.cwnd /\ s.buf = p.buf
    BY <1>3, <1>5 DEF Keeps, Fields
  <1>7. PICK c, b : c = Min2(s.cwnd + MSS, SndBuf) /\ b = (s.buf + ack - p.lastack) % 65536
    OBVIOUS
  <1>8. PICK t : t = Restarted(v)
    OBVIOUS
  <1>9. PICK q : q = [s EXCEPT !.infr = FALSE, !.cwnd = c, !.nrtx = 0, !.dupacks = 0,
                               !.buf = b, !.lastack = ack, !.running = t]
    OBVIOUS
  <1>10. q = NewAck(p, ack, v)
    BY <1>1, <1>2, <1>4, <1>7, <1>8, <1>9 DEF NewAck
  <1>11. /\ Keeps(s, q, {"infr", "cwnd", "nrtx", "dupacks", "buf", "lastack", "running"})
         /\ q.cwnd = c /\ q.nrtx = 0 /\ q.dupacks = 0 /\ q.buf = b /\ q.lastack = ack
         /\ q.running = t /\ q.unacked = s.unacked /\ q.unsent = s.unsent
         /\ q.qlen = s.qlen /\ q.acked = s.acked
    BY <1>6, <1>9, ZenonT(40) DEF Keeps, IsPcb, Fields
  <1>12. Keeps(p, q, AckFields)
    BY <1>3, <1>5, <1>11 DEF Keeps, AckFields, DuplicateFields
  <1>13. q.qlen = Free(r, v, p.unsent).qlen
    BY <1>4, <1>11
  <1>14. \E r1 : /\ IsPcb(r1) /\ r1.unacked = p.unacked /\ r1.unsent = p.unsent /\ r1.qlen = p.qlen
                 /\ q.qlen = Free(r1, v, p.unsent).qlen
    BY <1>3, <1>13
  <1>15. q.running = Restarted(v) /\ q.cwnd = Min2(p.cwnd + MSS, SndBuf)
    BY <1>6, <1>7, <1>8, <1>11
  <1>16. q.buf = (p.buf + ack - p.lastack) % 65536
    BY <1>6, <1>7, <1>11
  <1>17. q.acked \in {ack - p.lastack, ack - p.lastack - 1} /\ (ack - p.lastack = 0 => q.acked = 0)
    BY <1>1, <1>3, <1>5, <1>11
  <1> QED
    BY <1>5, <1>10, <1>11, <1>12, <1>14, <1>15, <1>16, <1>17

LEMMA NewAckReady ==
    ASSUME NEW p, Ready(p), p.state \notin Over, NEW ack \in p.lastack + 1 .. p.nxt
    PROVE  /\ Ready(NewAck(p, ack, Unacked(p.unacked, ack)))
           /\ Keeps(p, NewAck(p, ack, Unacked(p.unacked, ack)), AckFields)
           /\ NewAck(p, ack, Unacked(p.unacked, ack)).lastack = ack
  <1>1. PICK v : v = Unacked(p.unacked, ack)
    OBVIOUS
  <1>2. PICK q : q = NewAck(p, ack, v)
    OBVIOUS
  <1>3. IsPcb(p) /\ QueuesType(p) /\ Numbers(p) /\ Counters(p) /\ Filled(p) /\ Sound(p) /\ p.out = {}
    BY DEF Ready, Sound, QueuesState
  <1>4. PICK l \in Nat, e \in Nat, x \in Nat : l = p.lastack /\ e = p.lbb /\ x = p.nxt /\ l <= x /\ x <= e /\ e <= Total + 1
    BY <1>3, ConstantTypes DEF Numbers
  <1>5. ack \in Nat /\ l + 1 <= ack /\ ack <= x /\ p.lastack \in Int /\ ack \in Int
    BY <1>4
  <1>6. /\ Keeps(p, q, AckFields)
        /\ q.unacked = v /\ q.unsent = p.unsent /\ q.lastack = ack
        /\ q.running = Restarted(v)
        /\ q.cwnd = Min2(p.cwnd + MSS, SndBuf) /\ q.nrtx = 0 /\ q.dupacks = 0
        /\ q.buf = (p.buf + ack - p.lastack) % 65536
        /\ q.acked \in {ack - p.lastack, ack - p.lastack - 1}
        /\ \E r : /\ IsPcb(r) /\ r.unacked = p.unacked /\ r.unsent = p.unsent /\ r.qlen = p.qlen
                  /\ q.qlen = Free(r, v, p.unsent).qlen
    <2>1. IsPcb(p) /\ p.lastack \in Int /\ ack \in Int
      BY <1>3, <1>5
    <2>2. /\ Keeps(p, NewAck(p, ack, v), AckFields)
          /\ NewAck(p, ack, v).unacked = v /\ NewAck(p, ack, v).unsent = p.unsent
          /\ NewAck(p, ack, v).lastack = ack
          /\ NewAck(p, ack, v).running = Restarted(v)
          /\ NewAck(p, ack, v).cwnd = Min2(p.cwnd + MSS, SndBuf)
          /\ NewAck(p, ack, v).nrtx = 0 /\ NewAck(p, ack, v).dupacks = 0
          /\ NewAck(p, ack, v).buf = (p.buf + ack - p.lastack) % 65536
          /\ NewAck(p, ack, v).acked \in {ack - p.lastack, ack - p.lastack - 1}
          /\ ack - p.lastack = 0 => NewAck(p, ack, v).acked = 0
          /\ \E r : /\ IsPcb(r) /\ r.unacked = p.unacked /\ r.unsent = p.unsent /\ r.qlen = p.qlen
                    /\ NewAck(p, ack, v).qlen = Free(r, v, p.unsent).qlen
      BY <2>1, NewAckFrame
    <2> QED
      BY <1>2, <2>2
  <1>7. Shortened(v, p.unacked, ack) /\ Shortened(p.unsent, p.unsent, ack)
    <2>1. p.unacked \in Queues /\ p.unsent \in Queues
      BY <1>3 DEF QueuesType
    <2>2. Cut(v, p.unacked, ack)
      BY <1>1, <2>1, UnackedIsCut
    <2> QED
      BY <2>1, <2>2, CutShortens, NothingCut
  <1>8. PICK r : /\ IsPcb(r) /\ r.unacked = p.unacked /\ r.unsent = p.unsent /\ r.qlen = p.qlen
                 /\ q.qlen = Free(r, v, p.unsent).qlen
    BY <1>6
  <1>9. /\ v \in Queues /\ p.unsent \in Queues
        /\ ToSet(v) \subseteq ToSet(p.unacked)
        /\ Free(r, v, p.unsent).qlen = Pbufs(v) + Pbufs(p.unsent)
        /\ Free(r, v, p.unsent).qlen \in 0 .. QueueLen
        /\ \A n \in Int : n >= ack => Times(v, n) + Times(p.unsent, n) = TimesIn(p, n)
    <2>1. PICK w : w = p.unsent
      OBVIOUS
    <2>2. Freed(p, r, v, w, ack)
      BY <1>3, <1>5, <1>7, <1>8, <2>1, FreeQueues
    <2> QED
      BY <2>1, <2>2 DEF Freed
  <1>10. /\ q.state = p.state /\ q.nxt = p.nxt /\ q.lbb = p.lbb /\ q.left = p.left
         /\ q.closing = p.closing /\ q.out = p.out /\ q.wnd = p.wnd /\ q.wl1 = p.wl1
         /\ q.wl2 = p.wl2 /\ q.rcv = p.rcv /\ q.input = p.input
    BY <1>6 DEF Keeps, Fields, AckFields, DuplicateFields
  <1>11. q.buf = (SndBuf - (q.lbb - q.lastack)) % 65536 /\ q.buf \in u16_t
    <2>1. PICK y \in Int, d \in Int : y = SndBuf - (e - l) /\ d = ack - l
      BY <1>5, ConstantTypes
    <2>2. p.buf = y % 65536 /\ p.buf \in Int
      <3>1. p.buf = y % 65536
        BY <1>3, <1>4, <2>1 DEF Filled
      <3>2. p.buf \in Nat
        BY <1>3, WordsAreNaturals DEF Counters
      <3> QED
        BY <3>1, <3>2
    <2>3. p.buf + ack - p.lastack = p.buf + d
      BY <1>4, <1>5, <2>1, <2>2
    <2>4. q.buf = (y + d) % 65536 /\ y + d \in Int
      BY <1>6, <2>2, <2>3, BufferArithmetic
    <2>5. y + d = SndBuf - (q.lbb - q.lastack)
      BY <1>4, <1>5, <1>6, <1>10, <2>1, ConstantTypes
    <2> QED
      BY <2>4, <2>5, BufferArithmetic
  <1>12. q.acked \in 0 .. Total + 1
    BY <1>4, <1>5, <1>6, ConstantTypes
  <1>13. q.cwnd \in MSS .. SndBuf
    <2>1. p.cwnd \in MSS .. SndBuf
      BY <1>3 DEF Counters
    <2> QED
      BY <1>6, <2>1, ConstantTypes DEF Min2
  <1>14. q.nrtx \in 0 .. MaxRtx + 1 /\ q.dupacks \in 0 .. 4
    BY <1>6, ConstantTypes
  <1>15. Counters(q)
    BY <1>3, <1>8, <1>9, <1>10, <1>11, <1>12, <1>13, <1>14 DEF Counters
  <1>16. Numbers(q)
    <2>1. q.lastack \in 0 .. Total + 1 /\ q.lastack <= q.nxt
      BY <1>4, <1>5, <1>6, <1>10, ConstantTypes
    <2> QED
      BY <1>3, <1>10, <2>1 DEF Numbers
  <1>17. Filled(q)
    <2>1. \A seg \in InQueues(q) : Whole(q.lbb, seg)
      BY <1>3, <1>6, <1>9, <1>10 DEF Filled, InQueues
    <2>2. \A seg \in ToSet(q.unacked) : EndOf(seg) <= q.nxt
      BY <1>3, <1>6, <1>9, <1>10 DEF Filled
    <2>3. ASSUME NEW n \in q.lastack .. q.lbb - 1 PROVE TimesIn(q, n) = 1
      <3>1. n \in Int /\ n >= ack /\ n \in p.lastack .. p.lbb - 1
        BY <1>4, <1>5, <1>6, <1>10
      <3>2. TimesIn(p, n) = 1
        BY <1>3, <3>1 DEF Filled
      <3> QED
        BY <1>6, <1>9, <3>1, <3>2 DEF TimesIn
    <2>4. q.qlen = PbufsIn(q)
      BY <1>6, <1>8, <1>9 DEF PbufsIn
    <2>5. q.nxt = q.lbb \/ \E seg \in ToSet(q.unsent) : EndOf(seg) = q.lbb
      BY <1>3, <1>6, <1>10 DEF Filled
    <2> QED
      BY <1>11, <2>1, <2>2, <2>3, <2>4, <2>5 DEF Filled
  <1>18. TimerState(q)
    <2>1. v # <<>> => Restarted(v)
      BY DEF Restarted
    <2>2. q.running = Restarted(v) /\ q.unacked = v
      BY <1>6
    <2> QED
      BY <2>1, <2>2 DEF TimerState
  <1>19. Sendable(q)
    BY <1>3, <1>10 DEF Sendable
  <1>20. IsPcb(q) /\ QueuesType(q)
    BY <1>6, <1>9 DEF Keeps, QueuesType
  <1> QED
    BY <1>1, <1>2, <1>3, <1>6, <1>10, <1>15, <1>16, <1>17, <1>18, <1>19, <1>20
       DEF Ready, Sound, QueuesState

LEMMA AckUnsentReady ==
    ASSUME NEW p, Ready(p), p.state \notin Over, NEW ack \in Int,
           ack <= p.nxt => ack <= p.lastack
    PROVE  /\ Ready(AckUnsent(p, ack))
           /\ Keeps(p, AckUnsent(p, ack), {"unacked", "unsent", "qlen", "acked"})
           /\ AckUnsent(p, ack).unacked = p.unacked
  <1>1. PICK q : q = AckUnsent(p, ack)
    OBVIOUS
  <1>2. IsPcb(p) /\ QueuesType(p) /\ Numbers(p) /\ Counters(p) /\ Filled(p) /\ Sound(p) /\ p.out = {}
    BY DEF Ready, Sound, QueuesState
  <1>3. CASE ~(ack <= p.nxt)
    BY <1>1, <1>2, <1>3 DEF AckUnsent, Keeps
  <1>4. CASE ack <= p.nxt
    <2>13. PICK w : w = Unacked(p.unsent, ack)
      OBVIOUS
    <2>1. PICK a \in Queues : a = p.unacked /\ w = Unacked(p.unsent, ack)
      BY <1>2, <2>13 DEF QueuesType
    <2>2. q = Free(p, a, w)
      BY <1>1, <1>4, <2>1 DEF AckUnsent
    <2>3. /\ Keeps(p, Free(p, a, w), {"unacked", "unsent", "qlen", "acked"})
          /\ Free(p, a, w).unacked = a
          /\ Free(p, a, w).unsent = w
          /\ Free(p, a, w).acked \in {p.acked, p.acked - 1}
          /\ p.acked = 0 => Free(p, a, w).acked = 0
      BY <1>2, AccountFrame
    <2>4. /\ Keeps(p, q, {"unacked", "unsent", "qlen", "acked"})
          /\ q.unacked = a /\ q.unsent = w
          /\ q.acked \in {p.acked, p.acked - 1} /\ (p.acked = 0 => q.acked = 0)
      BY <2>2, <2>3
    <2>5. Shortened(a, p.unacked, ack) /\ Shortened(w, p.unsent, ack)
      <3>1. p.unsent \in Queues
        BY <1>2 DEF QueuesType
      <3>2. Cut(w, p.unsent, ack)
        BY <2>1, <3>1, UnackedIsCut
      <3> QED
        BY <2>1, <3>2, CutShortens, NothingCut
    <2>6. /\ a \in Queues /\ w \in Queues
          /\ ToSet(a) \subseteq ToSet(p.unacked) /\ ToSet(w) \subseteq ToSet(p.unsent)
          /\ \A seg \in ToSet(p.unsent) : seg \in ToSet(w) \/ EndOf(seg) <= ack
          /\ Free(p, a, w).qlen = Pbufs(a) + Pbufs(w)
          /\ Free(p, a, w).qlen \in 0 .. QueueLen
          /\ \A n \in Int : n >= ack => Times(a, n) + Times(w, n) = TimesIn(p, n)
      <3>1. PICK r : r = p
        OBVIOUS
      <3>2. /\ IsPcb(r) /\ r.unacked = p.unacked /\ r.unsent = p.unsent /\ r.qlen = p.qlen
            /\ Sound(p) /\ p.state \notin Over
        BY <1>2, <3>1
      <3>3. Freed(p, r, a, w, ack)
        BY <2>5, <3>2, FreeQueues
      <3> QED
        BY <3>1, <3>3 DEF Freed
    <2>7. /\ q.state = p.state /\ q.lastack = p.lastack /\ q.nxt = p.nxt /\ q.lbb = p.lbb
          /\ q.buf = p.buf /\ q.running = p.running
          /\ q.out = p.out /\ q.input = p.input
          /\ q.wnd = p.wnd /\ q.wl1 = p.wl1 /\ q.wl2 = p.wl2 /\ q.rcv = p.rcv
          /\ q.dupacks = p.dupacks /\ q.cwnd = p.cwnd /\ q.nrtx = p.nrtx
      BY <2>4 DEF Keeps, Fields
    <2>8. q.acked \in 0 .. Total + 1
      <3>1. p.acked \in 0 .. Total + 1
        BY <1>2 DEF Counters
      <3> QED
        BY <2>4, <3>1, ConstantTypes
    <2>9. Counters(q)
      BY <1>2, <2>2, <2>6, <2>7, <2>8 DEF Counters
    <2>10. Numbers(q)
      <3>1. {"unacked", "unsent", "qlen", "acked"} \cap NumberFields = {}
        BY DEF NumberFields
      <3> QED
        BY <1>2, <2>4, <3>1, NumbersKept
    <2>11. Filled(q)
      <3>1. \A seg \in InQueues(q) : Whole(q.lbb, seg)
        BY <1>2, <2>4, <2>6, <2>7 DEF Filled, InQueues
      <3>2. \A seg \in ToSet(q.unacked) : EndOf(seg) <= q.nxt
        BY <1>2, <2>1, <2>4, <2>7 DEF Filled
      <3>3. ASSUME NEW n \in q.lastack .. q.lbb - 1 PROVE TimesIn(q, n) = 1
        <4>1. n \in Int /\ n >= ack /\ n \in p.lastack .. p.lbb - 1
          BY <1>2, <1>4, <2>7 DEF Numbers
        <4>2. TimesIn(p, n) = 1
          BY <1>2, <4>1 DEF Filled
        <4> QED
          BY <2>4, <2>6, <4>1, <4>2 DEF TimesIn
      <3>4. q.qlen = PbufsIn(q)
        BY <2>2, <2>4, <2>6 DEF PbufsIn
      <3>5. q.nxt = q.lbb \/ \E seg \in ToSet(q.unsent) : EndOf(seg) = q.lbb
        <4>1. p.nxt \in Int /\ p.lbb \in Int /\ p.nxt <= p.lbb
          BY <1>2, ConstantTypes DEF Numbers
        <4>2. CASE \E seg \in ToSet(p.unsent) : EndOf(seg) = p.lbb
          <5>1. PICK seg \in ToSet(p.unsent) : EndOf(seg) = p.lbb
            BY <4>2
          <5>2. CASE EndOf(seg) <= ack
            <6>1. p.nxt = p.lbb
              BY <1>4, <4>1, <5>1, <5>2
            <6> QED
              BY <2>7, <6>1
          <5>3. CASE seg \in ToSet(w)
            BY <2>4, <2>7, <5>1, <5>3
          <5> QED
            BY <2>6, <5>1, <5>2, <5>3
        <4>3. CASE p.nxt = p.lbb
          BY <2>7, <4>3
        <4> QED
          BY <1>2, <4>2, <4>3 DEF Filled
      <3> QED
        BY <1>2, <2>7, <3>1, <3>2, <3>3, <3>4, <3>5 DEF Filled
    <2>12. TimerState(q) /\ Sendable(q)
      BY <1>2, <2>1, <2>4, <2>7 DEF Sound, TimerState, Sendable
    <2> QED
      BY <1>1, <1>2, <2>1, <2>4, <2>6, <2>7, <2>9, <2>10, <2>11, <2>12
         DEF Ready, Sound, QueuesState, QueuesType, Keeps
  <1> QED
    BY <1>3, <1>4

LEMMA AckUnackedReady ==
    ASSUME NEW p, Ready(p), p.state \notin Over, NEW m \in Messages, NEW edge
    PROVE  /\ Ready(AckUnacked(p, m, edge)) /\ Keeps(p, AckUnacked(p, m, edge), AckFields)
           /\ p.lastack <= AckUnacked(p, m, edge).lastack
           /\ m.ack <= AckUnacked(p, m, edge).nxt => m.ack <= AckUnacked(p, m, edge).lastack
  <1>1. PICK q : q = AckUnacked(p, m, edge)
    OBVIOUS
  <1>2. IsPcb(p) /\ Counters(p) /\ Numbers(p) /\ Sound(p) /\ p.out = {}
    BY DEF Ready, Sound
  <1>3. /\ m.ack \in Int /\ p.lastack \in Int /\ p.nxt \in Int
    BY <1>2, ConstantTypes DEF Messages, Numbers
  <1>4. CASE m.ack <= p.lastack /\ q = Duplicate(p)
    <2>1. Ready(q) /\ Keeps(p, q, DuplicateFields)
      BY <1>2, <1>4, DuplicateSound DEF Ready
    <2>2. Keeps(p, q, AckFields) /\ q.lastack = p.lastack
      BY <2>1 DEF Keeps, AckFields, DuplicateFields, Fields
    <2> QED
      BY <1>1, <1>3, <1>4, <2>1, <2>2
  <1>5. CASE m.ack <= p.lastack /\ q = [p EXCEPT !.dupacks = 0]
    <2>1. Keeps(p, q, {"dupacks"}) /\ q.dupacks = 0
      BY <1>2, <1>5 DEF Keeps, IsPcb, Fields
    <2>2. /\ q.wnd = p.wnd /\ q.wl1 = p.wl1 /\ q.wl2 = p.wl2 /\ q.rcv = p.rcv
          /\ q.buf = p.buf /\ q.qlen = p.qlen /\ q.cwnd = p.cwnd /\ q.nrtx = p.nrtx
          /\ q.acked = p.acked /\ q.lastack = p.lastack
      BY <2>1 DEF Keeps, Fields
    <2>3. Counters(q)
      BY <1>2, <2>1, <2>2 DEF Counters
    <2>4. Keeps(p, q, LooseFields) /\ Keeps(p, q, AckFields)
      BY <2>1 DEF Keeps, LooseFields, AckFields, DuplicateFields
    <2>5. Ready(q)
      BY <1>2, <2>3, <2>4, LooseSound DEF Ready
    <2> QED
      BY <1>1, <1>3, <1>5, <2>2, <2>4, <2>5
  <1>6. CASE m.ack \in p.lastack + 1 .. p.nxt /\ q = NewAck(p, m.ack, Unacked(p.unacked, m.ack))
    <2>1. PICK ack \in p.lastack + 1 .. p.nxt : ack = m.ack
      BY <1>6
    <2>2. Ready(q) /\ Keeps(p, q, AckFields) /\ q.lastack = ack
      BY <1>6, <2>1, NewAckReady
    <2> QED
      BY <1>1, <1>3, <2>1, <2>2
  <1>7. CASE ~(m.ack <= p.lastack) /\ m.ack \notin p.lastack + 1 .. p.nxt /\ q = p
    <2>1. ~(m.ack <= p.nxt)
      BY <1>3, <1>7
    <2> QED
      BY <1>1, <1>2, <1>3, <1>7, <2>1 DEF Keeps
  <1>8. m.ack \in p.lastack + 1 .. p.nxt => ~(m.ack <= p.lastack)
    BY <1>3
  <1> QED
    BY <1>1, <1>4, <1>5, <1>6, <1>7, <1>8 DEF AckUnacked

ReceiveFields == AckFields \cup WindowFields

LEMMA ReceiveAckReady ==
    ASSUME NEW p, Ready(p), p.state \notin Over, NEW m \in Messages
    PROVE  /\ Ready(ReceiveAck(p, m)) /\ Keeps(p, ReceiveAck(p, m), ReceiveFields)
           /\ p.lastack <= ReceiveAck(p, m).lastack
  <1>1. PICK q : q = WindowUpdate(p, m)
    OBVIOUS
  <1>2. Ready(q) /\ Keeps(p, q, WindowFields)
    BY <1>1, WindowUpdateSound
  <1>3. q.state = p.state /\ q.lastack = p.lastack
    BY <1>2 DEF Keeps, WindowFields, Fields
  <1>4. PICK edge : edge = p.wl2 + p.wnd
    OBVIOUS
  <1>5. PICK r : r = AckUnacked(q, m, edge)
    OBVIOUS
  <1>6. /\ Ready(r) /\ Keeps(q, r, AckFields) /\ q.lastack <= r.lastack
        /\ m.ack <= r.nxt => m.ack <= r.lastack
    BY <1>2, <1>3, <1>5, AckUnackedReady
  <1>7. r.state = p.state
    BY <1>3, <1>6 DEF Keeps, AckFields, DuplicateFields, Fields
  <1>8. PICK ack \in Int : ack = m.ack
    BY ConstantTypes DEF Messages
  <1>9. PICK s : s = AckUnsent(r, ack)
    OBVIOUS
  <1>10. Ready(s) /\ Keeps(r, s, {"unacked", "unsent", "qlen", "acked"})
    BY <1>6, <1>7, <1>8, <1>9, AckUnsentReady
  <1>11. s.lastack = r.lastack
    BY <1>10 DEF Keeps, Fields
  <1>12. Keeps(p, s, ReceiveFields)
    BY <1>2, <1>6, <1>10 DEF Keeps, ReceiveFields, AckFields, DuplicateFields
  <1>13. ReceiveAck(p, m) = s
    BY <1>1, <1>4, <1>5, <1>8, <1>9 DEF ReceiveAck
  <1> QED
    BY <1>3, <1>6, <1>10, <1>11, <1>12, <1>13

FinFields == {"rcv", "acknow"}

LEMMA ReceiveFinReady ==
    ASSUME NEW p, Ready(p), NEW m \in Messages
    PROVE  Ready(ReceiveFin(p, m)) /\ Keeps(p, ReceiveFin(p, m), FinFields)
  <1>1. PICK q : q = ReceiveFin(p, m)
    OBVIOUS
  <1>2. IsPcb(p) /\ Counters(p) /\ Sound(p) /\ p.out = {}
    BY DEF Ready, Sound
  <1>3. CASE q = p
    BY <1>1, <1>2, <1>3 DEF Keeps, Ready
  <1>4. CASE q = [p EXCEPT !.rcv = 1, !.acknow = TRUE] \/ q = [p EXCEPT !.acknow = FALSE] \/ q = [p EXCEPT !.acknow = TRUE]
    <2>1. Keeps(p, q, FinFields) /\ (q.rcv = 1 \/ q.rcv = p.rcv)
      BY <1>2, <1>4 DEF Keeps, IsPcb, Fields, FinFields
    <2>2. /\ q.wnd = p.wnd /\ q.wl1 = p.wl1 /\ q.wl2 = p.wl2
          /\ q.buf = p.buf /\ q.qlen = p.qlen /\ q.cwnd = p.cwnd /\ q.nrtx = p.nrtx
          /\ q.acked = p.acked /\ q.dupacks = p.dupacks
      BY <2>1 DEF Keeps, Fields, FinFields
    <2>3. Counters(q)
      BY <1>2, <2>1, <2>2 DEF Counters
    <2>4. Keeps(p, q, LooseFields)
      BY <2>1 DEF Keeps, FinFields, LooseFields, MarkFields
    <2> QED
      BY <1>1, <1>2, <2>1, <2>3, <2>4, LooseSound DEF Ready
  <1> QED
    BY <1>1, <1>3, <1>4 DEF ReceiveFin

-----------------------------------------------------------------------------
(* tcp_process                                                             *)

PurgeFields == {"state", "unsent", "unacked", "running"}

LEMMA PurgeReady ==
    ASSUME NEW p, Ready(p), NEW state \in Over
    PROVE  /\ Ready(Purge(p, state)) /\ Keeps(p, Purge(p, state), PurgeFields)
           /\ Purge(p, state).state = state
           /\ Purge(p, state).unacked = <<>> /\ Purge(p, state).unsent = <<>>
  <1>1. PICK q : q = Purge(p, state)
    OBVIOUS
  <1>2. IsPcb(p) /\ Counters(p) /\ Numbers(p) /\ Sound(p) /\ p.out = {}
    BY DEF Ready, Sound
  <1>3. /\ Keeps(p, q, PurgeFields) /\ q.state = state
        /\ q.unsent = <<>> /\ q.unacked = <<>>
    BY <1>1, <1>2 DEF Purge, Keeps, IsPcb, Fields, PurgeFields
  <1>4. /\ q.lastack = p.lastack /\ q.nxt = p.nxt /\ q.lbb = p.lbb /\ q.left = p.left
        /\ q.closing = p.closing /\ q.out = p.out /\ q.wnd = p.wnd /\ q.input = p.input
    BY <1>3 DEF Keeps, Fields, PurgeFields
  <1>5. Counters(q)
    <2>1. PurgeFields \cap CounterFields = {}
      BY DEF PurgeFields, CounterFields
    <2> QED
      BY <1>2, <1>3, <2>1, CountersKept
  <1>6. Numbers(q)
    <2>1. q.state \in States /\ q.state \notin Writable /\ q.state \notin Closing
      BY <1>3 DEF States, Over, Writable, Closing
    <2> QED
      BY <1>2, <1>4, <2>1 DEF Numbers
  <1>7. QueuesState(q) /\ TimerState(q) /\ Sendable(q) /\ QueuesType(q)
    BY <1>2, <1>3, <1>4, FewSegments DEF QueuesState, Emptied, TimerState, Sendable, QueuesType
  <1> QED
    BY <1>1, <1>2, <1>3, <1>4, <1>5, <1>6, <1>7 DEF Ready, Sound, Keeps

\* The connection goes on in another state.
LEMMA GoesOnReady ==
    ASSUME NEW p, Ready(p), NEW state,
           \/ p.state \in Writable /\ state \in Writable
           \/ p.state \in Closing /\ state \in Closing
    PROVE  /\ Ready([p EXCEPT !.state = state]) /\ Keeps(p, [p EXCEPT !.state = state], {"state"})
           /\ [p EXCEPT !.state = state].state = state
  <1>1. PICK q : q = [p EXCEPT !.state = state]
    OBVIOUS
  <1>2. IsPcb(p) /\ Counters(p) /\ Numbers(p) /\ Sound(p) /\ p.out = {}
    BY DEF Ready, Sound
  <1>3. Keeps(p, q, {"state"}) /\ q.state = state
    BY <1>1, <1>2 DEF Keeps, IsPcb, Fields
  <1>4. /\ q.unacked = p.unacked /\ q.unsent = p.unsent
        /\ q.lastack = p.lastack /\ q.nxt = p.nxt /\ q.lbb = p.lbb /\ q.left = p.left
        /\ q.closing = p.closing /\ q.out = p.out /\ q.wnd = p.wnd /\ q.input = p.input
        /\ q.qlen = p.qlen /\ q.buf = p.buf /\ q.running = p.running
    BY <1>3 DEF Keeps, Fields
  <1>5. Counters(q)
    <2>1. {"state"} \cap CounterFields = {}
      BY DEF CounterFields
    <2> QED
      BY <1>2, <1>3, <2>1, CountersKept
  <1>6. /\ p.state \notin Over /\ q.state \notin Over /\ q.state \in States
        /\ (q.state \in Writable <=> p.state \in Writable)
        /\ (q.state \in Closing <=> p.state \in Closing)
    BY <1>3 DEF States, Over, Writable, Closing
  <1>7. Numbers(q)
    BY <1>2, <1>4, <1>6 DEF Numbers
  <1>8. QueuesState(q)
    BY <1>2, <1>4, <1>6 DEF Sound, QueuesState, Filled, InQueues, TimesIn, PbufsIn
  <1>9. TimerState(q) /\ Sendable(q) /\ QueuesType(q)
    BY <1>2, <1>4 DEF Sound, TimerState, Sendable, QueuesType
  <1> QED
    BY <1>1, <1>2, <1>3, <1>4, <1>5, <1>7, <1>8, <1>9 DEF Ready, Sound, Keeps

\* What tcp_process makes of the state.
LEMMA NewStateCases ==
    ASSUME NEW p, p.state \in States, NEW got, NEW full
    PROVE  \/ NewState(p, got, full) = p
           \/ /\ p.state \in Writable
              /\ NewState(p, got, full) = [p EXCEPT !.state = "CLOSE_WAIT"]
           \/ /\ p.state = "FIN_WAIT_1"
              /\ \/ NewState(p, got, full) = [p EXCEPT !.state = "CLOSING"] /\ got
                 \/ NewState(p, got, full) = [p EXCEPT !.state = "FIN_WAIT_2"] /\ full
           \/ /\ p.state \in {"FIN_WAIT_1", "FIN_WAIT_2", "CLOSING"}
              /\ full \/ p.state = "FIN_WAIT_2"
              /\ NewState(p, got, full) = Purge(p, "TIME_WAIT")
           \/ /\ p.state = "LAST_ACK" /\ full
              /\ NewState(p, got, full) = Purge(p, "CLOSED")
  BY DEF NewState, States, Writable, Closing, Over

LEMMA NewStateReady ==
    ASSUME NEW p, Ready(p), NEW got, NEW full
    PROVE  /\ Ready(NewState(p, got, full)) /\ Keeps(p, NewState(p, got, full), PurgeFields)
  <1>1. PICK q : q = NewState(p, got, full)
    OBVIOUS
  <1>2. IsPcb(p) /\ p.state \in States
    BY DEF Ready, Sound, Numbers
  <1>3. CASE q = p
    BY <1>1, <1>2, <1>3 DEF Keeps
  <1>4. ASSUME NEW s, q = [p EXCEPT !.state = s],
               \/ p.state \in Writable /\ s = "CLOSE_WAIT"
               \/ p.state = "FIN_WAIT_1" /\ s \in {"CLOSING", "FIN_WAIT_2"}
        PROVE  Ready(q) /\ Keeps(p, q, PurgeFields)
    <2>1. \/ p.state \in Writable /\ s \in Writable
          \/ p.state \in Closing /\ s \in Closing
      BY <1>4 DEF Writable, Closing
    <2>2. Ready(q) /\ Keeps(p, q, {"state"})
      BY <1>4, <2>1, GoesOnReady
    <2> QED
      BY <2>2 DEF Keeps, PurgeFields
  <1>5. ASSUME NEW s \in {"TIME_WAIT", "CLOSED"}, q = Purge(p, s)
        PROVE  Ready(q) /\ Keeps(p, q, PurgeFields)
    <2>1. s \in Over
      BY DEF Over
    <2> QED
      BY <1>5, <2>1, PurgeReady
  <1>6. \/ q = p
        \/ p.state \in Writable /\ q = [p EXCEPT !.state = "CLOSE_WAIT"]
        \/ p.state = "FIN_WAIT_1" /\ q = [p EXCEPT !.state = "CLOSING"]
        \/ p.state = "FIN_WAIT_1" /\ q = [p EXCEPT !.state = "FIN_WAIT_2"]
        \/ q = Purge(p, "TIME_WAIT") \/ q = Purge(p, "CLOSED")
    BY <1>1, <1>2, NewStateCases
  <1> QED
    BY <1>1, <1>3, <1>4, <1>5, <1>6

ProcessFields == ReceiveFields \cup FinFields \cup PurgeFields \cup {"early"}

LEMMA ProcessReady ==
    ASSUME NEW p, Ready(p), p.state \notin Over, NEW m \in Messages
    PROVE  /\ Ready(Process(p, m)) /\ Keeps(p, Process(p, m), ProcessFields)
           /\ p.lastack <= Process(p, m).lastack
  <1>1. PICK q : q = ReceiveAck(p, m)
    OBVIOUS
  <1>2. Ready(q) /\ Keeps(p, q, ReceiveFields) /\ p.lastack <= q.lastack
    BY <1>1, ReceiveAckReady
  <1>3. PICK r : r = ReceiveFin(q, m)
    OBVIOUS
  <1>4. Ready(r) /\ Keeps(q, r, FinFields)
    BY <1>2, <1>3, ReceiveFinReady
  <1>5. PICK got : got = (r.rcv # p.rcv)
    OBVIOUS
  <1>6. PICK full : full = FinAcked(r, m)
    OBVIOUS
  <1>7. PICK x : x = (r.early \/ (full /\ r.state \in Closing /\ r.unsent # <<>>))
    OBVIOUS
  <1>8. PICK s : s = [r EXCEPT !.early = x]
    OBVIOUS
  <1>9. Keeps(r, s, {"early"})
    BY <1>4, <1>8 DEF Ready, Sound, Keeps, IsPcb, Fields
  <1>10. Ready(s)
    <2>1. Keeps(r, s, MarkFields)
      BY <1>9 DEF Keeps, MarkFields
    <2>2. s.out = r.out
      BY <1>9 DEF Keeps, Fields
    <2> QED
      BY <1>4, <2>1, <2>2, MarksSound DEF Ready
  <1>11. PICK t : t = NewState(s, got, full)
    OBVIOUS
  <1>12. Ready(t) /\ Keeps(s, t, PurgeFields)
    BY <1>10, <1>11, NewStateReady
  <1>13. Process(p, m) = t
    <2>1. Process(p, m) = Advance(r, got, full)
      BY <1>1, <1>3, <1>5, <1>6 DEF Process, Received
    <2>2. Advance(r, got, full) = t
      BY <1>7, <1>8, <1>11 DEF Advance
    <2> QED
      BY <2>1, <2>2
  <1>14. Keeps(p, t, ProcessFields)
    BY <1>2, <1>4, <1>9, <1>12 DEF Keeps, ProcessFields
  <1>15. r.lastack = q.lastack /\ s.lastack = r.lastack /\ t.lastack = s.lastack
    BY <1>4, <1>9, <1>12 DEF Keeps, FinFields, PurgeFields, Fields
  <1> QED
    BY <1>2, <1>12, <1>13, <1>14, <1>15

-----------------------------------------------------------------------------
(* tcp_input                                                               *)

EventFields == WriteFields \cup CloseFields \cup {"closing"}

\* What the writer makes of the pcb: it may have written more, or have begun to
\* close when all was written.
WrittenOn(p, q) ==
    /\ p.lbb <= q.lbb
    /\ \/ q.state = p.state
       \/ p.state \in Writable /\ q.state \in Ending /\ p.lbb >= Total
    /\ q.closing => p.lbb >= Total

LEMMA SoundNumbers ==
    ASSUME NEW p, Sound(p)
    PROVE  /\ IsPcb(p) /\ p.lbb \in Int /\ p.lastack \in Int /\ p.nxt \in Int /\ p.left \in Int
           /\ p.lbb \in Nat /\ p.lastack \in Nat /\ p.nxt \in Nat /\ p.left \in Nat
           /\ p.left > 0 => p.state \in Writable \/ p.state \in Over
           /\ p.closing /\ p.state \in Writable => p.lbb = Total /\ p.left = 0
           /\ p.state \in Writable => p.lbb <= Total
           /\ p.closing => p.lbb >= Total
           /\ p.state \in States
  BY ConstantTypes DEF Sound, Numbers, States

LEMMA SentEventSound ==
    ASSUME NEW p, Sound(p), p.state \notin Over
    PROVE  /\ Sound(SentEvent(p)) /\ Keeps(p, SentEvent(p), EventFields)
           /\ WrittenOn(p, SentEvent(p))
  <1>1. PICK q : q = SentEvent(p)
    OBVIOUS
  <1>2. /\ IsPcb(p) /\ p.lbb \in Int /\ (p.left > 0 => p.state \in Writable)
        /\ p.closing /\ p.state \in Writable => p.lbb = Total /\ p.left = 0
        /\ p.closing => p.lbb >= Total
    BY SoundNumbers
  <1>3. CASE p.left > 0 /\ q = WriteMore(p)
    <2>1. /\ Sound(q) /\ Keeps(p, q, WriteFields) /\ p.lbb <= q.lbb
      BY <1>2, <1>3, WriteMoreSound
    <2>2. q.state = p.state /\ q.closing = p.closing
      BY <2>1 DEF Keeps, WriteFields, SendFields, Fields
    <2>3. Keeps(p, q, EventFields)
      BY <2>1 DEF Keeps, EventFields
    <2> QED
      BY <1>1, <1>2, <2>1, <2>2, <2>3 DEF WrittenOn
  <1>4. CASE p.closing /\ q = Close(p)
    <2>1. /\ Sound(q) /\ Keeps(p, q, CloseFields \cup {"closing"}) /\ p.lbb <= q.lbb
          /\ \/ q.state = p.state /\ q.lbb = p.lbb
             \/ p.state \in Writable /\ q.state \in Ending
      BY <1>2, <1>4, CloseSound
    <2>2. Keeps(p, q, EventFields)
      BY <2>1 DEF Keeps, EventFields
    <2> QED
      BY <1>1, <1>2, <1>4, <2>1, <2>2 DEF WrittenOn
  <1>5. CASE q = p
    BY <1>1, <1>2, <1>5 DEF Keeps, WrittenOn
  <1> QED
    BY <1>1, <1>3, <1>4, <1>5 DEF SentEvent

LEMMA FinEventSound ==
    ASSUME NEW p, Sound(p), NEW got
    PROVE  /\ Sound(FinEvent(p, got)) /\ Keeps(p, FinEvent(p, got), EventFields)
           /\ WrittenOn(p, FinEvent(p, got))
           /\ p.closing \/ FinEvent(p, got) = p
  <1>1. PICK q : q = FinEvent(p, got)
    OBVIOUS
  <1>2. /\ IsPcb(p) /\ p.lbb \in Int
        /\ p.closing /\ p.state \in Writable => p.lbb = Total /\ p.left = 0
        /\ p.closing => p.lbb >= Total
    BY SoundNumbers
  <1>3. CASE p.closing /\ q = TcpClose(p)
    <2>1. /\ Sound(q) /\ Keeps(p, q, CloseFields) /\ p.lbb <= q.lbb
          /\ \/ q.state = p.state /\ q.lbb = p.lbb
             \/ p.state \in Writable /\ q.state \in Ending
      BY <1>2, <1>3, TcpCloseSound
    <2>2. Keeps(p, q, EventFields)
      BY <2>1 DEF Keeps, EventFields
    <2> QED
      BY <1>1, <1>2, <1>3, <2>1, <2>2 DEF WrittenOn
  <1>4. CASE q = p
    BY <1>1, <1>2, <1>4 DEF Keeps, WrittenOn
  <1> QED
    BY <1>1, <1>3, <1>4 DEF FinEvent

LEMMA EventsSound ==
    ASSUME NEW p, Sound(p), NEW got
    PROVE  /\ Sound(Events(p, got)) /\ Keeps(p, Events(p, got), EventFields)
           /\ WrittenOn(p, Events(p, got))
  <1>1. CASE p.state \in Over
    <2>1. Events(p, got) = p
      BY <1>1 DEF Events
    <2> QED
      BY <2>1, SoundNumbers DEF Keeps, WrittenOn
  <1>2. CASE p.state \notin Over
    <2>1. PICK q : q = SentEvent(p)
      OBVIOUS
    <2>2. Sound(q) /\ Keeps(p, q, EventFields) /\ WrittenOn(p, q)
      BY <1>2, <2>1, SentEventSound
    <2>3. PICK r : r = FinEvent(q, got)
      OBVIOUS
    <2>4. /\ Sound(r) /\ Keeps(q, r, EventFields) /\ WrittenOn(q, r)
          /\ q.closing \/ r = q
      BY <2>2, <2>3, FinEventSound
    <2>5. p.lbb \in Int /\ q.lbb \in Int /\ r.lbb \in Int
      BY <2>2, <2>4, SoundNumbers
    <2>6. WrittenOn(p, r)
      <3>1. p.lbb <= r.lbb
        BY <2>2, <2>4, <2>5 DEF WrittenOn
      <3>2. \/ r.state = p.state
            \/ p.state \in Writable /\ r.state \in Ending /\ p.lbb >= Total
        BY <2>2, <2>4 DEF WrittenOn, Writable, Ending
      <3>3. r.closing => p.lbb >= Total
        BY <2>2, <2>4 DEF WrittenOn
      <3> QED
        BY <3>1, <3>2, <3>3 DEF WrittenOn
    <2>7. Keeps(p, r, EventFields)
      BY <2>2, <2>4 DEF Keeps
    <2>8. Events(p, got) = r
      BY <1>2, <2>1, <2>3 DEF Events
    <2> QED
      BY <2>4, <2>6, <2>7, <2>8
  <1> QED
    BY <1>1, <1>2

\* What a step leaves of the flags that belong to it.
Resting(p) == p.acked = 0 /\ ~p.input

Returning(p) == [p EXCEPT !.input = FALSE, !.acked = 0]

LEMMA ReturningSound ==
    ASSUME NEW p, Sound(p)
    PROVE  /\ Sound(Returning(p)) /\ Keeps(p, Returning(p), {"input", "acked"})
           /\ ~Returning(p).input /\ Returning(p).acked = 0
  <1>1. PICK q : q = Returning(p)
    OBVIOUS
  <1>2. IsPcb(p) /\ Counters(p) /\ Numbers(p)
    BY DEF Sound
  <1>3. Keeps(p, q, {"input", "acked"}) /\ ~q.input /\ q.acked = 0
    BY <1>1, <1>2 DEF Returning, Keeps, IsPcb, Fields
  <1>4. /\ q.unacked = p.unacked /\ q.unsent = p.unsent
        /\ q.lastack = p.lastack /\ q.nxt = p.nxt /\ q.lbb = p.lbb
        /\ q.out = p.out /\ q.wnd = p.wnd /\ q.state = p.state
        /\ q.qlen = p.qlen /\ q.buf = p.buf /\ q.running = p.running
    BY <1>3 DEF Keeps, Fields
  <1>5. /\ q.wl1 = p.wl1 /\ q.wl2 = p.wl2 /\ q.rcv = p.rcv /\ q.cwnd = p.cwnd
        /\ q.nrtx = p.nrtx /\ q.dupacks = p.dupacks
    BY <1>3 DEF Keeps, Fields
  <1>6. Counters(q)
    BY <1>2, <1>3, <1>4, <1>5, ConstantTypes DEF Counters
  <1>7. Numbers(q)
    <2>1. {"input", "acked"} \cap NumberFields = {}
      BY DEF NumberFields
    <2> QED
      BY <1>2, <1>3, <2>1, NumbersKept
  <1>8. QueuesState(q)
    BY <1>4 DEF Sound, QueuesState, Filled, Emptied, InQueues, TimesIn, PbufsIn
  <1>9. TimerState(q) /\ Sendable(q) /\ QueuesType(q)
    BY <1>3, <1>4 DEF Sound, TimerState, Sendable, QueuesType
  <1>10. Sound(q)
    BY <1>3, <1>6, <1>7, <1>8, <1>9 DEF Sound, Keeps
  <1> QED
    BY <1>1, <1>3, <1>10

LEMMA ReturnSound ==
    ASSUME NEW p, Sound(p), p.input
    PROVE  /\ Sound(Return(p)) /\ Resting(Return(p))
           /\ Keeps(p, Return(p), SendFields \cup {"input", "acked"})
  <1>1. PICK q : q = Returning(p)
    OBVIOUS
  <1>2. Sound(q) /\ Keeps(p, q, {"input", "acked"}) /\ ~q.input /\ q.acked = 0
    BY <1>1, ReturningSound
  <1>3. PICK r : r = Output(q)
    OBVIOUS
  <1>4. Sound(r) /\ Keeps(q, r, SendFields)
    BY <1>2, <1>3, OutputSound
  <1>5. Resting(r)
    BY <1>2, <1>4 DEF Keeps, SendFields, Fields, Resting
  <1>6. Keeps(p, r, SendFields \cup {"input", "acked"})
    BY <1>2, <1>4 DEF Keeps
  <1>7. Return(p) = r
    BY <1>1, <1>3 DEF Return, Returning
  <1> QED
    BY <1>4, <1>5, <1>6, <1>7

InputFields == ProcessFields \cup EventFields \cup SendFields

LEMMA InputBegins ==
    ASSUME NEW p, Ready(p)
    PROVE  LET q == [p EXCEPT !.input = TRUE]
           IN  Ready(q) /\ Keeps(p, q, {"input"}) /\ q.input
  <1>1. PICK q : q = [p EXCEPT !.input = TRUE]
    OBVIOUS
  <1>2. IsPcb(p) /\ Counters(p) /\ Numbers(p) /\ Sound(p) /\ p.out = {}
    BY DEF Ready, Sound
  <1>3. Keeps(p, q, {"input"}) /\ q.input
    BY <1>1, <1>2 DEF Keeps, IsPcb, Fields
  <1>4. /\ q.unacked = p.unacked /\ q.unsent = p.unsent
        /\ q.lastack = p.lastack /\ q.nxt = p.nxt /\ q.lbb = p.lbb
        /\ q.out = p.out /\ q.wnd = p.wnd /\ q.state = p.state
        /\ q.qlen = p.qlen /\ q.buf = p.buf /\ q.running = p.running
    BY <1>3 DEF Keeps, Fields
  <1>5. Counters(q) /\ Numbers(q)
    <2>1. {"input"} \cap NumberFields = {} /\ {"input"} \cap CounterFields = {}
      BY DEF NumberFields, CounterFields
    <2> QED
      BY <1>2, <1>3, <2>1, NumbersKept, CountersKept
  <1>6. QueuesState(q)
    BY <1>2, <1>4 DEF Sound, QueuesState, Filled, Emptied, InQueues, TimesIn, PbufsIn
  <1>7. TimerState(q) /\ Sendable(q) /\ QueuesType(q)
    BY <1>2, <1>4 DEF Sound, TimerState, Sendable, QueuesType
  <1> QED
    BY <1>1, <1>2, <1>3, <1>4, <1>5, <1>6, <1>7 DEF Sound, Ready, Keeps

LEMMA InputSound ==
    ASSUME NEW p, Ready(p), p.state \notin Over, Resting(p), NEW m \in Messages
    PROVE  /\ Sound(Input(p, m)) /\ Resting(Input(p, m))
           /\ Keeps(p, Input(p, m), InputFields \cup {"input", "acked"})
           /\ p.lastack <= Input(p, m).lastack /\ p.lbb <= Input(p, m).lbb
  <1>1. PICK q : q = [p EXCEPT !.input = TRUE]
    OBVIOUS
  <1>3. Ready(q) /\ Keeps(p, q, {"input"}) /\ q.input
    BY <1>1, InputBegins
  <1>4. q.lastack = p.lastack /\ q.lbb = p.lbb /\ q.state = p.state
    BY <1>3 DEF Keeps, Fields
  <1>8. q.state \notin Over
    BY <1>4
  <1>9. PICK r : r = Process(q, m)
    OBVIOUS
  <1>10. Ready(r) /\ Keeps(q, r, ProcessFields) /\ q.lastack <= r.lastack
    BY <1>3, <1>8, <1>9, ProcessReady
  <1>11. PICK got : got = (r.rcv # p.rcv)
    OBVIOUS
  <1>12. PICK s : s = Events(r, got)
    OBVIOUS
  <1>13. Sound(r)
    BY <1>10 DEF Ready
  <1>14. Sound(s) /\ Keeps(r, s, EventFields) /\ WrittenOn(r, s)
    BY <1>12, <1>13, EventsSound
  <1>15. s.input
    <2>1. r.input = q.input
      BY <1>10 DEF Keeps, ProcessFields, ReceiveFields, AckFields, DuplicateFields, WindowFields,
                   FinFields, PurgeFields, Fields
    <2>2. s.input = r.input
      BY <1>14 DEF Keeps, EventFields, WriteFields, CloseFields, SendFields, Fields
    <2> QED
      BY <1>3, <2>1, <2>2
  <1>16. PICK t : t = Return(s)
    OBVIOUS
  <1>17. Sound(t) /\ Resting(t) /\ Keeps(s, t, SendFields \cup {"input", "acked"})
    BY <1>14, <1>15, <1>16, ReturnSound
  <1>18. Input(p, m) = t
    BY <1>1, <1>9, <1>11, <1>12, <1>16 DEF Input, Indicate
  <1>19. Keeps(p, t, InputFields \cup {"input", "acked"})
    BY <1>3, <1>10, <1>14, <1>17 DEF Keeps, InputFields
  <1>20. t.lastack = s.lastack /\ s.lastack = r.lastack /\ r.lbb = p.lbb /\ t.lbb = s.lbb
    <2>1. r.lbb = q.lbb
      BY <1>10 DEF Keeps, ProcessFields, ReceiveFields, AckFields, DuplicateFields, WindowFields,
                   FinFields, PurgeFields, Fields
    <2>2. s.lastack = r.lastack
      BY <1>14 DEF Keeps, EventFields, WriteFields, CloseFields, SendFields, Fields
    <2>3. t.lastack = s.lastack /\ t.lbb = s.lbb
      BY <1>17 DEF Keeps, SendFields, Fields
    <2> QED
      BY <1>4, <2>1, <2>2, <2>3
  <1>21. p.lastack <= t.lastack /\ p.lbb <= t.lbb
    BY <1>4, <1>10, <1>14, <1>20 DEF WrittenOn
  <1> QED
    BY <1>17, <1>18, <1>19, <1>21

-----------------------------------------------------------------------------
(* The timers                                                              *)

Requeued(p) ==
    [p EXCEPT !.unsent = p.unacked \o @, !.unacked = <<>>,
              !.nrtx = Min2(@ + 1, MaxRtx + 1), !.cwnd = MSS]

LEMMA RequeuedSound ==
    ASSUME NEW p, Ready(p), p.state \notin Over
    PROVE  /\ Sound(Requeued(p)) /\ Keeps(p, Requeued(p), {"unsent", "unacked", "nrtx", "cwnd"})
           /\ Requeued(p).unsent = p.unacked \o p.unsent /\ Requeued(p).unacked = <<>>
  <1>1. PICK n : n = Min2(p.nrtx + 1, MaxRtx + 1)
    OBVIOUS
  <1>2. PICK u : u = p.unacked \o p.unsent
    OBVIOUS
  <1>3. PICK q : q = Requeued(p)
    OBVIOUS
  <1>4. IsPcb(p) /\ QueuesType(p) /\ Counters(p) /\ Numbers(p) /\ Filled(p) /\ p.out = {}
    BY DEF Ready, Sound, QueuesState
  <1>5. /\ Keeps(p, q, {"unsent", "unacked", "nrtx", "cwnd"})
        /\ q.unsent = u /\ q.unacked = <<>> /\ q.nrtx = n /\ q.cwnd = MSS
    BY <1>1, <1>2, <1>3, <1>4 DEF Requeued, Keeps, IsPcb, Fields
  <1>6. /\ q.state = p.state /\ q.lastack = p.lastack /\ q.nxt = p.nxt /\ q.lbb = p.lbb
        /\ q.qlen = p.qlen /\ q.buf = p.buf /\ q.out = p.out /\ q.input = p.input
        /\ q.wnd = p.wnd /\ q.wl1 = p.wl1 /\ q.wl2 = p.wl2 /\ q.rcv = p.rcv
        /\ q.dupacks = p.dupacks /\ q.acked = p.acked
    BY <1>5 DEF Keeps, Fields
  <1>7. n \in 0 .. MaxRtx + 1 /\ MSS \in MSS .. SndBuf
    <2>1. p.nrtx \in 0 .. MaxRtx + 1
      BY <1>4 DEF Counters
    <2> QED
      BY <1>1, <2>1, ConstantTypes DEF Min2
  <1>8. Counters(q)
    BY <1>4, <1>5, <1>6, <1>7 DEF Counters
  <1>9. Numbers(q)
    <2>1. {"unsent", "unacked", "nrtx", "cwnd"} \cap NumberFields = {}
      BY DEF NumberFields
    <2> QED
      BY <1>4, <1>5, <2>1, NumbersKept
  <1>10. PICK a \in Queues, b \in Queues : a = p.unacked /\ b = p.unsent
    BY <1>4 DEF QueuesType
  <1>11. Gathers(u, a, b)
    BY <1>2, <1>10, GathersConcat
  <1>12. Conserves(p, q)
    <2>1. <<>> \in Queues /\ ToSet(<<>>) = {} /\ Pbufs(<<>>) = 0 /\ \A i : Times(<<>>, i) = 0
      BY FewSegments
    <2>2. Pbufs(a) \in Int /\ Pbufs(b) \in Int /\ \A i : Times(a, i) \in Int /\ Times(b, i) \in Int
      BY QueueTypes
    <2>3. u \in Queues /\ ToSet(u) = ToSet(a) \cup ToSet(b) /\ Pbufs(u) = Pbufs(a) + Pbufs(b)
      BY <1>11 DEF Gathers
    <2>4. ASSUME NEW i PROVE TimesIn(q, i) = TimesIn(p, i)
      <3>1. Times(u, i) = Times(a, i) + Times(b, i)
        BY <1>11 DEF Gathers
      <3> QED
        BY <1>5, <1>10, <2>1, <2>2, <3>1 DEF TimesIn
    <2>5. PbufsIn(q) = PbufsIn(p)
      BY <1>5, <1>10, <2>1, <2>2, <2>3 DEF PbufsIn
    <2>6. InQueues(q) = InQueues(p)
      BY <1>5, <1>10, <2>1, <2>3 DEF InQueues
    <2>7. QueuesType(q)
      BY <1>5, <2>1, <2>3 DEF QueuesType
    <2> QED
      BY <2>4, <2>5, <2>6, <2>7 DEF Conserves
  <1>13. Filled(q)
    <2>1. \A seg \in ToSet(q.unacked) : EndOf(seg) <= q.nxt
      BY <1>5, FewSegments
    <2>2. q.nxt = q.lbb \/ \E seg \in ToSet(q.unsent) : EndOf(seg) = q.lbb
      <3>1. ToSet(b) \subseteq ToSet(u)
        BY <1>11 DEF Gathers
      <3> QED
        BY <1>4, <1>5, <1>6, <1>10, <3>1 DEF Filled
    <2> QED
      BY <1>4, <1>6, <1>12, <2>1, <2>2, ConservesFilled
  <1>14. TimerState(q) /\ Sendable(q)
    BY <1>4, <1>5, <1>6 DEF TimerState, Sendable
  <1>15. Sound(q)
    BY <1>5, <1>6, <1>8, <1>9, <1>12, <1>13, <1>14 DEF Sound, QueuesState, Conserves, Keeps
  <1> QED
    BY <1>2, <1>3, <1>5, <1>15

LEMMA RetransmitAllSound ==
    ASSUME NEW p, Ready(p), p.state \notin Over, Resting(p)
    PROVE  /\ Sound(RetransmitAll(p)) /\ Resting(RetransmitAll(p))
           /\ Keeps(p, RetransmitAll(p), SendFields \cup {"nrtx", "cwnd"})
  <1>1. PICK q : q = Requeued(p)
    OBVIOUS
  <1>2. Sound(q) /\ Keeps(p, q, {"unsent", "unacked", "nrtx", "cwnd"})
    BY <1>1, RequeuedSound
  <1>3. q.acked = 0 /\ ~q.input
    BY <1>2 DEF Resting, Keeps, Fields
  <1>4. PICK r : r = Output(q)
    OBVIOUS
  <1>5. Sound(r) /\ Keeps(q, r, SendFields)
    BY <1>2, <1>4, OutputSound
  <1>6. Resting(r)
    BY <1>3, <1>5 DEF Keeps, SendFields, Fields, Resting
  <1>7. Keeps(p, r, SendFields \cup {"nrtx", "cwnd"})
    BY <1>2, <1>5 DEF Keeps, SendFields
  <1>8. RetransmitAll(p) = r
    BY <1>1, <1>4 DEF RetransmitAll, Requeued
  <1> QED
    BY <1>5, <1>6, <1>7, <1>8

LEMMA PollSound ==
    ASSUME NEW p, Sound(p), Resting(p), p.state \notin Over
    PROVE  /\ Sound(Poll(p)) /\ Resting(Poll(p)) /\ Keeps(p, Poll(p), EventFields)
           /\ WrittenOn(p, Poll(p))
  <1>1. PICK q : q = CASE p.left > 0 -> WriteMore(p)
                       [] p.closing  -> Close(p)
                       [] OTHER      -> p
    OBVIOUS
  <1>2. /\ IsPcb(p) /\ p.lbb \in Int /\ (p.left > 0 => p.state \in Writable)
        /\ p.closing /\ p.state \in Writable => p.lbb = Total /\ p.left = 0
        /\ p.closing => p.lbb >= Total
    BY SoundNumbers
  <1>3. Sound(q) /\ Keeps(p, q, EventFields) /\ WrittenOn(p, q)
    <2>1. CASE p.left > 0
      <3>1. q = WriteMore(p) \/ (p.closing /\ q = Close(p))
        BY <1>1, <2>1
      <3>2. ~(p.closing /\ p.left > 0)
        BY <1>2, SoundNumbers
      <3>3. q = WriteMore(p)
        BY <2>1, <3>1, <3>2
      <3>4. Sound(q) /\ Keeps(p, q, WriteFields) /\ p.lbb <= q.lbb
        BY <1>2, <2>1, <3>3, WriteMoreSound
      <3>5. q.state = p.state /\ q.closing = p.closing /\ Keeps(p, q, EventFields)
        BY <3>4 DEF Keeps, EventFields, WriteFields, SendFields, Fields
      <3> QED
        BY <1>2, <3>4, <3>5 DEF WrittenOn
    <2>2. CASE ~(p.left > 0) /\ p.closing
      <3>1. q = Close(p)
        BY <1>1, <2>2
      <3>2. /\ Sound(q) /\ Keeps(p, q, CloseFields \cup {"closing"}) /\ p.lbb <= q.lbb
            /\ \/ q.state = p.state /\ q.lbb = p.lbb
               \/ p.state \in Writable /\ q.state \in Ending
        BY <1>2, <2>2, <3>1, CloseSound
      <3>3. Keeps(p, q, EventFields)
        BY <3>2 DEF Keeps, EventFields
      <3> QED
        BY <1>2, <2>2, <3>2, <3>3 DEF WrittenOn
    <2>3. CASE ~(p.left > 0) /\ ~p.closing
      <3>1. q = p
        BY <1>1, <2>3
      <3> QED
        BY <1>2, <3>1 DEF Keeps, WrittenOn
    <2> QED
      BY <2>1, <2>2, <2>3
  <1>4. PICK r : r = Output(q)
    OBVIOUS
  <1>5. Sound(r) /\ Keeps(q, r, SendFields)
    BY <1>3, <1>4, OutputSound
  <1>6. r = Poll(p)
    BY <1>1, <1>4 DEF Poll
  <1>7. r.lbb = q.lbb /\ r.state = q.state /\ r.closing = q.closing
    BY <1>5 DEF Keeps, SendFields, Fields
  <1>8. Keeps(p, r, EventFields)
    BY <1>3, <1>5 DEF Keeps, EventFields, WriteFields
  <1>9. r.acked = p.acked /\ r.input = p.input
    BY <1>8 DEF Keeps, EventFields, WriteFields, CloseFields, SendFields, Fields
  <1> QED
    BY <1>3, <1>5, <1>6, <1>7, <1>8, <1>9 DEF Resting, WrittenOn

LEMMA AbortReady ==
    ASSUME NEW p, Ready(p), Resting(p)
    PROVE  /\ Ready(Abort(p)) /\ Resting(Abort(p))
           /\ Keeps(p, Abort(p), PurgeFields \cup {"left", "closing"})
           /\ Abort(p).state = "aborted"
  <1>1. PICK q : q = Purge(p, "aborted")
    OBVIOUS
  <1>2. "aborted" \in Over
    BY DEF Over
  <1>3. /\ Ready(q) /\ Keeps(p, q, PurgeFields) /\ q.state = "aborted"
    BY <1>1, <1>2, PurgeReady
  <1>4. PICK r : r = [q EXCEPT !.left = 0, !.closing = FALSE]
    OBVIOUS
  <1>5. Keeps(q, r, {"left", "closing"}) /\ r.left = 0 /\ ~r.closing
    BY <1>3, <1>4 DEF Keeps, IsPcb, Fields
  <1>6. /\ r.state = q.state /\ r.unacked = q.unacked /\ r.unsent = q.unsent
        /\ r.lastack = q.lastack /\ r.nxt = q.nxt /\ r.lbb = q.lbb
        /\ r.running = q.running /\ r.out = q.out /\ r.wnd = q.wnd /\ r.input = q.input
    BY <1>5 DEF Keeps, Fields
  <1>7. Sound(q) /\ Counters(q) /\ Numbers(q)
    BY <1>3 DEF Ready, Sound
  <1>8. Counters(r)
    <2>1. {"left", "closing"} \cap CounterFields = {}
      BY DEF CounterFields
    <2> QED
      BY <1>5, <1>7, <2>1, CountersKept
  <1>9. Numbers(r)
    <2>1. r.state \notin Writable /\ r.state \notin Closing /\ 0 \in 0 .. WriteLen
      BY <1>3, <1>6, ConstantTypes DEF Writable, Closing
    <2> QED
      BY <1>5, <1>6, <1>7, <2>1 DEF Numbers
  <1>10. r.state \in Over
    BY <1>2, <1>3, <1>6
  <1>11. QueuesState(r) /\ TimerState(r) /\ Sendable(r) /\ QueuesType(r)
    BY <1>6, <1>7, <1>10 DEF Sound, QueuesState, Emptied, TimerState, Sendable, QueuesType
  <1>12. Keeps(p, r, PurgeFields \cup {"left", "closing"})
    BY <1>3, <1>5 DEF Keeps
  <1>13. r.acked = p.acked /\ r.input = p.input
    BY <1>12 DEF Keeps, PurgeFields, Fields
  <1>14. Abort(p) = r
    BY <1>1, <1>4 DEF Abort
  <1> QED
    BY <1>3, <1>5, <1>6, <1>8, <1>9, <1>11, <1>12, <1>13, <1>14 DEF Ready, Sound, Resting, Keeps

-----------------------------------------------------------------------------
(* The client and the network                                              *)

Peers == [rcv : 0 .. Total + 1, beyond : SUBSET (0 .. Total), read : 0 .. Total, fin : BOOLEAN]

\* The client has nothing that was not written, and has read what it has.
PeerState(c, lbb) ==
    /\ c \in Peers
    /\ c.read <= c.rcv /\ c.rcv <= lbb
    /\ \A n \in c.beyond : n < lbb

WireState(w, lbb) ==
    /\ w \subseteq Segments /\ IsFiniteSet(w)
    /\ \A seg \in w : EndOf(seg) <= lbb
    /\ Cardinality(w) <= WireSize + QueueLen

AcksState(a, rcv) ==
    /\ a \subseteq Messages /\ IsFiniteSet(a)
    /\ \A m \in a : m.ack <= rcv
    /\ Cardinality(a) <= AcksSize

PcbState == Ready(pcb) /\ Resting(pcb)

Inv ==
    /\ PcbState
    /\ PeerState(peer, pcb.lbb) /\ WireState(wire, pcb.lbb) /\ AcksState(acks, peer.rcv)

-----------------------------------------------------------------------------
(* The network                                                             *)

LEMMA CarryWithin ==
    ASSUME NEW old, IsFiniteSet(old), NEW new, IsFiniteSet(new), NEW size \in Nat,
           NEW w \in Carry(old, new, size)
    PROVE  /\ w \subseteq old \cup new /\ IsFiniteSet(w)
           /\ Cardinality(w) <= Max2(size, Cardinality(new))
  <1> DEFINE others == old \ new
             room == Max2(0, size - Cardinality(new))
             k == Min2(room, Cardinality(others))
  <1>1. PICK kept \in kSubset(k, others) : w = new \cup kept
    BY DEF Carry
  <1>2. IsFiniteSet(others)
    BY FS_Difference
  <1>3. Cardinality(others) \in Nat /\ Cardinality(new) \in Nat
    BY <1>2, FS_CardinalityType
  <1>4. kept \in SUBSET others /\ Cardinality(kept) = k
    BY <1>1 DEF kSubset
  <1>5. k \in Int /\ k <= room /\ room \in Int
    <2>1. room \in Int
      BY <1>3 DEF Max2
    <2> HIDE DEF room, others
    <2> QED
      BY <1>3, <2>1 DEF Min2
  <1>6. IsFiniteSet(kept)
    BY <1>2, <1>4, FS_Subset
  <1>7. /\ IsFiniteSet(new \cup kept)
        /\ Cardinality(new \cup kept)
             = Cardinality(new) + Cardinality(kept) - Cardinality(new \cap kept)
    BY <1>6, FS_Union
  <1>8. IsFiniteSet(new \cap kept)
    BY FS_Intersection
  <1>9. Cardinality(new \cap kept) \in Nat
    BY <1>8, FS_CardinalityType
  <1>10. Cardinality(w) <= Cardinality(new) + room
    <2> HIDE DEF k, room
    <2> QED
      BY <1>1, <1>3, <1>4, <1>5, <1>7, <1>9
  <1>11. Cardinality(new) + room = Max2(size, Cardinality(new))
    BY <1>3 DEF Max2
  <1>12. w \subseteq old \cup new
    BY <1>1, <1>4
  <1> QED
    BY <1>1, <1>7, <1>10, <1>11, <1>12

\* No segment of a queue without a pbuf: a queue is no longer than its pbufs.
LEMMA QueueSize ==
    ASSUME NEW q \in Queues, \A seg \in ToSet(q) : seg.pbufs >= 1
    PROVE  /\ IsFiniteSet(ToSet(q))
           /\ Cardinality(ToSet(q)) <= Pbufs(q)
  <1>1. PICK n \in Nat : n = Len(q)
    BY QueueTypes
  <1>2. q \in Surjection(1 .. n, ToSet(q))
    <2>1. q \in [1 .. n -> ToSet(q)]
      BY <1>1, QueueTypes DEF Queues
    <2>2. \A seg \in ToSet(q) : \E i \in 1 .. n : q[i] = seg
      BY <1>1, QueueTypes
    <2> QED
      BY <2>1, <2>2 DEF Surjection
  <1>3. IsFiniteSet(1 .. n) /\ Cardinality(1 .. n) = n
    <2>1. IsFiniteSet(1 .. n) /\ Cardinality(1 .. n) = IF 1 > n THEN 0 ELSE n - 1 + 1
      BY FS_Interval
    <2> QED
      BY <2>1
  <1>4. IsFiniteSet(ToSet(q)) /\ Cardinality(ToSet(q)) <= n
    BY <1>2, <1>3, FS_Surjection
  <1>5. PICK r \in Seq(Int) : r = [i \in 1 .. Len(q) |-> q[i].pbufs] /\ Len(r) = n
    BY <1>1, PbufsSequence
  <1>6. PICK a : a = PrefixSums(r)
    OBVIOUS
  <1>7. a \in [0 .. n -> Int] /\ a[0] = 0 /\ \A i \in 1 .. n : a[i] = a[i - 1] + r[i]
    BY <1>5, <1>6, PrefixSumsType
  <1>8. \A i \in 1 .. n : r[i] \in Int /\ r[i] >= 1
    <2>1. \A i \in 1 .. n : r[i] = q[i].pbufs /\ q[i] \in ToSet(q) /\ q[i] \in Segments
      BY <1>1, <1>5, QueueTypes
    <2>2. \A i \in 1 .. n : q[i].pbufs \in Int
      BY <2>1, SegmentTypes
    <2> QED
      BY <2>1, <2>2
  <1>9. n <= a[n]
    <2> DEFINE S == {k \in Nat : k <= n => k <= a[k]}
    <2>1. 0 \in S
      BY <1>7
    <2>2. ASSUME NEW k \in Nat, k \in S PROVE k + 1 \in S
      <3>1. CASE k + 1 <= n
        <4>1. PICK j \in 1 .. n : j = k + 1 /\ j - 1 = k
          BY <3>1
        <4>2. k \in 0 .. n /\ k <= a[k]
          BY <2>2, <3>1
        <4>3. a[j] = a[k] + r[j] /\ a[k] \in Int /\ r[j] \in Int /\ r[j] >= 1
          BY <1>7, <1>8, <4>1, <4>2
        <4>4. j <= a[j]
          BY <4>1, <4>2, <4>3
        <4> QED
          BY <4>1, <4>4
      <3>2. CASE ~(k + 1 <= n)
        BY <3>2
      <3> QED
        BY <3>1, <3>2
    <2> HIDE DEF S
    <2>3. Nat \subseteq S
      BY <2>1, <2>2, InductionOnNat
    <2>4. n \in S
      BY <2>3
    <2> QED
      BY <2>4 DEF S
  <1>10. Pbufs(q) = a[n]
    BY <1>5, <1>6 DEF Pbufs, SumOf
  <1>11. Cardinality(ToSet(q)) \in Nat /\ a[n] \in Int
    BY <1>4, <1>7, FS_CardinalityType
  <1> QED
    BY <1>4, <1>9, <1>10, <1>11

\* A step sends no more segments than the queues may hold pbufs.
Sendings(out, lbb) ==
    /\ out \subseteq Segments /\ IsFiniteSet(out) /\ Cardinality(out) <= QueueLen
    /\ \A seg \in out : EndOf(seg) <= lbb

LEMMA SoundSends ==
    ASSUME NEW p, Sound(p)
    PROVE  Sendings(p.out, p.lbb)
  <1>1. PICK a \in Queues, b \in Queues : a = p.unacked /\ b = p.unsent
    BY DEF Sound, QueuesType
  <1>2. p.out \subseteq ToSet(a)
    BY <1>1 DEF Sound, Sendable
  <1>3. CASE p.state \in Over
    <2>1. a = <<>>
      BY <1>1, <1>3 DEF Sound, QueuesState, Emptied
    <2>2. p.out = {}
      BY <1>2, <2>1, FewSegments
    <2> QED
      BY <2>2, FS_EmptySet, ConstantTypes DEF Sendings
  <1>4. CASE p.state \notin Over
    <2>1. Filled(p)
      BY <1>4 DEF Sound, QueuesState
    <2>2. \A seg \in ToSet(a) \cup ToSet(b) : Whole(p.lbb, seg)
      BY <1>1, <2>1 DEF Filled, InQueues
    <2>3. \A seg \in ToSet(a) : seg.pbufs >= 1
      BY <2>2 DEF Whole
    <2>4. \A seg \in ToSet(b) : seg.pbufs >= 1
      BY <2>2 DEF Whole
    <2>5. IsFiniteSet(ToSet(a)) /\ Cardinality(ToSet(a)) <= Pbufs(a)
      BY <2>3, QueueSize
    <2>6. IsFiniteSet(ToSet(b)) /\ Cardinality(ToSet(b)) <= Pbufs(b)
      BY <2>4, QueueSize
    <2>7. Cardinality(ToSet(b)) \in Nat /\ Cardinality(ToSet(a)) \in Nat
      BY <2>5, <2>6, FS_CardinalityType
    <2>8. Pbufs(a) \in Int /\ Pbufs(b) \in Int
      BY QueueTypes
    <2>9. Pbufs(a) + Pbufs(b) <= QueueLen
      <3>1. p.qlen = Pbufs(a) + Pbufs(b)
        BY <1>1, <2>1 DEF Filled, PbufsIn
      <3>2. p.qlen \in 0 .. QueueLen
        BY DEF Sound, Counters
      <3> QED
        BY <3>1, <3>2, ConstantTypes
    <2>10. p.out \in SUBSET ToSet(a)
      BY <1>2
    <2>11. IsFiniteSet(p.out) /\ Cardinality(p.out) <= Cardinality(ToSet(a))
      BY <2>5, <2>10, FS_Subset
    <2>12. Cardinality(p.out) \in Nat
      BY <2>11, FS_CardinalityType
    <2>13. Cardinality(p.out) <= QueueLen
      BY <2>5, <2>6, <2>7, <2>8, <2>9, <2>11, <2>12, ConstantTypes
    <2>14. p.out \subseteq Segments
      BY <1>2, QueueTypes
    <2>15. \A seg \in p.out : EndOf(seg) <= p.lbb
      BY <1>2, <2>2 DEF Whole
    <2> QED
      BY <2>11, <2>13, <2>14, <2>15 DEF Sendings
  <1> QED
    BY <1>3, <1>4

LEMMA RestSound ==
    ASSUME NEW p, Sound(p), Resting(p)
    PROVE  LET q == [p EXCEPT !.out = {}]
           IN  /\ Ready(q) /\ Resting(q) /\ Keeps(p, q, {"out"})
  <1>1. PICK q : q = [p EXCEPT !.out = {}]
    OBVIOUS
  <1>2. IsPcb(p) /\ Numbers(p) /\ Counters(p)
    BY DEF Sound
  <1>3. Keeps(p, q, {"out"}) /\ q.out = {}
    BY <1>1, <1>2 DEF Keeps, IsPcb, Fields
  <1>4. /\ q.unacked = p.unacked /\ q.unsent = p.unsent
        /\ q.lastack = p.lastack /\ q.nxt = p.nxt /\ q.lbb = p.lbb
        /\ q.wnd = p.wnd /\ q.state = p.state /\ q.input = p.input /\ q.acked = p.acked
        /\ q.qlen = p.qlen /\ q.buf = p.buf /\ q.running = p.running
    BY <1>3 DEF Keeps, Fields
  <1>5. Counters(q) /\ Numbers(q)
    <2>1. {"out"} \cap NumberFields = {} /\ {"out"} \cap CounterFields = {}
      BY DEF NumberFields, CounterFields
    <2> QED
      BY <1>2, <1>3, <2>1, NumbersKept, CountersKept
  <1>6. QueuesState(q)
    BY <1>4 DEF Sound, QueuesState, Filled, Emptied, InQueues, TimesIn, PbufsIn
  <1>7. TimerState(q) /\ Sendable(q) /\ QueuesType(q)
    BY <1>3, <1>4 DEF Sound, TimerState, Sendable, QueuesType
  <1>8. Ready(q) /\ Resting(q)
    BY <1>3, <1>4, <1>5, <1>6, <1>7 DEF Sound, Ready, Resting, Keeps
  <1> QED
    BY <1>1, <1>3, <1>8

LEMMA LbbTypes ==
    ASSUME NEW p, Sound(p)
    PROVE  p.lbb \in Nat /\ p.lbb \in Int /\ p.lbb <= Total + 1
  BY ConstantTypes DEF Sound, Numbers

-----------------------------------------------------------------------------
(* A step of the TCP/IP thread                                             *)

LEMMA ThreadStep ==
    ASSUME Inv, NEW p, Ready(p), Resting(p), NEW q, p = [q EXCEPT !.out = {}],
           p.state = q.state, Sendings(q.out, p.lbb), pcb.lbb <= p.lbb,
           NEW left \in SUBSET acks, Becomes(q, left)
    PROVE  Inv'
  <1>1. pcb' = p /\ peer' = peer
    BY DEF Becomes
  <1>2. pcb.lbb \in Int /\ p.lbb \in Int
    BY LbbTypes DEF Inv, PcbState, Ready
  <1>3. PcbState'
    BY <1>1 DEF PcbState
  <1>4. PeerState(peer, p.lbb)
    <2>1. peer.rcv \in Int /\ peer.beyond \subseteq Int /\ PeerState(peer, pcb.lbb)
      BY ConstantTypes DEF Inv, PeerState, Peers
    <2>2. \A n \in peer.beyond : n < p.lbb
      BY <1>2, <2>1 DEF PeerState
    <2> QED
      BY <1>2, <2>1, <2>2 DEF PeerState
  <1>5. WireState(wire', p.lbb)
    <2>1. CASE q.state \in Over
      <3>1. wire' = {}
        BY <2>1 DEF Becomes
      <3> QED
        BY <3>1, FS_EmptySet, ConstantTypes DEF WireState
    <2>2. CASE q.state \notin Over
      <3>1. wire' \in Carry(wire, q.out, WireSize)
        BY <2>2 DEF Becomes
      <3>2. WireState(wire, pcb.lbb)
        BY DEF Inv
      <3>3. /\ wire \subseteq Segments /\ IsFiniteSet(wire)
            /\ \A seg \in wire : EndOf(seg) <= pcb.lbb
        BY <3>2 DEF WireState
      <3>4. /\ q.out \subseteq Segments /\ IsFiniteSet(q.out) /\ Cardinality(q.out) <= QueueLen
            /\ \A seg \in q.out : EndOf(seg) <= p.lbb
        BY DEF Sendings
      <3>5. WireSize \in Nat /\ QueueLen \in Nat
        BY ConstantTypes
      <3>6. /\ wire' \subseteq wire \cup q.out /\ IsFiniteSet(wire')
            /\ Cardinality(wire') <= Max2(WireSize, Cardinality(q.out))
        BY <3>1, <3>3, <3>4, <3>5, CarryWithin
      <3>7. Cardinality(wire') \in Nat /\ Cardinality(q.out) \in Nat
        BY <3>4, <3>6, FS_CardinalityType
      <3>8. Cardinality(wire') <= WireSize + QueueLen
        BY <3>4, <3>5, <3>6, <3>7 DEF Max2
      <3>9. ASSUME NEW seg \in wire' PROVE EndOf(seg) <= p.lbb
        <4>1. EndOf(seg) \in Int
          BY <3>3, <3>4, <3>6, SegmentTypes
        <4> QED
          BY <1>2, <3>3, <3>4, <3>6, <4>1
      <3> QED
        BY <3>3, <3>4, <3>6, <3>8, <3>9 DEF WireState
    <2> QED
      BY <2>1, <2>2
  <1>6. AcksState(acks', peer.rcv)
    <2>1. AcksState(acks, peer.rcv)
      BY DEF Inv
    <2>2. acks' \in SUBSET acks
      BY DEF Becomes
    <2>3. IsFiniteSet(acks') /\ Cardinality(acks') <= Cardinality(acks)
      BY <2>1, <2>2, FS_Subset DEF AcksState
    <2>4. Cardinality(acks') \in Nat /\ Cardinality(acks) \in Nat
      BY <2>1, <2>3, FS_CardinalityType DEF AcksState
    <2>5. Cardinality(acks') <= AcksSize
      BY <2>1, <2>3, <2>4, ConstantTypes DEF AcksState
    <2> QED
      BY <2>1, <2>2, <2>3, <2>5 DEF AcksState
  <1> QED
    BY <1>1, <1>3, <1>4, <1>5, <1>6 DEF Inv

\* One that ends with a sound pcb.
LEMMA SoundStep ==
    ASSUME Inv, NEW q, Sound(q), Resting(q), pcb.lbb <= q.lbb,
           NEW left \in SUBSET acks, Becomes(q, left)
    PROVE  Inv'
  <1>1. PICK p : p = [q EXCEPT !.out = {}]
    OBVIOUS
  <1>2. Ready(p) /\ Resting(p) /\ Keeps(q, p, {"out"})
    BY <1>1, RestSound
  <1>3. p.state = q.state /\ p.lbb = q.lbb
    BY <1>2 DEF Keeps, Fields
  <1>4. Sendings(q.out, p.lbb)
    BY <1>3, SoundSends
  <1>5. pcb.lbb <= p.lbb
    BY <1>3
  <1> QED
    BY <1>1, <1>2, <1>3, <1>4, <1>5, ThreadStep

LEMMA WriteBegins ==
    ASSUME Inv, WriteDue
    PROVE  LET p == [pcb EXCEPT !.left = Min2(WriteLen, Total - pcb.lbb)]
           IN  Sound(p) /\ Resting(p) /\ Keeps(pcb, p, {"left"}) /\ p.state \in Writable
  <1>1. PICK l : l = Min2(WriteLen, Total - pcb.lbb)
    OBVIOUS
  <1>2. PICK p : p = [pcb EXCEPT !.left = l]
    OBVIOUS
  <1>3. Sound(pcb) /\ Resting(pcb) /\ IsPcb(pcb) /\ Numbers(pcb) /\ Counters(pcb)
    BY DEF Inv, PcbState, Ready, Sound
  <1>4. pcb.state \in Writable /\ ~pcb.closing /\ pcb.lbb < Total
    BY DEF WriteDue, TaskRuns
  <1>5. pcb.lbb \in Int /\ pcb.lbb \in Nat
    BY <1>3, LbbTypes
  <1>6. l \in 0 .. WriteLen /\ pcb.lbb + l <= Total
    BY <1>1, <1>4, <1>5, ConstantTypes DEF Min2
  <1>7. Keeps(pcb, p, {"left"}) /\ p.left = l
    BY <1>2, <1>3 DEF Keeps, IsPcb, Fields
  <1>8. /\ p.unacked = pcb.unacked /\ p.unsent = pcb.unsent
        /\ p.lastack = pcb.lastack /\ p.nxt = pcb.nxt /\ p.lbb = pcb.lbb
        /\ p.wnd = pcb.wnd /\ p.state = pcb.state /\ p.input = pcb.input /\ p.acked = pcb.acked
        /\ p.qlen = pcb.qlen /\ p.buf = pcb.buf /\ p.running = pcb.running
        /\ p.out = pcb.out /\ p.closing = pcb.closing
    BY <1>7 DEF Keeps, Fields
  <1>9. Counters(p)
    <2>1. {"left"} \cap CounterFields = {}
      BY DEF CounterFields
    <2> QED
      BY <1>3, <1>7, <2>1, CountersKept
  <1>10. Numbers(p)
    <2>1. p.state \notin Closing
      BY <1>4, <1>8 DEF Writable, Closing
    <2> QED
      BY <1>3, <1>4, <1>6, <1>7, <1>8, <2>1 DEF Numbers
  <1>11. QueuesState(p)
    BY <1>3, <1>8 DEF Sound, QueuesState, Filled, Emptied, InQueues, TimesIn, PbufsIn
  <1>12. TimerState(p) /\ Sendable(p) /\ QueuesType(p)
    BY <1>3, <1>8 DEF Sound, TimerState, Sendable, QueuesType
  <1> QED
    BY <1>1, <1>2, <1>3, <1>4, <1>7, <1>8, <1>9, <1>10, <1>11, <1>12 DEF Sound, Resting, Keeps

LEMMA WriteInv ==
    ASSUME Inv, Write
    PROVE  Inv'
  <1>1. PICK l : l = Min2(WriteLen, Total - pcb.lbb)
    OBVIOUS
  <1>2. PICK p : p = [pcb EXCEPT !.left = l]
    OBVIOUS
  <1>7. WriteDue
    BY DEF Write
  <1>13. Sound(p) /\ Resting(p) /\ Keeps(pcb, p, {"left"}) /\ p.state \in Writable
    BY <1>1, <1>2, <1>7, WriteBegins
  <1>8. p.lbb = pcb.lbb
    BY <1>13 DEF Keeps, Fields
  <1>14. PICK q : q = WriteMore(p)
    OBVIOUS
  <1>16. Sound(q) /\ Keeps(p, q, WriteFields) /\ p.lbb <= q.lbb
    BY <1>13, <1>14, WriteMoreSound
  <1>17. Resting(q)
    BY <1>13, <1>16 DEF Keeps, WriteFields, SendFields, Fields, Resting
  <1>18. Becomes(q, acks)
    BY <1>1, <1>2, <1>14 DEF Write
  <1>19. pcb.lbb <= q.lbb /\ acks \in SUBSET acks
    BY <1>8, <1>16
  <1> QED
    BY <1>16, <1>17, <1>18, <1>19, SoundStep

LEMMA CloseConnectionInv ==
    ASSUME Inv, CloseConnection
    PROVE  Inv'
  <1>1. Sound(pcb) /\ Resting(pcb)
    BY DEF Inv, PcbState, Ready
  <1>2. pcb.lbb = Total /\ pcb.left = 0
    BY DEF CloseConnection, CloseDue, TaskRuns
  <1>3. PICK q : q = Close(pcb)
    OBVIOUS
  <1>4. Sound(q) /\ Keeps(pcb, q, CloseFields \cup {"closing"}) /\ pcb.lbb <= q.lbb
    BY <1>1, <1>2, <1>3, CloseSound
  <1>5. Resting(q)
    BY <1>1, <1>4 DEF Keeps, CloseFields, SendFields, Fields, Resting
  <1>6. Becomes(q, acks) /\ acks \in SUBSET acks
    BY <1>3 DEF CloseConnection
  <1> QED
    BY <1>4, <1>5, <1>6, SoundStep

LEMMA AbortInv ==
    ASSUME Inv, Becomes(Abort(pcb), acks)
    PROVE  Inv'
  <1>1. Ready(pcb) /\ Resting(pcb)
    BY DEF Inv, PcbState
  <1>2. PICK q : q = Abort(pcb)
    OBVIOUS
  <1>3. Ready(q) /\ Resting(q) /\ Keeps(pcb, q, PurgeFields \cup {"left", "closing"})
    BY <1>1, <1>2, AbortReady
  <1>4. q.lbb = pcb.lbb /\ Sound(q) /\ pcb.lbb \in Int
    BY <1>1, <1>3, LbbTypes DEF Keeps, PurgeFields, Fields, Ready
  <1>5. Becomes(q, acks) /\ acks \in SUBSET acks /\ pcb.lbb <= q.lbb
    BY <1>2, <1>4
  <1> QED
    BY <1>3, <1>4, <1>5, SoundStep

LEMMA PurgeInv ==
    ASSUME Inv, NEW state \in Over, Becomes(Purge(pcb, state), acks)
    PROVE  Inv'
  <1>1. Ready(pcb) /\ Resting(pcb)
    BY DEF Inv, PcbState
  <1>2. PICK q : q = Purge(pcb, state)
    OBVIOUS
  <1>3. Ready(q) /\ Keeps(pcb, q, PurgeFields)
    BY <1>1, <1>2, PurgeReady
  <1>4. q.lbb = pcb.lbb /\ Sound(q) /\ pcb.lbb \in Int /\ Resting(q)
    BY <1>1, <1>3, LbbTypes DEF Keeps, PurgeFields, Fields, Ready, Resting
  <1>5. Becomes(q, acks) /\ acks \in SUBSET acks /\ pcb.lbb <= q.lbb
    BY <1>2, <1>4
  <1> QED
    BY <1>4, <1>5, SoundStep

LEMMA ReceiveInv ==
    ASSUME Inv, NEW m \in acks, Receive(m)
    PROVE  Inv'
  <1>1. Ready(pcb) /\ Resting(pcb) /\ pcb.state \notin Over
    BY DEF Inv, PcbState, Receive
  <1>2. m \in Messages
    BY DEF Inv, AcksState
  <1>3. PICK q : q = Input(pcb, m)
    OBVIOUS
  <1>4. Sound(q) /\ Resting(q) /\ pcb.lbb <= q.lbb
    BY <1>1, <1>2, <1>3, InputSound
  <1>5. Becomes(q, acks \ {m}) /\ acks \ {m} \in SUBSET acks
    BY <1>3 DEF Receive
  <1> QED
    BY <1>4, <1>5, SoundStep

LEMMA ProbeInv ==
    ASSUME Inv, pcb.state \notin Over, Becomes(Probe(pcb), acks)
    PROVE  Inv'
  <1>1. PICK u : u = pcb.unacked \o pcb.unsent
    OBVIOUS
  <1>2. Ready(pcb) /\ Resting(pcb) /\ Sound(pcb) /\ IsPcb(pcb)
    BY DEF Inv, PcbState, Ready, Sound
  <1>3. PICK a \in Queues, b \in Queues : a = pcb.unacked /\ b = pcb.unsent
    BY <1>2 DEF Sound, QueuesType
  <1>4. pcb.lbb \in Int /\ acks \in SUBSET acks
    BY <1>2, LbbTypes
  <1>5. u \in Queues /\ ToSet(u) = ToSet(a) \cup ToSet(b)
    BY <1>1, <1>3, GathersConcat DEF Gathers
  <1>6. CASE u = <<>>
    <2>1. Probe(pcb) = pcb
      BY <1>1, <1>6 DEF Probe
    <2>2. Becomes(pcb, acks) /\ pcb.lbb <= pcb.lbb
      BY <1>4, <2>1
    <2> QED
      BY <1>2, <1>4, <2>2, SoundStep
  <1>7. CASE u # <<>>
    <2>1. Head(u) \in ToSet(u) /\ Head(u) \in Segments
      BY <1>5, <1>7, HeadTailElements DEF Queues
    <2>2. PICK seg \in Segments : seg = Head(u) /\ seg \in ToSet(u)
      BY <2>1
    <2>3. PICK s : s = [seq |-> seg.seq, len |-> Min2(seg.len, 1), fin |-> seg.len = 0, pbufs |-> 0]
      OBVIOUS
    <2>4. PICK q : q = [pcb EXCEPT !.out = {s}]
      OBVIOUS
    <2>5. Probe(pcb) = q
      <3>1. pcb.out = {}
        BY <1>2 DEF Ready
      <3>2. Probe(pcb) = [pcb EXCEPT !.out = @ \cup {s}]
        BY <1>1, <1>7, <2>2, <2>3 DEF Probe
      <3> QED
        BY <2>4, <3>1, <3>2
    <2>6. /\ q.out = {s} /\ q.state = pcb.state /\ pcb = [q EXCEPT !.out = {}]
      <3>1. pcb.out = {}
        BY <1>2 DEF Ready
      <3>2. Keeps(pcb, q, {"out"}) /\ q.out = {s}
        BY <1>2, <2>4 DEF Keeps, IsPcb, Fields
      <3>3. PICK r : r = [q EXCEPT !.out = {}]
        OBVIOUS
      <3>4. Keeps(pcb, r, {"out"}) /\ r.out = {}
        BY <3>2, <3>3 DEF Keeps, IsPcb, Fields
      <3>5. pcb = r
        BY <3>1, <3>4 DEF Keeps, IsPcb, Fields
      <3> QED
        BY <3>2, <3>3, <3>5 DEF Keeps, Fields
    <2>7. Filled(pcb)
      BY <1>2 DEF Sound, QueuesState
    <2>8. Whole(pcb.lbb, seg)
      BY <1>3, <1>5, <2>2, <2>7 DEF Filled, InQueues
    <2>9. /\ seg.seq \in Nat /\ seg.len \in Nat /\ seg.fin \in BOOLEAN /\ seg.seq <= Total
          /\ seg.len <= MSS
      BY SegmentTypes
    <2>10. s \in Segments /\ EndOf(s) <= pcb.lbb
      <3>1. PICK l \in 0 .. MSS : l = Min2(seg.len, 1)
        BY <2>9, ConstantTypes DEF Min2
      <3>2. s = [seq |-> seg.seq, len |-> l, fin |-> seg.len = 0, pbufs |-> 0]
        BY <2>3, <3>1
      <3>3. s \in Segments
        <4>1. seg.seq \in 0 .. Total /\ 0 \in 0 .. MSS
          BY <2>9, ConstantTypes
        <4> QED
          BY <3>2, <4>1 DEF Segments
      <3>4. seg.seq < EndOf(seg) /\ EndOf(seg) <= pcb.lbb
        BY <2>8 DEF Whole
      <3>5. EndOf(s) = seg.seq + l + (IF seg.len = 0 THEN 1 ELSE 0)
        BY <3>2 DEF EndOf
      <3>6. l = (IF seg.len = 0 THEN 0 ELSE 1)
        BY <2>9, <3>1 DEF Min2
      <3>7. EndOf(s) = seg.seq + 1
        BY <2>9, <3>5, <3>6
      <3>8. EndOf(seg) \in Int
        BY SegmentTypes
      <3> QED
        BY <1>4, <2>9, <3>3, <3>4, <3>7, <3>8
    <2>11. Sendings(q.out, pcb.lbb)
      <3>1. IsFiniteSet({s}) /\ Cardinality({s}) = 1
        BY FS_Singleton
      <3> QED
        BY <2>6, <2>10, <3>1, ConstantTypes DEF Sendings
    <2>12. Becomes(q, acks) /\ pcb.lbb <= pcb.lbb /\ pcb.state = q.state
      BY <1>4, <2>5, <2>6
    <2>13. pcb = [q EXCEPT !.out = {}]
      BY <2>6
    <2> QED
      BY <1>2, <1>4, <2>11, <2>12, <2>13, ThreadStep
  <1> QED
    BY <1>6, <1>7

LEMMA SlowTimerInv ==
    ASSUME Inv, NEW due \in {"rtime", "persist", "poll", "tmr"}, SlowTimer(due)
    PROVE  Inv'
  <1>1. Ready(pcb) /\ Resting(pcb) /\ Sound(pcb) /\ pcb.state \notin Over
    BY DEF Inv, PcbState, Ready, SlowTimer
  <1>2. pcb.lbb \in Int /\ acks \in SUBSET acks
    BY <1>1, LbbTypes
  <1>3. \/ Becomes(Abort(pcb), acks)
        \/ Becomes(Probe(pcb), acks)
        \/ Becomes(RetransmitAll(pcb), acks)
        \/ Becomes(Poll(pcb), acks)
        \/ \E state \in {"timed out", "aborted"} : Becomes(Purge(pcb, state), acks)
    BY DEF SlowTimer
  <1>4. CASE Becomes(RetransmitAll(pcb), acks)
    <2>1. PICK q : q = RetransmitAll(pcb)
      OBVIOUS
    <2>2. Sound(q) /\ Resting(q) /\ Keeps(pcb, q, SendFields \cup {"nrtx", "cwnd"})
      BY <1>1, <2>1, RetransmitAllSound
    <2>3. q.lbb = pcb.lbb
      BY <2>2 DEF Keeps, SendFields, Fields
    <2>4. Becomes(q, acks) /\ pcb.lbb <= q.lbb
      BY <1>2, <1>4, <2>1, <2>3
    <2> QED
      BY <1>2, <2>2, <2>4, SoundStep
  <1>5. CASE Becomes(Poll(pcb), acks)
    <2>1. PICK q : q = Poll(pcb)
      OBVIOUS
    <2>2. Sound(q) /\ Resting(q) /\ WrittenOn(pcb, q)
      BY <1>1, <2>1, PollSound
    <2>3. Becomes(q, acks) /\ pcb.lbb <= q.lbb
      BY <1>5, <2>1, <2>2 DEF WrittenOn
    <2> QED
      BY <1>2, <2>2, <2>3, SoundStep
  <1>6. CASE \E state \in {"timed out", "aborted"} : Becomes(Purge(pcb, state), acks)
    <2>1. {"timed out", "aborted"} \subseteq Over
      BY DEF Over
    <2> QED
      BY <1>6, <2>1, PurgeInv
  <1> QED
    BY <1>1, <1>3, <1>4, <1>5, <1>6, AbortInv, ProbeInv

-----------------------------------------------------------------------------
(* The client and the network                                              *)

LEMMA SaysType ==
    ASSUME NEW c \in Peers, c.read <= c.rcv, NEW fin \in BOOLEAN
    PROVE  Says(c, fin) \in Messages /\ Says(c, fin).ack = c.rcv
  <1>1. c.rcv \in 0 .. Total + 1 /\ c.read \in 0 .. Total /\ c.fin \in BOOLEAN
    BY DEF Peers
  <1>2. Window(c) \in 0 .. PeerBuf
    BY <1>1, ConstantTypes DEF Window, Max2
  <1>3. PICK s : s = IF c.fin /\ ~fin THEN 1 ELSE 0
    OBVIOUS
  <1>4. s \in 0 .. 1
    BY <1>3
  <1>5. Says(c, fin) = [seq |-> s, ack |-> c.rcv, wnd |-> Window(c), fin |-> fin]
    BY <1>3 DEF Says
  <1> QED
    BY <1>1, <1>2, <1>4, <1>5 DEF Messages

LEMMA AnswersWithin ==
    ASSUME NEW c \in Peers, c.read <= c.rcv, NEW fin \in BOOLEAN,
           AcksState(acks, peer.rcv), peer \in Peers, peer.rcv <= c.rcv, Answers(Says(c, fin))
    PROVE  AcksState(acks', c.rcv)
  <1>1. PICK m \in Messages : m = Says(c, fin) /\ m.ack = c.rcv
    BY SaysType
  <1>2. CASE pcb.state \in Over
    <2>1. acks' = {}
      BY <1>2 DEF Answers
    <2> QED
      BY <2>1, FS_EmptySet, ConstantTypes DEF AcksState
  <1>3. CASE pcb.state \notin Over
    <2>1. acks' \in Carry(acks, {m}, AcksSize)
      BY <1>1, <1>3 DEF Answers
    <2>2. acks \subseteq Messages /\ IsFiniteSet(acks) /\ \A a \in acks : a.ack <= peer.rcv
      BY DEF AcksState
    <2>3. IsFiniteSet({m}) /\ Cardinality({m}) = 1
      BY FS_Singleton
    <2>4. AcksSize \in Nat /\ 1 <= AcksSize
      BY ConstantTypes
    <2>5. /\ acks' \subseteq acks \cup {m} /\ IsFiniteSet(acks')
          /\ Cardinality(acks') <= Max2(AcksSize, Cardinality({m}))
      BY <2>1, <2>2, <2>3, <2>4, CarryWithin
    <2>6. Cardinality(acks') <= AcksSize
      BY <2>3, <2>4, <2>5 DEF Max2
    <2>7. peer.rcv \in Int /\ c.rcv \in Int /\ \A a \in Messages : a.ack \in Int
      BY ConstantTypes DEF Peers, Messages
    <2>8. \A a \in acks' : a.ack <= c.rcv
      BY <1>1, <2>2, <2>5, <2>7
    <2>9. acks' \subseteq Messages
      BY <2>2, <2>5
    <2> QED
      BY <2>5, <2>6, <2>8, <2>9 DEF AcksState
  <1> QED
    BY <1>2, <1>3

LEMMA FewerOnWire ==
    ASSUME WireState(wire, pcb.lbb), NEW w \in SUBSET wire
    PROVE  WireState(w, pcb.lbb)
  <1>1. IsFiniteSet(w) /\ Cardinality(w) <= Cardinality(wire)
    BY FS_Subset DEF WireState
  <1>2. Cardinality(w) \in Nat /\ Cardinality(wire) \in Nat
    BY <1>1, FS_CardinalityType DEF WireState
  <1>3. Cardinality(w) <= WireSize + QueueLen
    BY <1>1, <1>2, ConstantTypes DEF WireState
  <1> QED
    BY <1>1, <1>3 DEF WireState

\* What is there, and from where on it is not.
LEMMA FirstMissing ==
    ASSUME NEW all \in SUBSET (0 .. Total)
    PROVE  LET rcv == CHOOSE n \in 0 .. Total + 1 : n \notin all /\ 0 .. n - 1 \subseteq all
           IN  rcv \in 0 .. Total + 1 /\ rcv \notin all /\ 0 .. rcv - 1 \subseteq all
  <1> DEFINE T == {n \in 0 .. Total + 1 : n \notin all}
  <1>1. T \in SUBSET Nat /\ Total + 1 \in T
    BY ConstantTypes
  <1>2. PICK n \in T : \A m \in T : n <= m
    BY <1>1, LeastNat
  <1>3. n \in 0 .. Total + 1 /\ n \notin all
    BY <1>2
  <1>4. ASSUME NEW m \in 0 .. n - 1 PROVE m \in all
    <2>1. m \in 0 .. Total + 1 /\ ~(n <= m)
      BY <1>3, ConstantTypes
    <2> QED
      BY <1>2, <2>1
  <1> HIDE DEF T
  <1>5. \E k \in 0 .. Total + 1 : k \notin all /\ 0 .. k - 1 \subseteq all
    BY <1>3, <1>4
  <1> QED
    BY <1>5

\* What the client makes of a segment.
Taken(seg) ==
    {n \in seg.seq .. EndOf(seg) - 1 :
        \/ n < seg.seq + seg.len /\ n < peer.read + PeerBuf
        \/ n = seg.seq + seg.len /\ seg.seq + seg.len <= peer.read + PeerBuf}
All(seg) == peer.beyond \cup Taken(seg) \cup 0 .. peer.rcv - 1

\* All that is there up to rcv, and nothing at rcv, unless it is past the FIN.
Has(c, all) ==
    /\ 0 .. c.rcv - 1 \subseteq all /\ c.rcv \notin all
    /\ c.beyond \subseteq all
    /\ c.read = peer.read /\ c.fin = peer.fin

LEMMA TakesFrame ==
    ASSUME peer \in Peers, peer.rcv <= Total + 1, NEW seg \in Segments, EndOf(seg) <= Total + 1,
           ClientTakes(seg)
    PROVE  /\ peer' \in Peers /\ Has(peer', All(seg)) /\ All(seg) \subseteq 0 .. Total
           /\ peer.rcv <= peer'.rcv
           /\ pcb' = pcb /\ wire' = wire \ {seg} /\ Answers(Says(peer', FALSE))
           /\ peer'.rcv <= Total => peer'.beyond = {n \in All(seg) : n > peer'.rcv}
  <1> DEFINE all == All(seg)
  <1>2. seg.seq \in Nat /\ EndOf(seg) \in Nat
    BY SegmentTypes
  <1>3. all \in SUBSET (0 .. Total)
    <2>1. Taken(seg) \subseteq seg.seq .. EndOf(seg) - 1
      BY DEF Taken
    <2>2. seg.seq .. EndOf(seg) - 1 \subseteq 0 .. Total
      BY <1>2, ConstantTypes
    <2>3. peer.beyond \subseteq 0 .. Total /\ peer.rcv \in 0 .. Total + 1
      BY DEF Peers
    <2>4. 0 .. peer.rcv - 1 \subseteq 0 .. Total
      BY <2>3, ConstantTypes
    <2> QED
      BY <2>1, <2>2, <2>3, <2>4 DEF All
  <1>4. PICK rcv : rcv = CHOOSE n \in 0 .. Total + 1 : n \notin all /\ 0 .. n - 1 \subseteq all
    OBVIOUS
  <1>5. rcv \in 0 .. Total + 1 /\ rcv \notin all /\ 0 .. rcv - 1 \subseteq all
    BY <1>3, <1>4, FirstMissing
  <1>6. PICK to : to = IF 0 .. Total \subseteq all THEN Total + 1 ELSE rcv
    OBVIOUS
  <1>7. PICK b : b = {n \in all : n > rcv}
    OBVIOUS
  <1>8. to = rcv
    <2>1. CASE 0 .. Total \subseteq all
      <3>1. rcv \notin 0 .. Total
        BY <1>5, <2>1
      <3>2. rcv = Total + 1
        BY <1>5, <3>1, ConstantTypes
      <3> QED
        BY <1>6, <2>1, <3>2
    <2> QED
      BY <1>6, <2>1
  <1>9. PICK c : c = [peer EXCEPT !.rcv = to, !.beyond = b]
    OBVIOUS
  <1>10. /\ pcb' = pcb /\ wire' = wire \ {seg}
         /\ peer' = c /\ Answers(Says(c, FALSE))
    <2>1. peer' = [peer EXCEPT !.rcv = IF 0 .. Total \subseteq all THEN Total + 1 ELSE rcv,
                               !.beyond = {n \in all : n > rcv}]
      BY <1>4 DEF ClientTakes, All, Taken
    <2>2. peer' = c
      BY <1>6, <1>7, <1>9, <2>1
    <2>3. UNCHANGED pcb /\ wire' = wire \ {seg} /\ Answers(Says(peer', FALSE))
      BY DEF ClientTakes
    <2> QED
      BY <2>2, <2>3
  <1> HIDE DEF all
  <1>11. b \in SUBSET (0 .. Total)
    BY <1>3, <1>7
  <1>12. c \in Peers /\ c.rcv = rcv /\ c.beyond = b /\ c.read = peer.read /\ c.fin = peer.fin
    BY <1>5, <1>8, <1>9, <1>11 DEF Peers
  <1>13. peer.rcv <= rcv
    <2>1. rcv \notin 0 .. peer.rcv - 1
      BY <1>5 DEF all, All
    <2>2. peer.rcv \in Int /\ rcv \in Int /\ 0 <= rcv
      BY <1>5, ConstantTypes DEF Peers
    <2> QED
      BY <2>1, <2>2
  <1>14. Has(c, all)
    BY <1>5, <1>7, <1>12 DEF Has
  <1> QED
    BY <1>3, <1>7, <1>10, <1>12, <1>13, <1>14 DEF all

LEMMA ClientTakesInv ==
    ASSUME Inv, NEW seg \in wire, ClientTakes(seg)
    PROVE  Inv'
  <1>1. PICK lbb \in Nat : lbb = pcb.lbb /\ lbb <= Total + 1
    BY LbbTypes DEF Inv, PcbState, Ready
  <1>2. seg \in Segments /\ EndOf(seg) <= lbb
    BY <1>1 DEF Inv, WireState
  <1>3. peer \in Peers /\ peer.read <= peer.rcv /\ peer.rcv <= lbb /\ \A n \in peer.beyond : n < lbb
    BY <1>1 DEF Inv, PeerState
  <1>4. seg.seq \in Int /\ EndOf(seg) \in Int /\ peer.rcv \in Int /\ peer.read \in Int
    BY <1>2, <1>3, SegmentTypes, ConstantTypes DEF Peers
  <1>5. EndOf(seg) <= Total + 1 /\ peer.rcv <= Total + 1
    BY <1>1, <1>2, <1>3, <1>4, ConstantTypes
  <1>6. /\ peer' \in Peers /\ Has(peer', All(seg)) /\ All(seg) \subseteq 0 .. Total
        /\ peer.rcv <= peer'.rcv
        /\ pcb' = pcb /\ wire' = wire \ {seg} /\ Answers(Says(peer', FALSE))
    BY <1>2, <1>3, <1>5, TakesFrame
  <1>7. PICK c : c = peer'
    OBVIOUS
  <1>8. /\ c \in Peers /\ Has(c, All(seg)) /\ peer.rcv <= c.rcv /\ Answers(Says(c, FALSE))
    BY <1>6, <1>7
  <1>14. c.rcv \in Int
    BY <1>8, ConstantTypes DEF Peers
  <1>9. \A n \in All(seg) : n \in Int /\ n < lbb
    <2>1. \A n \in Taken(seg) : n < lbb
      BY <1>1, <1>2, <1>4 DEF Taken
    <2>2. \A n \in 0 .. peer.rcv - 1 : n < lbb
      BY <1>1, <1>3, <1>4
    <2> QED
      BY <1>3, <1>6, <2>1, <2>2 DEF All
  <1>10. c.rcv <= lbb
    <2>1. lbb \notin All(seg)
      BY <1>1, <1>9
    <2>2. lbb \notin 0 .. c.rcv - 1
      BY <1>8, <2>1 DEF Has
    <2> QED
      BY <1>1, <1>14, <2>2
  <1>11. PeerState(c, lbb)
    <2>1. c.read <= c.rcv
      BY <1>3, <1>4, <1>8, <1>14 DEF Has
    <2>2. \A n \in c.beyond : n < lbb
      BY <1>8, <1>9 DEF Has
    <2> QED
      BY <1>8, <1>10, <2>1, <2>2 DEF PeerState
  <1>12. AcksState(acks', c.rcv)
    <2>1. AcksState(acks, peer.rcv)
      BY DEF Inv
    <2>2. c.read <= c.rcv /\ FALSE \in BOOLEAN
      BY <1>11 DEF PeerState
    <2> QED
      BY <1>3, <1>8, <2>1, <2>2, AnswersWithin
  <1>13. WireState(wire \ {seg}, lbb)
    <2>1. WireState(wire, pcb.lbb) /\ wire \ {seg} \in SUBSET wire
      BY DEF Inv
    <2> QED
      BY <1>1, <2>1, FewerOnWire
  <1> QED
    BY <1>1, <1>6, <1>7, <1>11, <1>12, <1>13 DEF Inv, PcbState

LEMMA ClientReadsInv ==
    ASSUME Inv, ClientReads
    PROVE  Inv'
  <1>1. PICK r : r = Min2(peer.rcv, Total)
    OBVIOUS
  <1>2. PICK c : c = [peer EXCEPT !.read = r]
    OBVIOUS
  <1>3. pcb' = pcb /\ wire' = wire /\ peer' = c /\ Answers(Says(c, FALSE))
    BY <1>1, <1>2 DEF ClientReads
  <1>4. PeerState(peer, pcb.lbb) /\ peer \in Peers /\ peer.rcv \in 0 .. Total + 1
    BY DEF Inv, PeerState, Peers
  <1>5. r \in 0 .. Total /\ r <= peer.rcv
    BY <1>1, <1>4, ConstantTypes DEF Min2
  <1>6. c \in Peers /\ c.rcv = peer.rcv /\ c.read = r /\ c.beyond = peer.beyond
    BY <1>2, <1>4, <1>5 DEF Peers
  <1>7. PeerState(c, pcb.lbb)
    BY <1>4, <1>5, <1>6 DEF PeerState
  <1>8. AcksState(acks', c.rcv)
    <2>1. AcksState(acks, peer.rcv)
      BY DEF Inv
    <2>2. c.read <= c.rcv /\ peer.rcv <= c.rcv /\ FALSE \in BOOLEAN
      BY <1>4, <1>5, <1>6, ConstantTypes
    <2> QED
      BY <1>3, <1>4, <1>6, <2>1, <2>2, AnswersWithin
  <1> QED
    BY <1>3, <1>7, <1>8 DEF Inv, PcbState

LEMMA ClientEndsInv ==
    ASSUME Inv, ClientEnds
    PROVE  Inv'
  <1>1. PICK c : c = [peer EXCEPT !.fin = TRUE]
    OBVIOUS
  <1>2. pcb' = pcb /\ wire' = wire /\ peer' = c /\ Answers(Says(peer, TRUE))
    BY <1>1 DEF ClientEnds
  <1>3. PeerState(peer, pcb.lbb) /\ peer \in Peers /\ peer.rcv \in 0 .. Total + 1
    BY DEF Inv, PeerState, Peers
  <1>4. c \in Peers /\ c.rcv = peer.rcv /\ c.read = peer.read /\ c.beyond = peer.beyond
    BY <1>1, <1>3 DEF Peers
  <1>5. PeerState(c, pcb.lbb)
    BY <1>3, <1>4 DEF PeerState
  <1>6. AcksState(acks', c.rcv)
    <2>1. AcksState(acks, peer.rcv)
      BY DEF Inv
    <2>2. peer.read <= peer.rcv /\ peer.rcv <= peer.rcv /\ TRUE \in BOOLEAN
      BY <1>3, ConstantTypes DEF PeerState
    <2>3. AcksState(acks', peer.rcv)
      BY <1>2, <1>3, <2>1, <2>2, AnswersWithin
    <2> QED
      BY <1>4, <2>3
  <1> QED
    BY <1>2, <1>5, <1>6 DEF Inv, PcbState

LEMMA LoseInv ==
    ASSUME Inv, Lose
    PROVE  Inv'
  <1>1. CASE \E seg \in wire : wire' = wire \ {seg} /\ UNCHANGED <<pcb, peer, acks>>
    <2>1. WireState(wire, pcb.lbb) /\ wire' \in SUBSET wire
      BY <1>1 DEF Inv
    <2>2. WireState(wire', pcb.lbb)
      BY <2>1, FewerOnWire
    <2> QED
      BY <1>1, <2>2 DEF Inv, PcbState
  <1>2. CASE \E m \in acks : acks' = acks \ {m} /\ UNCHANGED <<pcb, peer, wire>>
    <2>1. AcksState(acks, peer.rcv) /\ acks' \in SUBSET acks
      BY <1>2 DEF Inv
    <2>2. IsFiniteSet(acks') /\ Cardinality(acks') <= Cardinality(acks)
      BY <2>1, FS_Subset DEF AcksState
    <2>3. Cardinality(acks') \in Nat /\ Cardinality(acks) \in Nat
      BY <2>1, <2>2, FS_CardinalityType DEF AcksState
    <2>4. Cardinality(acks') <= AcksSize
      BY <2>1, <2>2, <2>3, ConstantTypes DEF AcksState
    <2>5. AcksState(acks', peer.rcv)
      BY <2>1, <2>2, <2>4 DEF AcksState
    <2> QED
      BY <1>2, <2>5 DEF Inv, PcbState
  <1> QED
    BY <1>1, <1>2 DEF Lose

-----------------------------------------------------------------------------
(* The invariant and what follows from it                                  *)

LEMMA InitInv ==
    ASSUME Init
    PROVE  Inv
  <1>1. IsPcb(pcb)
    BY InitPcb
  <1>2. /\ pcb.state = "ESTABLISHED" /\ pcb.unsent = <<>> /\ pcb.unacked = <<>>
        /\ pcb.lastack = 0 /\ pcb.nxt = 0 /\ pcb.lbb = 0
        /\ pcb.wnd = PeerBuf /\ pcb.wl1 = 0 /\ pcb.wl2 = 0 /\ pcb.buf = SndBuf
        /\ pcb.qlen = 0 /\ pcb.cwnd = SndBuf /\ pcb.nrtx = 0 /\ pcb.dupacks = 0
        /\ pcb.rcv = 0 /\ pcb.acked = 0 /\ pcb.left = 0 /\ ~pcb.closing /\ ~pcb.input
        /\ pcb.out = {}
    BY DEF Init
  <1>3. <<>> \in Queues /\ ToSet(<<>>) = {} /\ Pbufs(<<>>) = 0
    BY FewSegments
  <1>4. "ESTABLISHED" \in Writable /\ "ESTABLISHED" \notin Closing /\ "ESTABLISHED" \notin Over
    BY DEF Writable, Closing, Over
  <1>5. Numbers(pcb)
    BY <1>2, <1>4, ConstantTypes DEF Numbers, States
  <1>6. SndBuf \in u16_t /\ SndBuf % 65536 = SndBuf
    <2>1. PICK x \in Nat : x = SndBuf /\ x < 65536
      BY ConstantTypes
    <2>2. x % 65536 = x
      BY <2>1
    <2>3. x % 65536 \in u16_t
      BY BufferArithmetic
    <2> QED
      BY <2>1, <2>2, <2>3
  <1>7. Counters(pcb)
    BY <1>2, <1>6, ConstantTypes DEF Counters
  <1>8. Filled(pcb)
    <2>1. InQueues(pcb) = {} /\ PbufsIn(pcb) = 0
      BY <1>2, <1>3 DEF InQueues, PbufsIn
    <2>2. pcb.lastack .. pcb.lbb - 1 = {}
      BY <1>2
    <2>3. ToSet(pcb.unacked) = {}
      BY <1>2, <1>3
    <2>4. pcb.buf = (SndBuf - (pcb.lbb - pcb.lastack)) % 65536
      <3>1. SndBuf - (pcb.lbb - pcb.lastack) = SndBuf
        BY <1>2, ConstantTypes
      <3> QED
        BY <1>2, <1>6, <3>1
    <2> QED
      BY <1>2, <2>1, <2>2, <2>3, <2>4 DEF Filled
  <1>9. QueuesType(pcb) /\ QueuesState(pcb) /\ TimerState(pcb) /\ Sendable(pcb)
    BY <1>2, <1>3, <1>4, <1>8 DEF QueuesType, QueuesState, TimerState, Sendable
  <1>10. PcbState
    BY <1>1, <1>2, <1>5, <1>7, <1>9 DEF PcbState, Ready, Sound, Resting
  <1>11. PeerState(peer, 0)
    <2>1. peer = [rcv |-> 0, beyond |-> {}, read |-> 0, fin |-> FALSE]
      BY DEF Init
    <2>2. 0 \in 0 .. Total + 1 /\ 0 \in 0 .. Total /\ {} \in SUBSET (0 .. Total)
      BY ConstantTypes
    <2>3. peer \in Peers
      BY <2>1, <2>2 DEF Peers
    <2> QED
      BY <2>1, <2>3 DEF PeerState
  <1>12. WireState(wire, 0) /\ AcksState(acks, peer.rcv)
    BY FS_EmptySet, ConstantTypes DEF Init, WireState, AcksState
  <1> QED
    BY <1>2, <1>10, <1>11, <1>12 DEF Inv

LEMMA NextInv ==
    ASSUME Inv, [Next]_vars
    PROVE  Inv'
  <1>1. CASE UNCHANGED vars
    BY <1>1 DEF vars, Inv, PcbState
  <1>2. CASE Next
    BY <1>2, WriteInv, CloseConnectionInv, AbortInv, ReceiveInv, SlowTimerInv, ClientTakesInv,
       ClientReadsInv, ClientEndsInv, LoseInv DEF Next, Reset
  <1> QED
    BY <1>1, <1>2

\* The queues, the counts, the timer and the network, in every state.
THEOREM SendInvariant == Spec => []Inv
  <1>1. Init => Inv
    BY InitInv
  <1>2. Inv /\ [Next]_vars => Inv'
    BY NextInv
  <1> QED
    BY <1>1, <1>2, PTL DEF Spec

\* Sequence numbers, queues and counters keep their ranges: snd_queuelen never
\* exceeds TCP_SND_QUEUELEN (tcp_enqueue), snd_lbb never passes the FIN.
THEOREM SendTypes == Spec => []TypeOK
  <1>1. ASSUME Inv PROVE TypeOK
    <2>1. Sound(pcb) /\ Resting(pcb) /\ pcb.out = {}
      BY <1>1 DEF Inv, PcbState, Ready
    <2>2. Numbers(pcb) /\ Counters(pcb) /\ QueuesType(pcb)
      BY <2>1 DEF Sound
    <2>3. peer.rcv \in 0 .. Total + 1 /\ peer.read \in 0 .. Total
      BY <1>1 DEF Inv, PeerState, Peers
    <2>4. Cardinality(wire) <= WireSize + QueueLen /\ Cardinality(acks) <= AcksSize
      BY <1>1 DEF Inv, WireState, AcksState
    <2>5. pcb.unsent \in Seq(Segments) /\ pcb.unacked \in Seq(Segments)
      BY <2>2 DEF QueuesType, Queues
    <2>6. pcb.acked = 0 /\ ~pcb.input
      BY <2>1 DEF Resting
    <2> QED
      BY <2>1, <2>2, <2>3, <2>4, <2>5, <2>6 DEF Numbers, Counters, States, TypeOK
  <1>2. Inv => TypeOK
    BY <1>1
  <1> QED
    BY <1>2, SendInvariant, PTL

\* Whatever is unacknowledged has the retransmission timer or that of the probes
\* (rtime in tcp_receive and tcp_output_segment).
THEOREM TimerRuns == Spec => []RetransmissionRuns
  <1>1. Inv => RetransmissionRuns
    BY DEF Inv, PcbState, Ready, Sound, TimerState, RetransmissionRuns
  <1> QED
    BY <1>1, SendInvariant, PTL

\* What NothingForgotten says but for the order.
UnitsAndCounts ==
    pcb.state \notin Over =>
        /\ \A n \in pcb.lastack .. pcb.lbb - 1 :
              Cardinality({i \in 1 .. Len(Queued) :
                              n \in Queued[i].seq .. EndOf(Queued[i]) - 1}) = 1
        /\ pcb.qlen = Pbufs(Queued)
        /\ pcb.buf = (SndBuf - (pcb.lbb - pcb.lastack)) % 65536

LEMMA CountsFollow ==
    ASSUME Inv
    PROVE  UnitsAndCounts
  <1>1. Sound(pcb)
    BY DEF Inv, PcbState, Ready
  <1>2. PICK a \in Queues, b \in Queues : a = pcb.unacked /\ b = pcb.unsent
    BY <1>1 DEF Sound, QueuesType
  <1>3. SUFFICES ASSUME pcb.state \notin Over PROVE UnitsAndCounts
    BY DEF UnitsAndCounts
  <1>4. Filled(pcb)
    BY <1>1, <1>3 DEF Sound, QueuesState
  <1>5. PICK q : q = Queued
    OBVIOUS
  <1>6. Gathers(q, a, b)
    BY <1>2, <1>5, GathersConcat DEF Queued
  <1>7. q \in Queues /\ \A i \in 1 .. Len(q) : q[i] \in Segments
    BY <1>6, QueueTypes DEF Gathers
  <1>8. ASSUME NEW n \in pcb.lastack .. pcb.lbb - 1
        PROVE  Cardinality({i \in 1 .. Len(q) : n \in q[i].seq .. EndOf(q[i]) - 1}) = 1
    <2>1. {i \in 1 .. Len(q) : n \in q[i].seq .. EndOf(q[i]) - 1}
            = {k \in 1 .. Len(q) : q[k] \in Holds(n)}
      BY <1>7 DEF Holds
    <2>2. Times(q, n) = Times(a, n) + Times(b, n)
      BY <1>6 DEF Gathers
    <2>3. Times(a, n) + Times(b, n) = 1
      BY <1>2, <1>4 DEF Filled, TimesIn
    <2> QED
      BY <2>1, <2>2, <2>3 DEF Times, Occurrences
  <1>9. pcb.qlen = Pbufs(q) /\ pcb.buf = (SndBuf - (pcb.lbb - pcb.lastack)) % 65536
    BY <1>2, <1>4, <1>6 DEF Filled, PbufsIn, Gathers
  <1> QED
    BY <1>5, <1>8, <1>9 DEF UnitsAndCounts

-----------------------------------------------------------------------------
(* The end of the connection                                               *)

\* Where a close that goes well has got to when the FIN is acknowledged.
Ends(p) == p.state \in {"FIN_WAIT_2", "TIME_WAIT", "CLOSED", "timed out"} /\ ~p.early

GoodEnd == Ends(pcb) => peer.rcv = Total + 1

\* How a step goes on: it writes, begins to close when all is written, or ends.
Onward(p, q) ==
    /\ p.lbb <= q.lbb
    /\ \/ p.state \in Writable /\ q.state \in Writable
       \/ p.state \in Writable /\ q.state \in Closing /\ p.lbb >= Total
       \/ p.state \in Writable \cup Closing /\ q.state = "aborted" /\ p.lbb = q.lbb
       \/ p.state \in Closing /\ q.state \in Closing \cup {"TIME_WAIT", "CLOSED", "timed out"}

LEMMA NewStateEnds ==
    ASSUME NEW p, IsPcb(p), p.state \in Writable \cup Closing, NEW got, NEW full
    PROVE  LET q == NewState(p, got, full)
           IN  /\ p.state \in Writable => q.state \in Writable
               /\ p.state \in Closing => q.state \in Closing \cup {"TIME_WAIT", "CLOSED"}
               /\ q.early = p.early
               /\ Ends(q) => Ends(p) \/ (full /\ p.state \in Closing)
  <1>1. PICK q : q = NewState(p, got, full)
    OBVIOUS
  <1>2. p.state \in States
    BY DEF States
  <1>3. CASE q = p
    BY <1>1, <1>3 DEF Writable, Closing
  <1>4. ASSUME NEW s, q = [p EXCEPT !.state = s] \/ q = Purge(p, s)
        PROVE  q.state = s /\ q.early = p.early
    BY <1>4 DEF Purge, IsPcb, Fields
  <1>5. CASE p.state \in Writable /\ q = [p EXCEPT !.state = "CLOSE_WAIT"]
    <2>1. q.state = "CLOSE_WAIT" /\ q.early = p.early
      BY <1>4, <1>5
    <2> QED
      BY <1>1, <1>5, <2>1 DEF Ends, Writable, Closing
  <1>6. CASE p.state = "FIN_WAIT_1" /\ q = [p EXCEPT !.state = "CLOSING"]
    <2>1. q.state = "CLOSING" /\ q.early = p.early
      BY <1>4, <1>6
    <2> QED
      BY <1>1, <1>6, <2>1 DEF Ends, Writable, Closing
  <1>7. CASE p.state = "FIN_WAIT_1" /\ full /\ q = [p EXCEPT !.state = "FIN_WAIT_2"]
    <2>1. q.state = "FIN_WAIT_2" /\ q.early = p.early
      BY <1>4, <1>7
    <2> QED
      BY <1>1, <1>7, <2>1 DEF Writable, Closing
  <1>8. CASE /\ p.state \in {"FIN_WAIT_1", "FIN_WAIT_2", "CLOSING"}
             /\ full \/ p.state = "FIN_WAIT_2"
             /\ q = Purge(p, "TIME_WAIT")
    <2>1. q.state = "TIME_WAIT" /\ q.early = p.early
      BY <1>4, <1>8
    <2> QED
      BY <1>1, <1>8, <2>1 DEF Ends, Writable, Closing
  <1>9. CASE p.state = "LAST_ACK" /\ full /\ q = Purge(p, "CLOSED")
    <2>1. q.state = "CLOSED" /\ q.early = p.early
      BY <1>4, <1>9
    <2> QED
      BY <1>1, <1>9, <2>1 DEF Writable, Closing
  <1> QED
    BY <1>1, <1>2, <1>3, <1>5, <1>6, <1>7, <1>8, <1>9, NewStateCases

\* All that was enqueued is acknowledged when nothing is left unsent and snd_nxt
\* is acknowledged.
LEMMA ProcessEnds ==
    ASSUME NEW p, Ready(p), p.state \notin Over, NEW m \in Messages
    PROVE  LET q == Process(p, m)
           IN  /\ p.state \in Writable => q.state \in Writable
               /\ p.state \in Closing => q.state \in Closing \cup {"TIME_WAIT", "CLOSED"}
               /\ Ends(q) => Ends(p) \/ m.ack = Total + 1
  <1>1. PICK q : q = ReceiveAck(p, m)
    OBVIOUS
  <1>2. Ready(q) /\ Keeps(p, q, ReceiveFields)
    BY <1>1, ReceiveAckReady
  <1>3. PICK r : r = ReceiveFin(q, m)
    OBVIOUS
  <1>4. Ready(r) /\ Keeps(q, r, FinFields)
    BY <1>2, <1>3, ReceiveFinReady
  <1>5. PICK got : got = (r.rcv # p.rcv)
    OBVIOUS
  <1>6. PICK full : full = FinAcked(r, m)
    OBVIOUS
  <1>7. PICK x : x = (r.early \/ (full /\ r.state \in Closing /\ r.unsent # <<>>))
    OBVIOUS
  <1>8. PICK s : s = [r EXCEPT !.early = x]
    OBVIOUS
  <1>9. Keeps(r, s, {"early"}) /\ s.early = x
    BY <1>4, <1>8 DEF Ready, Sound, Keeps, IsPcb, Fields
  <1>10. r.state = p.state /\ s.state = p.state /\ r.early = p.early
    BY <1>2, <1>4, <1>9 DEF Keeps, ReceiveFields, AckFields, DuplicateFields, WindowFields,
                            FinFields, Fields
  <1>11. p.state \in Writable \cup Closing
    BY DEF Ready, Sound, Numbers, States
  <1>12. PICK t : t = NewState(s, got, full)
    OBVIOUS
  <1>13. Process(p, m) = t
    <2>1. Process(p, m) = Advance(r, got, full)
      BY <1>1, <1>3, <1>5, <1>6 DEF Process, Received
    <2>2. Advance(r, got, full) = t
      BY <1>7, <1>8, <1>12 DEF Advance
    <2> QED
      BY <2>1, <2>2
  <1>14. /\ s.state \in Writable => t.state \in Writable
         /\ s.state \in Closing => t.state \in Closing \cup {"TIME_WAIT", "CLOSED"}
         /\ t.early = s.early
         /\ Ends(t) => Ends(s) \/ (full /\ s.state \in Closing)
    <2>1. IsPcb(s) /\ s.state \in Writable \cup Closing
      BY <1>9, <1>10, <1>11 DEF Keeps
    <2> QED
      BY <1>12, <2>1, NewStateEnds
  <1>15. ASSUME Ends(t), full, s.state \in Closing
         PROVE  m.ack = Total + 1
    <2>1. r.unsent = <<>>
      BY <1>7, <1>9, <1>10, <1>14, <1>15 DEF Ends
    <2>2. r.lbb = Total + 1 /\ r.state \notin Over
      BY <1>4, <1>10, <1>15 DEF Ready, Sound, Numbers, Closing, Over
    <2>3. Filled(r)
      BY <1>4, <2>2 DEF Ready, Sound, QueuesState
    <2>4. r.nxt = r.lbb
      BY <2>1, <2>3, FewSegments DEF Filled
    <2> QED
      BY <1>6, <1>15, <2>2, <2>4 DEF FinAcked
  <1>16. Ends(s) /\ Ends(t) => Ends(p)
    BY <1>7, <1>9, <1>10 DEF Ends
  <1> QED
    BY <1>10, <1>13, <1>14, <1>15, <1>16

LEMMA InputEnds ==
    ASSUME NEW p, Ready(p), p.state \notin Over, Resting(p), NEW m \in Messages
    PROVE  /\ Onward(p, Input(p, m))
           /\ Ends(Input(p, m)) => Ends(p) \/ m.ack = Total + 1
  <1>1. PICK q : q = [p EXCEPT !.input = TRUE]
    OBVIOUS
  <1>2. Ready(q) /\ Keeps(p, q, {"input"}) /\ q.input
    BY <1>1, InputBegins
  <1>3. q.lbb = p.lbb /\ q.state = p.state /\ q.early = p.early
    BY <1>2 DEF Keeps, Fields
  <1>4. PICK r : r = Process(q, m)
    OBVIOUS
  <1>5. q.state \notin Over
    BY <1>3
  <1>6. Ready(r) /\ Keeps(q, r, ProcessFields)
    BY <1>2, <1>4, <1>5, ProcessReady
  <1>7. /\ q.state \in Writable => r.state \in Writable
        /\ q.state \in Closing => r.state \in Closing \cup {"TIME_WAIT", "CLOSED"}
        /\ Ends(r) => Ends(q) \/ m.ack = Total + 1
    BY <1>2, <1>4, <1>5, ProcessEnds
  <1>8. PICK got : got = (r.rcv # p.rcv)
    OBVIOUS
  <1>9. PICK s : s = Events(r, got)
    OBVIOUS
  <1>10. Sound(r)
    BY <1>6 DEF Ready
  <1>11. Sound(s) /\ Keeps(r, s, EventFields) /\ WrittenOn(r, s)
    BY <1>9, <1>10, EventsSound
  <1>12. PICK t : t = Return(s)
    OBVIOUS
  <1>13. s.input
    <2>1. r.input = q.input
      BY <1>6 DEF Keeps, ProcessFields, ReceiveFields, AckFields, DuplicateFields, WindowFields,
                  FinFields, PurgeFields, Fields
    <2>2. s.input = r.input
      BY <1>11 DEF Keeps, EventFields, WriteFields, CloseFields, SendFields, Fields
    <2> QED
      BY <1>2, <2>1, <2>2
  <1>14. Keeps(s, t, SendFields \cup {"input", "acked"})
    BY <1>11, <1>12, <1>13, ReturnSound
  <1>15. t = Input(p, m)
    BY <1>1, <1>4, <1>8, <1>9, <1>12 DEF Input, Indicate
  <1>16. p.lbb <= t.lbb
    BY <1>15, InputSound
  <1>17. t.state = s.state /\ t.early = s.early
    BY <1>14 DEF Keeps, SendFields, Fields
  <1>18. s.early = r.early
    BY <1>11 DEF Keeps, EventFields, WriteFields, CloseFields, SendFields, Fields
  <1>19. r.lbb = q.lbb
    BY <1>6 DEF Keeps, ProcessFields, ReceiveFields, AckFields, DuplicateFields, WindowFields,
                FinFields, PurgeFields, Fields
  <1>20. \/ t.state = r.state
         \/ r.state \in Writable /\ t.state \in Ending /\ p.lbb >= Total
    BY <1>3, <1>11, <1>17, <1>19 DEF WrittenOn
  <1>21. p.state \in Writable \cup Closing
    BY DEF Ready, Sound, Numbers, States
  <1>22. Onward(p, t)
    BY <1>3, <1>7, <1>16, <1>20, <1>21 DEF Onward, Writable, Closing, Ending
  <1>23. Ends(t) => Ends(p) \/ m.ack = Total + 1
    <2> SUFFICES ASSUME Ends(t) PROVE Ends(p) \/ m.ack = Total + 1
      OBVIOUS
    <2>1. t.state = r.state
      BY <1>20 DEF Ends, Ending
    <2>2. Ends(r)
      BY <1>17, <1>18, <2>1 DEF Ends
    <2> QED
      BY <1>3, <1>7, <2>2 DEF Ends
  <1> QED
    BY <1>15, <1>22, <1>23

LEMMA PhaseOf ==
    ASSUME NEW p
    PROVE  /\ p.state \in Writable => Phase(p) = "open"
           /\ p.state \in Closing => Phase(p) = "closing"
           /\ p.state = "aborted" => Phase(p) = "broken"
           /\ p.state \in {"TIME_WAIT", "CLOSED", "timed out"}
                => Phase(p) \in {"closed", "broken"} /\ (Phase(p) = "closed" => Ends(p))
  BY DEF Phase, Writable, Closing, Ends

LEMMA MinTotal ==
    ASSUME NEW n \in Nat
    PROVE  /\ Min2(n, Total) \in Nat
           /\ n >= Total => Min2(n, Total) = Total
           /\ \A m \in Nat : n <= m => Min2(n, Total) <= Min2(m, Total)
  BY ConstantTypes DEF Min2

\* Each step of the TCP/IP thread is a step of the pipe.
LEMMA OnwardPipe ==
    ASSUME Inv, NEW q, IsPcb(q), q.lbb \in Nat, q.state \in States, Onward(pcb, q),
           Ends(q) => peer.rcv = Total + 1, NEW left, Becomes(q, left)
    PROVE  GoodEnd' /\ (Connection!Next \/ UNCHANGED <<Written, Delivered, Phase(pcb)>>)
  <1>1. PICK p : p = [q EXCEPT !.out = {}]
    OBVIOUS
  <1>2. pcb' = p /\ peer' = peer
    BY <1>1 DEF Becomes
  <1>3. Keeps(q, p, {"out"})
    BY <1>1 DEF Keeps, IsPcb, Fields
  <1>4. p.state = q.state /\ p.early = q.early /\ p.lbb = q.lbb
    BY <1>3 DEF Keeps, Fields
  <1>5. GoodEnd'
    BY <1>2, <1>4 DEF GoodEnd, Ends
  <1>6. PICK n \in Nat, k \in Nat, r \in Nat : n = pcb.lbb /\ k = p.lbb /\ r = peer.rcv
    <2>1. pcb.lbb \in Nat
      BY LbbTypes DEF Inv, PcbState, Ready
    <2>2. peer.rcv \in Nat
      BY ConstantTypes DEF Inv, PeerState, Peers
    <2> QED
      BY <1>4, <2>1, <2>2
  <1>7. PICK w, x, d : w = Min2(n, Total) /\ x = Min2(k, Total) /\ d = Min2(r, Total)
    OBVIOUS
  <1>8. Written = w /\ Written' = x /\ Delivered = d /\ Delivered' = d
    BY <1>2, <1>6, <1>7 DEF Written, Delivered
  <1>9. n <= k
    BY <1>4, <1>6 DEF Onward
  <1>10. w \in Nat /\ x \in Nat /\ w <= x
    BY <1>7, <1>9, MinTotal
  <1>11. CASE pcb.state \in Writable /\ q.state \in Writable
    <2>1. Phase(pcb) = "open" /\ Phase(pcb)' = "open"
      BY <1>2, <1>4, <1>11, PhaseOf
    <2>2. CASE w = x
      BY <1>5, <1>8, <2>1, <2>2
    <2>3. CASE w # x
      <3>1. x > w
        BY <1>10, <2>3
      <3>2. Connection!Write
        BY <1>8, <1>10, <2>1, <3>1 DEF Connection!Write
      <3> QED
        BY <1>5, <3>2 DEF Connection!Next
    <2> QED
      BY <2>2, <2>3
  <1>12. CASE pcb.state \in Writable /\ q.state \in Closing /\ pcb.lbb >= Total
    <2>1. Phase(pcb) = "open" /\ Phase(pcb)' = "closing"
      BY <1>2, <1>4, <1>12, PhaseOf
    <2>2. k >= Total
      BY <1>6, <1>9, <1>12, ConstantTypes
    <2>3. w = x
      BY <1>6, <1>7, <1>12, <2>2, MinTotal
    <2>4. Connection!Close
      BY <1>8, <2>1, <2>3 DEF Connection!Close
    <2> QED
      BY <1>5, <2>4 DEF Connection!Next
  <1>13. CASE pcb.state \in Writable \cup Closing /\ q.state = "aborted" /\ pcb.lbb = q.lbb
    <2>1. Phase(pcb) \in {"open", "closing"} /\ Phase(pcb)' = "broken"
      BY <1>2, <1>4, <1>13, PhaseOf
    <2>2. w = x
      BY <1>4, <1>6, <1>7, <1>13
    <2>3. Connection!Break
      BY <1>8, <2>1, <2>2 DEF Connection!Break
    <2> QED
      BY <1>5, <2>3 DEF Connection!Next
  <1>14. CASE /\ pcb.state \in Closing
              /\ q.state \in Closing \cup {"TIME_WAIT", "CLOSED", "timed out"}
    <2>1. n = Total + 1
      BY <1>6, <1>14 DEF Inv, PcbState, Ready, Sound, Numbers
    <2>2. n >= Total /\ k >= Total
      BY <1>9, <2>1, ConstantTypes
    <2>3. w = Total /\ x = Total
      BY <1>7, <2>2, MinTotal
    <2>4. Phase(pcb) = "closing"
      BY <1>14, PhaseOf
    <2>5. CASE q.state \in Closing
      <3>1. Phase(pcb)' = "closing"
        BY <1>2, <1>4, <2>5, PhaseOf
      <3> QED
        BY <1>5, <1>8, <2>3, <2>4, <3>1
    <2>6. CASE q.state \in {"TIME_WAIT", "CLOSED", "timed out"}
      <3>1. p.state \in {"TIME_WAIT", "CLOSED", "timed out"}
        BY <1>4, <2>6
      <3>2. Phase(p) \in {"closed", "broken"} /\ (Phase(p) = "closed" => Ends(p))
        BY <3>1, PhaseOf
      <3>3. CASE Phase(p) = "closed"
        <4>1. Ends(q)
          BY <1>4, <3>2, <3>3 DEF Ends
        <4>2. r = Total + 1 /\ r >= Total
          BY <1>6, <4>1, ConstantTypes
        <4>3. d = Total
          BY <1>7, <4>2, MinTotal
        <4>4. Connection!Finish
          BY <1>2, <1>8, <2>3, <2>4, <3>3, <4>3 DEF Connection!Finish
        <4> QED
          BY <1>5, <4>4 DEF Connection!Next
      <3>4. CASE Phase(p) = "broken"
        <4>1. Connection!Break
          BY <1>2, <1>8, <2>3, <2>4, <3>4 DEF Connection!Break
        <4> QED
          BY <1>5, <4>1 DEF Connection!Next
      <3> QED
        BY <3>2, <3>3, <3>4
    <2> QED
      BY <1>14, <2>5, <2>6
  <1> QED
    BY <1>11, <1>12, <1>13, <1>14 DEF Onward

\* And each of the client's.
LEMMA ClientPipe ==
    ASSUME Inv, GoodEnd, Inv', pcb' = pcb, peer.rcv <= peer'.rcv
    PROVE  GoodEnd' /\ (Connection!Next \/ UNCHANGED <<Written, Delivered, Phase(pcb)>>)
  <1>1. PICK n \in Nat, r \in Nat, t \in Nat : n = pcb.lbb /\ r = peer.rcv /\ t = peer'.rcv
    <2>1. pcb.lbb \in Nat
      BY LbbTypes DEF Inv, PcbState, Ready
    <2>2. peer.rcv \in Nat /\ peer'.rcv \in Nat
      BY ConstantTypes DEF Inv, PeerState, Peers
    <2> QED
      BY <2>1, <2>2
  <1>2. r <= t /\ t <= n /\ t <= Total + 1
    BY <1>1, ConstantTypes DEF Inv, PeerState, Peers
  <1>3. PICK w, d, e : w = Min2(n, Total) /\ d = Min2(r, Total) /\ e = Min2(t, Total)
    OBVIOUS
  <1>4. Written = w /\ Written' = w /\ Delivered = d /\ Delivered' = e
    BY <1>1, <1>3 DEF Written, Delivered
  <1>5. w \in Nat /\ d \in Nat /\ e \in Nat /\ d <= e /\ e <= w
    BY <1>2, <1>3, MinTotal
  <1>6. GoodEnd'
    <2> SUFFICES ASSUME Ends(pcb)' PROVE t = Total + 1
      BY <1>1 DEF GoodEnd
    <2>1. r = Total + 1
      BY <1>1 DEF GoodEnd, Ends
    <2> QED
      BY <1>2, <2>1, ConstantTypes
  <1>7. Phase(pcb)' = Phase(pcb)
    OBVIOUS
  <1>8. CASE d = e
    BY <1>4, <1>6, <1>7, <1>8
  <1>9. CASE d # e
    <2>1. d < w /\ e \in d + 1 .. w
      BY <1>5, <1>9
    <2>2. Connection!Deliver
      BY <1>4, <1>7, <2>1 DEF Connection!Deliver
    <2> QED
      BY <1>6, <2>2 DEF Connection!Next
  <1> QED
    BY <1>8, <1>9

PipeStep == GoodEnd' /\ (Connection!Next \/ UNCHANGED <<Written, Delivered, Phase(pcb)>>)

LEMMA SoundPipe ==
    ASSUME Inv, NEW q, Sound(q), Onward(pcb, q), Ends(q) => peer.rcv = Total + 1,
           NEW left, Becomes(q, left)
    PROVE  PipeStep
  <1>1. IsPcb(q) /\ q.lbb \in Nat /\ q.state \in States
    BY SoundNumbers
  <1> QED
    BY <1>1, OnwardPipe DEF PipeStep

\* What the writer makes of the pcb ends nothing.
LEMMA WrittenPipe ==
    ASSUME Inv, GoodEnd, pcb.state \notin Over, NEW q, Sound(q), q.early = pcb.early,
           \/ WrittenOn(pcb, q)
           \/ q.state = pcb.state /\ pcb.lbb <= q.lbb,
           NEW left, Becomes(q, left)
    PROVE  PipeStep
  <1>1. pcb.state \in Writable \cup Closing
    BY DEF Inv, PcbState, Ready, Sound, Numbers, States
  <1>2. \/ q.state = pcb.state
        \/ pcb.state \in Writable /\ q.state \in Ending /\ pcb.lbb >= Total
    BY DEF WrittenOn
  <1>3. Onward(pcb, q)
    BY <1>1, <1>2 DEF WrittenOn, Onward, Writable, Closing, Ending
  <1>4. Ends(q) => peer.rcv = Total + 1
    BY <1>2 DEF GoodEnd, Ends, Ending
  <1> QED
    BY <1>3, <1>4, SoundPipe

LEMMA WritePipe ==
    ASSUME Inv, GoodEnd, Write
    PROVE  PipeStep
  <1>1. PICK p : p = [pcb EXCEPT !.left = Min2(WriteLen, Total - pcb.lbb)]
    OBVIOUS
  <1>2. WriteDue /\ pcb.state \notin Over
    BY DEF Write, WriteDue, TaskRuns, Writable, Over
  <1>3. Sound(p) /\ Resting(p) /\ Keeps(pcb, p, {"left"}) /\ p.state \in Writable
    BY <1>1, <1>2, WriteBegins
  <1>4. PICK q : q = WriteMore(p)
    OBVIOUS
  <1>5. Sound(q) /\ Keeps(p, q, WriteFields) /\ p.lbb <= q.lbb
    BY <1>3, <1>4, WriteMoreSound
  <1>6. p.state = pcb.state /\ p.lbb = pcb.lbb /\ p.early = pcb.early
    BY <1>3 DEF Keeps, Fields
  <1>7. q.state = p.state /\ q.early = p.early
    BY <1>5 DEF Keeps, WriteFields, SendFields, Fields
  <1>8. Becomes(q, acks)
    BY <1>1, <1>4 DEF Write
  <1>9. q.state = pcb.state /\ pcb.lbb <= q.lbb /\ q.early = pcb.early
    BY <1>5, <1>6, <1>7
  <1> QED
    BY <1>2, <1>5, <1>8, <1>9, WrittenPipe

LEMMA CloseConnectionPipe ==
    ASSUME Inv, GoodEnd, CloseConnection
    PROVE  PipeStep
  <1>1. Sound(pcb)
    BY DEF Inv, PcbState, Ready
  <1>2. pcb.lbb = Total /\ pcb.left = 0 /\ pcb.state \notin Over
    BY DEF CloseConnection, CloseDue, TaskRuns, Writable, Over
  <1>3. PICK q : q = Close(pcb)
    OBVIOUS
  <1>4. /\ Sound(q) /\ Keeps(pcb, q, CloseFields \cup {"closing"}) /\ pcb.lbb <= q.lbb
        /\ \/ q.state = pcb.state /\ q.lbb = pcb.lbb
           \/ pcb.state \in Writable /\ q.state \in Ending
    BY <1>1, <1>2, <1>3, CloseSound
  <1>5. pcb.lbb >= Total
    BY <1>2, ConstantTypes
  <1>6. WrittenOn(pcb, q)
    BY <1>4, <1>5 DEF WrittenOn
  <1>7. q.early = pcb.early
    BY <1>4 DEF Keeps, CloseFields, SendFields, Fields
  <1>8. Becomes(q, acks)
    BY <1>3 DEF CloseConnection
  <1> QED
    BY <1>2, <1>4, <1>6, <1>7, <1>8, WrittenPipe

LEMMA AbortPipe ==
    ASSUME Inv, pcb.state \notin Over, Becomes(Abort(pcb), acks)
    PROVE  PipeStep
  <1>1. Ready(pcb) /\ Resting(pcb)
    BY DEF Inv, PcbState
  <1>2. PICK q : q = Abort(pcb)
    OBVIOUS
  <1>3. /\ Ready(q) /\ Keeps(pcb, q, PurgeFields \cup {"left", "closing"})
        /\ q.state = "aborted"
    BY <1>1, <1>2, AbortReady
  <1>4. q.lbb = pcb.lbb /\ Sound(q) /\ pcb.lbb \in Int
    BY <1>1, <1>3, LbbTypes DEF Keeps, PurgeFields, Fields, Ready
  <1>5. pcb.state \in Writable \cup Closing
    BY <1>1 DEF Ready, Sound, Numbers, States
  <1>6. Onward(pcb, q) /\ ~Ends(q)
    BY <1>3, <1>4, <1>5 DEF Onward, Ends
  <1>7. Becomes(q, acks)
    BY <1>2
  <1> QED
    BY <1>4, <1>6, <1>7, SoundPipe

\* tcp_slowtmr waits no longer for the peer's FIN or for its last ACK.
GivenUp(state, over) ==
    \/ state = "FIN_WAIT_2" /\ over = "timed out"
    \/ state = "LAST_ACK" /\ over = "aborted"

LEMMA PurgePipe ==
    ASSUME Inv, GoodEnd, NEW over, GivenUp(pcb.state, over),
           Becomes(Purge(pcb, over), acks)
    PROVE  PipeStep
  <1>1. Ready(pcb) /\ over \in Over
    BY DEF Inv, PcbState, Over, GivenUp
  <1>2. PICK q : q = Purge(pcb, over)
    OBVIOUS
  <1>3. Ready(q) /\ Keeps(pcb, q, PurgeFields) /\ q.state = over
    BY <1>1, <1>2, PurgeReady
  <1>4. q.lbb = pcb.lbb /\ Sound(q) /\ q.early = pcb.early
    BY <1>1, <1>3 DEF Keeps, PurgeFields, Fields, Ready
  <1>8. pcb.lbb \in Int
    BY <1>1, LbbTypes DEF Ready
  <1>5. Onward(pcb, q)
    <2>1. pcb.lbb <= q.lbb
      BY <1>4, <1>8
    <2>3. pcb.state \in Closing
      BY DEF Closing, GivenUp
    <2>2. q.state = "aborted" \/ q.state \in {"TIME_WAIT", "CLOSED", "timed out"}
      BY <1>3 DEF GivenUp
    <2> QED
      BY <1>4, <2>1, <2>2, <2>3 DEF Onward
  <1>6. Ends(q) => peer.rcv = Total + 1
    BY <1>3, <1>4 DEF GoodEnd, Ends, GivenUp
  <1>7. Becomes(q, acks)
    BY <1>2
  <1> QED
    BY <1>4, <1>5, <1>6, <1>7, SoundPipe

LEMMA ReceivePipe ==
    ASSUME Inv, GoodEnd, NEW m \in acks, Receive(m)
    PROVE  PipeStep
  <1>1. Ready(pcb) /\ Resting(pcb) /\ pcb.state \notin Over
    BY DEF Inv, PcbState, Receive
  <1>2. m \in Messages /\ m.ack <= peer.rcv /\ peer.rcv \in 0 .. Total + 1
    BY DEF Inv, AcksState, PeerState, Peers
  <1>3. PICK q : q = Input(pcb, m)
    OBVIOUS
  <1>4. Sound(q)
    BY <1>1, <1>2, <1>3, InputSound
  <1>5. Onward(pcb, q) /\ (Ends(q) => Ends(pcb) \/ m.ack = Total + 1)
    BY <1>1, <1>2, <1>3, InputEnds
  <1>6. m.ack = Total + 1 => peer.rcv = Total + 1
    BY <1>2, ConstantTypes
  <1>7. Becomes(q, acks \ {m})
    BY <1>3 DEF Receive
  <1>8. Ends(q) => peer.rcv = Total + 1
    BY <1>5, <1>6 DEF GoodEnd
  <1> QED
    BY <1>4, <1>5, <1>7, <1>8, SoundPipe

LEMMA SlowTimerPipe ==
    ASSUME Inv, GoodEnd, NEW due \in {"rtime", "persist", "poll", "tmr"}, SlowTimer(due)
    PROVE  PipeStep
  <1>1. Ready(pcb) /\ Resting(pcb) /\ Sound(pcb) /\ pcb.state \notin Over
    BY DEF Inv, PcbState, Ready, SlowTimer
  <1>2. pcb.lbb \in Nat /\ pcb.state \in States /\ IsPcb(pcb)
    BY <1>1, SoundNumbers
  <1>3. \/ Becomes(Abort(pcb), acks)
        \/ Becomes(Probe(pcb), acks)
        \/ Becomes(RetransmitAll(pcb), acks)
        \/ Becomes(Poll(pcb), acks)
        \/ pcb.state = "FIN_WAIT_2" /\ Becomes(Purge(pcb, "timed out"), acks)
        \/ pcb.state = "LAST_ACK" /\ Becomes(Purge(pcb, "aborted"), acks)
    BY DEF SlowTimer
  <1>4. CASE Becomes(RetransmitAll(pcb), acks)
    <2>1. PICK q : q = RetransmitAll(pcb)
      OBVIOUS
    <2>2. Sound(q) /\ Keeps(pcb, q, SendFields \cup {"nrtx", "cwnd"})
      BY <1>1, <2>1, RetransmitAllSound
    <2>3. q.lbb = pcb.lbb /\ q.state = pcb.state /\ q.early = pcb.early
      BY <2>2 DEF Keeps, SendFields, Fields
    <2>4. Becomes(q, acks) /\ pcb.lbb <= q.lbb
      BY <1>2, <1>4, <2>1, <2>3
    <2> QED
      BY <1>1, <2>2, <2>3, <2>4, WrittenPipe
  <1>5. CASE Becomes(Poll(pcb), acks)
    <2>1. PICK q : q = Poll(pcb)
      OBVIOUS
    <2>2. Sound(q) /\ WrittenOn(pcb, q) /\ Keeps(pcb, q, EventFields)
      BY <1>1, <2>1, PollSound
    <2>3. q.early = pcb.early
      BY <2>2 DEF Keeps, EventFields, WriteFields, CloseFields, SendFields, Fields
    <2>4. Becomes(q, acks)
      BY <1>5, <2>1
    <2> QED
      BY <1>1, <2>2, <2>3, <2>4, WrittenPipe
  <1>6. CASE Becomes(Probe(pcb), acks)
    <2>1. PICK q : q = Probe(pcb)
      OBVIOUS
    <2>2. q = pcb \/ \E out : q = [pcb EXCEPT !.out = out]
      BY <2>1 DEF Probe
    <2>3. Keeps(pcb, q, {"out"})
      BY <1>2, <2>2 DEF Keeps, IsPcb, Fields
    <2>4. q.lbb = pcb.lbb /\ q.state = pcb.state /\ q.early = pcb.early /\ IsPcb(q)
      BY <2>3 DEF Keeps, Fields
    <2>5. pcb.state \in Writable \cup Closing /\ pcb.lbb <= q.lbb
      BY <1>1, <1>2, <2>4 DEF States
    <2>6. Onward(pcb, q)
      BY <2>4, <2>5 DEF Onward
    <2>7. Ends(q) => peer.rcv = Total + 1
      BY <2>4 DEF Ends, GoodEnd
    <2>8. Becomes(q, acks) /\ q.lbb \in Nat /\ q.state \in States
      BY <1>2, <1>6, <2>1, <2>4
    <2> QED
      BY <2>4, <2>6, <2>7, <2>8, OnwardPipe DEF PipeStep
  <1> QED
    BY <1>1, <1>3, <1>4, <1>5, <1>6, AbortPipe, PurgePipe DEF GivenUp

LEMMA ClientStepsPipe ==
    ASSUME Inv, GoodEnd, Inv',
           (\E seg \in wire : ClientTakes(seg)) \/ ClientReads \/ ClientEnds \/ Lose
    PROVE  PipeStep
  <1>1. PeerState(peer, pcb.lbb) /\ peer \in Peers /\ peer.rcv \in Int
    BY ConstantTypes DEF Inv, PeerState, Peers
  <1>2. CASE \E seg \in wire : ClientTakes(seg)
    <2>1. PICK seg \in wire : ClientTakes(seg)
      BY <1>2
    <2>2. PICK lbb \in Nat : lbb = pcb.lbb /\ lbb <= Total + 1
      BY LbbTypes DEF Inv, PcbState, Ready
    <2>3. seg \in Segments /\ EndOf(seg) <= lbb /\ peer.rcv <= lbb
      BY <1>1, <2>2 DEF Inv, WireState, PeerState
    <2>4. EndOf(seg) \in Int
      BY <2>3, SegmentTypes
    <2>5. EndOf(seg) <= Total + 1 /\ peer.rcv <= Total + 1
      BY <1>1, <2>2, <2>3, <2>4, ConstantTypes
    <2>6. peer.rcv <= peer'.rcv /\ pcb' = pcb
      BY <1>1, <2>1, <2>3, <2>5, TakesFrame
    <2> QED
      BY <2>6, ClientPipe DEF PipeStep
  <1>3. CASE ClientReads
    <2>1. PICK r : r = Min2(peer.rcv, Total)
      OBVIOUS
    <2>2. peer' = [peer EXCEPT !.read = r] /\ pcb' = pcb
      BY <1>3, <2>1 DEF ClientReads
    <2>3. peer'.rcv = peer.rcv
      BY <1>1, <2>2 DEF Peers
    <2> QED
      BY <1>1, <2>2, <2>3, ClientPipe DEF PipeStep
  <1>4. CASE ClientEnds
    <2>1. peer' = [peer EXCEPT !.fin = TRUE] /\ pcb' = pcb
      BY <1>4 DEF ClientEnds
    <2>2. peer'.rcv = peer.rcv
      BY <1>1, <2>1 DEF Peers
    <2> QED
      BY <1>1, <2>1, <2>2, ClientPipe DEF PipeStep
  <1>5. CASE Lose
    <2>1. pcb' = pcb /\ peer' = peer
      BY <1>5 DEF Lose
    <2> QED
      BY <1>1, <2>1, ClientPipe DEF PipeStep
  <1> QED
    BY <1>2, <1>3, <1>4, <1>5

\* After a close that went through to its end the client has all of the file,
\* whatever was lost and overtaken; nothing is taken from the writer when the
\* close has begun (tcp_process, tcp_close, do_writemore).
THEOREM FileArrives == Spec => ImplementsPipe
  <1>1. Init => GoodEnd /\ Connection!Init
    <2> SUFFICES ASSUME Init PROVE GoodEnd /\ Connection!Init
      OBVIOUS
    <2>1. pcb.state = "ESTABLISHED" /\ pcb.lbb = 0 /\ peer.rcv = 0
      BY DEF Init
    <2>2. Min2(0, Total) = 0
      BY ConstantTypes DEF Min2
    <2>3. Phase(pcb) = "open"
      BY <2>1, PhaseOf DEF Writable
    <2> QED
      BY <2>1, <2>2, <2>3 DEF GoodEnd, Ends, Connection!Init, Written, Delivered
  <1>2. Inv /\ Inv' /\ GoodEnd /\ [Next]_vars
          => GoodEnd' /\ [Connection!Next]_<<Written, Delivered, Phase(pcb)>>
    <2> SUFFICES ASSUME Inv, Inv', GoodEnd, [Next]_vars PROVE PipeStep
      BY DEF PipeStep
    <2>1. CASE UNCHANGED vars
      BY <2>1 DEF vars, PipeStep, GoodEnd, Ends, Written, Delivered
    <2>2. CASE Next
      <3>1. CASE Reset
        BY <3>1, AbortPipe DEF Reset
      <3> QED
        BY <2>2, <3>1, WritePipe, CloseConnectionPipe, ReceivePipe, SlowTimerPipe,
           ClientStepsPipe DEF Next
    <2> QED
      BY <2>1, <2>2
  <1> QED
    BY <1>1, <1>2, SendInvariant, PTL DEF Spec, ImplementsPipe, Connection!Spec, Connection!pipe

-----------------------------------------------------------------------------
(* What the client has announced                                           *)

\* Where the client's buffer ends, and the right edge of its window.
Reach(c) == c.read + PeerBuf
Edge(c) == c.rcv + Window(c)

\* A window does not go beyond the buffer, unless it is shut and nothing is left
\* that could.
Allows(c, ack, wnd) ==
    \/ ack + wnd <= Reach(c)
    \/ wnd = 0 /\ Total <= Reach(c)

\* What the client may have.
Room(c, n) == n < Reach(c) \/ (n = Total /\ Total <= Reach(c))

\* A message of a client that has not ended its side, and what was learned of
\* such.
Word(c, m) ==
    /\ ~m.fin /\ m.seq = 0
    /\ Allows(c, m.ack, m.wnd) /\ m.ack + m.wnd <= Edge(c)
Granted(c, p) ==
    /\ p.wl1 = 0 /\ p.lastack <= p.wl2 /\ p.wl2 <= c.rcv
    /\ Allows(c, p.wl2, p.wnd) /\ p.wl2 + p.wnd <= Edge(c)

\* What acknowledges more takes nothing of the window back.
LaterAll(ack, wnd, s) == \A m \in s : ack < m.ack => ack + wnd <= m.ack + m.wnd

\* What goes to the client: in its buffer, or a probe; a FIN is at the end.
WithinReach(c, w) ==
    \A seg \in w : /\ seg.pbufs > 0 => seg.seq + seg.len <= Reach(c)
                   /\ seg.fin => seg.seq + seg.len = Total

Windows(p, c, s) ==
    /\ Granted(c, p)
    /\ \A m \in s : Word(c, m) /\ LaterAll(m.ack, m.wnd, s)
    /\ LaterAll(p.wl2, p.wnd, s)
HasRoom(c) == \A n \in c.beyond \cup 0 .. c.rcv - 1 : Room(c, n)

WindowInv ==
    ~peer.fin => Windows(pcb, peer, acks) /\ HasRoom(peer) /\ WithinReach(peer, wire)

\* tcp_receive takes over what a message announces, or leaves the window.
Learned(p, m, q) ==
    /\ \/ q.wl1 = p.wl1 /\ q.wl2 = p.wl2 /\ q.wnd = p.wnd
       \/ /\ q.wl1 = m.seq /\ q.wl2 = m.ack /\ q.wnd = m.wnd
          /\ \/ p.wl1 < m.seq
             \/ p.wl2 < m.ack
             \/ p.wl2 = m.ack /\ p.wnd < m.wnd
    /\ q.lastack = p.lastack \/ (q.lastack = m.ack /\ p.lastack < m.ack)
    /\ m.seq = 0 /\ p.wl1 = 0 => m.ack <= q.wl2

LEMMA WindowUpdateLearns ==
    ASSUME NEW p, Ready(p), NEW m \in Messages
    PROVE  Learned(p, m, WindowUpdate(p, m))
  <1>1. /\ IsPcb(p) /\ p.wl1 \in Int /\ p.wl2 \in Int /\ p.wnd \in Int
        /\ m.seq \in Int /\ m.ack \in Int /\ m.wnd \in Int
    BY ConstantTypes DEF Ready, Sound, Counters, Messages
  <1>2. PICK q : q = WindowUpdate(p, m)
    OBVIOUS
  <1>3. q.lastack = p.lastack
    BY <1>2, WindowUpdateSound DEF Keeps, WindowFields, Fields
  <1>4. CASE \/ p.wl1 < m.seq
             \/ p.wl1 = m.seq /\ p.wl2 < m.ack
             \/ p.wl2 = m.ack /\ m.wnd > p.wnd
    <2>1. PICK x : x = (p.persist /\ m.wnd = 0)
      OBVIOUS
    <2>2. q = [p EXCEPT !.wnd = m.wnd, !.wl1 = m.seq, !.wl2 = m.ack, !.persist = x]
      BY <1>2, <1>4, <2>1 DEF WindowUpdate
    <2>3. q.wnd = m.wnd /\ q.wl1 = m.seq /\ q.wl2 = m.ack
      BY <1>1, <2>2 DEF IsPcb, Fields
    <2> QED
      BY <1>1, <1>2, <1>3, <1>4, <2>3 DEF Learned
  <1>5. CASE ~(\/ p.wl1 < m.seq
               \/ p.wl1 = m.seq /\ p.wl2 < m.ack
               \/ p.wl2 = m.ack /\ m.wnd > p.wnd)
    <2>1. q = p
      BY <1>2, <1>5 DEF WindowUpdate
    <2> QED
      BY <1>1, <1>2, <1>5, <2>1 DEF Learned
  <1> QED
    BY <1>4, <1>5

\* The rest of it only takes the acknowledged over.
LEMMA AckUnackedLearns ==
    ASSUME NEW p, Ready(p), p.state \notin Over, NEW m \in Messages, NEW edge
    PROVE  LET q == AckUnacked(p, m, edge)
           IN  q.lastack = p.lastack \/ (q.lastack = m.ack /\ p.lastack < m.ack)
  <1>1. /\ IsPcb(p) /\ p.lastack \in Int /\ p.nxt \in Int /\ m.ack \in Int
        /\ Sound(p) /\ p.out = {}
    BY SoundNumbers, ConstantTypes DEF Ready, Messages
  <1>2. PICK q : q = AckUnacked(p, m, edge)
    OBVIOUS
  <1>7. m.ack \in p.lastack + 1 .. p.nxt => ~(m.ack <= p.lastack)
    BY <1>1
  <1>3. CASE m.ack <= p.lastack /\ IsDuplicate(p, m, edge)
    <2>1. q = Duplicate(p)
      BY <1>2, <1>3, <1>7 DEF AckUnacked
    <2>2. Keeps(p, q, DuplicateFields)
      BY <1>1, <2>1, DuplicateSound
    <2> QED
      BY <1>2, <2>2 DEF Keeps, DuplicateFields, Fields
  <1>4. CASE m.ack <= p.lastack /\ ~IsDuplicate(p, m, edge)
    <2>1. q = [p EXCEPT !.dupacks = 0]
      BY <1>2, <1>4, <1>7 DEF AckUnacked
    <2>2. q.lastack = p.lastack
      BY <1>1, <2>1 DEF IsPcb, Fields
    <2> QED
      BY <1>2, <2>2
  <1>5. CASE ~(m.ack <= p.lastack) /\ m.ack \in p.lastack + 1 .. p.nxt
    <2>1. q = NewAck(p, m.ack, Unacked(p.unacked, m.ack))
      BY <1>2, <1>5 DEF AckUnacked
    <2>2. q.lastack = m.ack
      BY <1>5, <2>1, NewAckReady
    <2> QED
      BY <1>1, <1>2, <1>5, <2>2
  <1>6. CASE ~(m.ack <= p.lastack) /\ m.ack \notin p.lastack + 1 .. p.nxt
    <2>1. q = p
      BY <1>2, <1>6 DEF AckUnacked
    <2> QED
      BY <1>2, <2>1
  <1> QED
    BY <1>3, <1>4, <1>5, <1>6

LEMMA ProcessLearns ==
    ASSUME NEW p, Ready(p), p.state \notin Over, NEW m \in Messages
    PROVE  Learned(p, m, Process(p, m))
  <1>1. PICK q : q = WindowUpdate(p, m)
    OBVIOUS
  <1>2. Ready(q) /\ Keeps(p, q, WindowFields) /\ Learned(p, m, q)
    BY <1>1, WindowUpdateSound, WindowUpdateLearns
  <1>3. q.state = p.state /\ q.lastack = p.lastack
    BY <1>2 DEF Keeps, WindowFields, Fields
  <1>4. PICK edge : edge = p.wl2 + p.wnd
    OBVIOUS
  <1>5. PICK r : r = AckUnacked(q, m, edge)
    OBVIOUS
  <1>6. /\ Ready(r) /\ Keeps(q, r, AckFields)
        /\ m.ack <= r.nxt => m.ack <= r.lastack
    BY <1>2, <1>3, <1>5, AckUnackedReady
  <1>7. r.lastack = p.lastack \/ (r.lastack = m.ack /\ p.lastack < m.ack)
    BY <1>2, <1>3, <1>5, AckUnackedLearns
  <1>8. PICK ack \in Int : ack = m.ack
    BY ConstantTypes DEF Messages
  <1>9. PICK s : s = AckUnsent(r, ack)
    OBVIOUS
  <1>10. r.state = p.state
    BY <1>3, <1>6 DEF Keeps, AckFields, DuplicateFields, Fields
  <1>11. Ready(s) /\ Keeps(r, s, {"unacked", "unsent", "qlen", "acked"})
    BY <1>6, <1>8, <1>9, <1>10, AckUnsentReady
  <1>12. PICK t : t = ReceiveFin(s, m)
    OBVIOUS
  <1>13. Ready(t) /\ Keeps(s, t, FinFields)
    BY <1>11, <1>12, ReceiveFinReady
  <1>14. PICK x : x = (t.early \/ (FinAcked(t, m) /\ t.state \in Closing /\ t.unsent # <<>>))
    OBVIOUS
  <1>15. PICK u : u = [t EXCEPT !.early = x]
    OBVIOUS
  <1>16. Keeps(t, u, {"early"})
    BY <1>13, <1>15 DEF Ready, Sound, Keeps, IsPcb, Fields
  <1>17. Ready(u)
    <2>1. Keeps(t, u, MarkFields)
      BY <1>16 DEF Keeps, MarkFields
    <2>2. u.out = t.out
      BY <1>16 DEF Keeps, Fields
    <2> QED
      BY <1>13, <2>1, <2>2, MarksSound DEF Ready
  <1>18. PICK v : v = NewState(u, p.rcv # t.rcv, FinAcked(t, m))
    OBVIOUS
  <1>19. Keeps(u, v, PurgeFields)
    BY <1>17, <1>18, NewStateReady
  <1>20. t.rcv # p.rcv <=> p.rcv # t.rcv
    OBVIOUS
  <1>21. Process(p, m) = v
    <2>1. ReceiveAck(p, m) = s
      BY <1>1, <1>4, <1>5, <1>8, <1>9 DEF ReceiveAck
    <2>2. Process(p, m) = Advance(t, p.rcv # t.rcv, FinAcked(t, m)) \/ Process(p, m) = Advance(t, t.rcv # p.rcv, FinAcked(t, m))
      BY <1>12, <2>1 DEF Process, Received
    <2>3. Process(p, m) = Advance(t, p.rcv # t.rcv, FinAcked(t, m))
      BY <1>20, <2>2
    <2> QED
      BY <1>14, <1>15, <1>18, <2>3 DEF Advance
  <1>22. /\ v.wl1 = q.wl1 /\ v.wl2 = q.wl2 /\ v.wnd = q.wnd
         /\ v.lastack = r.lastack
    BY <1>6, <1>11, <1>13, <1>16, <1>19
       DEF Keeps, AckFields, DuplicateFields, FinFields, PurgeFields, Fields
  <1> QED
    BY <1>2, <1>7, <1>21, <1>22 DEF Learned

LEMMA InputLearns ==
    ASSUME NEW p, Ready(p), p.state \notin Over, NEW m \in Messages
    PROVE  Learned(p, m, Input(p, m))
  <1>1. PICK q : q = [p EXCEPT !.input = TRUE]
    OBVIOUS
  <1>2. Ready(q) /\ Keeps(p, q, {"input"}) /\ q.input
    BY <1>1, InputBegins
  <1>3. q.state \notin Over
    BY <1>2 DEF Keeps, Fields
  <1>4. PICK r : r = Process(q, m)
    OBVIOUS
  <1>5. Ready(r) /\ Keeps(q, r, ProcessFields) /\ Learned(q, m, r)
    BY <1>2, <1>3, <1>4, ProcessReady, ProcessLearns
  <1>6. PICK got : got = (p.rcv # r.rcv)
    OBVIOUS
  <1>7. PICK s : s = Events(r, got)
    OBVIOUS
  <1>8. Sound(s) /\ Keeps(r, s, EventFields)
    BY <1>5, <1>7, EventsSound DEF Ready
  <1>9. PICK t : t = Return(s)
    OBVIOUS
  <1>10. s.input
    <2>1. r.input = q.input
      BY <1>5 DEF Keeps, ProcessFields, ReceiveFields, AckFields, DuplicateFields,
                  WindowFields, FinFields, PurgeFields, Fields
    <2>2. s.input = r.input
      BY <1>8 DEF Keeps, EventFields, WriteFields, CloseFields, SendFields, Fields
    <2> QED
      BY <1>2, <2>1, <2>2
  <1>11. Keeps(s, t, SendFields \cup {"input", "acked"})
    BY <1>8, <1>9, <1>10, ReturnSound
  <1>12. Input(p, m) = t
    <2>1. Input(p, m) = Indicate(r, p.rcv)
      BY <1>1, <1>4 DEF Input
    <2>2. q.rcv = p.rcv
      BY <1>2 DEF Keeps, Fields
    <2>3. Indicate(r, p.rcv) = Return(Events(r, r.rcv # p.rcv)) \/ Indicate(r, p.rcv) = Return(Events(r, p.rcv # r.rcv))
      BY DEF Indicate
    <2>4. (r.rcv # p.rcv) = got
      BY <1>6
    <2> QED
      BY <1>6, <1>7, <1>9, <2>1, <2>3, <2>4
  <1>13. t.wl1 = r.wl1 /\ t.wl2 = r.wl2 /\ t.wnd = r.wnd /\ t.lastack = r.lastack
    BY <1>8, <1>11 DEF Keeps, EventFields, WriteFields, CloseFields, SendFields, Fields
  <1>14. q.wl1 = p.wl1 /\ q.wl2 = p.wl2 /\ q.wnd = p.wnd /\ q.lastack = p.lastack
    BY <1>2 DEF Keeps, Fields
  <1> QED
    BY <1>5, <1>12, <1>13, <1>14 DEF Learned

\* The numbers of client and pcb.
LEMMA NumberTypes ==
    ASSUME Inv
    PROVE  /\ peer.rcv \in Int /\ peer.read \in Int /\ Window(peer) \in Nat
           /\ PeerBuf \in Int /\ Total \in Int
           /\ Reach(peer) \in Int /\ Edge(peer) \in Int
           /\ pcb.wl1 \in Int /\ pcb.wl2 \in Int /\ pcb.wnd \in Int /\ pcb.lastack \in Int
           /\ \A m \in acks : m \in Messages /\ m.seq \in Int /\ m.ack \in Int /\ m.wnd \in Int
                              /\ m.ack <= peer.rcv
           /\ \A n \in peer.beyond : n \in Int
           /\ \A seg \in wire : seg \in Segments
  <1>1. peer \in Peers
    BY DEF Inv, PeerState
  <1>2. peer.rcv \in Int /\ peer.read \in Int /\ \A n \in peer.beyond : n \in Int
    BY <1>1, ConstantTypes DEF Peers
  <1>3. PeerBuf \in Int /\ Total \in Int
    BY ConstantTypes
  <1>4. Window(peer) \in Nat
    BY <1>2, <1>3 DEF Window, Max2
  <1>5. Reach(peer) \in Int /\ Edge(peer) \in Int
    BY <1>2, <1>3, <1>4 DEF Reach, Edge
  <1>6. pcb.wl1 \in Int /\ pcb.wl2 \in Int /\ pcb.wnd \in Int /\ pcb.lastack \in Int
    BY ConstantTypes DEF Inv, PcbState, Ready, Sound, Counters, Numbers
  <1>7. /\ \A m \in acks : m \in Messages /\ m.ack <= peer.rcv
        /\ \A seg \in wire : seg \in Segments
    BY DEF Inv, AcksState, WireState
  <1>8. \A m \in acks : m.seq \in Int /\ m.ack \in Int /\ m.wnd \in Int
    BY <1>7, ConstantTypes DEF Messages
  <1> QED
    BY <1>2, <1>3, <1>4, <1>5, <1>6, <1>7, <1>8

LEMMA CarrySome ==
    ASSUME NEW old, NEW new, NEW size, NEW w \in Carry(old, new, size)
    PROVE  w \subseteq old \cup new
  <1> DEFINE others == old \ new
             k == Min2(Max2(0, size - Cardinality(new)), Cardinality(others))
  <1>1. PICK kept \in kSubset(k, others) : w = new \cup kept
    BY DEF Carry
  <1>2. kept \in SUBSET others
    BY <1>1 DEF kSubset
  <1> QED
    BY <1>1, <1>2

\* What a sound pcb sends goes no further than what it has learned allows.
LEMMA SentWithin ==
    ASSUME NEW c \in Peers, NEW p, Sound(p), p.state \notin Over, Granted(c, p)
    PROVE  WithinReach(c, p.out)
  <1>1. /\ p.lastack \in Int /\ p.wl2 \in Int /\ p.wnd \in Int
    BY ConstantTypes DEF Sound, Counters, Numbers
  <1>2. Reach(c) \in Int /\ Total \in Int
    BY ConstantTypes DEF Reach, Peers
  <1>3. SUFFICES ASSUME NEW seg \in p.out
                 PROVE  seg.seq + seg.len <= Reach(c) /\ (seg.fin => seg.seq + seg.len = Total)
    BY DEF WithinReach
  <1>4. seg \in ToSet(p.unacked) /\ seg.seq + seg.len <= p.lastack + p.wnd
    BY DEF Sound, Sendable
  <1>5. seg \in Segments /\ Whole(p.lbb, seg)
    <2>1. Filled(p) /\ p.unacked \in Queues
      BY DEF Sound, QueuesState, QueuesType
    <2> QED
      BY <1>4, <2>1, QueueTypes DEF Filled, InQueues
  <1>6. seg.seq \in Int /\ seg.len \in Int
    BY <1>5, SegmentTypes
  <1>7. seg.seq + seg.len <= Total /\ (seg.fin => seg.seq + seg.len = Total)
    BY <1>5 DEF Whole
  <1>8. p.lastack <= p.wl2 /\ (p.wl2 + p.wnd <= Reach(c) \/ Total <= Reach(c))
    BY DEF Granted, Allows
  <1> QED
    BY <1>1, <1>2, <1>4, <1>6, <1>7, <1>8

\* A step of the thread that leaves the client's words to the pcb.
LEMMA ThreadWindows ==
    ASSUME WindowInv, NEW q, IsPcb(q), NEW left, Becomes(q, left),
           ~peer.fin => Windows(q, peer, left),
           ~peer.fin => q.state \in Over \/ WithinReach(peer, q.out)
    PROVE  WindowInv'
  <1>1. peer' = peer
    BY DEF Becomes
  <1>2. SUFFICES ASSUME ~peer.fin
                 PROVE  Windows(pcb', peer, acks') /\ HasRoom(peer) /\ WithinReach(peer, wire')
    BY <1>1 DEF WindowInv
  <1>3. HasRoom(peer) /\ WithinReach(peer, wire)
    BY <1>2 DEF WindowInv
  <1>4. PICK r : r = [q EXCEPT !.out = {}]
    OBVIOUS
  <1>5. pcb' = r /\ r.wl1 = q.wl1 /\ r.wl2 = q.wl2 /\ r.wnd = q.wnd /\ r.lastack = q.lastack
    BY <1>4 DEF Becomes, IsPcb, Fields
  <1>6. acks' \subseteq left
    BY DEF Becomes
  <1>7. Windows(pcb', peer, acks')
    <2>1. Windows(q, peer, left)
      BY <1>2
    <2>2. Granted(peer, r)
      BY <1>5, <2>1 DEF Windows, Granted
    <2>3. \A m \in acks' : Word(peer, m) /\ LaterAll(m.ack, m.wnd, acks')
      BY <1>6, <2>1 DEF Windows, LaterAll
    <2>4. LaterAll(r.wl2, r.wnd, acks')
      BY <1>5, <1>6, <2>1 DEF Windows, LaterAll
    <2> QED
      BY <1>5, <2>2, <2>3, <2>4 DEF Windows
  <1>8. WithinReach(peer, wire')
    <2>1. CASE q.state \in Over
      <3>1. wire' = {}
        BY <2>1 DEF Becomes
      <3> QED
        BY <3>1 DEF WithinReach
    <2>2. CASE q.state \notin Over
      <3>1. wire' \in Carry(wire, q.out, WireSize)
        BY <2>2 DEF Becomes
      <3>2. wire' \subseteq wire \cup q.out
        BY <3>1, CarrySome
      <3>3. WithinReach(peer, q.out)
        BY <1>2, <2>2
      <3> QED
        BY <1>3, <3>2, <3>3 DEF WithinReach
    <2> QED
      BY <2>1, <2>2
  <1> QED
    BY <1>3, <1>7, <1>8

\* One that changes nothing of the windows.
WindowNumbers == {"wl1", "wl2", "wnd", "lastack"}

LEMMA SameWindows ==
    ASSUME Inv, WindowInv, NEW q, NEW F, Keeps(pcb, q, F), F \cap WindowNumbers = {},
           \/ Sound(q)
           \/ q.state \in Over
           \/ \A seg \in q.out : ~(seg.pbufs > 0) /\ (seg.fin => seg.seq + seg.len = Total),
           Becomes(q, acks)
    PROVE  WindowInv'
  <1>1. q.wl1 = pcb.wl1 /\ q.wl2 = pcb.wl2 /\ q.wnd = pcb.wnd /\ q.lastack = pcb.lastack /\ IsPcb(q)
    BY DEF Keeps, Fields, WindowNumbers
  <1>2. ASSUME ~peer.fin PROVE Windows(q, peer, acks)
    BY <1>1, <1>2 DEF WindowInv, Windows, Granted
  <1>3. ASSUME ~peer.fin PROVE q.state \in Over \/ WithinReach(peer, q.out)
    <2>1. peer \in Peers
      BY DEF Inv, PeerState
    <2>2. Granted(peer, q)
      BY <1>2, <1>3 DEF Windows
    <2>3. CASE Sound(q) /\ q.state \notin Over
      BY <2>1, <2>2, <2>3, SentWithin
    <2>4. CASE \A seg \in q.out : ~(seg.pbufs > 0) /\ (seg.fin => seg.seq + seg.len = Total)
      BY <2>4 DEF WithinReach
    <2> QED
      BY <2>3, <2>4
  <1> QED
    BY <1>1, <1>2, <1>3, ThreadWindows

LEMMA WriteWindows ==
    ASSUME Inv, WindowInv, Write
    PROVE  WindowInv'
  <1>1. PICK p : p = [pcb EXCEPT !.left = Min2(WriteLen, Total - pcb.lbb)]
    OBVIOUS
  <1>2. WriteDue
    BY DEF Write
  <1>3. Sound(p) /\ Keeps(pcb, p, {"left"}) /\ p.state \in Writable
    BY <1>1, <1>2, WriteBegins
  <1>4. PICK q : q = WriteMore(p)
    OBVIOUS
  <1>5. Sound(q) /\ Keeps(p, q, WriteFields)
    BY <1>3, <1>4, WriteMoreSound
  <1>6. Becomes(q, acks)
    BY <1>1, <1>4 DEF Write
  <1>7. Keeps(pcb, q, {"left"} \cup WriteFields)
    BY <1>3, <1>5, KeepsTransitive
  <1>8. ({"left"} \cup WriteFields) \cap WindowNumbers = {}
    BY DEF WriteFields, SendFields, WindowNumbers
  <1> QED
    BY <1>5, <1>6, <1>7, <1>8, SameWindows

LEMMA CloseConnectionWindows ==
    ASSUME Inv, WindowInv, CloseConnection
    PROVE  WindowInv'
  <1>1. Sound(pcb)
    BY DEF Inv, PcbState, Ready
  <1>2. pcb.lbb = Total /\ pcb.left = 0
    BY DEF CloseConnection, CloseDue, TaskRuns
  <1>3. PICK q : q = Close(pcb)
    OBVIOUS
  <1>4. Sound(q) /\ Keeps(pcb, q, CloseFields \cup {"closing"})
    BY <1>1, <1>2, <1>3, CloseSound
  <1>5. Becomes(q, acks)
    BY <1>3 DEF CloseConnection
  <1>6. (CloseFields \cup {"closing"}) \cap WindowNumbers = {}
    BY DEF CloseFields, SendFields, WindowNumbers
  <1> QED
    BY <1>4, <1>5, <1>6, SameWindows

\* A connection that is over.
LEMMA OverWindows ==
    ASSUME Inv, WindowInv, NEW q, q.state \in Over, Keeps(pcb, q, PurgeFields \cup {"left", "closing"}),
           Becomes(q, acks)
    PROVE  WindowInv'
  <1>1. (PurgeFields \cup {"left", "closing"}) \cap WindowNumbers = {}
    BY DEF PurgeFields, WindowNumbers
  <1> QED
    BY <1>1, SameWindows

LEMMA AbortWindows ==
    ASSUME Inv, WindowInv, Becomes(Abort(pcb), acks)
    PROVE  WindowInv'
  <1>1. Ready(pcb) /\ Resting(pcb) /\ "aborted" \in Over
    BY DEF Inv, PcbState, Over
  <1> QED
    BY <1>1, AbortReady, OverWindows

LEMMA PurgeWindows ==
    ASSUME Inv, WindowInv, NEW state \in Over, Becomes(Purge(pcb, state), acks)
    PROVE  WindowInv'
  <1>1. Ready(pcb)
    BY DEF Inv, PcbState
  <1>2. Keeps(pcb, Purge(pcb, state), PurgeFields \cup {"left", "closing"})
    BY <1>1, PurgeReady, KeepsFewer
  <1> QED
    BY <1>1, <1>2, PurgeReady, OverWindows

LEMMA ProbeWindows ==
    ASSUME Inv, WindowInv, pcb.state \notin Over, Becomes(Probe(pcb), acks)
    PROVE  WindowInv'
  <1>1. PICK u : u = pcb.unacked \o pcb.unsent
    OBVIOUS
  <1>2. Sound(pcb) /\ IsPcb(pcb) /\ pcb.out = {} /\ Filled(pcb)
    BY DEF Inv, PcbState, Ready, Sound, QueuesState
  <1>3. PICK a \in Queues, b \in Queues : a = pcb.unacked /\ b = pcb.unsent
    BY <1>2 DEF Sound, QueuesType
  <1>4. u \in Queues /\ ToSet(u) = ToSet(a) \cup ToSet(b)
    BY <1>1, <1>3, GathersConcat DEF Gathers
  <1>5. PICK q : q = Probe(pcb)
    OBVIOUS
  <1>6. CASE u = <<>>
    <2>1. q = pcb
      BY <1>1, <1>5, <1>6 DEF Probe
    <2>2. Keeps(pcb, q, {})
      BY <1>2, <2>1 DEF Keeps
    <2>3. {} \cap WindowNumbers = {} /\ Sound(q) /\ Becomes(q, acks)
      BY <1>2, <1>5, <2>1
    <2> QED
      BY <2>2, <2>3, SameWindows
  <1>7. CASE u # <<>>
    <2>1. PICK seg \in Segments : seg = Head(u) /\ seg \in ToSet(u)
      BY <1>4, <1>7, HeadTailElements DEF Queues
    <2>2. PICK s : s = [seq |-> seg.seq, len |-> Min2(seg.len, 1), fin |-> seg.len = 0, pbufs |-> 0]
      OBVIOUS
    <2>3. q = [pcb EXCEPT !.out = {s}]
      BY <1>1, <1>2, <1>5, <1>7, <2>1, <2>2 DEF Probe
    <2>4. Keeps(pcb, q, {"out"}) /\ q.out = {s}
      BY <1>2, <2>3 DEF Keeps, IsPcb, Fields
    <2>5. Whole(pcb.lbb, seg)
      BY <1>2, <1>3, <1>4, <2>1 DEF Filled, InQueues
    <2>6. s.fin => s.seq + s.len = Total
      <3>1. seg.seq \in Int /\ seg.len \in Int
        BY <2>1, SegmentTypes
      <3>2. ASSUME seg.len = 0 PROVE seg.fin
        BY <2>5, <3>1, <3>2 DEF Whole, EndOf
      <3>3. ASSUME seg.len = 0 PROVE seg.seq + 0 = Total
        BY <2>5, <3>1, <3>2, <3>3 DEF Whole
      <3>4. s.seq = seg.seq /\ s.len = Min2(seg.len, 1) /\ (s.fin <=> seg.len = 0)
        BY <2>2
      <3>5. seg.len = 0 => Min2(seg.len, 1) = 0
        BY DEF Min2
      <3> QED
        BY <3>3, <3>4, <3>5
    <2>7. s.pbufs = 0
      BY <2>2
    <2>8. \A x \in q.out : ~(x.pbufs > 0) /\ (x.fin => x.seq + x.len = Total)
      BY <2>4, <2>6, <2>7
    <2>9. {"out"} \cap WindowNumbers = {} /\ Becomes(q, acks)
      BY <1>5 DEF WindowNumbers
    <2> QED
      BY <2>4, <2>8, <2>9, SameWindows
  <1> QED
    BY <1>6, <1>7

LEMMA SlowTimerWindows ==
    ASSUME Inv, WindowInv, NEW due \in {"rtime", "persist", "poll", "tmr"}, SlowTimer(due)
    PROVE  WindowInv'
  <1>1. Ready(pcb) /\ Resting(pcb) /\ Sound(pcb) /\ pcb.state \notin Over
    BY DEF Inv, PcbState, Ready, SlowTimer
  <1>2. \/ Becomes(Abort(pcb), acks)
        \/ Becomes(Probe(pcb), acks)
        \/ Becomes(RetransmitAll(pcb), acks)
        \/ Becomes(Poll(pcb), acks)
        \/ \E state \in {"timed out", "aborted"} : Becomes(Purge(pcb, state), acks)
    BY DEF SlowTimer
  <1>3. CASE Becomes(RetransmitAll(pcb), acks)
    <2>1. PICK q : q = RetransmitAll(pcb)
      OBVIOUS
    <2>2. Sound(q) /\ Keeps(pcb, q, SendFields \cup {"nrtx", "cwnd"})
      BY <1>1, <2>1, RetransmitAllSound
    <2>3. (SendFields \cup {"nrtx", "cwnd"}) \cap WindowNumbers = {} /\ Becomes(q, acks)
      BY <1>3, <2>1 DEF SendFields, WindowNumbers
    <2> QED
      BY <2>2, <2>3, SameWindows
  <1>4. CASE Becomes(Poll(pcb), acks)
    <2>1. PICK q : q = Poll(pcb)
      OBVIOUS
    <2>2. Sound(q) /\ Keeps(pcb, q, EventFields)
      BY <1>1, <2>1, PollSound
    <2>3. EventFields \cap WindowNumbers = {} /\ Becomes(q, acks)
      BY <1>4, <2>1 DEF EventFields, WriteFields, CloseFields, SendFields, WindowNumbers
    <2> QED
      BY <2>2, <2>3, SameWindows
  <1>5. {"timed out", "aborted"} \subseteq Over
    BY DEF Over
  <1>6. CASE \E state \in {"timed out", "aborted"} : Becomes(Purge(pcb, state), acks)
    BY <1>5, <1>6, PurgeWindows
  <1> QED
    BY <1>1, <1>2, <1>3, <1>4, <1>6, AbortWindows, ProbeWindows

LEMMA ReceiveWindows ==
    ASSUME Inv, WindowInv, NEW m \in acks, Receive(m)
    PROVE  WindowInv'
  <1>1. Ready(pcb) /\ Resting(pcb) /\ pcb.state \notin Over /\ m \in Messages
    BY DEF Inv, PcbState, Receive, AcksState
  <1>2. PICK q : q = Input(pcb, m)
    OBVIOUS
  <1>3. Sound(q) /\ IsPcb(q) /\ Learned(pcb, m, q)
    BY <1>1, <1>2, InputSound, InputLearns DEF Sound
  <1>4. Becomes(q, acks \ {m})
    BY <1>2 DEF Receive
  <1>5. ASSUME ~peer.fin PROVE Windows(q, peer, acks \ {m})
    <2>1. Windows(pcb, peer, acks)
      BY <1>5 DEF WindowInv
    <2>2. Granted(peer, pcb) /\ Word(peer, m) /\ LaterAll(pcb.wl2, pcb.wnd, acks)
          /\ LaterAll(m.ack, m.wnd, acks)
      BY <2>1 DEF Windows
    <2>3. /\ pcb.wl1 = 0 /\ m.seq = 0 /\ pcb.lastack <= pcb.wl2 /\ pcb.wl2 <= peer.rcv
          /\ m.ack <= peer.rcv
          /\ m.ack \in Int /\ pcb.wl2 \in Int /\ pcb.lastack \in Int /\ pcb.wnd \in Int /\ m.wnd \in Int
      BY <2>2, NumberTypes DEF Granted, Word
    <2>4. CASE q.wl1 = pcb.wl1 /\ q.wl2 = pcb.wl2 /\ q.wnd = pcb.wnd
      <3>1. q.lastack <= q.wl2
        BY <1>3, <2>3, <2>4 DEF Learned
      <3> QED
        BY <2>1, <2>2, <2>4, <3>1 DEF Windows, Granted, LaterAll
    <2>5. CASE /\ q.wl1 = m.seq /\ q.wl2 = m.ack /\ q.wnd = m.wnd
               /\ \/ pcb.wl1 < m.seq
                  \/ pcb.wl2 < m.ack
                  \/ pcb.wl2 = m.ack /\ pcb.wnd < m.wnd
      <3>1. q.lastack <= q.wl2
        BY <1>3, <2>3, <2>5 DEF Learned
      <3>2. Granted(peer, q)
        BY <2>2, <2>3, <2>5, <3>1 DEF Granted, Word
      <3> QED
        BY <2>1, <2>2, <2>5, <3>2 DEF Windows, LaterAll
    <2> QED
      BY <1>3, <2>4, <2>5 DEF Learned
  <1>6. ASSUME ~peer.fin PROVE q.state \in Over \/ WithinReach(peer, q.out)
    <2>1. peer \in Peers
      BY DEF Inv, PeerState
    <2>2. Granted(peer, q)
      BY <1>5, <1>6 DEF Windows
    <2> QED
      BY <1>3, <2>1, <2>2, SentWithin
  <1> QED
    BY <1>3, <1>4, <1>5, <1>6, ThreadWindows

\* What the client says is all that it can, and no less than before.
LEMMA SaysWord ==
    ASSUME NEW c \in Peers, ~c.fin, HasRoom(c)
    PROVE  /\ Word(c, Says(c, FALSE))
           /\ Says(c, FALSE).ack = c.rcv
           /\ Says(c, FALSE).ack + Says(c, FALSE).wnd = Edge(c)
  <1>1. c.rcv \in Int /\ c.read \in Int /\ PeerBuf \in Int /\ Total \in Int
    BY ConstantTypes DEF Peers
  <1>2. PICK w : w = Window(c)
    OBVIOUS
  <1>3. PICK m : m = Says(c, FALSE)
    OBVIOUS
  <1>4. m.seq = 0 /\ m.ack = c.rcv /\ m.wnd = w /\ m.fin = FALSE
    BY <1>2, <1>3 DEF Says
  <1>5. w \in Int /\ (c.rcv <= Reach(c) => c.rcv + w = Reach(c)) /\ (~(c.rcv <= Reach(c)) => w = 0)
    BY <1>1, <1>2 DEF Window, Max2, Reach
  <1>6. c.rcv + w = Edge(c)
    BY <1>2 DEF Edge
  <1>7. ASSUME ~(c.rcv <= Reach(c)) PROVE Total <= Reach(c)
    <2>1. c.rcv - 1 \in 0 .. c.rcv - 1
      <3>1. c.rcv \in Nat /\ c.read \in Nat /\ PeerBuf \in Nat
        BY ConstantTypes DEF Peers
      <3> QED
        BY <1>7, <3>1 DEF Reach
    <2>2. Room(c, c.rcv - 1)
      BY <2>1 DEF HasRoom
    <2> QED
      BY <1>1, <1>7, <2>2 DEF Room, Reach
  <1>8. Allows(c, c.rcv, w)
    BY <1>1, <1>5, <1>7 DEF Allows, Reach
  <1>9. Edge(c) \in Int /\ Edge(c) <= Edge(c)
    BY <1>1, <1>5, <1>6
  <1> QED
    BY <1>3, <1>4, <1>6, <1>8, <1>9 DEF Word

LEMMA EdgeGrows ==
    ASSUME NEW b \in Peers, NEW c \in Peers, b.rcv <= c.rcv, b.read <= c.read
    PROVE  /\ Edge(b) <= Edge(c) /\ Reach(b) <= Reach(c)
           /\ \A ack, wnd \in Int : Allows(b, ack, wnd) => Allows(c, ack, wnd)
           /\ \A n \in Int : Room(b, n) => Room(c, n)
           /\ \A w \in SUBSET Segments : WithinReach(b, w) => WithinReach(c, w)
  <1>1. /\ b.rcv \in Int /\ c.rcv \in Int /\ b.read \in Int /\ c.read \in Int
        /\ PeerBuf \in Int /\ Total \in Int
    BY ConstantTypes DEF Peers
  <1>2. Reach(b) \in Int /\ Reach(c) \in Int /\ Reach(b) <= Reach(c)
    BY <1>1 DEF Reach
  <1>3. Edge(b) <= Edge(c)
    BY <1>1 DEF Edge, Window, Max2
  <1>4. ASSUME NEW ack \in Int, NEW wnd \in Int, Allows(b, ack, wnd) PROVE Allows(c, ack, wnd)
    BY <1>1, <1>2, <1>4 DEF Allows
  <1>5. ASSUME NEW n \in Int, Room(b, n) PROVE Room(c, n)
    BY <1>1, <1>2, <1>5 DEF Room
  <1>6. ASSUME NEW w \in SUBSET Segments, WithinReach(b, w) PROVE WithinReach(c, w)
    <2>1. \A seg \in w : seg.seq \in Int /\ seg.len \in Int
      BY SegmentTypes
    <2> QED
      BY <1>2, <1>6, <2>1 DEF WithinReach
  <1> QED
    BY <1>2, <1>3, <1>4, <1>5, <1>6

\* A step of a client that has not ended its side.
LEMMA AnswerWindows ==
    ASSUME Inv, WindowInv, NEW c \in Peers, peer' = c, c.fin = peer.fin, pcb' = pcb,
           peer.rcv <= c.rcv, peer.read <= c.read, wire' \subseteq wire,
           ~c.fin => HasRoom(c), Answers(Says(c, FALSE))
    PROVE  WindowInv'
  <1>1. SUFFICES ASSUME ~c.fin
                 PROVE  Windows(pcb, c, acks') /\ HasRoom(c) /\ WithinReach(c, wire')
    BY DEF WindowInv
  <1>2. peer \in Peers
    BY DEF Inv, PeerState
  <1>3. /\ Edge(peer) <= Edge(c)
        /\ \A ack, wnd \in Int : Allows(peer, ack, wnd) => Allows(c, ack, wnd)
        /\ \A w \in SUBSET Segments : WithinReach(peer, w) => WithinReach(c, w)
    BY <1>2, EdgeGrows
  <1>4. Windows(pcb, peer, acks) /\ WithinReach(peer, wire)
    BY <1>1 DEF WindowInv
  <1>5. PICK m : m = Says(c, FALSE)
    OBVIOUS
  <1>6. Word(c, m) /\ m.ack = c.rcv /\ m.ack + m.wnd = Edge(c)
    BY <1>1, <1>5, SaysWord
  <1>7. acks' \subseteq acks \cup {m}
    <2>1. CASE pcb.state \in Over
      BY <2>1 DEF Answers
    <2>2. CASE pcb.state \notin Over
      <3>1. acks' \in Carry(acks, {m}, AcksSize)
        BY <1>5, <2>2 DEF Answers
      <3> QED
        BY <3>1, CarrySome
    <2> QED
      BY <2>1, <2>2
  <1>8. /\ Edge(peer) \in Int /\ Edge(c) \in Int /\ peer.rcv \in Int /\ c.rcv \in Int
        /\ pcb.wl2 \in Int /\ pcb.wnd \in Int /\ pcb.lastack \in Int
        /\ \A a \in acks : a.ack \in Int /\ a.wnd \in Int /\ a.ack <= peer.rcv
    <2>1. c.rcv \in Int /\ c.read \in Int /\ PeerBuf \in Int
      BY ConstantTypes DEF Peers
    <2>2. Edge(c) \in Int
      BY <2>1 DEF Edge, Window, Max2
    <2> QED
      BY <2>1, <2>2, NumberTypes
  <1>9. Granted(c, pcb)
    <2>1. Granted(peer, pcb)
      BY <1>4 DEF Windows
    <2>2. Allows(c, pcb.wl2, pcb.wnd)
      BY <1>3, <1>8, <2>1 DEF Granted
    <2>3. pcb.wl2 <= c.rcv /\ pcb.wl2 + pcb.wnd <= Edge(c)
      BY <1>3, <1>8, <2>1 DEF Granted
    <2> QED
      BY <2>1, <2>2, <2>3 DEF Granted
  <1>10. \A a \in acks' : Word(c, a)
    <2>1. ASSUME NEW a \in acks PROVE Word(c, a)
      <3>1. Word(peer, a)
        BY <1>4 DEF Windows
      <3>2. Allows(c, a.ack, a.wnd)
        BY <1>3, <1>8, <3>1 DEF Word
      <3>3. a.ack + a.wnd <= Edge(c)
        BY <1>3, <1>8, <3>1 DEF Word
      <3> QED
        BY <3>1, <3>2, <3>3 DEF Word
    <2> QED
      BY <1>6, <1>7, <2>1
  <1>11. \A a \in acks' : LaterAll(a.ack, a.wnd, acks')
    <2>1. SUFFICES ASSUME NEW a \in acks', NEW b \in acks', a.ack < b.ack
                   PROVE  a.ack + a.wnd <= b.ack + b.wnd
      BY DEF LaterAll
    <2>2. CASE a \in acks /\ b \in acks
      BY <1>4, <2>1, <2>2 DEF Windows, LaterAll
    <2>3. CASE a \in acks /\ b = m
      <3>1. a.ack + a.wnd <= Edge(peer)
        BY <1>4, <2>3 DEF Windows, Word
      <3> QED
        BY <1>3, <1>6, <1>8, <2>3, <3>1
    <2>4. CASE a = m /\ b \in acks
      BY <1>6, <1>8, <2>1, <2>4
    <2>5. CASE a = m /\ b = m
      BY <1>6, <1>8, <2>1, <2>5
    <2> QED
      BY <1>7, <2>2, <2>3, <2>4, <2>5
  <1>12. LaterAll(pcb.wl2, pcb.wnd, acks')
    <2>1. Granted(peer, pcb) /\ LaterAll(pcb.wl2, pcb.wnd, acks)
      BY <1>4 DEF Windows
    <2>2. pcb.wl2 + pcb.wnd <= m.ack + m.wnd
      BY <1>3, <1>6, <1>8, <2>1 DEF Granted
    <2> QED
      BY <1>7, <2>1, <2>2 DEF LaterAll
  <1>13. WithinReach(c, wire')
    <2>1. wire \in SUBSET Segments
      BY NumberTypes
    <2>2. WithinReach(c, wire)
      BY <1>3, <1>4, <2>1
    <2> QED
      BY <2>2 DEF WithinReach
  <1>14. Windows(pcb, c, acks')
    BY <1>9, <1>10, <1>11, <1>12 DEF Windows
  <1> QED
    BY <1>1, <1>13, <1>14

LEMMA ClientTakesWindows ==
    ASSUME Inv, WindowInv, NEW seg \in wire, ClientTakes(seg)
    PROVE  WindowInv'
  <1>1. /\ seg \in Segments /\ EndOf(seg) <= pcb.lbb /\ pcb.lbb \in Int /\ pcb.lbb <= Total + 1
        /\ peer \in Peers /\ peer.rcv <= pcb.lbb
    BY LbbTypes DEF Inv, PcbState, Ready, WireState, PeerState
  <1>2. /\ seg.seq \in Int /\ seg.len \in Int /\ EndOf(seg) \in Int /\ seg.fin \in BOOLEAN
        /\ peer.rcv \in Int /\ peer.read \in Int /\ Total \in Int /\ PeerBuf \in Int
    BY <1>1, SegmentTypes, ConstantTypes DEF Peers
  <1>3. EndOf(seg) <= Total + 1 /\ peer.rcv <= Total + 1
    BY <1>1, <1>2
  <1>4. PICK c : c = peer'
    OBVIOUS
  <1>5. /\ c \in Peers /\ Has(c, All(seg)) /\ peer.rcv <= c.rcv
        /\ pcb' = pcb /\ wire' = wire \ {seg} /\ Answers(Says(c, FALSE))
    BY <1>1, <1>3, <1>4, TakesFrame
  <1>6. c.read = peer.read /\ c.fin = peer.fin
    BY <1>5 DEF Has
  <1>7. ASSUME ~c.fin PROVE HasRoom(c)
    <2>1. HasRoom(peer) /\ WithinReach(peer, wire)
      BY <1>6, <1>7 DEF WindowInv
    <2>2. seg.fin => seg.seq + seg.len = Total
      BY <2>1 DEF WithinReach
    <2>3. \A n \in Taken(seg) : Room(peer, n)
      <3>1. SUFFICES ASSUME NEW n \in Taken(seg) PROVE Room(peer, n)
        OBVIOUS
      <3>2. /\ n \in Int /\ n < EndOf(seg)
            /\ \/ n < seg.seq + seg.len /\ n < peer.read + PeerBuf
               \/ n = seg.seq + seg.len /\ seg.seq + seg.len <= peer.read + PeerBuf
        BY <1>2 DEF Taken
      <3>3. n = seg.seq + seg.len => seg.fin
        BY <1>2, <3>2 DEF EndOf
      <3> QED
        BY <1>2, <2>2, <3>2, <3>3 DEF Room, Reach
    <2>4. \A n \in All(seg) : Room(peer, n)
      BY <2>1, <2>3 DEF All, HasRoom
    <2>5. \A n \in c.beyond \cup 0 .. c.rcv - 1 : Room(peer, n)
      BY <1>5, <2>4 DEF Has
    <2> QED
      BY <1>6, <2>5 DEF HasRoom, Room, Reach
  <1>8. peer.read <= c.read /\ wire' \subseteq wire /\ peer' = c
    BY <1>2, <1>4, <1>5, <1>6
  <1> QED
    BY <1>5, <1>6, <1>7, <1>8, AnswerWindows

LEMMA ClientReadsWindows ==
    ASSUME Inv, WindowInv, ClientReads
    PROVE  WindowInv'
  <1>1. PICK r : r = Min2(peer.rcv, Total)
    OBVIOUS
  <1>2. PICK c : c = [peer EXCEPT !.read = r]
    OBVIOUS
  <1>3. /\ pcb' = pcb /\ wire' = wire /\ peer' = c /\ Answers(Says(c, FALSE))
        /\ peer.read < r
    BY <1>1, <1>2 DEF ClientReads
  <1>4. peer \in Peers /\ peer.rcv \in 0 .. Total + 1 /\ peer.read \in Int
    BY ConstantTypes DEF Inv, PeerState, Peers
  <1>5. r \in 0 .. Total /\ r \in Int
    BY <1>1, <1>4, ConstantTypes DEF Min2
  <1>6. /\ c \in Peers /\ c.rcv = peer.rcv /\ c.read = r /\ c.beyond = peer.beyond
        /\ c.fin = peer.fin
    BY <1>2, <1>4, <1>5 DEF Peers
  <1>7. peer.read <= c.read /\ peer.rcv <= c.rcv /\ wire' \subseteq wire
    <2>1. peer.rcv \in Int
      BY <1>4, ConstantTypes
    <2> QED
      BY <1>3, <1>4, <1>5, <1>6, <2>1
  <1>8. ASSUME ~c.fin PROVE HasRoom(c)
    <2>1. HasRoom(peer)
      BY <1>6, <1>8 DEF WindowInv
    <2>2. \A n \in Int : Room(peer, n) => Room(c, n)
      BY <1>4, <1>6, <1>7, EdgeGrows
    <2>3. \A n \in c.beyond \cup 0 .. c.rcv - 1 : n \in Int /\ Room(peer, n)
      BY <1>6, <2>1, NumberTypes DEF HasRoom
    <2> QED
      BY <2>2, <2>3 DEF HasRoom
  <1> QED
    BY <1>3, <1>6, <1>7, <1>8, AnswerWindows

\* Nothing is said of the windows of a client that has ended its side.
LEMMA ClientEndsWindows ==
    ASSUME Inv, WindowInv, ClientEnds
    PROVE  WindowInv'
  <1>1. peer' = [peer EXCEPT !.fin = TRUE] /\ peer \in Peers
    BY DEF ClientEnds, Inv, PeerState
  <1>2. peer'.fin = TRUE
    BY <1>1 DEF Peers
  <1> QED
    BY <1>2 DEF WindowInv

LEMMA LoseWindows ==
    ASSUME Inv, WindowInv, Lose
    PROVE  WindowInv'
  <1>1. pcb' = pcb /\ peer' = peer /\ wire' \subseteq wire /\ acks' \subseteq acks
    BY DEF Lose
  <1>2. SUFFICES ASSUME ~peer.fin
                 PROVE  Windows(pcb, peer, acks') /\ HasRoom(peer) /\ WithinReach(peer, wire')
    BY <1>1 DEF WindowInv
  <1>3. Windows(pcb, peer, acks) /\ HasRoom(peer) /\ WithinReach(peer, wire)
    BY <1>2 DEF WindowInv
  <1>4. Windows(pcb, peer, acks')
    BY <1>1, <1>3 DEF Windows, LaterAll
  <1>5. WithinReach(peer, wire')
    BY <1>1, <1>3 DEF WithinReach
  <1> QED
    BY <1>3, <1>4, <1>5

LEMMA InitWindows ==
    ASSUME Init
    PROVE  WindowInv
  <1>1. /\ peer.rcv = 0 /\ peer.read = 0 /\ peer.beyond = {} /\ wire = {} /\ acks = {}
        /\ pcb.wl1 = 0 /\ pcb.wl2 = 0 /\ pcb.wnd = PeerBuf /\ pcb.lastack = 0
    BY DEF Init
  <1>2. PeerBuf \in Nat
    BY ConstantTypes
  <1>3. Reach(peer) = PeerBuf /\ Edge(peer) = PeerBuf
    BY <1>1, <1>2 DEF Reach, Edge, Window, Max2
  <1>4. Granted(peer, pcb)
    BY <1>1, <1>2, <1>3 DEF Granted, Allows
  <1>5. HasRoom(peer)
    <2>1. 0 .. 0 - 1 = {}
      OBVIOUS
    <2> QED
      BY <1>1, <2>1 DEF HasRoom
  <1> QED
    BY <1>1, <1>4, <1>5 DEF WindowInv, Windows, LaterAll, WithinReach

LEMMA NextWindows ==
    ASSUME Inv, WindowInv, [Next]_vars
    PROVE  WindowInv'
  <1>1. CASE UNCHANGED vars
    BY <1>1 DEF vars, WindowInv, Windows, Granted
  <1>2. CASE Reset
    BY <1>2, AbortWindows DEF Reset
  <1>3. CASE Next /\ ~Reset
    BY <1>3, WriteWindows, CloseConnectionWindows, ReceiveWindows, SlowTimerWindows,
       ClientTakesWindows, ClientReadsWindows, ClientEndsWindows, LoseWindows DEF Next
  <1> QED
    BY <1>1, <1>2, <1>3

\* While the client has not ended its side each message that is under way, and
\* what the pcb learned of the window, promises no more than the client can take
\* and less than no later one, and nothing that is sent goes beyond it
\* (snd_wl1 and snd_wl2 in tcp_receive).
THEOREM WindowInvariance == Spec => []WindowInv
  <1>1. Init => WindowInv
    BY InitWindows
  <1>2. Inv /\ WindowInv /\ [Next]_vars => WindowInv'
    BY NextWindows
  <1> QED
    BY <1>1, <1>2, SendInvariant, PTL DEF Spec

\* While the client has not ended its side nothing but a probe goes beyond its
\* buffer, whatever ACKs were lost or came late (snd_wl1 and snd_wl2 in
\* tcp_receive; tcp_output).
THEOREM WindowRespected == Spec => []SentWithinWindow
  <1>1. WindowInv => SentWithinWindow
    BY DEF WindowInv, WithinReach, Reach, SentWithinWindow
  <1> QED
    BY <1>1, WindowInvariance, PTL

-----------------------------------------------------------------------------
(* Queues in order                                                         *)

InOrder(q) == \A j \in 1 .. Len(q) : \A i \in 1 .. j - 1 : EndOf(q[i]) <= q[j].seq
Precedes(S, T) == \A s \in S, t \in T : EndOf(s) <= t.seq

LEMMA OrderOfConcat ==
    ASSUME NEW a \in Queues, NEW b \in Queues
    PROVE  InOrder(a \o b) <=> InOrder(a) /\ InOrder(b) /\ Precedes(ToSet(a), ToSet(b))
  <1>1. PICK q : q = a \o b
    OBVIOUS
  <1>2. PICK m \in Nat, n \in Nat : m = Len(a) /\ n = Len(b)
    BY QueueTypes
  <1>3. /\ Len(q) = m + n
        /\ \A i \in 1 .. m : q[i] = a[i]
        /\ \A i \in 1 .. n : q[m + i] = b[i]
    <2>1. a \in Seq(Segments) /\ b \in Seq(Segments)
      BY DEF Queues
    <2> QED
      BY <1>1, <1>2, <2>1
  <1>4. /\ \A i \in 1 .. m : a[i] \in ToSet(a)
        /\ \A i \in 1 .. n : b[i] \in ToSet(b)
        /\ \A s \in ToSet(a) : \E i \in 1 .. m : a[i] = s
        /\ \A s \in ToSet(b) : \E i \in 1 .. n : b[i] = s
    BY <1>2, QueueTypes
  <1>5. ASSUME InOrder(q) PROVE InOrder(a) /\ InOrder(b) /\ Precedes(ToSet(a), ToSet(b))
    <2>1. \A j \in 1 .. m + n : \A i \in 1 .. j - 1 : EndOf(q[i]) <= q[j].seq
      BY <1>3, <1>5 DEF InOrder
    <2>2. \A j \in 1 .. m : \A i \in 1 .. j - 1 : EndOf(a[i]) <= a[j].seq
      <3>1. SUFFICES ASSUME NEW j \in 1 .. m, NEW i \in 1 .. j - 1 PROVE EndOf(a[i]) <= a[j].seq
        OBVIOUS
      <3>2. i \in 1 .. m /\ j \in 1 .. m + n
        BY <1>2
      <3> QED
        BY <1>3, <2>1, <3>2
    <2>3. \A j \in 1 .. n : \A i \in 1 .. j - 1 : EndOf(b[i]) <= b[j].seq
      <3>1. SUFFICES ASSUME NEW j \in 1 .. n, NEW i \in 1 .. j - 1 PROVE EndOf(b[i]) <= b[j].seq
        OBVIOUS
      <3>2. i \in 1 .. n /\ m + j \in 1 .. m + n /\ m + i \in 1 .. (m + j) - 1
        BY <1>2
      <3>3. EndOf(q[m + i]) <= q[m + j].seq
        BY <2>1, <3>2
      <3> QED
        BY <1>3, <3>2, <3>3
    <2>4. ASSUME NEW s \in ToSet(a), NEW t \in ToSet(b) PROVE EndOf(s) <= t.seq
      <3>1. PICK i \in 1 .. m : a[i] = s
        BY <1>4
      <3>2. PICK j \in 1 .. n : b[j] = t
        BY <1>4
      <3>3. m + j \in 1 .. m + n /\ i \in 1 .. (m + j) - 1
        BY <1>2
      <3>4. EndOf(q[i]) <= q[m + j].seq
        BY <2>1, <3>3
      <3> QED
        BY <1>3, <3>1, <3>2, <3>4
    <2> QED
      BY <1>2, <2>2, <2>3, <2>4 DEF InOrder, Precedes
  <1>6. ASSUME InOrder(a), InOrder(b), Precedes(ToSet(a), ToSet(b)) PROVE InOrder(q)
    <2>1. SUFFICES ASSUME NEW j \in 1 .. m + n, NEW i \in 1 .. j - 1 PROVE EndOf(q[i]) <= q[j].seq
      BY <1>3 DEF InOrder
    <2>2. CASE j \in 1 .. m
      <3>1. i \in 1 .. m
        BY <1>2, <2>2
      <3> QED
        BY <1>2, <1>3, <1>6, <2>2, <3>1 DEF InOrder
    <2>3. CASE j \notin 1 .. m /\ i \in 1 .. m
      <3>1. PICK k \in 1 .. n : j = m + k
        <4>1. j - m \in 1 .. n /\ j = m + (j - m)
          BY <1>2, <2>3
        <4> QED
          BY <4>1
      <3>2. EndOf(a[i]) <= b[k].seq
        BY <1>4, <1>6, <2>3 DEF Precedes
      <3> QED
        BY <1>3, <2>3, <3>1, <3>2
    <2>4. CASE j \notin 1 .. m /\ i \notin 1 .. m
      <3>1. PICK k \in 1 .. n : j = m + k
        <4>1. j - m \in 1 .. n /\ j = m + (j - m)
          BY <1>2, <2>4
        <4> QED
          BY <4>1
      <3>2. PICK h \in 1 .. k - 1 : i = m + h
        <4>1. i - m \in 1 .. k - 1 /\ i = m + (i - m)
          BY <1>2, <2>4, <3>1
        <4> QED
          BY <4>1
      <3>3. EndOf(b[h]) <= b[k].seq
        BY <1>2, <1>6, <3>1 DEF InOrder
      <3>4. h \in 1 .. n
        BY <1>2, <3>1
      <3> QED
        BY <1>3, <3>1, <3>2, <3>3, <3>4
    <2> QED
      BY <2>2, <2>3, <2>4
  <1> QED
    BY <1>1, <1>5, <1>6

LEMMA OrderOfFew ==
    /\ InOrder(<<>>)
    /\ \A seg : InOrder(<<seg>>)
  <1>1. InOrder(<<>>)
    BY DEF InOrder
  <1>2. ASSUME NEW seg PROVE InOrder(<<seg>>)
    <2>1. Len(<<seg>>) = 1
      OBVIOUS
    <2>2. \A j \in 1 .. 1 : 1 .. j - 1 = {}
      OBVIOUS
    <2> QED
      BY <2>1, <2>2 DEF InOrder
  <1> QED
    BY <1>1, <1>2

\* What is left of a queue in order when its first k are taken off.
LEMMA OrderOfRest ==
    ASSUME NEW q \in Queues, InOrder(q), NEW k \in 0 .. Len(q)
    PROVE  /\ InOrder(SubSeq(q, 1, k)) /\ InOrder(SubSeq(q, k + 1, Len(q)))
           /\ Precedes(ToSet(SubSeq(q, 1, k)), ToSet(SubSeq(q, k + 1, Len(q))))
  <1>1. PICK a, b : a = SubSeq(q, 1, k) /\ b = SubSeq(q, k + 1, Len(q))
    OBVIOUS
  <1>2. a \in Queues /\ b \in Queues /\ q = a \o b
    BY <1>1, GathersSplit
  <1> QED
    BY <1>1, <1>2, OrderOfConcat

\* A segment that is put into a queue that it follows, or that follows it.
LEMMA OrderOfInsert ==
    ASSUME NEW q \in Queues, InOrder(q), NEW seg \in Segments, seg.seq < EndOf(seg),
           \A s \in ToSet(q) : s.seq < EndOf(s),
           \/ \A s \in ToSet(q) : EndOf(s) <= seg.seq
           \/ \A s \in ToSet(q) : EndOf(seg) <= s.seq
    PROVE  InOrder(Insert(q, seg))
  <1>1. <<seg>> \in Queues /\ ToSet(<<seg>>) = {seg} /\ InOrder(<<seg>>)
    BY FewSegments, OrderOfFew
  <1>2. /\ seg.seq \in Int /\ EndOf(seg) \in Int
        /\ \A s \in ToSet(q) : s.seq \in Int /\ EndOf(s) \in Int
    BY QueueTypes, SegmentTypes
  <1>3. \A i \in 1 .. Len(q) : q[i] \in ToSet(q)
    BY QueueTypes
  <1>4. CASE \A s \in ToSet(q) : EndOf(s) <= seg.seq
    <2>1. \A i \in 1 .. Len(q) : q[i].seq < seg.seq
      BY <1>2, <1>3, <1>4
    <2>2. Insert(q, seg) = q \o <<seg>>
      BY <2>1, InsertGathers
    <2>3. Precedes(ToSet(q), ToSet(<<seg>>))
      BY <1>1, <1>4 DEF Precedes
    <2> QED
      BY <1>1, <2>2, <2>3, OrderOfConcat
  <1>5. CASE \A s \in ToSet(q) : EndOf(seg) <= s.seq
    <2>1. \A i \in 1 .. Len(q) : ~(q[i].seq < seg.seq)
      BY <1>2, <1>3, <1>5
    <2>2. Insert(q, seg) = <<seg>> \o q
      BY <2>1, InsertGathers
    <2>3. Precedes(ToSet(<<seg>>), ToSet(q))
      BY <1>1, <1>5 DEF Precedes
    <2> QED
      BY <1>1, <2>2, <2>3, OrderOfConcat
  <1> QED
    BY <1>4, <1>5

\* The first k of b join a, one after the other: each follows all of a, but that
\* all of a may follow the first.
LEMMA OrderOfJoined ==
    ASSUME NEW p, p.unacked \in Queues, p.unsent \in Queues, NEW k \in 0 .. Len(p.unsent),
           InOrder(p.unacked), InOrder(p.unsent),
           \A s \in InQueues(p) : s.seq < EndOf(s),
           \A n \in 1 .. k : \/ \A s \in ToSet(p.unacked) : EndOf(s) <= p.unsent[n].seq
                             \/ n = 1 /\ \A s \in ToSet(p.unacked) : EndOf(p.unsent[1]) <= s.seq
    PROVE  InOrder(Joined(p, k))
  <1>1. PICK a \in Queues, b \in Queues : a = p.unacked /\ b = p.unsent
    OBVIOUS
  <1>2. PICK f : /\ f[0] = a /\ f[k] = Joined(p, k)
                 /\ \A n \in 1 .. k : f[n] = Insert(f[n - 1], b[n])
    BY <1>1, JoinedRecursion
  <1>3. \A n \in 1 .. Len(b) : b[n] \in Segments /\ b[n] \in ToSet(b)
    BY QueueTypes
  <1>4. k \in Nat /\ Len(b) \in Nat /\ k <= Len(b)
    BY <1>1, QueueTypes
  <1>5. \A s \in ToSet(a) \cup ToSet(b) : s.seq < EndOf(s)
    BY <1>1 DEF InQueues
  <1> DEFINE Good(n) == /\ f[n] \in Queues /\ InOrder(f[n])
                        /\ ToSet(f[n]) = ToSet(a) \cup {b[i] : i \in 1 .. n}
             S == {n \in Nat : n <= k => Good(n)}
  <1>6. 0 \in S
    BY <1>1, <1>2
  <1>7. ASSUME NEW n \in Nat, n \in S PROVE n + 1 \in S
    <2>1. SUFFICES ASSUME n + 1 <= k PROVE Good(n + 1)
      BY <1>7
    <2>2. n \in Nat /\ n <= k /\ n + 1 \in 1 .. k /\ n + 1 \in 1 .. Len(b)
      BY <1>4, <1>7, <2>1
    <2>3. PICK q \in Queues : /\ q = f[n] /\ InOrder(q)
                              /\ ToSet(q) = ToSet(a) \cup {b[i] : i \in 1 .. n}
      BY <1>7, <2>2
    <2>4. PICK seg \in Segments : seg = b[n + 1] /\ seg \in ToSet(b)
      BY <1>3, <2>2
    <2>5. f[n + 1] = Insert(q, seg)
      <3>1. (n + 1) - 1 = n
        BY <2>2
      <3> QED
        BY <1>2, <2>2, <2>3, <2>4, <3>1
    <2>6. Gathers(Insert(q, seg), q, <<seg>>) /\ ToSet(<<seg>>) = {seg}
      BY InsertGathers, FewSegments
    <2>7. \A i \in 1 .. n : EndOf(b[i]) <= seg.seq
      <3>1. \A i \in 1 .. n : i \in 1 .. (n + 1) - 1
        BY <2>2
      <3> QED
        BY <1>1, <2>2, <2>4, <3>1 DEF InOrder
    <2>8. \/ \A s \in ToSet(q) : EndOf(s) <= seg.seq
          \/ \A s \in ToSet(q) : EndOf(seg) <= s.seq
      <3>1. CASE \A s \in ToSet(a) : EndOf(s) <= seg.seq
        BY <2>3, <2>7, <3>1
      <3>2. CASE n + 1 = 1 /\ \A s \in ToSet(a) : EndOf(seg) <= s.seq
        <4>1. n = 0
          BY <2>2, <3>2
        <4>2. {b[i] : i \in 1 .. 0} = {}
          OBVIOUS
        <4> QED
          BY <2>3, <3>2, <4>1, <4>2
      <3>3. \/ \A s \in ToSet(a) : EndOf(s) <= b[n + 1].seq
            \/ n + 1 = 1 /\ \A s \in ToSet(a) : EndOf(b[1]) <= s.seq
        BY <1>1, <2>2
      <3> QED
        BY <2>4, <3>1, <3>2, <3>3
    <2>9. seg.seq < EndOf(seg) /\ \A s \in ToSet(q) : s.seq < EndOf(s)
      <3>1. ToSet(q) \subseteq ToSet(a) \cup ToSet(b)
        BY <1>3, <1>4, <2>2, <2>3
      <3> QED
        BY <1>5, <2>4, <3>1
    <2>10. InOrder(Insert(q, seg))
      BY <2>3, <2>8, <2>9, OrderOfInsert
    <2>11. ToSet(f[n + 1]) = ToSet(a) \cup {b[i] : i \in 1 .. n + 1}
      <3>1. {b[i] : i \in 1 .. n + 1} = {b[i] : i \in 1 .. n} \cup {b[n + 1]}
        BY <2>2
      <3> QED
        BY <2>3, <2>4, <2>5, <2>6, <3>1 DEF Gathers
    <2> QED
      BY <2>5, <2>6, <2>10, <2>11 DEF Gathers
  <1> HIDE DEF S, Good
  <1>8. Nat \subseteq S
    BY <1>6, <1>7, InductionOnNat
  <1>9. Good(k)
    BY <1>4, <1>8 DEF S
  <1> QED
    BY <1>2, <1>9 DEF Good

\* One behind the other the queues are in order.
Sorted(p) ==
    /\ InOrder(p.unacked) /\ InOrder(p.unsent)
    /\ Precedes(ToSet(p.unacked), ToSet(p.unsent))

\* Nothing in them is acknowledged, what has been sent would still fit into the
\* window, and the buffer is large enough.
Current(p) ==
    /\ \A seg \in InQueues(p) : p.lastack < EndOf(seg)
    /\ \A seg \in ToSet(p.unacked) : seg.seq + seg.len <= p.lastack + p.wnd
    /\ Min2(p.lbb, Total) - p.lastack <= SndBuf

Orderly(p) == Sorted(p) /\ Current(p)

OrderFields == {"unacked", "unsent", "lastack", "nxt", "lbb", "wnd"}

LEMMA OrderKept ==
    ASSUME NEW p, NEW q, NEW F, Keeps(p, q, F), F \cap OrderFields = {}, Orderly(p), Sound(p)
    PROVE  Orderly(q) /\ p.nxt <= q.nxt
  <1>1. /\ q.unacked = p.unacked /\ q.unsent = p.unsent /\ q.lastack = p.lastack
        /\ q.nxt = p.nxt /\ q.lbb = p.lbb /\ q.wnd = p.wnd
    BY DEF Keeps, OrderFields, Fields
  <1>2. p.nxt \in Int
    BY SoundNumbers
  <1> QED
    BY <1>1, <1>2 DEF Orderly, Sorted, Current, InQueues

LEMMA SoundShape ==
    ASSUME NEW p, Sound(p)
    PROVE  /\ p.unacked \in Queues /\ p.unsent \in Queues
           /\ p.wnd \in Int /\ p.cwnd \in Int /\ p.wnd \in Nat /\ p.cwnd \in Nat
           /\ p.lastack <= p.nxt /\ p.nxt <= p.lbb
           /\ \A seg \in InQueues(p) :
                 /\ seg \in Segments /\ seg.seq < EndOf(seg) /\ EndOf(seg) <= p.lbb
                 /\ seg.seq + seg.len <= Total
                 /\ seg.seq \in Int /\ seg.len \in Int /\ EndOf(seg) \in Int
                 /\ seg.seq + seg.len <= EndOf(seg)
           /\ \A seg \in ToSet(p.unacked) : EndOf(seg) <= p.nxt
           /\ p.state \in Over => p.unacked = <<>> /\ p.unsent = <<>>
           /\ p.state \notin Over => Filled(p)
  <1>1. p.unacked \in Queues /\ p.unsent \in Queues
    BY DEF Sound, QueuesType
  <1>2. /\ p.wnd \in Int /\ p.cwnd \in Int /\ p.wnd \in Nat /\ p.cwnd \in Nat
        /\ p.lastack <= p.nxt /\ p.nxt <= p.lbb
    BY ConstantTypes DEF Sound, Counters, Numbers
  <1>3. CASE p.state \in Over
    <2>1. p.unacked = <<>> /\ p.unsent = <<>>
      BY <1>3 DEF Sound, QueuesState, Emptied
    <2>2. InQueues(p) = {} /\ ToSet(p.unacked) = {}
      BY <2>1, FewSegments DEF InQueues
    <2> QED
      BY <1>1, <1>2, <1>3, <2>1, <2>2
  <1>4. CASE p.state \notin Over
    <2>1. Filled(p)
      BY <1>4 DEF Sound, QueuesState
    <2>2. \A seg \in InQueues(p) : seg \in Segments /\ Whole(p.lbb, seg)
      BY <1>1, <2>1, QueueTypes DEF Filled, InQueues
    <2>3. ASSUME NEW seg \in InQueues(p)
          PROVE  /\ seg.seq < EndOf(seg) /\ EndOf(seg) <= p.lbb /\ seg.seq + seg.len <= Total
                 /\ seg.seq \in Int /\ seg.len \in Int /\ EndOf(seg) \in Int
                 /\ seg.seq + seg.len <= EndOf(seg)
      BY <2>2, SegmentTypes DEF Whole, EndOf
    <2> QED
      BY <1>1, <1>2, <1>4, <2>1, <2>2, <2>3 DEF Filled
  <1> QED
    BY <1>3, <1>4

LEMMA NothingOrderly ==
    ASSUME NEW p, p.unacked = <<>>, p.unsent = <<>>, Min2(p.lbb, Total) - p.lastack <= SndBuf
    PROVE  Orderly(p)
  <1>1. ToSet(p.unacked) = {} /\ ToSet(p.unsent) = {}
    BY FewSegments
  <1> QED
    BY <1>1, OrderOfFew DEF Orderly, Sorted, Current, Precedes, InQueues

-----------------------------------------------------------------------------
(* Output                                                                  *)

LEMMA SendOrders ==
    ASSUME NEW p, Sound(p), ~p.input, NEW k \in 0 .. Len(p.unsent),
           \A i \in 1 .. k : Fits(p, p.unsent[i], Min2(p.wnd, p.cwnd)),
           InOrder(p.unacked), InOrder(p.unsent), Current(p),
           \A n \in 1 .. k : \/ \A s \in ToSet(p.unacked) : EndOf(s) <= p.unsent[n].seq
                             \/ n = 1 /\ \A s \in ToSet(p.unacked) : EndOf(p.unsent[1]) <= s.seq,
           Precedes(ToSet(p.unacked), ToSet(SubSeq(p.unsent, k + 1, Len(p.unsent))))
    PROVE  Orderly(SendFirst(p, k)) /\ p.nxt <= SendFirst(p, k).nxt
  <1>1. PICK q : q = SendFirst(p, k)
    OBVIOUS
  <1>2. /\ IsPcb(p) /\ QueuesType(p) /\ p.unacked \in Queues /\ p.unsent \in Queues
        /\ \A s \in InQueues(p) : s.seq < EndOf(s)
    BY SoundShape DEF Sound
  <1>3. /\ q.unsent = SubSeq(p.unsent, k + 1, Len(p.unsent)) /\ q.unacked = Joined(p, k)
        /\ q.nxt = Max({p.nxt} \cup {EndOf(p.unsent[i]) : i \in 1 .. k})
    <2>1. /\ SendFirst(p, k).unsent = SubSeq(p.unsent, k + 1, Len(p.unsent))
          /\ SendFirst(p, k).unacked = Joined(p, k)
          /\ SendFirst(p, k).nxt = Max({p.nxt} \cup {EndOf(p.unsent[i]) : i \in 1 .. k})
      <3>1. IsPcb(p)
        BY <1>2
      <3> HIDE <1>1, <1>2
      <3> QED
        BY <3>1, SendFrame, ZenonT(40)
    <2> QED
      BY <1>1, <2>1
  <1>4. Conserves(p, q) /\ ToSet(q.unacked) = ToSet(p.unacked) \cup {p.unsent[i] : i \in 1 .. k}
    BY <1>1, <1>2, SendConserves
  <1>5. Sound(q) /\ Keeps(p, q, SendFields)
    BY <1>1, SendSound
  <1>6. q.lastack = p.lastack /\ q.lbb = p.lbb /\ q.wnd = p.wnd
    BY <1>5 DEF Keeps, SendFields, Fields
  <1>7. InOrder(q.unacked)
    BY <1>2, <1>3, OrderOfJoined
  <1>8. /\ InOrder(q.unsent) /\ Precedes(ToSet(SubSeq(p.unsent, 1, k)), ToSet(q.unsent))
        /\ ToSet(SubSeq(p.unsent, 1, k)) = {p.unsent[i] : i \in 1 .. k}
    BY <1>2, <1>3, OrderOfRest, GathersSplit
  <1>9. Precedes(ToSet(q.unacked), ToSet(q.unsent))
    BY <1>3, <1>4, <1>8 DEF Precedes
  <1>10. \A seg \in InQueues(q) : q.lastack < EndOf(seg)
    BY <1>4, <1>6 DEF Conserves, Current
  <1>11. /\ \A i \in 1 .. k : p.unsent[i] \in ToSet(p.unsent) /\ p.unsent[i] \in InQueues(p)
    <2>1. \A i \in 1 .. k : i \in 1 .. Len(p.unsent)
      OBVIOUS
    <2> QED
      BY <1>2, <2>1, QueueTypes DEF InQueues
  <1>12. \A seg \in ToSet(q.unacked) : seg.seq + seg.len <= q.lastack + q.wnd
    <2>1. ASSUME NEW i \in 1 .. k
          PROVE  p.unsent[i].seq + p.unsent[i].len <= p.lastack + p.wnd
      <3>1. PICK w : w = Min2(p.wnd, p.cwnd)
        OBVIOUS
      <3>2. p.wnd \in Int /\ p.cwnd \in Int /\ p.lastack \in Int
        BY SoundShape, SoundNumbers
      <3>3. w \in Int /\ w <= p.wnd
        BY <3>1, <3>2, MinOfTwo
      <3>4. PICK seg : seg = p.unsent[i]
        OBVIOUS
      <3>5. seg.seq \in Int /\ seg.len \in Int
        BY <1>11, <3>4, SoundShape
      <3>6. seg.seq - p.lastack + seg.len \in 0 .. w
        BY <3>1, <3>4 DEF Fits
      <3>7. PICK a \in Int, l \in Int, b \in Int, v \in Int :
                  a = seg.seq /\ l = seg.len /\ b = p.lastack /\ v = p.wnd
        BY <3>2, <3>5
      <3>8. a - b + l \in 0 .. w /\ w <= v
        BY <3>3, <3>6, <3>7
      <3>9. a + l <= b + v
        <4>1. \A x \in Int : x \in 0 .. w => x <= w
          BY <3>3
        <4>2. a - b + l \in Int /\ a - b + l <= w
          BY <3>7, <3>8, <4>1
        <4> HIDE <3>7
        <4> QED
          BY <3>3, <3>8, <4>2
      <3> QED
        BY <3>4, <3>7, <3>9
    <2>2. \A seg \in ToSet(p.unacked) : seg.seq + seg.len <= p.lastack + p.wnd
      BY DEF Current
    <2>3. ASSUME NEW seg \in ToSet(q.unacked) PROVE seg.seq + seg.len <= p.lastack + p.wnd
      <3>1. CASE seg \in ToSet(p.unacked)
        BY <2>2, <3>1
      <3>2. CASE \E i \in 1 .. k : seg = p.unsent[i]
        BY <2>1, <3>2
      <3>3. seg \in ToSet(p.unacked) \/ \E i \in 1 .. k : seg = p.unsent[i]
        BY <1>4
      <3> QED
        BY <3>1, <3>2, <3>3
    <2> QED
      BY <1>6, <2>3
  <1>13. p.nxt <= q.nxt
    <2>1. PICK S : S = {p.nxt} \cup {EndOf(p.unsent[i]) : i \in 1 .. k}
      OBVIOUS
    <2>2. S \in SUBSET (0 .. Total + 1)
      <3>1. p.nxt \in Nat /\ p.lbb \in Nat /\ p.nxt <= p.lbb /\ p.lbb <= Total + 1 /\ p.nxt \in 0 .. Total + 1
        BY SoundNumbers, SoundShape, LbbTypes, ConstantTypes DEF Sound, Numbers
      <3>2. \A i \in 1 .. k : EndOf(p.unsent[i]) \in 0 .. Total + 1
        <4>1. ASSUME NEW i \in 1 .. k PROVE EndOf(p.unsent[i]) \in 0 .. Total + 1
          <5>1. PICK seg \in Segments : seg = p.unsent[i] /\ EndOf(seg) <= p.lbb
            BY <1>11, SoundShape
          <5>2. EndOf(seg) \in Nat
            BY SegmentTypes
          <5> QED
            BY <3>1, <5>1, <5>2, ConstantTypes
        <4> QED
          BY <4>1
      <3> QED
        BY <2>1, <3>1, <3>2
    <2>3. Total + 1 \in Nat
      BY ConstantTypes
    <2>4. p.nxt \in S /\ S # {}
      BY <2>1
    <2>5. p.nxt <= Max(S)
      BY <2>2, <2>3, <2>4, MaxOf
    <2> QED
      BY <1>3, <2>1, <2>5
  <1>14. Orderly(q)
    BY <1>6, <1>7, <1>8, <1>9, <1>10, <1>12 DEF Orderly, Sorted, Current
  <1> QED
    BY <1>1, <1>13, <1>14

LEMMA OutputOrders ==
    ASSUME NEW p, Sound(p), Orderly(p)
    PROVE  Orderly(Output(p)) /\ p.nxt <= Output(p).nxt
  <1>1. IsPcb(p) /\ QueuesType(p) /\ p.unsent \in Queues /\ p.nxt \in Int
    BY SoundNumbers DEF Sound, QueuesType
  <1>2. CASE Output(p) = p
    BY <1>1, <1>2
  <1>3. CASE Output(p) = [p EXCEPT !.acknow = FALSE]
    <2>1. PICK q : q = [p EXCEPT !.acknow = FALSE]
      OBVIOUS
    <2>2. Keeps(p, q, {"acknow"}) /\ {"acknow"} \cap OrderFields = {}
      BY <1>1, <2>1 DEF Keeps, IsPcb, Fields, OrderFields
    <2> QED
      BY <1>3, <2>1, <2>2, OrderKept
  <1>4. CASE ~p.input /\ Output(p) = SendFirst(p, Burst(p))
    <2>1. PICK k \in 0 .. Len(p.unsent) : k = Burst(p)
      BY <1>1, BurstFits
    <2>2. \A i \in 1 .. k : Fits(p, p.unsent[i], Min2(p.wnd, p.cwnd))
      BY <1>1, <2>1, BurstFits
    <2>3. \A n \in 1 .. k : p.unsent[n] \in ToSet(p.unsent)
      <3>1. \A n \in 1 .. k : n \in 1 .. Len(p.unsent)
        OBVIOUS
      <3> QED
        BY <1>1, <3>1, QueueTypes
    <2>4. \A n \in 1 .. k : \A s \in ToSet(p.unacked) : EndOf(s) <= p.unsent[n].seq
      BY <2>3 DEF Orderly, Sorted, Precedes
    <2>5. ToSet(SubSeq(p.unsent, k + 1, Len(p.unsent))) \subseteq ToSet(p.unsent)
      <3>1. Gathers(p.unsent, SubSeq(p.unsent, 1, k), SubSeq(p.unsent, k + 1, Len(p.unsent)))
        BY <1>1, GathersSplit
      <3> QED
        BY <3>1 DEF Gathers
    <2>6. Precedes(ToSet(p.unacked), ToSet(SubSeq(p.unsent, k + 1, Len(p.unsent))))
      BY <2>5 DEF Orderly, Sorted, Precedes
    <2>7. Orderly(SendFirst(p, k)) /\ p.nxt <= SendFirst(p, k).nxt
      BY <1>4, <2>2, <2>4, <2>6, SendOrders DEF Orderly, Sorted
    <2> QED
      BY <1>4, <2>1, <2>7
  <1> QED
    BY <1>2, <1>3, <1>4 DEF Output

\* The queues of q are in order, too, and no less has been sent.
StaysOrderly(p, q) == Orderly(q) /\ p.nxt <= q.nxt

LEMMA StaysOrderlyOn ==
    ASSUME NEW p, NEW q, NEW r, p.nxt \in Int, q.nxt \in Int, r.nxt \in Int,
           StaysOrderly(p, q), StaysOrderly(q, r)
    PROVE  StaysOrderly(p, r)
  <1> QED
    BY DEF StaysOrderly

-----------------------------------------------------------------------------
(* Writing and closing                                                     *)

\* What is enqueued follows all that is queued.
LEMMA EnqueueOrders ==
    ASSUME NEW p, Sound(p), p.state \notin Over, Orderly(p), p.lbb <= Total,
           NEW len \in 0 .. MSS, NEW fin \in BOOLEAN, NEW tcplen \in Nat,
           fin => len = 0 /\ tcplen = 1, ~fin => len > 0 /\ tcplen = len,
           p.lbb + tcplen <= Total + 1, p.lbb + len <= Total, fin => p.lbb + len = Total,
           NEW q, q.unsent = Enqueue(p, len, fin).unsent, q.unacked = p.unacked,
           q.lastack = p.lastack, q.nxt = p.nxt, q.wnd = p.wnd,
           Min2(q.lbb, Total) - q.lastack <= SndBuf
    PROVE  StaysOrderly(p, q)
  <1>1. IsPcb(p) /\ QueuesType(p) /\ Numbers(p) /\ Filled(p)
    BY SoundShape DEF Sound
  <1>2. PICK f \in Queues, old \in Queues, seg \in Segments :
              Enqueued(p, Enqueue(p, len, fin).unsent, len, fin, tcplen, f, old, seg)
    BY <1>1, EnqueueSegment
  <1>3. /\ p.unsent = f \o old /\ q.unsent = f \o <<seg>>
        /\ EndOf(seg) = p.lbb + tcplen
        /\ \/ old = <<>> /\ seg.seq = p.lbb
           \/ \E last \in Segments : old = <<last>> /\ seg.seq = last.seq
    BY <1>2 DEF Enqueued
  <1>4. PICK u \in Queues : u = p.unacked
    BY <1>1 DEF QueuesType
  <1>5. InOrder(u) /\ InOrder(f \o old) /\ Precedes(ToSet(u), ToSet(f \o old))
    BY <1>3, <1>4 DEF Orderly, Sorted
  <1>6. /\ InOrder(f) /\ InOrder(old) /\ Precedes(ToSet(f), ToSet(old))
        /\ ToSet(f \o old) = ToSet(f) \cup ToSet(old)
    BY <1>5, OrderOfConcat, GathersConcat DEF Gathers
  <1>7. <<seg>> \in Queues /\ ToSet(<<seg>>) = {seg} /\ InOrder(<<seg>>)
    BY FewSegments, OrderOfFew
  <1>8. \A s \in ToSet(u) \cup ToSet(f) : s \in InQueues(p) /\ EndOf(s) <= p.lbb
    BY <1>3, <1>4, <1>6, SoundShape DEF InQueues
  <1>9. \A s \in ToSet(u) \cup ToSet(f) : EndOf(s) <= seg.seq
    <2>1. CASE old = <<>> /\ seg.seq = p.lbb
      BY <1>8, <2>1
    <2>2. CASE \E last \in Segments : old = <<last>> /\ seg.seq = last.seq
      <3>1. PICK last \in Segments : old = <<last>> /\ seg.seq = last.seq
        BY <2>2
      <3>2. last \in ToSet(old)
        BY <3>1, FewSegments
      <3> QED
        BY <1>5, <1>6, <3>1, <3>2 DEF Precedes
    <2> QED
      BY <1>3, <2>1, <2>2
  <1>10. InOrder(f \o <<seg>>) /\ ToSet(f \o <<seg>>) = ToSet(f) \cup {seg}
    <2>1. Precedes(ToSet(f), ToSet(<<seg>>))
      BY <1>7, <1>9 DEF Precedes
    <2>2. ToSet(f \o <<seg>>) = ToSet(f) \cup {seg}
      BY <1>7, GathersConcat DEF Gathers
    <2> QED
      BY <1>6, <1>7, <2>1, <2>2, OrderOfConcat
  <1>11. Precedes(ToSet(u), ToSet(f \o <<seg>>))
    BY <1>5, <1>6, <1>9, <1>10 DEF Precedes
  <1>12. \A s \in InQueues(q) : q.lastack < EndOf(s)
    <2>1. p.lastack \in Int /\ p.lbb \in Int /\ p.lastack <= p.lbb /\ tcplen > 0 /\ p.nxt \in Int
      BY SoundNumbers, SoundShape
    <2>2. p.lastack < EndOf(seg)
      BY <1>3, <2>1
    <2>3. \A s \in InQueues(p) : p.lastack < EndOf(s)
      BY DEF Orderly, Current
    <2>4. InQueues(q) \subseteq InQueues(p) \cup {seg}
      BY <1>3, <1>4, <1>6, <1>10 DEF InQueues
    <2> QED
      BY <2>2, <2>3, <2>4
  <1>13. \A s \in ToSet(q.unacked) : s.seq + s.len <= q.lastack + q.wnd
    BY DEF Orderly, Current
  <1>14. Orderly(q)
    BY <1>3, <1>4, <1>5, <1>10, <1>11, <1>12, <1>13 DEF Orderly, Sorted, Current
  <1>15. p.nxt \in Int
    BY SoundNumbers
  <1> QED
    BY <1>14, <1>15 DEF StaysOrderly

\* snd_buf is what there is still room for.
LEMMA RoomLeft ==
    ASSUME NEW p, Sound(p), p.state \in Writable, Orderly(p), NEW len \in Nat, len <= p.buf
    PROVE  p.lbb + len - p.lastack <= SndBuf
  <1>1. p.lbb \in Int /\ p.lastack \in Int /\ p.lbb <= Total /\ p.lastack <= p.lbb
    BY SoundNumbers, SoundShape
  <1>2. Total \in Int /\ SndBuf \in Nat /\ SndBuf < 65536
    BY ConstantTypes
  <1>3. Min2(p.lbb, Total) = p.lbb
    BY <1>1, <1>2 DEF Min2
  <1>4. p.lbb - p.lastack <= SndBuf
    BY <1>3 DEF Orderly, Current
  <1>5. p.state \notin Over
    BY DEF Writable, Over
  <1>6. p.buf = (SndBuf - (p.lbb - p.lastack)) % 65536
    BY <1>5, SoundShape DEF Filled
  <1>7. PICK x \in Int : x = SndBuf - (p.lbb - p.lastack)
    BY <1>1, <1>2
  <1>8. 0 <= x /\ x < 65536
    BY <1>1, <1>2, <1>4, <1>7
  <1>9. x % 65536 = x
    BY <1>8
  <1>10. p.buf = x
    BY <1>6, <1>7, <1>9
  <1> QED
    BY <1>1, <1>2, <1>7, <1>10

LEMMA MoreOrders ==
    ASSUME NEW p, Sound(p), p.state \in Writable, NEW len \in 1 .. MSS, len <= p.left,
           CanEnqueue(p, len), Orderly(p)
    PROVE  StaysOrderly(p, More(p, len))
  <1>1. p.state \notin Over /\ len <= p.buf /\ p.qlen < QueueLen
    BY DEF Writable, Over, CanEnqueue
  <1>2. PICK q : q = More(p, len)
    OBVIOUS
  <1>3. /\ Keeps(p, q, WriteFields) /\ q.unsent = Enqueue(p, len, FALSE).unsent
        /\ q.unacked = p.unacked /\ q.nxt = p.nxt /\ q.lbb = p.lbb + len
    BY <1>1, <1>2, MoreSound
  <1>4. q.lastack = p.lastack /\ q.wnd = p.wnd
    BY <1>3 DEF Keeps, WriteFields, SendFields, Fields
  <1>5. /\ p.lbb \in Int /\ p.lastack \in Int /\ len \in Nat /\ p.left \in Int
        /\ Total \in Int /\ MSS \in Int /\ len \in 0 .. MSS /\ len > 0
    BY SoundNumbers, ConstantTypes
  <1>6. p.lbb + p.left <= Total
    BY DEF Sound, Numbers
  <1>7. p.lbb + len - p.lastack <= SndBuf
    BY <1>1, <1>5, RoomLeft
  <1>8. Min2(q.lbb, Total) - q.lastack <= SndBuf
    BY <1>3, <1>4, <1>5, <1>6, <1>7 DEF Min2
  <1>9. p.lbb + len <= Total
    BY <1>5, <1>6
  <1>10. StaysOrderly(p, q)
    <2>1. PICK fin \in BOOLEAN, tcplen \in Nat : ~fin /\ tcplen = len
      BY <1>5
    <2>2. q.unsent = Enqueue(p, len, fin).unsent
      BY <1>3, <2>1
    <2>3. p.lbb + tcplen <= Total + 1
      BY <1>5, <1>9, <2>1
    <2> HIDE <1>2
    <2> QED
      BY <1>1, <1>3, <1>4, <1>5, <1>8, <1>9, <2>1, <2>2, <2>3, EnqueueOrders
  <1> QED
    BY <1>2, <1>10

LEMMA EndedOrders ==
    ASSUME NEW p, Sound(p), p.state \in Writable, p.lbb = Total, p.left = 0, p.qlen < QueueLen,
           Orderly(p)
    PROVE  StaysOrderly(p, Ended(p))
  <1>1. p.state \notin Over
    BY DEF Writable, Over
  <1>2. PICK q : q = Ended(p)
    OBVIOUS
  <1>3. /\ Keeps(p, q, CloseFields) /\ q.unsent = Enqueue(p, 0, TRUE).unsent
        /\ q.unacked = p.unacked /\ q.nxt = p.nxt /\ q.lbb = Total + 1
    BY <1>2, EndedSound
  <1>4. q.lastack = p.lastack /\ q.wnd = p.wnd
    BY <1>3 DEF Keeps, CloseFields, SendFields, Fields
  <1>5. p.lbb \in Int /\ p.lastack \in Int /\ Total \in Int /\ MSS \in Nat
    BY SoundNumbers, ConstantTypes
  <1>6. Min2(p.lbb, Total) - p.lastack <= SndBuf
    BY DEF Orderly, Current
  <1>7. Min2(q.lbb, Total) = Min2(p.lbb, Total)
    BY <1>3, <1>5 DEF Min2
  <1>8. Min2(q.lbb, Total) - q.lastack <= SndBuf
    BY <1>4, <1>6, <1>7
  <1>9. 0 \in 0 .. MSS /\ p.lbb + 1 <= Total + 1 /\ p.lbb + 0 <= Total /\ p.lbb + 0 = Total
    BY <1>5
  <1> HIDE DEF Ended
  <1> QED
    BY <1>1, <1>2, <1>3, <1>4, <1>8, <1>9, EnqueueOrders

LEMMA NagleOutputOrders ==
    ASSUME NEW p, Sound(p), Orderly(p)
    PROVE  StaysOrderly(p, NagleOutput(p))
  <1>1. p.nxt \in Int
    BY SoundNumbers
  <1> QED
    BY <1>1, OutputOrders DEF NagleOutput, StaysOrderly

LEMMA MemerrOrders ==
    ASSUME NEW p, Sound(p), Orderly(p)
    PROVE  StaysOrderly(p, [p EXCEPT !.memerr = TRUE])
  <1>1. PICK q : q = [p EXCEPT !.memerr = TRUE]
    OBVIOUS
  <1>2. Keeps(p, q, {"memerr"}) /\ {"memerr"} \cap OrderFields = {}
    BY <1>1, MemerrSound DEF OrderFields
  <1> QED
    BY <1>1, <1>2, OrderKept DEF StaysOrderly

\* q, then Output.
LEMMA ThenOutput ==
    ASSUME NEW p, p.nxt \in Int, NEW q, Sound(q), StaysOrderly(p, q)
    PROVE  StaysOrderly(p, Output(q)) /\ StaysOrderly(p, NagleOutput(q))
  <1>1. StaysOrderly(q, Output(q)) /\ StaysOrderly(q, NagleOutput(q))
    BY OutputOrders, NagleOutputOrders DEF StaysOrderly
  <1>2. Output(q).nxt \in Int /\ NagleOutput(q).nxt \in Int /\ q.nxt \in Int
    <2>1. Sound(Output(q)) /\ Sound(NagleOutput(q))
      BY OutputSound, NagleOutputSound
    <2> QED
      BY <2>1, SoundNumbers
  <1> QED
    BY <1>1, <1>2, StaysOrderlyOn

LEMMA WriteMoreOrders ==
    ASSUME NEW p, Sound(p), p.state \in Writable, Orderly(p)
    PROVE  StaysOrderly(p, WriteMore(p))
  <1>1. p.left \in 0 .. WriteLen /\ p.buf \in u16_t
    BY DEF Sound, Numbers, Counters
  <1>2. PICK len \in 0 .. MSS : len = Min2(p.left, p.buf) /\ len <= p.left
    <2>1. PICK l \in Int, b \in Int : l = p.left /\ b = p.buf /\ 0 <= b /\ 0 <= l /\ l <= MSS
      <3>1. p.buf \in Nat
        BY <1>1, WordsAreNaturals
      <3>2. p.buf \in Int /\ 0 <= p.buf
        BY <3>1
      <3> QED
        BY <1>1, <3>2, ConstantTypes
    <2>2. Min2(l, b) \in 0 .. MSS /\ Min2(l, b) <= l
      BY <2>1, ConstantTypes DEF Min2
    <2> QED
      BY <2>1, <2>2
  <1>3. p.nxt \in Int
    BY SoundNumbers
  <1>4. ASSUME WriteUnits(p, len) = Output([p EXCEPT !.memerr = TRUE])
        PROVE  StaysOrderly(p, WriteUnits(p, len))
    <2>1. PICK q : q = [p EXCEPT !.memerr = TRUE]
      OBVIOUS
    <2>2. Sound(q) /\ StaysOrderly(p, q)
      BY <2>1, MemerrOrders, MemerrSound
    <2>3. StaysOrderly(p, Output(q))
      BY <1>3, <2>2, ThenOutput
    <2> QED
      BY <1>4, <2>1, <2>3
  <1>5. ASSUME len = 0 /\ WriteUnits(p, len) = NagleOutput(p)
        PROVE  StaysOrderly(p, WriteUnits(p, len))
    <2>1. StaysOrderly(p, NagleOutput(p))
      BY NagleOutputOrders
    <2> QED
      BY <1>5, <2>1
  <1>6. ASSUME len # 0 /\ CanEnqueue(p, len) /\ WriteUnits(p, len) = NagleOutput(More(p, len))
        PROVE  StaysOrderly(p, WriteUnits(p, len))
    <2>1. len \in 1 .. MSS /\ p.qlen < QueueLen
      BY <1>2, <1>6 DEF CanEnqueue
    <2>2. Sound(More(p, len)) /\ StaysOrderly(p, More(p, len))
      BY <1>2, <1>6, <2>1, MoreSound, MoreOrders
    <2>3. PICK q : q = More(p, len)
      OBVIOUS
    <2>4. StaysOrderly(p, NagleOutput(q))
      BY <1>3, <2>2, <2>3, ThenOutput
    <2> QED
      BY <1>6, <2>3, <2>4
  <1>7. StaysOrderly(p, WriteUnits(p, len))
    <2>1. \/ WriteUnits(p, len) = Output([p EXCEPT !.memerr = TRUE])
          \/ len = 0 /\ WriteUnits(p, len) = NagleOutput(p)
          \/ len # 0 /\ CanEnqueue(p, len) /\ WriteUnits(p, len) = NagleOutput(More(p, len))
      BY WriteUnitsCases
    <2> QED
      BY <1>4, <1>5, <1>6, <2>1
  <1> QED
    BY <1>2, <1>7 DEF WriteMore

LEMMA TcpCloseOrders ==
    ASSUME NEW p, Sound(p), p.state \in Writable => p.lbb = Total /\ p.left = 0, Orderly(p)
    PROVE  StaysOrderly(p, TcpClose(p))
  <1>1. p.nxt \in Int
    BY SoundNumbers
  <1>2. CASE TcpClose(p) = p
    BY <1>1, <1>2 DEF StaysOrderly
  <1>3. CASE TcpClose(p) = [p EXCEPT !.memerr = TRUE]
    BY <1>3, MemerrOrders
  <1>4. CASE p.state \in Writable /\ p.qlen < QueueLen /\ TcpClose(p) = Output(Ended(p))
    <2>1. Sound(Ended(p)) /\ StaysOrderly(p, Ended(p))
      BY <1>4, EndedSound, EndedOrders
    <2> QED
      BY <1>1, <1>4, <2>1, ThenOutput
  <1> QED
    BY <1>2, <1>3, <1>4, TcpCloseCases

LEMMA CloseOrders ==
    ASSUME NEW p, Sound(p), p.state \in Writable => p.lbb = Total /\ p.left = 0, Orderly(p)
    PROVE  StaysOrderly(p, Close(p))
  <1>1. PICK q : q = TcpClose(p)
    OBVIOUS
  <1>2. Sound(q) /\ StaysOrderly(p, q) /\ IsPcb(q)
    BY <1>1, TcpCloseSound, TcpCloseOrders DEF Sound
  <1>3. PICK r : r = Pending(q)
    OBVIOUS
  <1>4. Keeps(q, r, {"closing"}) /\ {"closing"} \cap OrderFields = {}
    BY <1>2, <1>3 DEF Pending, Keeps, IsPcb, Fields, OrderFields
  <1>5. StaysOrderly(q, r)
    BY <1>2, <1>4, OrderKept DEF StaysOrderly
  <1>6. r.nxt = q.nxt /\ q.nxt \in Int /\ p.nxt \in Int
    BY <1>2, <1>4, SoundNumbers DEF Keeps, Fields
  <1>7. StaysOrderly(p, r)
    BY <1>2, <1>5, <1>6, StaysOrderlyOn
  <1> QED
    BY <1>1, <1>3, <1>7 DEF Close

-----------------------------------------------------------------------------
(* A fast retransmission                                                   *)

\* What is retransmitted is before all the unacked segments, and they are before
\* what was unsent; the window and the buffer let it go at once.
Returned(p) ==
    /\ InOrder(p.unacked) /\ InOrder(p.unsent) /\ Current(p)
    /\ p.unsent # <<>>
    /\ \A s \in ToSet(p.unacked) : EndOf(p.unsent[1]) <= s.seq
    /\ \A n \in 2 .. Len(p.unsent) : \A s \in ToSet(p.unacked) : EndOf(s) <= p.unsent[n].seq
    /\ Fits(p, p.unsent[1], Min2(p.wnd, p.cwnd))
    /\ p.infr /\ p.acked = 0 /\ p.lastack < p.nxt

ReturnedFields == OrderFields \cup {"cwnd", "infr", "acked"}

LEMMA ReturnedKept ==
    ASSUME NEW p, NEW q, NEW F, Keeps(p, q, F), F \cap (ReturnedFields \ {"acked"}) = {},
           q.acked = 0, Returned(p)
    PROVE  Returned(q) /\ q.nxt = p.nxt
  <1>1. /\ q.unacked = p.unacked /\ q.unsent = p.unsent /\ q.lastack = p.lastack
        /\ q.nxt = p.nxt /\ q.lbb = p.lbb /\ q.wnd = p.wnd /\ q.cwnd = p.cwnd /\ q.infr = p.infr
    BY DEF Keeps, ReturnedFields, OrderFields, Fields
  <1>2. Current(q)
    BY <1>1 DEF Returned, Current, InQueues
  <1>3. Fits(q, q.unsent[1], Min2(q.wnd, q.cwnd))
    BY <1>1 DEF Returned, Fits
  <1> QED
    BY <1>1, <1>2, <1>3 DEF Returned

\* It is the first that the end of the step sends.
LEMMA ReturnedGoes ==
    ASSUME NEW p, QueuesType(p), Returned(p)
    PROVE  1 <= Burst(p)
  <1>1. PICK u \in Queues : u = p.unsent
    BY DEF QueuesType
  <1>2. Len(u) \in Nat /\ Len(u) > 0
    BY <1>1, QueueTypes DEF Returned
  <1>3. Goes(p, 1)
    <2>1. PICK r : r = [p EXCEPT !.unsent = SubSeq(@, 1, Len(@)),
                                 !.unacked = @ \o SubSeq(p.unsent, 1, 1 - 1)]
      OBVIOUS
    <2>2. r.infr = p.infr
      BY <2>1
    <2>3. Nagle(r)
      BY <2>2 DEF Nagle, Returned
    <2> QED
      BY <2>1, <2>3 DEF Goes, Returned
  <1>4. PICK S : S = {k \in 0 .. Len(u) : \A i \in 1 .. k : Goes(p, i)}
    OBVIOUS
  <1>5. 1 \in S
    <2>1. \A i \in 1 .. 1 : i = 1
      OBVIOUS
    <2> QED
      BY <1>2, <1>3, <1>4, <2>1
  <1>6. S \in SUBSET (0 .. Len(u)) /\ S # {}
    BY <1>4, <1>5
  <1>7. \A y \in S : y <= Max(S)
    BY <1>2, <1>6, MaxOf
  <1>8. Burst(p) = Max(S)
    BY <1>1, <1>4 DEF Burst
  <1> QED
    BY <1>5, <1>7, <1>8

LEMMA ReturnedOutput ==
    ASSUME NEW p, Sound(p), ~p.input, Returned(p)
    PROVE  StaysOrderly(p, Output(p))
  <1>1. PICK u \in Queues : u = p.unsent
    BY DEF Sound, QueuesType
  <1>2. Len(u) \in Nat /\ Len(u) > 0 /\ QueuesType(p)
    BY <1>1, QueueTypes DEF Returned, Sound
  <1>3. Output(p) = SendFirst(p, Burst(p))
    <2>1. Head(u) = u[1]
      BY <1>1, <1>2 DEF Queues
    <2>2. Fits(p, Head(p.unsent), Min2(p.wnd, p.cwnd)) /\ p.unsent # <<>>
      BY <1>1, <2>1 DEF Returned
    <2> QED
      BY <2>2 DEF Output
  <1>4. PICK k \in 0 .. Len(u) : k = Burst(p) /\ 1 <= k
    <2>1. Burst(p) \in 0 .. Len(p.unsent) /\ 1 <= Burst(p)
      BY <1>2, BurstFits, ReturnedGoes
    <2> QED
      BY <1>1, <2>1
  <1>5. \A i \in 1 .. k : Fits(p, p.unsent[i], Min2(p.wnd, p.cwnd))
    BY <1>2, <1>4, BurstFits
  <1>6. \A n \in 1 .. k : \/ \A s \in ToSet(p.unacked) : EndOf(s) <= p.unsent[n].seq
                          \/ n = 1 /\ \A s \in ToSet(p.unacked) : EndOf(p.unsent[1]) <= s.seq
    <2>1. SUFFICES ASSUME NEW n \in 1 .. k
                   PROVE  \/ \A s \in ToSet(p.unacked) : EndOf(s) <= p.unsent[n].seq
                          \/ n = 1 /\ \A s \in ToSet(p.unacked) : EndOf(p.unsent[1]) <= s.seq
      OBVIOUS
    <2>2. CASE n = 1
      BY <2>2 DEF Returned
    <2>3. CASE n # 1
      <3>1. n \in 2 .. Len(p.unsent)
        BY <1>1, <1>2, <2>3
      <3> QED
        BY <3>1 DEF Returned
    <2> QED
      BY <2>2, <2>3
  <1>7. Precedes(ToSet(p.unacked), ToSet(SubSeq(p.unsent, k + 1, Len(p.unsent))))
    <2>1. PICK w \in Queues : /\ w = SubSeq(u, k + 1, Len(u)) /\ Len(w) = Len(u) - k
                              /\ \A i \in 1 .. Len(u) - k : w[i] = u[k + i]
      BY <1>4, GathersSplit
    <2>2. SUFFICES ASSUME NEW s \in ToSet(p.unacked), NEW t \in ToSet(w) PROVE EndOf(s) <= t.seq
      BY <1>1, <2>1 DEF Precedes
    <2>3. PICK i \in 1 .. Len(w) : w[i] = t
      BY QueueTypes
    <2>4. k + i \in 2 .. Len(u)
      <3>1. PICK m \in Nat : m = Len(u) /\ Len(w) = m - k
        BY <1>2, <2>1
      <3>2. k \in Int /\ 1 <= k /\ i \in Int /\ 1 <= i /\ i <= m - k
        BY <1>2, <1>4, <2>3, <3>1
      <3> QED
        BY <3>1, <3>2
    <2>5. t = u[k + i]
      BY <2>1, <2>3
    <2> QED
      BY <1>1, <2>4, <2>5 DEF Returned
  <1>8. InOrder(p.unacked) /\ InOrder(p.unsent) /\ Current(p)
    BY DEF Returned
  <1>9. Orderly(SendFirst(p, k)) /\ p.nxt <= SendFirst(p, k).nxt
    BY <1>1, <1>4, <1>5, <1>6, <1>7, <1>8, SendOrders
  <1> QED
    BY <1>3, <1>4, <1>9 DEF StaysOrderly

LEMMA FastRetransmitReturns ==
    ASSUME NEW p, Sound(p), p.out = {}, p.state \notin Over, Orderly(p), p.acked = 0
    PROVE  /\ FastRetransmit(p) = p \/ Returned(FastRetransmit(p))
           /\ p.nxt = FastRetransmit(p).nxt
  <1>1. PICK q : q = FastRetransmit(p)
    OBVIOUS
  <1>2. Keeps(p, q, {"unacked", "unsent", "nrtx", "cwnd", "infr"})
    BY <1>1, FastRetransmitSound
  <1>3. q.lastack = p.lastack /\ q.nxt = p.nxt /\ q.wnd = p.wnd /\ q.lbb = p.lbb /\ q.acked = 0
    BY <1>2 DEF Keeps, Fields
  <1>4. CASE p.unacked = <<>> \/ p.infr
    BY <1>1, <1>4 DEF FastRetransmit
  <1>5. CASE p.unacked # <<>> /\ ~p.infr
    <2>1. PICK u \in Queues, v \in Queues : u = p.unacked /\ v = p.unsent
      BY DEF Sound, QueuesType
    <2>2. PICK h \in Segments, t \in Queues :
                /\ h = Head(u) /\ t = Tail(u) /\ u = <<h>> \o t /\ h \in ToSet(u)
                /\ Gathers(u, <<h>>, t)
      BY <1>5, <2>1, HeadApart
    <2>3. q.unacked = t /\ q.unsent = Insert(v, h) /\ q.cwnd = SndBuf /\ q.infr
      BY <1>1, <1>2, <1>5, <2>1, <2>2 DEF FastRetransmit, Keeps, IsPcb, Fields
    <2>4. <<h>> \in Queues /\ ToSet(<<h>>) = {h} /\ InOrder(<<h>>) /\ Len(<<h>>) = 1
      BY FewSegments, OrderOfFew
    <2>5. InOrder(u) /\ InOrder(v) /\ Precedes(ToSet(u), ToSet(v))
      BY <2>1 DEF Orderly, Sorted
    <2>6. InOrder(t) /\ Precedes({h}, ToSet(t)) /\ ToSet(u) = {h} \cup ToSet(t)
      <3>1. PICK c \in Queues : c = <<h>> /\ ToSet(c) = {h}
        BY <2>4
      <3>2. InOrder(c \o t) /\ Gathers(u, c, t)
        BY <2>2, <2>5, <3>1
      <3>3. InOrder(t) /\ Precedes(ToSet(c), ToSet(t))
        BY <3>2, OrderOfConcat
      <3>4. ToSet(u) = ToSet(c) \cup ToSet(t)
        BY <3>2 DEF Gathers
      <3> QED
        BY <3>1, <3>3, <3>4
    <2>7. Precedes({h}, ToSet(v)) /\ Precedes(ToSet(t), ToSet(v))
      BY <2>5, <2>6 DEF Precedes
    <2>8. /\ h.seq \in Int /\ EndOf(h) \in Int /\ h.len \in Int /\ h.seq < EndOf(h)
          /\ h.seq + h.len <= EndOf(h)
          /\ EndOf(h) <= p.lbb /\ EndOf(h) <= p.nxt /\ h.seq + h.len <= Total
          /\ p.lastack < EndOf(h) /\ h.seq + h.len <= p.lastack + p.wnd
      <3>1. h \in InQueues(p) /\ h \in ToSet(p.unacked)
        BY <2>1, <2>2 DEF InQueues
      <3>2. p.lastack < EndOf(h) /\ h.seq + h.len <= p.lastack + p.wnd
        BY <3>1 DEF Orderly, Current
      <3> QED
        BY <3>1, <3>2, SoundShape
    <2>9. Insert(v, h) = <<h>> \o v
      <3>1. \A i \in 1 .. Len(v) : ~(v[i].seq < h.seq)
        <4>1. SUFFICES ASSUME NEW i \in 1 .. Len(v) PROVE ~(v[i].seq < h.seq)
          OBVIOUS
        <4>2. v[i] \in Segments /\ v[i] \in ToSet(v)
          BY QueueTypes
        <4>3. v[i].seq \in Int /\ EndOf(h) <= v[i].seq
          BY <2>7, <4>2, SegmentTypes DEF Precedes
        <4> QED
          BY <2>8, <4>3
      <3> QED
        BY <3>1, InsertGathers
    <2>10. PICK w \in Queues : w = <<h>> \o v /\ w = q.unsent /\ ToSet(w) = {h} \cup ToSet(v)
      <3>1. PICK c \in Queues : c = <<h>> /\ ToSet(c) = {h}
        BY <2>4
      <3>2. Gathers(c \o v, c, v)
        BY GathersConcat
      <3>3. c \o v \in Queues /\ ToSet(c \o v) = ToSet(c) \cup ToSet(v)
        BY <3>2 DEF Gathers
      <3> QED
        BY <2>3, <2>9, <3>1, <3>3
    <2>11. /\ w[1] = h /\ w # <<>> /\ Len(w) = Len(v) + 1
           /\ \A n \in 2 .. Len(w) : w[n] \in ToSet(v)
      <3>1. v \in Seq(Segments) /\ <<h>> \in Seq(Segments)
        BY <2>4 DEF Queues
      <3>2. PICK m \in Nat : m = Len(v)
        BY QueueTypes
      <3>3. w[1] = h /\ Len(w) = m + 1 /\ \A n \in 2 .. m + 1 : w[n] = v[n - 1]
        BY <2>4, <2>10, <3>1, <3>2
      <3>4. \A n \in 2 .. m + 1 : n - 1 \in 1 .. Len(v)
        BY <3>2
      <3>5. \A i \in 1 .. Len(v) : v[i] \in ToSet(v)
        BY QueueTypes
      <3>6. w # <<>>
        BY <3>2, <3>3, QueueTypes
      <3> QED
        BY <3>2, <3>3, <3>4, <3>5, <3>6
    <2>12. InOrder(q.unsent) /\ InOrder(q.unacked)
      <3>1. PICK c \in Queues : c = <<h>> /\ ToSet(c) = {h} /\ InOrder(c)
        BY <2>4
      <3>2. InOrder(c \o v)
        BY <2>5, <2>7, <3>1, OrderOfConcat
      <3> QED
        BY <2>3, <2>6, <2>10, <3>1, <3>2
    <2>13. Current(q)
      <3>1. InQueues(q) = InQueues(p)
        BY <2>1, <2>3, <2>6, <2>10 DEF InQueues
      <3>2. ToSet(q.unacked) \subseteq ToSet(p.unacked)
        BY <2>1, <2>3, <2>6
      <3> QED
        BY <1>3, <3>1, <3>2 DEF Orderly, Current
    <2>14. Fits(q, h, Min2(q.wnd, q.cwnd))
      <3>1. Min2(p.lbb, Total) - p.lastack <= SndBuf
        BY DEF Orderly, Current
      <3>2. PICK a \in Int, e \in Int, b \in Int, x \in Int, l \in Int, y \in Int :
                a = p.lastack /\ e = EndOf(h) /\ b = p.lbb /\ x = h.seq /\ l = h.len /\ y = p.wnd
        BY <2>8, SoundShape, SoundNumbers
      <3>3. SndBuf \in Int /\ Total \in Int
        BY ConstantTypes
      <3>4. x + l <= Min2(b, Total)
        BY <2>8, <3>2, <3>3 DEF Min2
      <3>5. x - a + l <= y /\ x - a + l <= SndBuf /\ 0 <= x - a + l
        <4>1. Min2(b, Total) \in Int /\ Min2(b, Total) - a <= SndBuf
          BY <3>1, <3>2, <3>3, MinOfTwo
        <4>2. e <= x + l + 1
          <5>1. h.fin \in BOOLEAN
            BY SegmentTypes
          <5> QED
            BY <3>2, <5>1 DEF EndOf
        <4>3. a < e /\ x + l <= a + y
          BY <2>8, <3>2
        <4> QED
          BY <3>3, <3>4, <4>1, <4>2, <4>3
      <3>6. x - a + l \in 0 .. Min2(y, SndBuf)
        BY <3>2, <3>3, <3>5 DEF Min2
      <3> QED
        BY <1>3, <2>3, <3>2, <3>6 DEF Fits
    <2>15. \A s \in ToSet(q.unacked) : EndOf(w[1]) <= s.seq
      BY <2>3, <2>6, <2>11 DEF Precedes
    <2>16. \A n \in 2 .. Len(w) : \A s \in ToSet(q.unacked) : EndOf(s) <= w[n].seq
      BY <2>3, <2>7, <2>11 DEF Precedes
    <2>17. q.lastack < q.nxt
      <3>1. p.lastack \in Int /\ p.nxt \in Int
        BY SoundNumbers
      <3> QED
        BY <1>3, <2>8, <3>1
    <2>18. Returned(q)
      BY <1>3, <2>3, <2>10, <2>11, <2>12, <2>13, <2>14, <2>15, <2>16, <2>17 DEF Returned
    <2> QED
      BY <1>1, <1>3, <2>18
  <1> QED
    BY <1>1, <1>3, <1>4, <1>5

-----------------------------------------------------------------------------
(* Acknowledgements                                                        *)

LEMMA DuplicateOrders ==
    ASSUME NEW p, Sound(p), p.out = {}, p.state \notin Over, Orderly(p), p.acked = 0
    PROVE  /\ Orderly(Duplicate(p)) \/ Returned(Duplicate(p))
           /\ Duplicate(p).nxt = p.nxt /\ Duplicate(p).lastack = p.lastack
           /\ Duplicate(p).acked = 0
  <1>1. PICK d : d = Min2(p.dupacks + 1, 4)
    OBVIOUS
  <1>2. PICK r : r = [p EXCEPT !.dupacks = d]
    OBVIOUS
  <1>3. IsPcb(p) /\ Counters(p)
    BY DEF Sound
  <1>4. Keeps(p, r, {"dupacks"}) /\ r.dupacks = d
    BY <1>2, <1>3 DEF Keeps, IsPcb, Fields
  <1>5. d \in 0 .. 4
    BY <1>1, <1>3 DEF Counters, Min2
  <1>6. /\ r.wnd = p.wnd /\ r.wl1 = p.wl1 /\ r.wl2 = p.wl2 /\ r.rcv = p.rcv
        /\ r.buf = p.buf /\ r.qlen = p.qlen /\ r.cwnd = p.cwnd /\ r.nrtx = p.nrtx
        /\ r.acked = p.acked /\ r.state = p.state
    BY <1>4 DEF Keeps, Fields
  <1>7. Counters(r)
    BY <1>3, <1>4, <1>5, <1>6 DEF Counters
  <1>8. Sound(r) /\ r.out = {}
    <2>1. Keeps(p, r, LooseFields)
      BY <1>4 DEF Keeps, LooseFields
    <2> QED
      BY <1>7, <2>1, LooseSound
  <1>9. PICK q : q = Repeated(r)
    OBVIOUS
  <1>10. Duplicate(p) = q
    BY <1>1, <1>2, <1>9 DEF Duplicate
  <1>11. q.nxt = p.nxt /\ q.lastack = p.lastack /\ q.acked = 0
    <2>1. Keeps(p, q, DuplicateFields)
      BY <1>10, DuplicateSound
    <2> QED
      BY <2>1 DEF Keeps, DuplicateFields, Fields
  <1>12. Orderly(r)
    <2>1. {"dupacks"} \cap OrderFields = {}
      BY DEF OrderFields
    <2> QED
      BY <1>4, <2>1, OrderKept
  <1>13. CASE r.dupacks = 3
    <2>1. q = FastRetransmit(r)
      BY <1>9, <1>13 DEF Repeated
    <2>2. FastRetransmit(r) = r \/ Returned(FastRetransmit(r))
      BY <1>6, <1>8, <1>12, FastRetransmitReturns
    <2> QED
      BY <1>10, <1>11, <1>12, <2>1, <2>2
  <1>14. CASE r.dupacks > 3
    <2>1. PICK c : c = Min2(r.cwnd + MSS, SndBuf)
      OBVIOUS
    <2>2. q = [r EXCEPT !.cwnd = c]
      <3>1. r.dupacks # 3
        BY <1>4, <1>5, <1>14
      <3> QED
        BY <1>9, <1>14, <2>1, <3>1 DEF Repeated
    <2>3. Keeps(r, q, {"cwnd"}) /\ {"cwnd"} \cap OrderFields = {}
      BY <1>4, <2>2 DEF Keeps, IsPcb, Fields, OrderFields
    <2>4. Orderly(q)
      BY <1>8, <1>12, <2>3, OrderKept
    <2> QED
      BY <1>10, <1>11, <2>4
  <1>15. CASE r.dupacks # 3 /\ ~(r.dupacks > 3)
    <2>1. q = r
      BY <1>9, <1>15 DEF Repeated
    <2> QED
      BY <1>10, <1>11, <1>12, <2>1
  <1> QED
    BY <1>13, <1>14, <1>15

LEMMA CutLive ==
    ASSUME NEW u \in Queues, InOrder(u), \A s \in ToSet(u) : s.seq < EndOf(s),
           NEW ack \in Int, NEW v, Cut(v, u, ack)
    PROVE  /\ v \in Queues /\ InOrder(v) /\ ToSet(v) \subseteq ToSet(u)
           /\ \A s \in ToSet(v) : ack < EndOf(s)
  <1>1. PICK k \in 0 .. Len(u) : /\ v = SubSeq(u, k + 1, Len(u))
                                 /\ k < Len(u) => ~(EndOf(u[k + 1]) <= ack)
    BY DEF Cut
  <1>2. v \in Queues /\ ToSet(v) \subseteq ToSet(u)
    <2>1. Shortened(v, u, ack)
      BY CutShortens
    <2> QED
      BY <2>1, ShortenedQueue
  <1>3. InOrder(v)
    BY <1>1, OrderOfRest
  <1>4. PICK n \in Nat : n = Len(u)
    BY QueueTypes
  <1>5. Len(v) = n - k /\ \A i \in 1 .. n - k : v[i] = u[k + i]
    BY <1>1, <1>4, GathersSplit
  <1>6. ASSUME NEW s \in ToSet(v) PROVE ack < EndOf(s)
    <2>1. PICK i \in 1 .. n - k : v[i] = s
      BY <1>2, <1>5, QueueTypes
    <2>2. k + 1 \in 1 .. n /\ k + i \in 1 .. n
      BY <1>4
    <2>3. PICK a \in Int, b \in Int, c \in Int : a = EndOf(u[k + 1]) /\ b = s.seq /\ c = EndOf(s)
      <3>1. u[k + 1] \in Segments /\ s \in Segments
        BY <1>2, <1>4, <2>2, QueueTypes
      <3> QED
        BY <3>1, SegmentTypes
    <2>4. ack < a
      BY <1>1, <1>4, <2>2, <2>3
    <2>5. b < c
      BY <1>2, <2>3
    <2>6. CASE i = 1
      BY <1>5, <2>1, <2>3, <2>4, <2>6
    <2>7. CASE i # 1
      <3>1. k + 1 \in 1 .. (k + i) - 1
        BY <2>7
      <3>2. a <= b
        BY <1>4, <1>5, <2>1, <2>2, <2>3, <3>1 DEF InOrder
      <3> QED
        BY <2>3, <2>4, <2>5, <3>2
    <2> QED
      BY <2>6, <2>7
  <1> QED
    BY <1>2, <1>3, <1>6

\* Nothing is cut by an ACK that all of the queue is beyond.
LEMMA CutNothing ==
    ASSUME NEW u \in Queues, NEW ack \in Int, \A s \in ToSet(u) : ack < EndOf(s),
           NEW v, Cut(v, u, ack)
    PROVE  v = u
  <1>1. PICK k \in 0 .. Len(u) : /\ v = SubSeq(u, k + 1, Len(u))
                                 /\ \A i \in 1 .. k : EndOf(u[i]) <= ack
    BY DEF Cut
  <1>2. PICK n \in Nat : n = Len(u)
    BY QueueTypes
  <1>3. k = 0
    <2>1. SUFFICES ASSUME k # 0 PROVE FALSE
      OBVIOUS
    <2>2. 1 \in 1 .. k /\ 1 \in 1 .. n
      BY <1>2, <2>1
    <2>3. u[1] \in Segments /\ u[1] \in ToSet(u)
      BY <1>2, <2>2, QueueTypes
    <2>4. EndOf(u[1]) <= ack /\ ack < EndOf(u[1]) /\ EndOf(u[1]) \in Int
      BY <1>1, <2>2, <2>3, SegmentTypes
    <2> QED
      BY <2>4
  <1>4. v = SubSeq(u, 1, Len(u))
    BY <1>1, <1>3
  <1>5. u \in Seq(Segments)
    BY DEF Queues
  <1> QED
    BY <1>4, <1>5

\* The window and the acknowledgement that a message brings are later than
\* what is known, or repeat it.
Expects(p, m) ==
    /\ m.seq = 0 /\ ~m.fin /\ p.wl1 = 0 /\ p.lastack <= p.wl2
    /\ p.wl2 < m.ack => p.wl2 + p.wnd <= m.ack + m.wnd
    /\ m.ack <= p.nxt \/ m.ack <= p.lastack + 1

\* What is unacked is in the window, once an ACK that is new is taken.
Updated(p, ack) ==
    /\ ack \notin p.lastack + 1 .. p.nxt => Orderly(p)
    /\ ack \in p.lastack + 1 .. p.nxt =>
          /\ Sorted(p) /\ Min2(p.lbb, Total) - p.lastack <= SndBuf
          /\ \A seg \in ToSet(p.unacked) : seg.seq + seg.len <= ack + p.wnd

LEMMA WindowUpdateOrders ==
    ASSUME NEW p, Ready(p), NEW m \in Messages, Orderly(p), Expects(p, m)
    PROVE  Updated(WindowUpdate(p, m), m.ack) /\ Keeps(p, WindowUpdate(p, m), WindowFields)
  <1>1. PICK q : q = WindowUpdate(p, m)
    OBVIOUS
  <1>2. Keeps(p, q, WindowFields) /\ Learned(p, m, q)
    BY <1>1, WindowUpdateSound, WindowUpdateLearns
  <1>3. /\ q.unacked = p.unacked /\ q.unsent = p.unsent /\ q.lastack = p.lastack
        /\ q.nxt = p.nxt /\ q.lbb = p.lbb
    BY <1>2 DEF Keeps, WindowFields, Fields
  <1>4. Sound(p)
    BY DEF Ready
  <1>5. PICK l \in Int, w2 \in Int, w \in Int, a \in Int, v \in Int, n \in Int :
            /\ l = p.lastack /\ w2 = p.wl2 /\ w = p.wnd /\ a = m.ack /\ v = m.wnd /\ n = p.nxt
            /\ l <= n
    <2>1. p.wl2 \in Int /\ p.wnd \in Int
      BY <1>4, ConstantTypes DEF Sound, Counters
    <2>2. m.ack \in Int /\ m.wnd \in Int
      BY ConstantTypes DEF Messages
    <2>3. p.lastack \in Int /\ p.nxt \in Int /\ p.lastack <= p.nxt
      BY <1>4, SoundNumbers, SoundShape
    <2> QED
      BY <2>1, <2>2, <2>3
  <1>6. /\ l <= w2 /\ (w2 < a => w2 + w <= a + v) /\ (a <= n \/ a <= l + 1)
        /\ m.seq = 0 /\ p.wl1 = 0
    BY <1>5 DEF Expects
  <1>7. PICK x \in Int : x = q.wnd /\ (x = w \/ (x = v /\ (w2 < a \/ (w2 = a /\ w < v))))
    BY <1>2, <1>5, <1>6 DEF Learned
  <1>8. a \in l + 1 .. n => l + w <= a + x
    BY <1>6, <1>7
  <1>9. a <= l => w <= x
    BY <1>6, <1>7
  <1>10. ~(a <= l) /\ a \notin l + 1 .. n => n = l
    BY <1>5, <1>6
  <1>11. ASSUME NEW seg \in ToSet(p.unacked)
         PROVE  /\ seg.seq + seg.len \in Int /\ seg.seq + seg.len <= l + w /\ n # l
    <2>1. /\ seg.seq \in Int /\ seg.len \in Int /\ EndOf(seg) \in Int /\ EndOf(seg) <= n
          /\ seg \in InQueues(p)
      BY <1>4, <1>5, SoundShape DEF InQueues
    <2>2. seg.seq + seg.len <= l + w /\ l < EndOf(seg)
      BY <1>5, <2>1 DEF Orderly, Current
    <2> QED
      BY <1>5, <2>1, <2>2
  <1>12. ASSUME a \notin l + 1 .. n, NEW seg \in ToSet(p.unacked)
         PROVE  seg.seq + seg.len <= l + x
    <2>1. a <= l
      BY <1>10, <1>11, <1>12
    <2> QED
      BY <1>9, <1>11, <2>1
  <1>13. ASSUME a \in l + 1 .. n, NEW seg \in ToSet(p.unacked)
         PROVE  seg.seq + seg.len <= a + x
    <2>1. PICK y \in Int : y = seg.seq + seg.len /\ y <= l + w
      BY <1>11
    <2>2. l + w <= a + x
      BY <1>8, <1>13
    <2>3. y <= a + x
      BY <1>7, <2>1, <2>2
    <2> QED
      BY <2>1, <2>3
  <1>14. Sorted(q) /\ Min2(q.lbb, Total) - q.lastack <= SndBuf
    BY <1>3 DEF Orderly, Sorted, Current
  <1>15. ASSUME a \notin l + 1 .. n PROVE Orderly(q)
    <2>1. \A seg \in InQueues(q) : q.lastack < EndOf(seg)
      BY <1>3 DEF Orderly, Current, InQueues
    <2>2. \A seg \in ToSet(q.unacked) : seg.seq + seg.len <= q.lastack + q.wnd
      BY <1>3, <1>5, <1>7, <1>12, <1>15
    <2> QED
      BY <1>14, <2>1, <2>2 DEF Orderly, Current
  <1>16. Updated(q, m.ack)
    BY <1>3, <1>5, <1>7, <1>13, <1>14, <1>15 DEF Updated
  <1> QED
    BY <1>1, <1>2, <1>16

LEMMA NewAckOrders ==
    ASSUME NEW p, Ready(p), p.state \notin Over, NEW ack \in p.lastack + 1 .. p.nxt,
           Updated(p, ack), NEW r, r = NewAck(p, ack, Unacked(p.unacked, ack))
    PROVE  Orderly(AckUnsent(r, ack)) /\ AckUnsent(r, ack).nxt = p.nxt
  <1>1. /\ Sound(p) /\ IsPcb(p) /\ p.lastack \in Int /\ p.nxt \in Int
        /\ p.unacked \in Queues /\ p.unsent \in Queues
    BY SoundNumbers, SoundShape DEF Ready
  <1>2. /\ Sorted(p) /\ Min2(p.lbb, Total) - p.lastack <= SndBuf
        /\ \A seg \in ToSet(p.unacked) : seg.seq + seg.len <= ack + p.wnd
    BY DEF Updated
  <1>3. ack \in Int /\ p.lastack < ack /\ ack <= p.nxt
    BY <1>1
  <1>4. PICK v, w : v = Unacked(p.unacked, ack) /\ w = Unacked(p.unsent, ack)
    OBVIOUS
  <1>5. Cut(v, p.unacked, ack) /\ Cut(w, p.unsent, ack)
    BY <1>1, <1>4, UnackedIsCut
  <1>6. \A seg \in InQueues(p) : seg.seq < EndOf(seg)
    BY <1>1, SoundShape
  <1>7. /\ v \in Queues /\ InOrder(v) /\ ToSet(v) \subseteq ToSet(p.unacked)
        /\ \A s \in ToSet(v) : ack < EndOf(s)
    BY <1>1, <1>2, <1>3, <1>5, <1>6, CutLive DEF Sorted, InQueues
  <1>8. /\ w \in Queues /\ InOrder(w) /\ ToSet(w) \subseteq ToSet(p.unsent)
        /\ \A s \in ToSet(w) : ack < EndOf(s)
    BY <1>1, <1>2, <1>3, <1>5, <1>6, CutLive DEF Sorted, InQueues
  <1>9. /\ Keeps(p, r, AckFields) /\ r.unacked = v /\ r.unsent = p.unsent /\ r.lastack = ack
    BY <1>1, <1>3, <1>4, NewAckFrame
  <1>10. r.nxt = p.nxt /\ r.lbb = p.lbb /\ r.wnd = p.wnd /\ IsPcb(r)
    BY <1>9 DEF Keeps, AckFields, DuplicateFields, Fields
  <1>11. PICK s : s = Free(r, v, w)
    OBVIOUS
  <1>12. AckUnsent(r, ack) = s
    BY <1>3, <1>4, <1>9, <1>10, <1>11 DEF AckUnsent
  <1>13. /\ Keeps(r, s, {"unacked", "unsent", "qlen", "acked"})
         /\ s.unacked = v /\ s.unsent = w
    BY <1>10, <1>11, AccountFrame
  <1>14. s.lastack = ack /\ s.nxt = p.nxt /\ s.lbb = p.lbb /\ s.wnd = p.wnd
    BY <1>9, <1>10, <1>13 DEF Keeps, Fields
  <1>15. Sorted(s)
    <2>1. Precedes(ToSet(v), ToSet(w))
      BY <1>2, <1>7, <1>8 DEF Sorted, Precedes
    <2> QED
      BY <1>7, <1>8, <1>13, <2>1 DEF Sorted
  <1>16. Current(s)
    <2>1. \A seg \in InQueues(s) : s.lastack < EndOf(seg)
      BY <1>7, <1>8, <1>13, <1>14 DEF InQueues
    <2>2. \A seg \in ToSet(s.unacked) : seg.seq + seg.len <= s.lastack + s.wnd
      BY <1>2, <1>7, <1>13, <1>14
    <2>3. Min2(s.lbb, Total) - s.lastack <= SndBuf
      <3>1. p.lbb \in Int /\ Total \in Int /\ SndBuf \in Int
        BY <1>1, SoundNumbers, ConstantTypes
      <3>2. Min2(p.lbb, Total) \in Int
        BY <3>1, MinOfTwo
      <3> QED
        BY <1>1, <1>2, <1>3, <1>14, <3>1, <3>2
    <2> QED
      BY <2>1, <2>2, <2>3 DEF Current
  <1> QED
    BY <1>12, <1>14, <1>15, <1>16 DEF Orderly

\* An ACK that is not new leaves the unsent segments.
LEMMA OldAckKeeps ==
    ASSUME NEW p, IsPcb(p), QueuesType(p), p.lastack \in Int, p.nxt \in Int, Current(p),
           NEW ack \in Int, ack <= p.lastack \/ ~(ack <= p.nxt), p.acked = 0
    PROVE  /\ Keeps(p, AckUnsent(p, ack), {"qlen", "acked"})
           /\ AckUnsent(p, ack).acked = 0
  <1>1. PICK s : s = AckUnsent(p, ack)
    OBVIOUS
  <1>2. CASE ~(ack <= p.nxt)
    <2>1. s = p
      BY <1>1, <1>2 DEF AckUnsent
    <2> QED
      BY <1>1, <2>1 DEF Keeps
  <1>3. CASE ack <= p.nxt /\ ack <= p.lastack
    <2>1. PICK u \in Queues, w \in Queues : u = p.unacked /\ w = p.unsent
      BY DEF QueuesType
    <2>2. Cut(Unacked(w, ack), w, ack)
      BY UnackedIsCut
    <2>3. \A seg \in ToSet(w) : ack < EndOf(seg)
      <3>1. SUFFICES ASSUME NEW seg \in ToSet(w) PROVE ack < EndOf(seg)
        OBVIOUS
      <3>2. p.lastack < EndOf(seg)
        BY <2>1 DEF Current, InQueues
      <3>3. EndOf(seg) \in Int
        BY QueueTypes, SegmentTypes
      <3> QED
        BY <1>3, <3>2, <3>3
    <2>4. Unacked(w, ack) = w
      BY <2>2, <2>3, CutNothing
    <2>5. s = Free(p, u, w)
      BY <1>1, <1>3, <2>1, <2>4 DEF AckUnsent
    <2>6. /\ Keeps(p, s, {"unacked", "unsent", "qlen", "acked"})
          /\ s.unacked = u /\ s.unsent = w /\ s.acked = 0
      BY <2>5, AccountFrame
    <2>7. Keeps(p, s, {"qlen", "acked"})
      BY <2>1, <2>6 DEF Keeps, Fields
    <2> QED
      BY <1>1, <2>6, <2>7
  <1> QED
    BY <1>2, <1>3

LEMMA OldAckOrders ==
    ASSUME NEW p, Ready(p), Orderly(p) \/ Returned(p), p.acked = 0,
           NEW ack \in Int, ack <= p.lastack \/ ~(ack <= p.nxt)
    PROVE  LET q == AckUnsent(p, ack)
           IN  /\ q.nxt = p.nxt /\ q.lastack = p.lastack /\ q.acked = 0
               /\ Orderly(p) => Orderly(q)
               /\ Returned(p) => Returned(q)
  <1>1. PICK q : q = AckUnsent(p, ack)
    OBVIOUS
  <1>2. /\ Sound(p) /\ IsPcb(p) /\ QueuesType(p) /\ p.lastack \in Int /\ p.nxt \in Int
    BY SoundNumbers DEF Ready, Sound
  <1>3. Current(p)
    BY DEF Orderly, Returned
  <1>4. Keeps(p, q, {"qlen", "acked"}) /\ q.acked = 0
    BY <1>1, <1>2, <1>3, OldAckKeeps
  <1>5. q.nxt = p.nxt /\ q.lastack = p.lastack
    BY <1>4 DEF Keeps, Fields
  <1>6. /\ {"qlen", "acked"} \cap OrderFields = {}
        /\ {"qlen", "acked"} \cap (ReturnedFields \ {"acked"}) = {}
    BY DEF OrderFields, ReturnedFields
  <1>7. Orderly(p) => Orderly(q)
    BY <1>2, <1>4, <1>6, OrderKept
  <1>8. Returned(p) => Returned(q)
    BY <1>4, <1>6, ReturnedKept
  <1> QED
    BY <1>1, <1>4, <1>5, <1>7, <1>8

LEMMA AckUnackedOrders ==
    ASSUME NEW p, Ready(p), p.state \notin Over, p.acked = 0, NEW m \in Messages,
           Updated(p, m.ack), NEW edge, NEW q, q = AckUnacked(p, m, edge)
    PROVE  /\ AckUnsent(q, m.ack).nxt = p.nxt
           /\ \/ Orderly(AckUnsent(q, m.ack))
              \/ Returned(AckUnsent(q, m.ack)) /\ m.ack <= p.lastack
                                               /\ AckUnsent(q, m.ack).lastack = p.lastack
  <1>1. /\ Sound(p) /\ IsPcb(p) /\ p.lastack \in Int /\ p.nxt \in Int /\ m.ack \in Int
        /\ p.out = {}
    BY SoundNumbers, ConstantTypes DEF Ready, Messages
  <1>2. Ready(q)
    BY AckUnackedReady
  <1>3. m.ack \in p.lastack + 1 .. p.nxt => ~(m.ack <= p.lastack)
    BY <1>1
  <1>4. PICK r : r = AckUnsent(q, m.ack)
    OBVIOUS
  <1>5. CASE m.ack <= p.lastack
    <2>1. Orderly(p)
      BY <1>3, <1>5 DEF Updated
    <2>2. q = Duplicate(p) \/ q = [p EXCEPT !.dupacks = 0]
      BY <1>3, <1>5 DEF AckUnacked
    <2>3. /\ Orderly(q) \/ Returned(q)
          /\ q.nxt = p.nxt /\ q.lastack = p.lastack /\ q.acked = 0
      <3>1. CASE q = Duplicate(p)
        BY <1>1, <2>1, <3>1, DuplicateOrders
      <3>2. CASE q = [p EXCEPT !.dupacks = 0]
        <4>1. Keeps(p, q, {"dupacks"}) /\ {"dupacks"} \cap OrderFields = {}
          BY <1>1, <3>2 DEF Keeps, IsPcb, Fields, OrderFields
        <4>2. Orderly(q)
          BY <1>1, <2>1, <4>1, OrderKept
        <4>3. q.nxt = p.nxt /\ q.lastack = p.lastack /\ q.acked = 0
          BY <4>1 DEF Keeps, Fields
        <4> QED
          BY <4>2, <4>3
      <3> QED
        BY <2>2, <3>1, <3>2
    <2>4. PICK ack \in Int : ack = m.ack /\ ack <= q.lastack
      BY <1>1, <1>5, <2>3
    <2>5. /\ AckUnsent(q, ack).nxt = q.nxt /\ AckUnsent(q, ack).lastack = q.lastack
          /\ Orderly(q) => Orderly(AckUnsent(q, ack))
          /\ Returned(q) => Returned(AckUnsent(q, ack))
      BY <1>2, <2>3, <2>4, OldAckOrders
    <2> QED
      BY <1>5, <2>3, <2>4, <2>5
  <1>6. CASE m.ack \in p.lastack + 1 .. p.nxt
    <2>1. q = NewAck(p, m.ack, Unacked(p.unacked, m.ack))
      BY <1>3, <1>6 DEF AckUnacked
    <2>2. PICK ack \in p.lastack + 1 .. p.nxt : ack = m.ack
      BY <1>6
    <2>3. Orderly(AckUnsent(q, ack)) /\ AckUnsent(q, ack).nxt = p.nxt
      BY <2>1, <2>2, NewAckOrders
    <2> QED
      BY <2>2, <2>3
  <1>7. CASE ~(m.ack <= p.lastack) /\ m.ack \notin p.lastack + 1 .. p.nxt
    <2>1. q = p /\ Orderly(p)
      BY <1>7 DEF AckUnacked, Updated
    <2>2. PICK ack \in Int : ack = m.ack /\ ~(ack <= p.nxt)
      BY <1>1, <1>7
    <2>3. AckUnsent(p, ack).nxt = p.nxt /\ Orderly(AckUnsent(p, ack))
      BY <2>1, <2>2, OldAckOrders
    <2> QED
      BY <2>1, <2>2, <2>3
  <1> QED
    BY <1>5, <1>6, <1>7

LEMMA ReceiveAckOrders ==
    ASSUME NEW p, Ready(p), p.state \notin Over, p.acked = 0, NEW m \in Messages, Orderly(p),
           Expects(p, m)
    PROVE  /\ ReceiveAck(p, m).nxt = p.nxt
           /\ \/ Orderly(ReceiveAck(p, m))
              \/ Returned(ReceiveAck(p, m)) /\ m.ack <= ReceiveAck(p, m).lastack
  <1>1. PICK q : q = WindowUpdate(p, m)
    OBVIOUS
  <1>2. Ready(q) /\ Keeps(p, q, WindowFields) /\ Updated(q, m.ack)
    BY <1>1, WindowUpdateSound, WindowUpdateOrders
  <1>3. q.state = p.state /\ q.lastack = p.lastack /\ q.nxt = p.nxt /\ q.acked = 0
    BY <1>2 DEF Keeps, WindowFields, Fields
  <1>4. PICK r : r = AckUnacked(q, m, p.wl2 + p.wnd)
    OBVIOUS
  <1>5. PICK s : s = AckUnsent(r, m.ack)
    OBVIOUS
  <1>6. /\ s.nxt = q.nxt
        /\ Orderly(s) \/ (Returned(s) /\ m.ack <= q.lastack /\ s.lastack = q.lastack)
    BY <1>2, <1>3, <1>4, <1>5, AckUnackedOrders
  <1>7. ReceiveAck(p, m) = s
    BY <1>1, <1>4, <1>5 DEF ReceiveAck
  <1> QED
    BY <1>3, <1>6, <1>7

\* Whatever becomes of the state.
LEMMA NewStateOrders ==
    ASSUME NEW p, Ready(p), Orderly(p), NEW got, NEW full
    PROVE  Orderly(NewState(p, got, full))
  <1>1. PICK q : q = NewState(p, got, full)
    OBVIOUS
  <1>2. /\ Sound(p) /\ IsPcb(p) /\ p.state \in States
        /\ Keeps(p, q, PurgeFields) /\ Min2(p.lbb, Total) - p.lastack <= SndBuf
    BY <1>1, SoundNumbers, NewStateReady DEF Ready, Orderly, Current
  <1>3. \/ \E state : q = [p EXCEPT !.state = state]
        \/ \E state : q = Purge(p, state)
        \/ q = p
    BY <1>1, <1>2, NewStateCases
  <1>4. CASE q = p
    BY <1>1, <1>4
  <1>5. ASSUME NEW state, q = [p EXCEPT !.state = state] PROVE Orderly(q)
    <2>1. Keeps(p, q, {"state"}) /\ {"state"} \cap OrderFields = {}
      BY <1>2, <1>5 DEF Keeps, IsPcb, Fields, OrderFields
    <2> QED
      BY <1>2, <2>1, OrderKept
  <1>6. ASSUME NEW state, q = Purge(p, state) PROVE Orderly(q)
    <2>1. q.unacked = <<>> /\ q.unsent = <<>>
      BY <1>2, <1>6 DEF Purge, IsPcb, Fields
    <2>2. q.lbb = p.lbb /\ q.lastack = p.lastack
      BY <1>2 DEF Keeps, PurgeFields, Fields
    <2> QED
      BY <1>2, <2>1, <2>2, NothingOrderly
  <1> QED
    BY <1>1, <1>3, <1>4, <1>5, <1>6

LEMMA ProcessOrders ==
    ASSUME NEW p, Ready(p), p.state \notin Over, p.acked = 0, NEW m \in Messages, Orderly(p),
           Expects(p, m)
    PROVE  /\ Process(p, m).nxt = p.nxt
           /\ Orderly(Process(p, m)) \/ (Returned(Process(p, m)) /\ Process(p, m).rcv = p.rcv)
  <1>1. PICK q : q = ReceiveAck(p, m)
    OBVIOUS
  <1>2. /\ Ready(q) /\ Keeps(p, q, ReceiveFields) /\ q.nxt = p.nxt
        /\ Orderly(q) \/ (Returned(q) /\ m.ack <= q.lastack)
    BY <1>1, ReceiveAckReady, ReceiveAckOrders
  <1>3. PICK r : r = ReceiveFin(q, m)
    OBVIOUS
  <1>4. Ready(r) /\ Keeps(q, r, FinFields) /\ Sound(q) /\ Sound(r)
    BY <1>2, <1>3, ReceiveFinReady DEF Ready
  <1>5. r.nxt = p.nxt /\ r.acked = q.acked /\ q.rcv = p.rcv /\ r.lastack = q.lastack
    BY <1>2, <1>4 DEF Keeps, ReceiveFields, AckFields, DuplicateFields, WindowFields,
                      FinFields, Fields
  <1>6. r.rcv = p.rcv
    <2>1. ~m.fin
      BY DEF Expects
    <2>2. r = q \/ r = [q EXCEPT !.acknow = TRUE]
      BY <1>3, <2>1 DEF ReceiveFin
    <2>3. IsPcb(q)
      BY <1>4 DEF Sound
    <2>4. r.rcv = q.rcv
      BY <2>2, <2>3 DEF IsPcb, Fields
    <2> QED
      BY <1>5, <2>4
  <1>7. PICK full \in BOOLEAN : full = FinAcked(r, m)
    <2>1. FinAcked(r, m) \in BOOLEAN
      BY DEF FinAcked
    <2> QED
      BY <2>1
  <1>8. PICK x : x = (r.early \/ (full /\ r.state \in Closing /\ r.unsent # <<>>))
    OBVIOUS
  <1>9. PICK s : s = [r EXCEPT !.early = x]
    OBVIOUS
  <1>10. Keeps(r, s, {"early"}) /\ IsPcb(s)
    BY <1>4, <1>9 DEF Ready, Sound, Keeps, IsPcb, Fields
  <1>11. s.nxt = p.nxt /\ s.acked = q.acked /\ s.rcv = p.rcv
    BY <1>5, <1>6, <1>10 DEF Keeps, Fields
  <1>12. Ready(s)
    <2>1. Keeps(r, s, MarkFields)
      BY <1>10 DEF Keeps, MarkFields
    <2>2. s.out = r.out
      BY <1>10 DEF Keeps, Fields
    <2> QED
      BY <1>4, <2>1, <2>2, MarksSound DEF Ready
  <1>13. PICK t : t = NewState(s, FALSE, full)
    OBVIOUS
  <1>14. Process(p, m) = t
    <2>1. (p.rcv # r.rcv) = FALSE /\ (r.rcv # p.rcv) = FALSE
      BY <1>6
    <2>2. Process(p, m) = Received(r, m, p.rcv)
      BY <1>1, <1>3 DEF Process
    <2>3. Received(r, m, p.rcv) = Advance(r, FALSE, full)
      BY <1>7, <2>1 DEF Received
    <2>4. Advance(r, FALSE, full) = t
      BY <1>8, <1>9, <1>13 DEF Advance
    <2> QED
      BY <2>2, <2>3, <2>4
  <1>15. t.nxt = p.nxt
    <2>1. Keeps(s, t, PurgeFields)
      BY <1>12, <1>13, NewStateReady
    <2> QED
      BY <1>11, <2>1 DEF Keeps, PurgeFields, Fields
  <1>16. CASE Orderly(q)
    <2>1. FinFields \cap OrderFields = {} /\ {"early"} \cap OrderFields = {}
      BY DEF FinFields, OrderFields
    <2>2. Orderly(r)
      BY <1>4, <1>16, <2>1, OrderKept
    <2>3. Orderly(s)
      BY <1>4, <1>10, <2>1, <2>2, OrderKept
    <2>4. Orderly(t)
      BY <1>12, <1>13, <2>3, NewStateOrders
    <2> QED
      BY <1>14, <1>15, <2>4
  <1>17. CASE Returned(q) /\ m.ack <= q.lastack
    <2>1. /\ FinFields \cap (ReturnedFields \ {"acked"}) = {}
          /\ {"early"} \cap (ReturnedFields \ {"acked"}) = {}
      BY DEF FinFields, OrderFields, ReturnedFields
    <2>2. q.acked = 0 /\ q.lastack < q.nxt
      BY <1>17 DEF Returned
    <2>3. Returned(r)
      BY <1>4, <1>5, <1>17, <2>1, <2>2, ReturnedKept
    <2>4. Returned(s)
      BY <1>10, <1>11, <2>1, <2>2, <2>3, ReturnedKept
    <2>5. full = FALSE
      <3>1. m.ack \in Int /\ q.lastack \in Int /\ q.nxt \in Int
        BY <1>4, SoundNumbers, ConstantTypes DEF Messages
      <3>2. m.ack # r.nxt
        BY <1>2, <1>5, <1>17, <2>2, <3>1
      <3> QED
        BY <1>7, <3>2 DEF FinAcked
    <2>6. t = s
      BY <1>13, <2>5 DEF NewState
    <2> QED
      BY <1>11, <1>14, <2>4, <2>6
  <1> QED
    BY <1>2, <1>16, <1>17

-----------------------------------------------------------------------------
(* Events and the end of the step                                          *)

LEMMA SentEventOrders ==
    ASSUME NEW p, Sound(p), p.state \notin Over, Orderly(p)
    PROVE  StaysOrderly(p, SentEvent(p))
  <1>1. PICK q : q = SentEvent(p)
    OBVIOUS
  <1>2. /\ p.nxt \in Int /\ (p.left > 0 => p.state \in Writable)
        /\ p.closing /\ p.state \in Writable => p.lbb = Total /\ p.left = 0
    BY SoundNumbers
  <1>3. CASE p.left > 0 /\ q = WriteMore(p)
    BY <1>1, <1>2, <1>3, WriteMoreOrders
  <1>4. CASE p.closing /\ q = Close(p)
    BY <1>1, <1>2, <1>4, CloseOrders
  <1>5. CASE q = p
    BY <1>1, <1>2, <1>5 DEF StaysOrderly
  <1> QED
    BY <1>1, <1>3, <1>4, <1>5 DEF SentEvent

LEMMA EventsOrders ==
    ASSUME NEW p, Sound(p), Orderly(p), NEW got
    PROVE  StaysOrderly(p, Events(p, got))
  <1>1. p.nxt \in Int
    BY SoundNumbers
  <1>2. CASE p.state \in Over
    BY <1>1, <1>2 DEF Events, StaysOrderly
  <1>3. CASE p.state \notin Over
    <2>1. PICK q : q = SentEvent(p)
      OBVIOUS
    <2>2. Sound(q) /\ StaysOrderly(p, q) /\ Orderly(q)
      BY <1>3, <2>1, SentEventSound, SentEventOrders DEF StaysOrderly
    <2>3. PICK r : r = FinEvent(q, got)
      OBVIOUS
    <2>4. Sound(r)
      BY <2>2, <2>3, FinEventSound
    <2>5. q.nxt \in Int /\ r.nxt \in Int
      BY <2>2, <2>4, SoundNumbers
    <2>6. StaysOrderly(q, r)
      <3>1. CASE q.closing /\ r = TcpClose(q)
        <4>1. q.state \in Writable => q.lbb = Total /\ q.left = 0
          BY <2>2, <3>1, SoundNumbers
        <4> QED
          BY <2>2, <3>1, <4>1, TcpCloseOrders
      <3>2. CASE r = q
        BY <2>2, <2>5, <3>2 DEF StaysOrderly
      <3> QED
        BY <2>3, <3>1, <3>2 DEF FinEvent
    <2>7. Events(p, got) = r
      BY <1>3, <2>1, <2>3 DEF Events
    <2> QED
      BY <1>1, <2>2, <2>5, <2>6, <2>7, StaysOrderlyOn
  <1> QED
    BY <1>2, <1>3

LEMMA ReturnOrders ==
    ASSUME NEW p, Sound(p), p.input, Orderly(p) \/ Returned(p)
    PROVE  StaysOrderly(p, Return(p))
  <1>1. PICK q : q = Returning(p)
    OBVIOUS
  <1>2. Sound(q) /\ Keeps(p, q, {"input", "acked"}) /\ ~q.input /\ q.acked = 0
    BY <1>1, ReturningSound
  <1>3. Return(p) = Output(q)
    BY <1>1 DEF Return, Returning
  <1>4. p.nxt \in Int /\ q.nxt = p.nxt
    BY <1>2, SoundNumbers DEF Keeps, Fields
  <1>5. CASE Orderly(p)
    <2>1. {"input", "acked"} \cap OrderFields = {}
      BY DEF OrderFields
    <2>2. StaysOrderly(p, q)
      BY <1>2, <1>5, <2>1, OrderKept DEF StaysOrderly
    <2> QED
      BY <1>2, <1>3, <1>4, <2>2, ThenOutput
  <1>6. CASE Returned(p)
    <2>1. {"input", "acked"} \cap (ReturnedFields \ {"acked"}) = {}
      BY DEF OrderFields, ReturnedFields
    <2>2. Returned(q)
      BY <1>2, <1>6, <2>1, ReturnedKept
    <2>3. StaysOrderly(q, Output(q))
      BY <1>2, <2>2, ReturnedOutput
    <2> QED
      BY <1>3, <1>4, <2>3 DEF StaysOrderly
  <1> QED
    BY <1>5, <1>6

LEMMA InputOrders ==
    ASSUME NEW p, Ready(p), p.state \notin Over, Resting(p), NEW m \in Messages, Orderly(p),
           Expects(p, m)
    PROVE  StaysOrderly(p, Input(p, m))
  <1>1. PICK q : q = [p EXCEPT !.input = TRUE]
    OBVIOUS
  <1>2. Ready(q) /\ Keeps(p, q, {"input"}) /\ q.input
    BY <1>1, InputBegins
  <1>3. /\ q.lastack = p.lastack /\ q.nxt = p.nxt /\ q.state = p.state /\ q.acked = 0
        /\ q.wl1 = p.wl1 /\ q.wl2 = p.wl2 /\ q.wnd = p.wnd /\ q.rcv = p.rcv
    BY <1>2 DEF Keeps, Fields, Resting
  <1>4. Orderly(q) /\ Expects(q, m)
    <2>1. {"input"} \cap OrderFields = {} /\ Sound(p)
      BY DEF OrderFields, Ready
    <2> QED
      BY <1>2, <1>3, <2>1, OrderKept DEF Expects
  <1>5. PICK r : r = Process(q, m)
    OBVIOUS
  <1>6. /\ Ready(r) /\ Keeps(q, r, ProcessFields) /\ r.nxt = p.nxt
        /\ Orderly(r) \/ (Returned(r) /\ r.rcv = p.rcv)
    BY <1>2, <1>3, <1>4, <1>5, ProcessReady, ProcessOrders
  <1>7. PICK got \in BOOLEAN : got = (r.rcv # p.rcv)
    OBVIOUS
  <1>8. PICK s : s = Events(r, got)
    OBVIOUS
  <1>9. Sound(r) /\ Sound(s) /\ Keeps(r, s, EventFields)
    BY <1>6, <1>8, EventsSound DEF Ready
  <1>10. r.nxt \in Int /\ s.nxt \in Int /\ p.nxt \in Int
    BY <1>6, <1>9, SoundNumbers
  <1>11. p.nxt <= s.nxt /\ (Orderly(s) \/ Returned(s))
    <2>1. CASE Orderly(r)
      BY <1>6, <1>8, <1>9, <2>1, EventsOrders DEF StaysOrderly
    <2>2. CASE Returned(r) /\ r.rcv = p.rcv
      <3>1. got = FALSE /\ r.acked = 0
        BY <1>7, <2>2 DEF Returned
      <3>2. SentEvent(r) = r
        <4>1. ~(r.acked > 0)
          BY <3>1
        <4> QED
          BY <4>1 DEF SentEvent
      <3>3. s = r
        BY <1>8, <3>1, <3>2 DEF Events, FinEvent
      <3> QED
        BY <1>6, <1>10, <2>2, <3>3
    <2> QED
      BY <1>6, <2>1, <2>2
  <1>12. s.input
    <2>1. r.input = q.input
      BY <1>6 DEF Keeps, ProcessFields, ReceiveFields, AckFields, DuplicateFields, WindowFields,
                  FinFields, PurgeFields, Fields
    <2>2. s.input = r.input
      BY <1>9 DEF Keeps, EventFields, WriteFields, CloseFields, SendFields, Fields
    <2> QED
      BY <1>2, <2>1, <2>2
  <1>13. StaysOrderly(s, Return(s)) /\ Return(s).nxt \in Int
    <2>1. Sound(Return(s))
      BY <1>9, <1>12, ReturnSound
    <2> QED
      BY <1>9, <1>11, <1>12, <2>1, ReturnOrders, SoundNumbers
  <1>14. Input(p, m) = Return(s)
    <2>1. Input(p, m) = Indicate(r, p.rcv)
      BY <1>1, <1>5 DEF Input
    <2>2. (r.rcv # p.rcv) = got /\ (p.rcv # r.rcv) = got
      BY <1>7
    <2>3. Indicate(r, p.rcv) = Return(Events(r, got))
      BY <1>7, <2>2 DEF Indicate
    <2> QED
      BY <1>8, <2>1, <2>3
  <1> QED
    BY <1>10, <1>11, <1>13, <1>14 DEF StaysOrderly

-----------------------------------------------------------------------------
(* The timers, and that the queues are in order at the end of every step   *)

LEMMA RetransmitAllOrders ==
    ASSUME NEW p, Ready(p), p.state \notin Over, Orderly(p)
    PROVE  StaysOrderly(p, RetransmitAll(p))
  <1>1. PICK q : q = Requeued(p)
    OBVIOUS
  <1>2. /\ Sound(q) /\ Keeps(p, q, {"unsent", "unacked", "nrtx", "cwnd"})
        /\ q.unsent = p.unacked \o p.unsent /\ q.unacked = <<>>
    BY <1>1, RequeuedSound
  <1>3. q.lastack = p.lastack /\ q.nxt = p.nxt /\ q.lbb = p.lbb
    BY <1>2 DEF Keeps, Fields
  <1>4. PICK a \in Queues, b \in Queues : a = p.unacked /\ b = p.unsent
    BY DEF Ready, Sound, QueuesType
  <1>5. InOrder(a \o b)
    BY <1>4, OrderOfConcat DEF Orderly, Sorted
  <1>6. Sorted(q)
    <2>1. ToSet(q.unacked) = {} /\ InOrder(q.unacked)
      BY <1>2, FewSegments, OrderOfFew
    <2> QED
      BY <1>2, <1>4, <1>5, <2>1 DEF Sorted, Precedes
  <1>7. Current(q)
    <2>1. ToSet(q.unacked) = {} /\ ToSet(q.unsent) = ToSet(a) \cup ToSet(b)
      <3>1. Gathers(a \o b, a, b)
        BY GathersConcat
      <3> QED
        BY <1>2, <1>4, <3>1, FewSegments DEF Gathers
    <2>2. InQueues(q) = InQueues(p)
      BY <1>4, <2>1 DEF InQueues
    <2> QED
      BY <1>3, <2>1, <2>2 DEF Orderly, Current
  <1>8. p.nxt \in Int
    BY SoundNumbers DEF Ready
  <1>9. StaysOrderly(p, q)
    BY <1>3, <1>6, <1>7, <1>8 DEF StaysOrderly, Orderly
  <1>10. RetransmitAll(p) = Output(q)
    BY <1>1 DEF RetransmitAll, Requeued
  <1> QED
    BY <1>2, <1>8, <1>9, <1>10, ThenOutput

LEMMA PollOrders ==
    ASSUME NEW p, Sound(p), p.state \notin Over, Orderly(p)
    PROVE  StaysOrderly(p, Poll(p))
  <1>1. PICK q : q = CASE p.left > 0 -> WriteMore(p)
                       [] p.closing  -> Close(p)
                       [] OTHER      -> p
    OBVIOUS
  <1>2. /\ p.nxt \in Int /\ (p.left > 0 => p.state \in Writable) /\ p.left \in Int
        /\ p.closing /\ p.state \in Writable => p.lbb = Total /\ p.left = 0
    BY SoundNumbers
  <1>3. Sound(q) /\ StaysOrderly(p, q)
    <2>1. CASE p.left > 0
      <3>1. q = WriteMore(p) \/ (p.closing /\ q = Close(p))
        BY <1>1, <2>1
      <3>2. ~(p.closing /\ p.left > 0)
        BY <1>2
      <3>3. q = WriteMore(p)
        BY <2>1, <3>1, <3>2
      <3> QED
        BY <1>2, <2>1, <3>3, WriteMoreSound, WriteMoreOrders
    <2>2. CASE ~(p.left > 0) /\ p.closing
      <3>1. q = Close(p)
        BY <1>1, <2>2
      <3> QED
        BY <1>2, <2>2, <3>1, CloseSound, CloseOrders
    <2>3. CASE ~(p.left > 0) /\ ~p.closing
      <3>1. q = p
        BY <1>1, <2>3
      <3> QED
        BY <1>2, <3>1 DEF StaysOrderly
    <2> QED
      BY <2>1, <2>2, <2>3
  <1>4. Poll(p) = Output(q)
    BY <1>1 DEF Poll
  <1> QED
    BY <1>2, <1>3, <1>4, ThenOutput

\* Nothing beyond snd_nxt is under way or has come, but what a probe sent.
Far(p, n) == n <= p.nxt \/ n <= p.lastack + 1

AllSent(p, c, w) ==
    /\ Far(p, c.rcv)
    /\ \A n \in c.beyond : Far(p, n + 1)
    /\ \A seg \in w : Far(p, EndOf(seg))

\* While the client has not ended its side, for then the window may be wrong.
OrderInv == ~peer.fin => Orderly(pcb) /\ AllSent(pcb, peer, wire)

LEMMA FarTypes ==
    ASSUME Inv
    PROVE  /\ pcb.nxt \in Int /\ pcb.lastack \in Int /\ peer.rcv \in Int
           /\ \A n \in peer.beyond : n \in Int
           /\ \A seg \in wire : EndOf(seg) \in Int
  <1>1. pcb.nxt \in Int /\ pcb.lastack \in Int
    BY SoundNumbers DEF Inv, PcbState, Ready
  <1>2. \A seg \in wire : EndOf(seg) \in Int
    BY NumberTypes, SegmentTypes
  <1> QED
    BY <1>1, <1>2, NumberTypes

\* A step of the thread.
LEMMA ThreadOrders ==
    ASSUME Inv, OrderInv, NEW q, IsPcb(q), q.nxt \in Int, q.lastack \in Int,
           NEW left, Becomes(q, left),
           ~peer.fin => StaysOrderly(pcb, q), pcb.lastack <= q.lastack,
           q.state \in Over \/ \A seg \in q.out : Far(q, EndOf(seg))
    PROVE  OrderInv'
  <1>1. peer' = peer
    BY DEF Becomes
  <1>2. SUFFICES ASSUME ~peer.fin PROVE Orderly(pcb') /\ AllSent(pcb', peer, wire')
    BY <1>1 DEF OrderInv
  <1>3. Orderly(pcb) /\ AllSent(pcb, peer, wire) /\ StaysOrderly(pcb, q)
    BY <1>2 DEF OrderInv
  <1>4. PICK r : r = [q EXCEPT !.out = {}]
    OBVIOUS
  <1>5. /\ pcb' = r /\ r.unacked = q.unacked /\ r.unsent = q.unsent /\ r.lastack = q.lastack
        /\ r.nxt = q.nxt /\ r.lbb = q.lbb /\ r.wnd = q.wnd
    BY <1>4 DEF Becomes, IsPcb, Fields
  <1>6. Orderly(r)
    BY <1>3, <1>5 DEF StaysOrderly, Orderly, Sorted, Current, InQueues
  <1>7. \A n \in Int : Far(pcb, n) => Far(q, n)
    <2>1. pcb.nxt \in Int /\ pcb.lastack \in Int /\ pcb.nxt <= q.nxt
      BY <1>3, FarTypes DEF StaysOrderly
    <2> QED
      BY <2>1 DEF Far
  <1>8. \A seg \in wire' : Far(q, EndOf(seg))
    <2>1. CASE q.state \in Over
      BY <2>1 DEF Becomes
    <2>2. CASE q.state \notin Over
      <3>1. wire' \in Carry(wire, q.out, WireSize)
        BY <2>2 DEF Becomes
      <3>2. wire' \subseteq wire \cup q.out
        BY <3>1, CarrySome
      <3>3. \A seg \in wire : Far(q, EndOf(seg))
        BY <1>3, <1>7, FarTypes DEF AllSent
      <3> QED
        BY <2>2, <3>2, <3>3
    <2> QED
      BY <2>1, <2>2
  <1>9. Far(q, peer.rcv) /\ \A n \in peer.beyond : Far(q, n + 1)
    <2>1. peer.rcv \in Int /\ \A n \in peer.beyond : n + 1 \in Int
      BY FarTypes
    <2> QED
      BY <1>3, <1>7, <2>1 DEF AllSent
  <1>10. AllSent(r, peer, wire')
    BY <1>5, <1>8, <1>9 DEF AllSent, Far
  <1> QED
    BY <1>5, <1>6, <1>10

LEMMA SoundOrders ==
    ASSUME Inv, OrderInv, NEW q, Sound(q), NEW left, Becomes(q, left),
           ~peer.fin => StaysOrderly(pcb, q), pcb.lastack <= q.lastack
    PROVE  OrderInv'
  <1>1. IsPcb(q) /\ q.nxt \in Int /\ q.lastack \in Int
    BY SoundNumbers
  <1>2. \A seg \in q.out : Far(q, EndOf(seg))
    <2>1. q.out \subseteq ToSet(q.unacked)
      BY DEF Sound, Sendable
    <2> QED
      BY <2>1, SoundShape DEF Far
  <1> QED
    BY <1>1, <1>2, ThreadOrders

LEMMA WriteOrders ==
    ASSUME Inv, OrderInv, Write
    PROVE  OrderInv'
  <1>1. PICK p : p = [pcb EXCEPT !.left = Min2(WriteLen, Total - pcb.lbb)]
    OBVIOUS
  <1>2. WriteDue
    BY DEF Write
  <1>3. Sound(p) /\ Keeps(pcb, p, {"left"}) /\ p.state \in Writable
    BY <1>1, <1>2, WriteBegins
  <1>4. PICK q : q = WriteMore(p)
    OBVIOUS
  <1>5. Sound(q) /\ Keeps(p, q, WriteFields)
    BY <1>3, <1>4, WriteMoreSound
  <1>6. Becomes(q, acks)
    BY <1>1, <1>4 DEF Write
  <1>7. q.lastack = pcb.lastack /\ p.nxt = pcb.nxt
    BY <1>3, <1>5 DEF Keeps, WriteFields, SendFields, Fields
  <1>8. ASSUME ~peer.fin PROVE StaysOrderly(pcb, q)
    <2>1. Orderly(pcb) /\ Sound(pcb)
      BY <1>8 DEF OrderInv, Inv, PcbState, Ready
    <2>2. {"left"} \cap OrderFields = {}
      BY DEF OrderFields
    <2>3. Orderly(p)
      BY <1>3, <2>1, <2>2, OrderKept
    <2>4. StaysOrderly(p, q)
      BY <1>3, <1>4, <2>3, WriteMoreOrders
    <2> QED
      BY <1>7, <2>4 DEF StaysOrderly
  <1>9. pcb.lastack <= q.lastack
    BY <1>7, FarTypes
  <1> QED
    BY <1>5, <1>6, <1>8, <1>9, SoundOrders

LEMMA CloseConnectionOrders ==
    ASSUME Inv, OrderInv, CloseConnection
    PROVE  OrderInv'
  <1>1. Sound(pcb)
    BY DEF Inv, PcbState, Ready
  <1>2. pcb.lbb = Total /\ pcb.left = 0
    BY DEF CloseConnection, CloseDue, TaskRuns
  <1>3. PICK q : q = Close(pcb)
    OBVIOUS
  <1>4. Sound(q) /\ Keeps(pcb, q, CloseFields \cup {"closing"})
    BY <1>1, <1>2, <1>3, CloseSound
  <1>5. Becomes(q, acks)
    BY <1>3 DEF CloseConnection
  <1>6. q.lastack = pcb.lastack
    BY <1>4 DEF Keeps, CloseFields, SendFields, Fields
  <1>7. pcb.lastack <= q.lastack
    BY <1>6, FarTypes
  <1>8. ~peer.fin => StaysOrderly(pcb, q)
    BY <1>1, <1>2, <1>3, CloseOrders DEF OrderInv
  <1> QED
    BY <1>4, <1>5, <1>7, <1>8, SoundOrders

\* A connection that is over has nothing queued.
LEMMA OverOrders ==
    ASSUME Inv, OrderInv, NEW q, q.state \in Over, q.unacked = <<>>, q.unsent = <<>>,
           Keeps(pcb, q, PurgeFields \cup {"left", "closing"}), Becomes(q, acks)
    PROVE  OrderInv'
  <1>1. /\ q.nxt = pcb.nxt /\ q.lastack = pcb.lastack /\ q.lbb = pcb.lbb /\ IsPcb(q)
    BY DEF Keeps, PurgeFields, Fields
  <1>2. pcb.nxt \in Int /\ pcb.lastack \in Int
    BY FarTypes
  <1>3. ASSUME ~peer.fin PROVE StaysOrderly(pcb, q)
    <2>1. Min2(q.lbb, Total) - q.lastack <= SndBuf
      BY <1>1, <1>3 DEF OrderInv, Orderly, Current
    <2> QED
      BY <1>1, <1>2, <2>1, NothingOrderly DEF StaysOrderly
  <1> QED
    BY <1>1, <1>2, <1>3, ThreadOrders

LEMMA AbortOrders ==
    ASSUME Inv, OrderInv, Becomes(Abort(pcb), acks)
    PROVE  OrderInv'
  <1>1. PICK q : q = Abort(pcb)
    OBVIOUS
  <1>2. /\ Keeps(pcb, q, PurgeFields \cup {"left", "closing"}) /\ q.state \in Over
    BY <1>1, AbortReady DEF Inv, PcbState, Over
  <1>3. q.unacked = <<>> /\ q.unsent = <<>>
    <2>1. IsPcb(pcb)
      BY DEF Inv, PcbState, Ready, Sound
    <2> QED
      BY <1>1, <2>1 DEF Abort, Purge, IsPcb, Fields
  <1> QED
    BY <1>1, <1>2, <1>3, OverOrders

LEMMA PurgeOrders ==
    ASSUME Inv, OrderInv, NEW state \in Over, Becomes(Purge(pcb, state), acks)
    PROVE  OrderInv'
  <1>1. PICK q : q = Purge(pcb, state)
    OBVIOUS
  <1>2. /\ Keeps(pcb, q, PurgeFields) /\ q.state \in Over
        /\ q.unacked = <<>> /\ q.unsent = <<>>
    BY <1>1, PurgeReady DEF Inv, PcbState
  <1>3. Keeps(pcb, q, PurgeFields \cup {"left", "closing"})
    BY <1>2 DEF Keeps
  <1> QED
    BY <1>1, <1>2, <1>3, OverOrders

\* What a message says is later than what is known, as WindowInv has it.
LEMMA MessageExpected ==
    ASSUME Inv, WindowInv, OrderInv, ~peer.fin, NEW m \in acks
    PROVE  Expects(pcb, m)
  <1>1. Windows(pcb, peer, acks) /\ Far(pcb, peer.rcv)
    BY DEF WindowInv, OrderInv, AllSent
  <1>2. /\ pcb.wl1 = 0 /\ pcb.lastack <= pcb.wl2 /\ m.seq = 0 /\ ~m.fin
        /\ pcb.wl2 < m.ack => pcb.wl2 + pcb.wnd <= m.ack + m.wnd
    BY <1>1 DEF Windows, Granted, Word, LaterAll
  <1>3. m.ack <= pcb.nxt \/ m.ack <= pcb.lastack + 1
    <2>1. m.ack \in Int /\ peer.rcv \in Int /\ m.ack <= peer.rcv /\ pcb.nxt \in Int /\ pcb.lastack \in Int
      BY NumberTypes, FarTypes
    <2> QED
      BY <1>1, <2>1 DEF Far
  <1> QED
    BY <1>2, <1>3 DEF Expects

LEMMA ReceiveOrders ==
    ASSUME Inv, WindowInv, OrderInv, NEW m \in acks, Receive(m)
    PROVE  OrderInv'
  <1>1. Ready(pcb) /\ Resting(pcb) /\ pcb.state \notin Over /\ m \in Messages
    BY DEF Inv, PcbState, Receive, AcksState
  <1>2. PICK q : q = Input(pcb, m)
    OBVIOUS
  <1>3. Sound(q) /\ pcb.lastack <= q.lastack
    BY <1>1, <1>2, InputSound
  <1>4. Becomes(q, acks \ {m})
    BY <1>2 DEF Receive
  <1>5. ~peer.fin => StaysOrderly(pcb, q)
    BY <1>1, <1>2, MessageExpected, InputOrders DEF OrderInv
  <1> QED
    BY <1>3, <1>4, <1>5, SoundOrders

\* A probe is a unit of the first segment, which has what is to be
\* acknowledged next.
LEMMA ProbeOrders ==
    ASSUME Inv, OrderInv, pcb.state \notin Over, Becomes(Probe(pcb), acks)
    PROVE  OrderInv'
  <1>1. PICK u : u = pcb.unacked \o pcb.unsent
    OBVIOUS
  <1>2. Sound(pcb) /\ IsPcb(pcb) /\ pcb.out = {} /\ Filled(pcb)
    BY DEF Inv, PcbState, Ready, Sound, QueuesState
  <1>3. PICK a \in Queues, b \in Queues : a = pcb.unacked /\ b = pcb.unsent
    BY <1>2 DEF Sound, QueuesType
  <1>4. u \in Queues /\ ToSet(u) = ToSet(a) \cup ToSet(b) /\ ToSet(u) = InQueues(pcb)
    BY <1>1, <1>3, GathersConcat DEF Gathers, InQueues
  <1>5. PICK q : q = Probe(pcb)
    OBVIOUS
  <1>6. pcb.nxt \in Int /\ pcb.lastack \in Int /\ pcb.lbb \in Int
    BY <1>2, SoundNumbers
  <1>7. CASE u = <<>>
    <2>1. q = pcb /\ pcb.lastack <= pcb.lastack
      BY <1>1, <1>5, <1>6, <1>7 DEF Probe
    <2>2. ~peer.fin => StaysOrderly(pcb, q)
      BY <1>6, <2>1 DEF OrderInv, StaysOrderly
    <2> QED
      BY <1>2, <1>5, <2>1, <2>2, SoundOrders
  <1>8. CASE u # <<>>
    <2>1. PICK seg \in Segments : seg = Head(u) /\ seg \in ToSet(u)
      BY <1>4, <1>8, HeadTailElements DEF Queues
    <2>2. PICK s : s = [seq |-> seg.seq, len |-> Min2(seg.len, 1), fin |-> seg.len = 0, pbufs |-> 0]
      OBVIOUS
    <2>3. q = [pcb EXCEPT !.out = {s}]
      BY <1>1, <1>2, <1>5, <1>8, <2>1, <2>2 DEF Probe
    <2>4. Keeps(pcb, q, {"out"}) /\ q.out = {s} /\ IsPcb(q)
      BY <1>2, <2>3 DEF Keeps, IsPcb, Fields
    <2>5. q.lastack = pcb.lastack /\ q.nxt = pcb.nxt
      BY <2>4 DEF Keeps, Fields
    <2>6. EndOf(s) = seg.seq + 1
      <3>1. seg.seq \in Nat /\ seg.len \in Nat
        BY SegmentTypes
      <3>2. PICK l \in Int : l = Min2(seg.len, 1) /\ l = (IF seg.len = 0 THEN 0 ELSE 1)
        BY <3>1 DEF Min2
      <3>3. s.seq = seg.seq /\ s.len = l /\ (s.fin <=> seg.len = 0)
        BY <2>2, <3>2
      <3> QED
        BY <3>1, <3>2, <3>3 DEF EndOf
    <2>7. ASSUME ~peer.fin PROVE StaysOrderly(pcb, q) /\ Far(q, EndOf(s))
      <3>1. Orderly(pcb)
        BY <2>7 DEF OrderInv
      <3>2. {"out"} \cap OrderFields = {}
        BY DEF OrderFields
      <3>3. StaysOrderly(pcb, q)
        BY <1>2, <2>4, <3>1, <3>2, OrderKept DEF StaysOrderly
      <3>4. PICK t \in Segments : t \in ToSet(u) /\ t.seq <= pcb.lastack
        <4>1. seg \in InQueues(pcb)
          BY <1>4, <2>1
        <4>2. pcb.lastack < EndOf(seg) /\ EndOf(seg) <= pcb.lbb /\ EndOf(seg) \in Int
          BY <1>2, <3>1, <4>1, SoundShape DEF Orderly, Current
        <4>3. pcb.lastack \in pcb.lastack .. pcb.lbb - 1
          BY <1>6, <4>2
        <4>4. PICK n : n = pcb.lastack
          OBVIOUS
        <4>5. Times(a, n) + Times(b, n) = 1
          BY <1>2, <1>3, <4>3, <4>4 DEF Filled, TimesIn
        <4>6. Times(a, n) # 0 \/ Times(b, n) # 0
          BY <4>5
        <4>7. PICK t \in ToSet(a) \cup ToSet(b) : t \in Holds(n)
          BY <4>6, QueueTypes
        <4>8. t \in Segments /\ t.seq <= n
          <5>1. t \in Segments /\ n \in t.seq .. EndOf(t) - 1
            BY <4>7 DEF Holds
          <5>2. t.seq \in Int /\ EndOf(t) \in Int
            BY <5>1, SegmentTypes
          <5> QED
            BY <5>1, <5>2
        <4> QED
          BY <1>4, <4>4, <4>7, <4>8
      <3>5. seg.seq <= t.seq
        <4>1. InOrder(u)
          BY <1>1, <1>3, <3>1, OrderOfConcat DEF Orderly, Sorted
        <4>2. u = <<seg>> \o Tail(u) /\ Tail(u) \in Queues /\ Gathers(u, <<seg>>, Tail(u))
          BY <1>4, <1>8, <2>1, HeadApart
        <4>3. PICK c \in Queues : c = <<seg>> /\ ToSet(c) = {seg}
          BY FewSegments
        <4>4. Precedes(ToSet(c), ToSet(Tail(u))) /\ ToSet(u) = ToSet(c) \cup ToSet(Tail(u))
          BY <4>1, <4>2, <4>3, OrderOfConcat DEF Gathers
        <4>5. /\ seg.seq \in Int /\ EndOf(seg) \in Int /\ t.seq \in Int /\ seg.seq < EndOf(seg)
          BY <1>2, <1>4, <2>1, <3>4, SoundShape
        <4>6. CASE t = seg
          BY <4>5, <4>6
        <4>7. CASE t \in ToSet(Tail(u))
          <5>1. EndOf(seg) <= t.seq
            BY <4>3, <4>4, <4>7 DEF Precedes
          <5> QED
            BY <4>5, <5>1
        <4> QED
          BY <3>4, <4>3, <4>4, <4>6, <4>7
      <3>6. seg.seq + 1 <= pcb.lastack + 1
        <4>1. seg.seq \in Int /\ t.seq \in Int
          BY SegmentTypes
        <4> QED
          BY <1>6, <3>4, <3>5, <4>1
      <3> QED
        BY <2>5, <2>6, <3>3, <3>6 DEF Far
    <2>8. CASE peer.fin
      <3>1. peer' = peer
        BY DEF Becomes
      <3> QED
        BY <2>8, <3>1 DEF OrderInv
    <2>9. CASE ~peer.fin
      <3>1. \A x \in q.out : Far(q, EndOf(x))
        BY <2>4, <2>7, <2>9
      <3>2. Becomes(q, acks) /\ pcb.lastack <= q.lastack /\ q.nxt \in Int /\ q.lastack \in Int
        BY <1>5, <1>6, <2>5
      <3> QED
        BY <2>4, <2>7, <3>1, <3>2, ThreadOrders
    <2> QED
      BY <2>8, <2>9
  <1> QED
    BY <1>7, <1>8

LEMMA SlowTimerOrders ==
    ASSUME Inv, OrderInv, NEW due \in {"rtime", "persist", "poll", "tmr"}, SlowTimer(due)
    PROVE  OrderInv'
  <1>1. Ready(pcb) /\ Resting(pcb) /\ Sound(pcb) /\ pcb.state \notin Over
    BY DEF Inv, PcbState, Ready, SlowTimer
  <1>2. \/ Becomes(Abort(pcb), acks)
        \/ Becomes(Probe(pcb), acks)
        \/ Becomes(RetransmitAll(pcb), acks)
        \/ Becomes(Poll(pcb), acks)
        \/ \E state \in {"timed out", "aborted"} : Becomes(Purge(pcb, state), acks)
    BY DEF SlowTimer
  <1>3. CASE Becomes(RetransmitAll(pcb), acks)
    <2>1. PICK q : q = RetransmitAll(pcb)
      OBVIOUS
    <2>2. Sound(q) /\ Keeps(pcb, q, SendFields \cup {"nrtx", "cwnd"})
      BY <1>1, <2>1, RetransmitAllSound
    <2>3. q.lastack = pcb.lastack /\ Becomes(q, acks)
      BY <1>3, <2>1, <2>2 DEF Keeps, SendFields, Fields
    <2>4. pcb.lastack <= q.lastack
      BY <2>3, FarTypes
    <2>5. ~peer.fin => StaysOrderly(pcb, q)
      BY <1>1, <2>1, RetransmitAllOrders DEF OrderInv
    <2> QED
      BY <2>2, <2>3, <2>4, <2>5, SoundOrders
  <1>4. CASE Becomes(Poll(pcb), acks)
    <2>1. PICK q : q = Poll(pcb)
      OBVIOUS
    <2>2. Sound(q) /\ Keeps(pcb, q, EventFields)
      BY <1>1, <2>1, PollSound
    <2>3. q.lastack = pcb.lastack /\ Becomes(q, acks)
      BY <1>4, <2>1, <2>2 DEF Keeps, EventFields, WriteFields, CloseFields, SendFields, Fields
    <2>4. pcb.lastack <= q.lastack
      BY <2>3, FarTypes
    <2>5. ~peer.fin => StaysOrderly(pcb, q)
      BY <1>1, <2>1, PollOrders DEF OrderInv
    <2> QED
      BY <2>2, <2>3, <2>4, <2>5, SoundOrders
  <1>5. {"timed out", "aborted"} \subseteq Over
    BY DEF Over
  <1>6. CASE \E state \in {"timed out", "aborted"} : Becomes(Purge(pcb, state), acks)
    BY <1>5, <1>6, PurgeOrders
  <1> QED
    BY <1>1, <1>2, <1>3, <1>4, <1>6, AbortOrders, ProbeOrders

LEMMA ClientTakesOrders ==
    ASSUME Inv, OrderInv, NEW seg \in wire, ClientTakes(seg)
    PROVE  OrderInv'
  <1>1. /\ seg \in Segments /\ EndOf(seg) <= pcb.lbb /\ pcb.lbb \in Int /\ pcb.lbb <= Total + 1
        /\ peer \in Peers /\ peer.rcv <= pcb.lbb
    BY LbbTypes DEF Inv, PcbState, Ready, WireState, PeerState
  <1>2. seg.seq \in Int /\ EndOf(seg) \in Int /\ peer.rcv \in Int /\ Total \in Int
    BY <1>1, SegmentTypes, ConstantTypes DEF Peers
  <1>3. EndOf(seg) <= Total + 1 /\ peer.rcv <= Total + 1
    BY <1>1, <1>2
  <1>4. PICK c : c = peer'
    OBVIOUS
  <1>5. /\ c \in Peers /\ Has(c, All(seg)) /\ All(seg) \subseteq 0 .. Total
        /\ pcb' = pcb /\ wire' = wire \ {seg}
    BY <1>1, <1>3, <1>4, TakesFrame
  <1>6. c.fin = peer.fin /\ c.rcv \in Nat
    BY <1>5, ConstantTypes DEF Has, Peers
  <1>7. SUFFICES ASSUME ~peer.fin PROVE Orderly(pcb) /\ AllSent(pcb, c, wire')
    BY <1>4, <1>5, <1>6 DEF OrderInv
  <1>8. Orderly(pcb) /\ AllSent(pcb, peer, wire)
    BY <1>7 DEF OrderInv
  <1>9. pcb.nxt \in Int /\ 0 <= pcb.nxt /\ pcb.lastack \in Int
    BY SoundNumbers DEF Inv, PcbState, Ready
  <1>10. \A n \in All(seg) : n \in Int /\ Far(pcb, n + 1)
    <2>1. \A n \in Taken(seg) : n \in Int /\ Far(pcb, n + 1)
      <3>1. SUFFICES ASSUME NEW n \in Taken(seg) PROVE n \in Int /\ Far(pcb, n + 1)
        OBVIOUS
      <3>2. n \in Int /\ n + 1 <= EndOf(seg)
        BY <1>2 DEF Taken
      <3>3. Far(pcb, EndOf(seg))
        BY <1>8 DEF AllSent
      <3> QED
        BY <1>2, <1>9, <3>2, <3>3 DEF Far
    <2>2. \A n \in peer.beyond : n \in Int /\ Far(pcb, n + 1)
      BY <1>8, FarTypes DEF AllSent
    <2>3. \A n \in 0 .. peer.rcv - 1 : n \in Int /\ Far(pcb, n + 1)
      <3>1. SUFFICES ASSUME NEW n \in 0 .. peer.rcv - 1 PROVE n \in Int /\ Far(pcb, n + 1)
        OBVIOUS
      <3>2. n \in Int /\ n + 1 <= peer.rcv
        BY <1>2
      <3>3. Far(pcb, peer.rcv)
        BY <1>8 DEF AllSent
      <3> QED
        BY <1>2, <1>9, <3>2, <3>3 DEF Far
    <2> QED
      BY <2>1, <2>2, <2>3 DEF All
  <1>11. Far(pcb, c.rcv)
    <2>1. CASE c.rcv = 0
      BY <1>9, <2>1 DEF Far
    <2>2. CASE c.rcv # 0
      <3>1. c.rcv - 1 \in 0 .. c.rcv - 1 /\ c.rcv - 1 + 1 = c.rcv
        BY <1>6, <2>2
      <3>2. c.rcv - 1 \in All(seg)
        BY <1>5, <3>1 DEF Has
      <3> QED
        BY <1>10, <3>1, <3>2
    <2> QED
      BY <2>1, <2>2
  <1>12. \A n \in c.beyond : Far(pcb, n + 1)
    BY <1>5, <1>10 DEF Has
  <1> QED
    BY <1>5, <1>8, <1>11, <1>12 DEF AllSent

LEMMA ClientReadsOrders ==
    ASSUME Inv, OrderInv, ClientReads
    PROVE  OrderInv'
  <1>1. PICK r : r = Min2(peer.rcv, Total)
    OBVIOUS
  <1>2. PICK c : c = [peer EXCEPT !.read = r]
    OBVIOUS
  <1>3. pcb' = pcb /\ wire' = wire /\ peer' = c
    BY <1>1, <1>2 DEF ClientReads
  <1>4. peer \in Peers
    BY DEF Inv, PeerState
  <1>5. c.rcv = peer.rcv /\ c.beyond = peer.beyond /\ c.fin = peer.fin
    BY <1>2, <1>4 DEF Peers
  <1> QED
    BY <1>3, <1>5 DEF OrderInv, AllSent

\* Nothing is said of the order once the client has ended its side.
LEMMA ClientEndsOrders ==
    ASSUME Inv, OrderInv, ClientEnds
    PROVE  OrderInv'
  <1>1. peer' = [peer EXCEPT !.fin = TRUE] /\ peer \in Peers
    BY DEF ClientEnds, Inv, PeerState
  <1>2. peer'.fin = TRUE
    BY <1>1 DEF Peers
  <1> QED
    BY <1>2 DEF OrderInv

LEMMA LoseOrders ==
    ASSUME Inv, OrderInv, Lose
    PROVE  OrderInv'
  <1>1. pcb' = pcb /\ peer' = peer /\ wire' \subseteq wire
    BY DEF Lose
  <1> QED
    BY <1>1 DEF OrderInv, AllSent

LEMMA InitOrders ==
    ASSUME Init
    PROVE  OrderInv
  <1>1. /\ peer.rcv = 0 /\ peer.beyond = {} /\ wire = {}
        /\ pcb.unacked = <<>> /\ pcb.unsent = <<>>
        /\ pcb.lastack = 0 /\ pcb.lbb = 0 /\ pcb.nxt = 0
    BY DEF Init
  <1>2. Total \in Nat /\ SndBuf \in Nat
    BY ConstantTypes
  <1>3. Min2(pcb.lbb, Total) - pcb.lastack <= SndBuf
    BY <1>1, <1>2 DEF Min2
  <1>4. Orderly(pcb)
    BY <1>1, <1>3, NothingOrderly
  <1>5. AllSent(pcb, peer, wire)
    BY <1>1 DEF AllSent, Far
  <1> QED
    BY <1>4, <1>5 DEF OrderInv

LEMMA NextOrders ==
    ASSUME Inv, WindowInv, OrderInv, [Next]_vars
    PROVE  OrderInv'
  <1>1. CASE UNCHANGED vars
    BY <1>1 DEF vars, OrderInv
  <1>2. CASE Reset
    BY <1>2, AbortOrders DEF Reset
  <1>3. CASE Next /\ ~Reset
    BY <1>3, WriteOrders, CloseConnectionOrders, ReceiveOrders, SlowTimerOrders,
       ClientTakesOrders, ClientReadsOrders, ClientEndsOrders, LoseOrders DEF Next
  <1> QED
    BY <1>1, <1>2, <1>3

\* While the client has not ended its side the queues are in order, one behind
\* the other, at the end of every step: a segment that was sent again fast is
\* gone again, what is unacknowledged lies within the window, and only a probe
\* went beyond snd_nxt (tcp_output, tcp_rexmit, tcp_zero_window_probe).
THEOREM OrderInvariance == Spec => []OrderInv
  <1>1. Init => OrderInv
    BY InitOrders
  <1>2. Inv /\ WindowInv /\ OrderInv /\ [Next]_vars => OrderInv'
    BY NextOrders
  <1> QED
    BY <1>1, <1>2, SendInvariant, WindowInvariance, PTL DEF Spec

\* Each unit that was written and is not acknowledged is in one segment of one
\* queue, once, the counts follow, and one behind the other the queues are in
\* order, so that tcp_rexmit_rto may put the one before the other.
THEOREM NothingIsForgotten == Spec => []NothingForgotten
  <1>1. ASSUME Inv, OrderInv PROVE NothingForgotten
    <2>1. UnitsAndCounts
      BY <1>1, CountsFollow
    <2>2. ASSUME ~peer.fin
          PROVE  \A i \in 1 .. Len(Queued) - 1 : EndOf(Queued[i]) <= Queued[i + 1].seq
      <3>1. pcb.unacked \in Queues /\ pcb.unsent \in Queues
        BY <1>1, SoundShape DEF Inv, PcbState, Ready
      <3>2. Sorted(pcb)
        BY <1>1, <2>2 DEF OrderInv, Orderly
      <3>3. InOrder(Queued)
        BY <3>1, <3>2, OrderOfConcat DEF Sorted, Queued
      <3>4. Len(Queued) \in Nat
        BY <3>1, GathersConcat, QueueTypes DEF Gathers, Queued
      <3>5. SUFFICES ASSUME NEW i \in 1 .. Len(Queued) - 1
                     PROVE  EndOf(Queued[i]) <= Queued[i + 1].seq
        OBVIOUS
      <3>6. i + 1 \in 1 .. Len(Queued) /\ i \in 1 .. (i + 1) - 1
        BY <3>4
      <3> QED
        BY <3>3, <3>6 DEF InOrder
    <2> QED
      BY <2>1, <2>2 DEF UnitsAndCounts, NothingForgotten
  <1> QED
    BY <1>1, SendInvariant, OrderInvariance, PTL
=============================================================================
