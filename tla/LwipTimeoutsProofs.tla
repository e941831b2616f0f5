------------------------- MODULE LwipTimeoutsProofs -------------------------
(***************************************************************************)
(* Proofs about LwipTimeouts, for every pool and all intervals: as long as *)
(* the pool has an element to spare no timer is lost; whatever is run in   *)
(* the middle of what, a timer is armed or running once at the most; and   *)
(* by the deltas of the list none is run before its time.  IInv is about   *)
(* which handlers are where, TimeInv about their times.                    *)
(***************************************************************************)
EXTENDS LwipTimeouts, SequenceElements, FiniteSetTheorems

\* Entries whose time is whatever the arithmetic of the list makes of it.
IsList(s) ==
    /\ s \in Seq(ToSet(s))
    /\ \A i \in 1 .. Len(s) :
          s[i] = [h |-> s[i].h, time |-> s[i].time] /\ s[i].h \in Handlers
Names(s) == {s[i].h : i \in 1 .. Len(s)}
Distinct(s) == \A i, j \in 1 .. Len(s) : s[i].h = s[j].h => i = j

ListInv == IsList(timers) /\ Distinct(timers) /\ Listed = Names(timers)

\* Messages are only fetched when nothing else is being done.
IsStack(s) ==
    /\ s \in Seq(Frames)
    /\ \A i, j \in 1 .. Len(s) : s[i] = s[j] /\ s[i] \in Handlers => i = j
    /\ \A i \in 1 .. Len(s) : s[i] = "message" => i = 1
StackInv == IsStack(stack)

OnceAtMost == Listed \cap InProgress = {}

\* As long as the FTP task has only stored heads into the list they are of.
PoolInv ==
    /\ NumTimeouts \in Nat
    /\ free \in 0 .. NumTimeouts /\ seen \in 0 .. NumTimeouts
    /\ leaked \in 0 .. NumTimeouts + 1
    /\ stale \in BOOLEAN /\ torn \in BOOLEAN
    /\ ftp = "taking" => seen > 0
    /\ ~torn => free + leaked + Len(timers) = NumTimeouts

ActiveInv == active \in BOOLEAN /\ (Scheduled("tcp") => active)

IInv == ListInv /\ StackInv /\ OnceAtMost /\ PoolInv /\ ActiveInv /\ NoTimerLost

-----------------------------------------------------------------------------
(* Lists and their handlers                                                *)

LEMMA HandlersCount == IsFiniteSet(Handlers) /\ Cardinality(Handlers) = 4
  <1>1. Handlers = (({"arp"} \cup {"coarse"}) \cup {"fine"}) \cup {"tcp"}
    BY DEF Handlers
  <1>2. IsFiniteSet({"arp"}) /\ Cardinality({"arp"}) = 1
    BY FS_Singleton
  <1>3. /\ IsFiniteSet({"arp"} \cup {"coarse"})
        /\ Cardinality({"arp"} \cup {"coarse"}) = 2
    BY <1>2, FS_AddElement
  <1>4. /\ IsFiniteSet(({"arp"} \cup {"coarse"}) \cup {"fine"})
        /\ Cardinality(({"arp"} \cup {"coarse"}) \cup {"fine"}) = 3
    BY <1>3, FS_AddElement
  <1> QED
    BY <1>1, <1>4, FS_AddElement

\* A list without some handler has three entries at the most.
LEMMA RoomForMissing ==
    ASSUME NEW s, IsList(s), Distinct(s), NEW h \in Handlers, h \notin Names(s)
    PROVE  Len(s) < 4
  <1>1. Len(s) \in Nat
    BY DEF IsList
  <1> SUFFICES ASSUME Len(s) >= 4 PROVE FALSE
    BY <1>1
  <1>2. 1 \in 1 .. Len(s) /\ 2 \in 1 .. Len(s) /\ 3 \in 1 .. Len(s) /\ 4 \in 1 .. Len(s)
    BY <1>1
  <1>3. /\ s[1].h \in Handlers \ {h} /\ s[2].h \in Handlers \ {h}
        /\ s[3].h \in Handlers \ {h} /\ s[4].h \in Handlers \ {h}
    BY <1>2 DEF IsList, Names
  <1>4. /\ s[1].h # s[2].h /\ s[1].h # s[3].h /\ s[1].h # s[4].h
        /\ s[2].h # s[3].h /\ s[2].h # s[4].h /\ s[3].h # s[4].h
    BY <1>2 DEF Distinct
  <1> QED
    BY <1>3, <1>4 DEF Handlers

LEMMA SeqOfElements ==
    ASSUME NEW S, NEW s \in Seq(S)
    PROVE  s \in Seq(ToSet(s)) /\ Len(s) \in Nat /\ DOMAIN s = 1 .. Len(s)
  <1>1. Len(s) \in Nat /\ DOMAIN s = 1 .. Len(s) /\ s = [i \in 1 .. Len(s) |-> s[i]]
    OBVIOUS
  <1>2. \A i \in 1 .. Len(s) : s[i] \in ToSet(s)
    BY <1>1 DEF ToSet
  <1>3. s \in [1 .. Len(s) -> ToSet(s)]
    BY <1>1, <1>2
  <1> QED
    BY <1>1, <1>3, SeqDef

\* sys_timeout puts an entry for the handler into the list and keeps the
\* others (sys.c:213-234).
LEMMA InsertList ==
    ASSUME NEW s, IsList(s), NEW h \in Handlers, NEW ms
    PROVE  /\ IsList(Insert(s, h, ms))
           /\ Len(Insert(s, h, ms)) = Len(s) + 1
           /\ Names(Insert(s, h, ms)) = Names(s) \cup {h}
           /\ Distinct(s) /\ h \notin Names(s) => Distinct(Insert(s, h, ms))
  <1> DEFINE P == {i \in 1 .. Len(s) : Due(s, i) <= ms}
             before == Cardinality(P)
             time == ms - Due(s, before)
             behind == before + 1
             rest == IF before = Len(s) THEN s
                     ELSE [s EXCEPT ![behind].time = @ - time]
             new == [h |-> h, time |-> time]
             r == InsertAt(rest, behind, new)
  <1>1. Insert(s, h, ms) = r
    BY DEF Insert
  <1>2. Len(s) \in Nat /\ DOMAIN s = 1 .. Len(s)
    BY SeqOfElements DEF IsList
  <1>3. before \in 0 .. Len(s)
    <2>1. IsFiniteSet(1 .. Len(s)) /\ Cardinality(1 .. Len(s)) = Len(s)
      <3>1. 1 \in Int /\ Len(s) \in Int /\ Len(s) - 1 + 1 = Len(s)
        BY <1>2
      <3>2. 1 > Len(s) => Len(s) = 0
        BY <1>2
      <3> QED
        BY <3>1, <3>2, FS_Interval
    <2>2. P \in SUBSET (1 .. Len(s))
      OBVIOUS
    <2>3. IsFiniteSet(P) /\ before <= Len(s)
      BY <2>1, <2>2, FS_Subset
    <2>4. before \in Nat
      BY <2>3, FS_CardinalityType
    <2> QED
      BY <1>2, <2>3, <2>4
  <1> HIDE DEF P, before, time
  <1>4. /\ rest = [i \in 1 .. Len(s) |-> rest[i]]
        /\ \A i \in 1 .. Len(s) :
              rest[i] = [h |-> s[i].h, time |-> rest[i].time]
    <2>1. CASE before = Len(s)
      <3>1. rest = s
        BY <2>1
      <3>2. s = [i \in 1 .. Len(s) |-> s[i]]
        BY DEF IsList
      <3> QED
        BY <3>1, <3>2 DEF IsList
    <2>2. CASE before # Len(s)
      <3>1. behind \in 1 .. Len(s)
        <4> HIDE DEF rest, new, r
        <4>1. PICK n \in Nat : n = Len(s)
          BY <1>2
        <4>2. PICK b \in 0 .. n : b = before
          BY <1>3, <4>1
        <4>3. b # n
          BY <2>2, <4>1, <4>2
        <4>4. b + 1 \in 1 .. n
          BY <4>3
        <4> QED
          BY <4>1, <4>2, <4>4
      <3>2. PICK t : t = s[behind].time - time
        OBVIOUS
      <3>3. s[behind] = [h |-> s[behind].h, time |-> s[behind].time]
        BY <3>1 DEF IsList
      <3>4. [s[behind] EXCEPT !.time = t] = [h |-> s[behind].h, time |-> t]
        BY <3>3
      <3>5. rest = [s EXCEPT ![behind] = [s[behind] EXCEPT !.time = t]]
        BY <2>2, <3>2
      <3>6. \A i \in 1 .. Len(s) :
                rest[i] = IF i = behind THEN [h |-> s[behind].h, time |-> t] ELSE s[i]
        BY <1>2, <3>4, <3>5
      <3>7. rest = [i \in 1 .. Len(s) |-> rest[i]]
        BY <1>2, <3>5
      <3>8. \A i \in 1 .. Len(s) : rest[i] = [h |-> s[i].h, time |-> rest[i].time]
        BY <3>6 DEF IsList
      <3> QED
        BY <3>7, <3>8
    <2> QED
      BY <2>1, <2>2
  <1> HIDE DEF rest
  <1> DEFINE T == {rest[i] : i \in 1 .. Len(s)} \cup {new}
  <1>5. rest \in Seq(T) /\ Len(rest) = Len(s)
    <2>1. rest \in [1 .. Len(s) -> T]
      BY <1>4
    <2> QED
      BY <1>2, <2>1, SeqDef, LenProperties
  <1>6. behind \in 1 .. Len(rest) + 1 /\ new \in T
    BY <1>2, <1>3, <1>5
  <1> HIDE DEF behind, T, new
  <1>7. /\ r \in Seq(T) /\ Len(r) = Len(rest) + 1
        /\ r[behind] = new
        /\ \A k \in 1 .. Len(rest) :
              r[IF k < behind THEN k ELSE k + 1] = rest[k]
    BY <1>5, <1>6, InsertAtType
  <1> HIDE DEF r
  <1>8. r \in Seq(ToSet(r)) /\ Len(r) = Len(s) + 1
    BY <1>5, <1>7, SeqOfElements
  <1>9. new = [h |-> h, time |-> new.time]
    BY DEF new
  <1>10. ASSUME NEW i \in 1 .. Len(r), i # behind
         PROVE  \E k \in 1 .. Len(s) : /\ i = IF k < behind THEN k ELSE k + 1
                                       /\ r[i] = [h |-> s[k].h, time |-> r[i].time]
    <2>1. PICK k \in 1 .. Len(s) : i = IF k < behind THEN k ELSE k + 1
      <3>1. CASE i < behind
        BY <1>2, <1>5, <1>6, <1>8, <3>1
      <3>2. CASE i > behind
        <4>1. i - 1 \in 1 .. Len(s) /\ ~(i - 1 < behind) /\ i = (i - 1) + 1
          BY <1>2, <1>5, <1>6, <1>8, <3>2
        <4> QED
          BY <4>1
      <3> QED
        BY <1>5, <1>6, <1>8, <1>10, <3>1, <3>2
    <2>2. r[i] = rest[k]
      BY <1>5, <1>7, <2>1
    <2> QED
      BY <1>4, <2>1, <2>2
  <1>11. IsList(r)
    <2>1. ASSUME NEW i \in 1 .. Len(r)
          PROVE  r[i] = [h |-> r[i].h, time |-> r[i].time] /\ r[i].h \in Handlers
      <3>1. CASE i = behind
        BY <1>7, <1>9, <3>1
      <3>2. CASE i # behind
        <4>1. PICK k \in 1 .. Len(s) : r[i] = [h |-> s[k].h, time |-> r[i].time]
          BY <1>10, <3>2
        <4>2. s[k].h \in Handlers
          BY DEF IsList
        <4>3. r[i].h = s[k].h
          BY <4>1
        <4> QED
          BY <4>1, <4>2, <4>3
      <3> QED
        BY <3>1, <3>2
    <2> QED
      BY <1>8, <2>1 DEF IsList
  <1>12. Names(r) = Names(s) \cup {h}
    <2>1. r[behind].h = h /\ behind \in 1 .. Len(r)
      BY <1>5, <1>6, <1>7, <1>8, <1>9
    <2>2. ASSUME NEW i \in 1 .. Len(r)
          PROVE  r[i].h \in Names(s) \cup {h}
      <3>1. CASE i # behind
        <4>1. PICK k \in 1 .. Len(s) : r[i] = [h |-> s[k].h, time |-> r[i].time]
          BY <1>10, <3>1
        <4> QED
          BY <4>1 DEF Names
      <3> QED
        BY <2>1, <3>1
    <2>3. ASSUME NEW k \in 1 .. Len(s)
          PROVE  s[k].h \in Names(r)
      <3>1. PICK l \in 1 .. Len(r) : r[l] = rest[k]
        <4>1. (IF k < behind THEN k ELSE k + 1) \in 1 .. Len(r)
          BY <1>2, <1>5, <1>6, <1>8
        <4> QED
          BY <1>5, <1>7, <4>1
      <3>2. rest[k].h = s[k].h
        BY <1>4
      <3> QED
        BY <3>1, <3>2 DEF Names
    <2> QED
      BY <2>1, <2>2, <2>3 DEF Names
  <1>13. ASSUME Distinct(s), h \notin Names(s)
         PROVE  Distinct(r)
    <2> SUFFICES ASSUME NEW i \in 1 .. Len(r), NEW j \in 1 .. Len(r), r[i].h = r[j].h
                 PROVE  i = j
      BY DEF Distinct
    <2>1. r[behind].h = h
      BY <1>7, <1>9
    <2>2. ASSUME NEW l \in 1 .. Len(r), l # behind
          PROVE  r[l].h # h
      <3>1. PICK k \in 1 .. Len(s) : r[l] = [h |-> s[k].h, time |-> r[l].time]
        BY <1>10, <2>2
      <3> QED
        BY <1>13, <3>1 DEF Names
    <2>3. CASE i # behind /\ j # behind
      <3>1. PICK k \in 1 .. Len(s) : /\ i = IF k < behind THEN k ELSE k + 1
                                     /\ r[i] = [h |-> s[k].h, time |-> r[i].time]
        BY <1>10, <2>3
      <3>2. PICK l \in 1 .. Len(s) : /\ j = IF l < behind THEN l ELSE l + 1
                                     /\ r[j] = [h |-> s[l].h, time |-> r[j].time]
        BY <1>10, <2>3
      <3>3. s[k].h = s[l].h
        BY <3>1, <3>2
      <3> QED
        BY <1>13, <3>1, <3>2, <3>3 DEF Distinct
    <2> QED
      BY <2>1, <2>2, <2>3
  <1> QED
    BY <1>1, <1>8, <1>11, <1>12, <1>13

LEMMA ListedNames ==
    ASSUME NEW s, IsList(s)
    PROVE  {e.h : e \in ToSet(s)} = Names(s)
  <1>1. DOMAIN s = 1 .. Len(s)
    BY SeqOfElements DEF IsList
  <1> QED
    BY <1>1 DEF ToSet, Names

\* The time of an entry may change, as that of the first does after a wait.
LEMMA SameHandlers ==
    ASSUME NEW s, IsList(s), NEW t
    PROVE  LET r == IF s = <<>> THEN s ELSE [s EXCEPT ![1].time = @ - t]
           IN  /\ IsList(r) /\ Len(r) = Len(s) /\ Names(r) = Names(s)
               /\ Distinct(s) => Distinct(r)
  <1> DEFINE r == IF s = <<>> THEN s ELSE [s EXCEPT ![1].time = @ - t]
  <1>1. Len(s) \in Nat /\ DOMAIN s = 1 .. Len(s)
    BY SeqOfElements DEF IsList
  <1>2. CASE s = <<>>
    BY <1>2
  <1>3. CASE s # <<>>
    <2>1. 1 \in 1 .. Len(s)
      BY <1>1, <1>3, EmptySeq DEF IsList
    <2>2. PICK u : u = s[1].time - t
      OBVIOUS
    <2>3. s[1] = [h |-> s[1].h, time |-> s[1].time]
      BY <2>1 DEF IsList
    <2>4. [s[1] EXCEPT !.time = u] = [h |-> s[1].h, time |-> u]
      BY <2>3
    <2>5. r = [s EXCEPT ![1] = [s[1] EXCEPT !.time = u]]
      BY <1>3, <2>2
    <2>6. \A i \in 1 .. Len(s) :
              r[i] = IF i = 1 THEN [h |-> s[1].h, time |-> u] ELSE s[i]
      BY <1>1, <2>4, <2>5
    <2>7. r = [i \in 1 .. Len(s) |-> r[i]]
      BY <1>1, <2>5
    <2>8. \A i \in 1 .. Len(s) : r[i] = [h |-> s[i].h, time |-> r[i].time]
      BY <2>6 DEF IsList
    <2> HIDE DEF r
    <2>9. r \in Seq({r[i] : i \in 1 .. Len(s)}) /\ Len(r) = Len(s)
      <3>1. r \in [1 .. Len(s) -> {r[i] : i \in 1 .. Len(s)}]
        BY <2>7
      <3> QED
        BY <1>1, <3>1, SeqDef, LenProperties
    <2>10. r \in Seq(ToSet(r))
      BY <2>9, SeqOfElements
    <2>11. \A i \in 1 .. Len(r) : s[i].h \in Handlers /\ r[i].h = s[i].h
      <3> TAKE i \in 1 .. Len(r)
      <3>1. s[i].h \in Handlers
        BY <2>9 DEF IsList
      <3>2. PICK v : r[i] = [h |-> s[i].h, time |-> v]
        BY <2>8, <2>9
      <3> QED
        BY <3>1, <3>2
    <2>12. IsList(r)
      BY <2>8, <2>9, <2>10, <2>11 DEF IsList
    <2>13. Names(r) = Names(s) /\ (Distinct(s) => Distinct(r))
      BY <2>9, <2>11 DEF Names, Distinct
    <2> QED
      BY <2>9, <2>12, <2>13 DEF r
  <1> QED
    BY <1>2, <1>3

LEMMA TailList ==
    ASSUME NEW s, IsList(s), Distinct(s), s # <<>>
    PROVE  /\ IsList(Tail(s)) /\ Distinct(Tail(s)) /\ Len(Tail(s)) = Len(s) - 1
           /\ s[1].h \in Names(s) /\ s[1].h \in Handlers
           /\ Names(Tail(s)) = Names(s) \ {s[1].h}
  <1> DEFINE r == Tail(s)
  <1>1. Len(s) \in Nat \ {0} /\ r \in Seq(ToSet(s)) /\ Len(r) = Len(s) - 1
    BY HeadTailElements, EmptySeq DEF IsList
  <1>2. \A k \in 1 .. Len(s) - 1 : r[k] = s[k + 1] /\ k + 1 \in 2 .. Len(s)
    BY <1>1, HeadTailProperties DEF IsList
  <1>3. r \in Seq(ToSet(r))
    BY <1>1, SeqOfElements
  <1> HIDE DEF r
  <1>4. IsList(r)
    <2>1. ASSUME NEW k \in 1 .. Len(r)
          PROVE  r[k] = [h |-> r[k].h, time |-> r[k].time] /\ r[k].h \in Handlers
      <3>1. r[k] = s[k + 1] /\ k + 1 \in 1 .. Len(s)
        BY <1>1, <1>2
      <3> QED
        BY <3>1 DEF IsList
    <2> QED
      BY <1>3, <2>1 DEF IsList
  <1>5. Distinct(r)
    <2> SUFFICES ASSUME NEW i \in 1 .. Len(r), NEW j \in 1 .. Len(r), r[i].h = r[j].h
                 PROVE  i = j
      BY DEF Distinct
    <2>1. /\ r[i] = s[i + 1] /\ i + 1 \in 1 .. Len(s)
          /\ r[j] = s[j + 1] /\ j + 1 \in 1 .. Len(s)
      BY <1>1, <1>2
    <2>2. i + 1 = j + 1
      BY <2>1 DEF Distinct
    <2> QED
      BY <1>1, <2>2
  <1>6. 1 \in 1 .. Len(s)
    BY <1>1
  <1>7. s[1].h \in Names(s) /\ s[1].h \in Handlers
    BY <1>6 DEF Names, IsList
  <1>8. ASSUME NEW k \in 1 .. Len(r)
        PROVE  r[k].h \in Names(s) \ {s[1].h}
    <2>1. r[k] = s[k + 1] /\ k + 1 \in 1 .. Len(s) /\ k + 1 # 1
      BY <1>1, <1>2
    <2>2. s[k + 1].h # s[1].h
      BY <1>6, <2>1 DEF Distinct
    <2> QED
      BY <2>1, <2>2 DEF Names
  <1>9. ASSUME NEW k \in 1 .. Len(s), s[k].h # s[1].h
        PROVE  s[k].h \in Names(r)
    <2>1. k # 1
      BY <1>9
    <2>2. k - 1 \in 1 .. Len(r) /\ k - 1 \in 1 .. Len(s) - 1 /\ (k - 1) + 1 = k
      BY <1>1, <2>1
    <2>3. r[k - 1] = s[k]
      BY <1>2, <2>2
    <2> QED
      BY <2>2, <2>3 DEF Names
  <1>10. Names(r) = Names(s) \ {s[1].h}
    BY <1>8, <1>9 DEF Names
  <1> QED
    BY <1>1, <1>4, <1>5, <1>7, <1>10 DEF r

-----------------------------------------------------------------------------
(* When entries are due                                                    *)

\* The entries of a list: each handler with the time it is due at.
Dues(s) == {<<s[i].h, Due(s, i)>> : i \in 1 .. Len(s)}

LEMMA EntryTypes ==
    ASSUME NEW s \in Seq(Entries)
    PROVE  /\ Len(s) \in Nat
           /\ \A k \in 1 .. Len(s) : /\ s[k] = [h |-> s[k].h, time |-> s[k].time]
                                     /\ s[k].h \in Handlers /\ s[k].time \in Nat
  <1>1. \A e \in Entries : e = [h |-> e.h, time |-> e.time] /\ e.h \in Handlers /\ e.time \in Nat
    BY DEF Entries
  <1>2. Len(s) \in Nat /\ \A k \in 1 .. Len(s) : s[k] \in Entries
    OBVIOUS
  <1> QED
    BY <1>1, <1>2

\* The times from now are the sums of the deltas.
LEMMA DueSums ==
    ASSUME NEW s \in Seq(Entries)
    PROVE  /\ Len(s) \in Nat /\ Due(s, 0) = 0
           /\ \A k \in 1 .. Len(s) : Due(s, k) = Due(s, k - 1) + s[k].time
           /\ \A k \in 0 .. Len(s) : Due(s, k) \in Nat
           /\ \A j \in 0 .. Len(s) : \A i \in 0 .. j : Due(s, i) <= Due(s, j)
           /\ \A k \in 1 .. Len(s) : s[k].h \in Handlers /\ s[k].time \in Nat
  <1> DEFINE t == Times(s)
             n == Len(s)
  <1>1. n \in Nat /\ \A k \in 1 .. n : s[k].h \in Handlers /\ s[k].time \in Nat
    BY EntryTypes
  <1>2. t \in Seq(Nat) /\ t \in Seq(Int) /\ Len(t) = n
    BY <1>1 DEF Times
  <1>3. \A k \in 1 .. n : t[k] = s[k].time
    BY DEF Times
  <1> HIDE DEF t, n
  <1>4. \A k \in 0 .. n : Due(s, k) = PrefixSums(t)[k]
    BY DEF Due, t
  <1>5. /\ PrefixSums(t)[0] = 0
        /\ \A k \in 1 .. n : PrefixSums(t)[k] = PrefixSums(t)[k - 1] + t[k]
    BY <1>2, PrefixSumsType
  <1>6. \A j \in 0 .. n : \A i \in 0 .. j :
           PrefixSums(t)[i] \in Nat /\ PrefixSums(t)[i] <= PrefixSums(t)[j]
    BY <1>2, PrefixSumsMonotonic
  <1>7. \A k \in 1 .. n : k \in 0 .. n /\ k - 1 \in 0 .. n
    BY <1>1
  <1>8. \A k \in 1 .. n : Due(s, k) = Due(s, k - 1) + s[k].time
    BY <1>3, <1>4, <1>5, <1>7
  <1>9. \A j \in 0 .. n : j \in 0 .. j /\ \A i \in 0 .. j : i \in 0 .. n
    BY <1>1
  <1>10. 0 \in 0 .. n
    BY <1>1
  <1> QED
    BY <1>1, <1>4, <1>5, <1>6, <1>8, <1>9, <1>10 DEF n

LEMMA DueUnique ==
    ASSUME NEW s \in Seq(Entries), NEW f, f[0] = 0,
           \A k \in 1 .. Len(s) : f[k] = f[k - 1] + s[k].time
    PROVE  \A k \in 0 .. Len(s) : Due(s, k) = f[k]
  <1> DEFINE t == Times(s)
  <1>1. \A k \in 1 .. Len(s) : s[k].time \in Nat
    BY EntryTypes
  <1>2. t \in Seq(Int) /\ Len(t) = Len(s) /\ Len(s) \in 0 .. Len(t)
    BY <1>1 DEF Times
  <1>3. \A k \in 1 .. Len(s) : t[k] = s[k].time
    BY DEF Times
  <1> HIDE DEF t
  <1>4. \A k \in 0 .. Len(s) : f[k] = PrefixSums(t)[k]
    BY <1>2, <1>3, PrefixSumsUnique
  <1> QED
    BY <1>4 DEF Due, t

\* The entries that are due no later than some time are the first ones.
LEMMA DueBefore ==
    ASSUME NEW s \in Seq(Entries), NEW ms \in Int
    PROVE  LET P == {i \in 1 .. Len(s) : Due(s, i) <= ms}
           IN  Cardinality(P) \in 0 .. Len(s) /\ P = 1 .. Cardinality(P)
  <1> DEFINE P == {i \in 1 .. Len(s) : Due(s, i) <= ms}
             T == {i \in 1 .. Len(s) + 1 : i \notin P}
  <1>1. PICK n \in T : \A m \in T : n <= m
    <2>1. Len(s) + 1 \in T /\ T \in SUBSET Nat
      OBVIOUS
    <2> QED
      BY <2>1, LeastNat
  <1>2. n \in Nat \ {0} /\ n <= Len(s) + 1 /\ n \notin P /\ Len(s) \in Nat
    OBVIOUS
  <1>3. ASSUME NEW i \in P PROVE i < n
    <2> SUFFICES ASSUME n <= i PROVE FALSE
      BY <1>2
    <2>1. n \in 1 .. Len(s) /\ n \in 0 .. i /\ i \in 0 .. Len(s) /\ n \in 0 .. Len(s)
      BY <1>2
    <2>2. Due(s, n) <= Due(s, i) /\ Due(s, n) \in Nat /\ Due(s, i) \in Nat /\ Due(s, i) <= ms
      BY <2>1, DueSums
    <2>3. Due(s, n) <= ms
      BY <2>2
    <2> QED
      BY <1>2, <2>1, <2>3
  <1>4. P = 1 .. n - 1
    BY <1>1, <1>2, <1>3
  <1>5. Cardinality(1 .. n - 1) = n - 1
    BY <1>2, FS_Interval
  <1>6. n - 1 \in 0 .. Len(s)
    BY <1>2
  <1> HIDE DEF P
  <1>7. Cardinality(P) = n - 1 /\ P = 1 .. Cardinality(P)
    BY <1>4, <1>5
  <1> QED
    BY <1>6, <1>7 DEF P

\* sys_timeout puts no other entry off and makes the new one due after its
\* time (sys.c:213-234).
LEMMA InsertDue ==
    ASSUME NEW s \in Seq(Entries), NEW h \in Handlers, NEW ms \in Nat
    PROVE  /\ Insert(s, h, ms) \in Seq(Entries)
           /\ Dues(Insert(s, h, ms)) = Dues(s) \cup {<<h, ms>>}
  <1> DEFINE P == {i \in 1 .. Len(s) : Due(s, i) <= ms}
             before == Cardinality(P)
             time == ms - Due(s, before)
             behind == before + 1
             rest == IF before = Len(s) THEN s
                     ELSE [s EXCEPT ![behind].time = @ - time]
             new == [h |-> h, time |-> time]
             r == InsertAt(rest, behind, new)
             n == Len(s)
  <1>1. Insert(s, h, ms) = r
    BY DEF Insert
  <1>2. before \in 0 .. n /\ P = 1 .. before
    BY DueBefore
  <1>3. /\ n \in Nat /\ Due(s, 0) = 0
        /\ \A k \in 1 .. n : Due(s, k) = Due(s, k - 1) + s[k].time
        /\ \A k \in 0 .. n : Due(s, k) \in Nat
        /\ \A k \in 1 .. n : s[k].h \in Handlers /\ s[k].time \in Nat
    BY DueSums
  <1>16. \A i \in 1 .. n : i \in 1 .. before <=> Due(s, i) <= ms
    BY <1>2
  <1> HIDE DEF P, before
  <1>4. before \in Nat /\ before <= n /\ Due(s, before) <= ms /\ Due(s, before) \in Nat
    <2>1. before \in Nat /\ before <= n
      BY <1>2, <1>3
    <2>2. before # 0 => before \in 1 .. n /\ before \in 1 .. before
      BY <1>3, <2>1
    <2>3. before \in 0 .. n
      BY <1>3, <2>1
    <2>4. Due(s, before) <= ms
      BY <1>3, <1>16, <2>2
    <2> QED
      BY <1>3, <2>1, <2>3, <2>4
  <1>5. before # n => behind \in 1 .. n /\ Due(s, behind) > ms
    <2> SUFFICES ASSUME before # n PROVE behind \in 1 .. n /\ Due(s, behind) > ms
      OBVIOUS
    <2>1. behind \in 1 .. n /\ behind \notin 1 .. before
      BY <1>3, <1>4
    <2>2. behind \in 0 .. n
      BY <2>1
    <2>3. ~(Due(s, behind) <= ms) /\ Due(s, behind) \in Nat
      BY <1>3, <1>16, <2>1, <2>2
    <2> QED
      BY <2>1, <2>3
  <1>6. time \in Nat /\ time = ms - Due(s, before)
    BY <1>4
  <1> HIDE DEF time
  <1>7. /\ rest \in Seq(Entries) /\ Len(rest) = n
        /\ \A k \in 1 .. n :
              rest[k] = [h |-> s[k].h,
                         time |-> IF k = behind THEN s[k].time - time ELSE s[k].time]
    <2>1. \A k \in 1 .. n : s[k] = [h |-> s[k].h, time |-> s[k].time]
      BY EntryTypes
    <2>2. CASE before = n
      <3>1. rest = s /\ \A k \in 1 .. n : k # behind
        BY <1>3, <2>2
      <3> QED
        BY <2>1, <3>1
    <2>3. CASE before # n
      <3>1. /\ behind \in 1 .. n /\ behind - 1 = before
            /\ Due(s, behind) = Due(s, behind - 1) + s[behind].time
            /\ Due(s, behind) > ms
        BY <1>3, <1>4, <1>5, <2>3
      <3>2. s[behind].time - time \in Nat
        BY <1>3, <1>4, <1>6, <3>1
      <3>3. PICK u \in Nat : u = s[behind].time - time
        BY <3>2
      <3>4. [s[behind] EXCEPT !.time = u] = [h |-> s[behind].h, time |-> u]
        <4>1. PICK e : e = s[behind]
          OBVIOUS
        <4>2. e = [h |-> e.h, time |-> e.time]
          BY <2>1, <3>1, <4>1
        <4>3. [e EXCEPT !.time = u] = [h |-> e.h, time |-> u]
          BY <4>2
        <4> QED
          BY <4>1, <4>3
      <3>5. rest = [s EXCEPT ![behind] = [s[behind] EXCEPT !.time = u]]
        BY <2>3, <3>3
      <3>6. [h |-> s[behind].h, time |-> u] \in Entries
        BY <1>3, <3>1 DEF Entries
      <3> HIDE DEF rest
      <3>7. rest \in Seq(Entries) /\ Len(rest) = n
        BY <3>1, <3>4, <3>5, <3>6
      <3>8. \A k \in 1 .. n :
               rest[k] = IF k = behind THEN [h |-> s[behind].h, time |-> u] ELSE s[k]
        BY <3>1, <3>4, <3>5
      <3> QED
        BY <2>1, <3>3, <3>7, <3>8
    <2> QED
      BY <2>2, <2>3
  <1> HIDE DEF rest
  <1>8. new \in Entries /\ new.h = h /\ new.time = time
    BY <1>6 DEF Entries
  <1> HIDE DEF new
  <1>9. /\ r \in Seq(Entries) /\ Len(r) = n + 1 /\ r[behind] = new
        /\ \A k \in 1 .. n : r[IF k < behind THEN k ELSE k + 1] = rest[k]
    <2>1. behind \in 1 .. Len(rest) + 1
      BY <1>3, <1>4, <1>7
    <2>2. /\ r \in Seq(Entries) /\ Len(r) = Len(rest) + 1 /\ r[behind] = new
          /\ \A k \in 1 .. Len(rest) : r[IF k < behind THEN k ELSE k + 1] = rest[k]
      <3> HIDE DEF behind
      <3>1. ASSUME NEW b \in 1 .. Len(rest) + 1
            PROVE  /\ InsertAt(rest, b, new) \in Seq(Entries)
                   /\ Len(InsertAt(rest, b, new)) = Len(rest) + 1
                   /\ InsertAt(rest, b, new)[b] = new
                   /\ \A k \in 1 .. Len(rest) :
                         InsertAt(rest, b, new)[IF k < b THEN k ELSE k + 1] = rest[k]
        <4> HIDE DEF r
        <4> QED
          BY <1>7, <1>8, InsertAtType
      <3> QED
        BY <2>1, <3>1
    <2> HIDE DEF r
    <2> QED
      BY <1>7, <2>2
  <1> HIDE DEF r
  <1> DEFINE f == [k \in 0 .. n + 1 |-> IF k <= before THEN Due(s, k)
                                        ELSE IF k = behind THEN ms ELSE Due(s, k - 1)]
  <1>10. \A k \in 1 .. before : /\ r[k].h = s[k].h /\ r[k].time = s[k].time
    <2> SUFFICES ASSUME NEW k \in 1 .. before
                 PROVE  r[k].h = s[k].h /\ r[k].time = s[k].time
      OBVIOUS
    <2>1. k \in 1 .. n /\ k < behind /\ k # behind
      BY <1>3, <1>4
    <2>2. r[k] = rest[k]
      BY <1>9, <2>1
    <2>3. rest[k] = [h |-> s[k].h, time |-> s[k].time]
      BY <1>7, <2>1
    <2> QED
      BY <2>2, <2>3
  <1>11. \A k \in behind + 1 .. n + 1 :
            /\ r[k].h = s[k - 1].h
            /\ r[k].time = IF k = behind + 1 THEN s[k - 1].time - time ELSE s[k - 1].time
    <2> SUFFICES ASSUME NEW k \in behind + 1 .. n + 1
                 PROVE  /\ r[k].h = s[k - 1].h
                        /\ r[k].time = IF k = behind + 1 THEN s[k - 1].time - time
                                       ELSE s[k - 1].time
      OBVIOUS
    <2>1. /\ k - 1 \in 1 .. n /\ ~(k - 1 < behind) /\ (k - 1) + 1 = k
          /\ (k - 1 = behind <=> k = behind + 1)
      BY <1>3, <1>4
    <2>2. r[k] = rest[k - 1]
      BY <1>9, <2>1
    <2>3. rest[k - 1] = [h |-> s[k - 1].h,
                         time |-> IF k - 1 = behind THEN s[k - 1].time - time ELSE s[k - 1].time]
      BY <1>7, <2>1
    <2> QED
      BY <2>1, <2>2, <2>3
  <1>15. /\ \A k \in 0 .. before : f[k] = Due(s, k)
         /\ f[behind] = ms
         /\ \A k \in behind + 1 .. n + 1 : f[k] = Due(s, k - 1)
    BY <1>3, <1>4
  <1> HIDE DEF f
  <1>12. f[0] = 0 /\ \A k \in 1 .. Len(r) : f[k] = f[k - 1] + r[k].time
    <2>1. f[0] = 0
      <3>1. 0 \in 0 .. before
        BY <1>4
      <3> QED
        BY <1>3, <1>15, <3>1
    <2> SUFFICES ASSUME NEW k \in 1 .. n + 1
                 PROVE  f[k] = f[k - 1] + r[k].time
      BY <1>9, <2>1
    <2>3. CASE k <= before
      <3>1. k \in 1 .. before /\ k \in 1 .. n /\ k \in 0 .. before /\ k - 1 \in 0 .. before
        BY <1>3, <1>4, <2>3
      <3>2. f[k] = Due(s, k) /\ f[k - 1] = Due(s, k - 1) /\ r[k].time = s[k].time
        BY <1>10, <1>15, <3>1
      <3> QED
        BY <1>3, <3>1, <3>2
    <2>4. CASE k = behind
      <3>1. k - 1 = before /\ before \in 0 .. before
        BY <1>4, <2>4
      <3>2. f[k] = ms /\ f[k - 1] = Due(s, before) /\ r[k].time = time
        BY <1>8, <1>9, <1>15, <2>4, <3>1
      <3> QED
        BY <1>4, <1>6, <3>2
    <2>5. CASE k = behind + 1
      <3>1. k \in behind + 1 .. n + 1 /\ k - 1 = behind /\ behind \in 1 .. n /\ behind - 1 = before
        BY <1>3, <1>4, <2>5
      <3>2. f[k] = Due(s, behind) /\ f[k - 1] = ms /\ r[k].time = s[behind].time - time
        BY <1>11, <1>15, <2>5, <3>1
      <3>3. Due(s, behind) = Due(s, before) + s[behind].time /\ s[behind].time \in Nat
        BY <1>3, <3>1
      <3> HIDE DEF behind
      <3> QED
        BY <1>4, <1>6, <3>2, <3>3
    <2>6. CASE k > behind + 1
      <3>1. /\ k \in behind + 1 .. n + 1 /\ k - 1 \in behind + 1 .. n + 1
            /\ k - 1 \in 1 .. n /\ k # behind + 1
        BY <1>3, <1>4, <2>6
      <3>2. f[k] = Due(s, k - 1) /\ f[k - 1] = Due(s, (k - 1) - 1) /\ r[k].time = s[k - 1].time
        BY <1>11, <1>15, <3>1
      <3> QED
        BY <1>3, <3>1, <3>2
    <2> QED
      BY <1>4, <2>3, <2>4, <2>5, <2>6
  <1>13. \A k \in 0 .. n + 1 : Due(r, k) = f[k]
    <2>1. \A k \in 0 .. Len(r) : Due(r, k) = f[k]
      BY <1>9, <1>12, DueUnique
    <2> QED
      BY <1>9, <2>1
  <1>14. Dues(r) = Dues(s) \cup {<<h, ms>>}
    <2>1. ASSUME NEW k \in 1 .. n + 1
          PROVE  <<r[k].h, Due(r, k)>> \in Dues(s) \cup {<<h, ms>>}
      <3>1. CASE k <= before
        <4>1. /\ k \in 1 .. before /\ k \in 1 .. n /\ k \in 0 .. n + 1
          BY <1>3, <1>4, <3>1
        <4>2. r[k].h = s[k].h /\ Due(r, k) = Due(s, k)
          BY <1>10, <1>13, <1>15, <3>1, <4>1
        <4> QED
          BY <4>1, <4>2 DEF Dues
      <3>2. CASE k = behind
        <4>1. k \in 0 .. n + 1 /\ ~(k <= before)
          BY <1>3, <1>4, <3>2
        <4> QED
          BY <1>8, <1>9, <1>13, <1>15, <3>2, <4>1
      <3>3. CASE k > behind
        <4>1. /\ k \in behind + 1 .. n + 1 /\ k - 1 \in 1 .. n /\ k \in 0 .. n + 1
              /\ ~(k <= before) /\ k # behind
          BY <1>3, <1>4, <3>3
        <4>2. r[k].h = s[k - 1].h /\ Due(r, k) = Due(s, k - 1)
          BY <1>11, <1>13, <1>15, <4>1
        <4> QED
          BY <4>1, <4>2 DEF Dues
      <3> QED
        BY <1>4, <3>1, <3>2, <3>3
    <2>2. ASSUME NEW k \in 1 .. n
          PROVE  <<s[k].h, Due(s, k)>> \in Dues(r)
      <3>1. CASE k <= before
        <4>1. k \in 1 .. before /\ k \in 1 .. Len(r) /\ k \in 0 .. n + 1
          BY <1>3, <1>4, <1>9, <3>1
        <4>2. r[k].h = s[k].h /\ Due(r, k) = Due(s, k)
          BY <1>10, <1>13, <1>15, <3>1, <4>1
        <4> QED
          BY <4>1, <4>2 DEF Dues
      <3>2. CASE ~(k <= before)
        <4>1. /\ k + 1 \in behind + 1 .. n + 1 /\ k + 1 \in 1 .. Len(r) /\ k + 1 \in 0 .. n + 1
              /\ ~(k + 1 <= before) /\ k + 1 # behind /\ (k + 1) - 1 = k
          BY <1>3, <1>4, <1>9, <3>2
        <4>2. r[k + 1].h = s[k].h /\ Due(r, k + 1) = Due(s, k)
          BY <1>11, <1>13, <1>15, <4>1
        <4> QED
          BY <4>1, <4>2 DEF Dues
      <3> QED
        BY <3>1, <3>2
    <2>3. <<h, ms>> \in Dues(r)
      <3>1. behind \in 1 .. Len(r) /\ behind \in 0 .. n + 1 /\ ~(behind <= before)
        BY <1>3, <1>4, <1>9
      <3>2. r[behind].h = h /\ Due(r, behind) = ms
        BY <1>8, <1>9, <1>13, <1>15, <3>1
      <3> QED
        BY <3>1, <3>2 DEF Dues
    <2> QED
      BY <1>9, <2>1, <2>2, <2>3 DEF Dues
  <1> QED
    BY <1>1, <1>9, <1>14

\* A wait takes as much off every entry as has passed (sys.c:98-105).
LEMMA ShortenedDue ==
    ASSUME timers \in Seq(Entries), waited \in Nat,
           timers # <<>> => waited <= timers[1].time
    PROVE  /\ Shortened \in Seq(Entries) /\ (Shortened = <<>> <=> timers = <<>>)
           /\ Dues(Shortened) = {<<d[1], d[2] - waited>> : d \in Dues(timers)}
  <1> DEFINE s == timers
             r == Shortened
             n == Len(timers)
  <1>1. /\ n \in Nat /\ Due(s, 0) = 0
        /\ \A k \in 1 .. n : Due(s, k) = Due(s, k - 1) + s[k].time
        /\ \A k \in 0 .. n : Due(s, k) \in Nat
        /\ \A k \in 1 .. n : s[k].h \in Handlers /\ s[k].time \in Nat
    BY DueSums
  <1>2. CASE s = <<>>
    <2>1. r = s /\ 1 .. n = {}
      BY <1>2 DEF Shortened
    <2>2. Dues(r) = {} /\ Dues(s) = {}
      BY <2>1 DEF Dues
    <2> QED
      BY <1>2, <2>1, <2>2
  <1>3. CASE s # <<>>
    <2>1. 1 \in 1 .. n
      BY <1>1, <1>3, EmptySeq
    <2>2. s[1] = [h |-> s[1].h, time |-> s[1].time]
      BY <2>1, EntryTypes
    <2>3. PICK u \in Nat : u = s[1].time - waited
      BY <1>1, <1>3, <2>1
    <2>4. [s[1] EXCEPT !.time = u] = [h |-> s[1].h, time |-> u]
      BY <2>2
    <2>5. r = [s EXCEPT ![1] = [s[1] EXCEPT !.time = u]]
      BY <1>3, <2>3 DEF Shortened
    <2>6. [h |-> s[1].h, time |-> u] \in Entries
      BY <1>1, <2>1 DEF Entries
    <2> HIDE DEF r
    <2>7. /\ r \in Seq(Entries) /\ Len(r) = n /\ r # <<>>
          /\ \A k \in 1 .. n : r[k] = IF k = 1 THEN [h |-> s[1].h, time |-> u] ELSE s[k]
      BY <2>1, <2>4, <2>5, <2>6
    <2>8. \A k \in 1 .. n : /\ r[k].h = s[k].h
                            /\ r[k].time = IF k = 1 THEN s[1].time - waited ELSE s[k].time
      BY <2>3, <2>7
    <2> DEFINE f == [k \in 0 .. n |-> IF k = 0 THEN 0 ELSE Due(s, k) - waited]
    <2>9. f[0] = 0 /\ \A k \in 1 .. n : f[k] = Due(s, k) - waited
      BY <1>1
    <2> HIDE DEF f
    <2>10. \A k \in 1 .. Len(r) : f[k] = f[k - 1] + r[k].time
      <3> SUFFICES ASSUME NEW k \in 1 .. n
                   PROVE  f[k] = f[k - 1] + r[k].time
        BY <2>7
      <3>1. /\ f[k] = Due(s, k) - waited /\ Due(s, k) = Due(s, k - 1) + s[k].time
            /\ s[k].time \in Nat
        BY <1>1, <2>9
      <3>2. CASE k = 1
        <4>1. /\ f[k - 1] = 0 /\ Due(s, k - 1) = 0
              /\ r[k].time = s[k].time - waited
          BY <1>1, <2>8, <2>9, <3>2
        <4> QED
          BY <3>1, <4>1
      <3>3. CASE k # 1
        <4>1. k - 1 \in 1 .. n /\ k - 1 \in 0 .. n
          BY <1>1, <3>3
        <4>2. f[k - 1] = Due(s, k - 1) - waited /\ Due(s, k - 1) \in Nat /\ r[k].time = s[k].time
          BY <1>1, <2>8, <2>9, <3>3, <4>1
        <4> QED
          BY <3>1, <4>2
      <3> QED
        BY <3>2, <3>3
    <2>11. \A k \in 0 .. Len(r) : Due(r, k) = f[k]
      BY <2>7, <2>9, <2>10, DueUnique
    <2>12. \A k \in 1 .. n : <<r[k].h, Due(r, k)>> = <<s[k].h, Due(s, k) - waited>>
      <3> SUFFICES ASSUME NEW k \in 1 .. n
                   PROVE  r[k].h = s[k].h /\ Due(r, k) = Due(s, k) - waited
        OBVIOUS
      <3>1. k \in 0 .. Len(r)
        BY <1>1, <2>7
      <3> QED
        BY <2>8, <2>9, <2>11, <3>1
    <2>13. ASSUME NEW d \in Dues(r)
           PROVE  \E e \in Dues(s) : d = <<e[1], e[2] - waited>>
      <3>1. PICK k \in 1 .. n : d = <<r[k].h, Due(r, k)>>
        BY <2>7 DEF Dues
      <3>2. <<s[k].h, Due(s, k)>> \in Dues(s)
        BY DEF Dues
      <3>3. d = <<s[k].h, Due(s, k) - waited>>
        BY <2>12, <3>1
      <3> QED
        BY <3>2, <3>3
    <2>14. ASSUME NEW e \in Dues(s)
           PROVE  <<e[1], e[2] - waited>> \in Dues(r)
      <3>1. PICK k \in 1 .. n : e = <<s[k].h, Due(s, k)>>
        BY DEF Dues
      <3>2. <<r[k].h, Due(r, k)>> \in Dues(r)
        BY <2>7 DEF Dues
      <3> QED
        BY <2>12, <3>1, <3>2
    <2> QED
      BY <1>3, <2>7, <2>13, <2>14 DEF r
  <1> QED
    BY <1>2, <1>3

\* Without its first entry the others are due by so much earlier.
LEMMA TailDue ==
    ASSUME NEW s \in Seq(Entries), s # <<>>
    PROVE  /\ Tail(s) \in Seq(Entries) /\ 1 \in 1 .. Len(s)
           /\ <<s[1].h, s[1].time>> \in Dues(s)
           /\ \A d \in Dues(Tail(s)) : \E e \in Dues(s) :
                 d = <<e[1], e[2] - s[1].time>>
  <1> DEFINE r == Tail(s)
             n == Len(s)
             t == s[1].time
  <1>1. /\ n \in Nat /\ Due(s, 0) = 0
        /\ \A k \in 1 .. n : Due(s, k) = Due(s, k - 1) + s[k].time
        /\ \A k \in 0 .. n : Due(s, k) \in Nat
        /\ \A k \in 1 .. n : s[k].h \in Handlers /\ s[k].time \in Nat
    BY DueSums
  <1>2. n # 0 /\ 1 \in 1 .. n
    BY <1>1, EmptySeq
  <1>3. /\ r \in Seq(Entries) /\ Len(r) = n - 1
        /\ \A k \in 1 .. n - 1 : r[k] = s[k + 1]
    BY <1>2, HeadTailProperties
  <1> HIDE DEF r
  <1>4. Due(s, 1) = t /\ t \in Nat
    BY <1>1, <1>2
  <1> HIDE DEF t
  <1> DEFINE f == [k \in 0 .. n - 1 |-> Due(s, k + 1) - t]
  <1>5. \A k \in 0 .. n - 1 : f[k] = Due(s, k + 1) - t
    OBVIOUS
  <1> HIDE DEF f
  <1>6. f[0] = 0
    <2>1. 0 \in 0 .. n - 1
      BY <1>1, <1>2
    <2> QED
      BY <1>4, <1>5, <2>1
  <1>7. \A k \in 1 .. Len(r) : f[k] = f[k - 1] + r[k].time
    <2> SUFFICES ASSUME NEW k \in 1 .. n - 1
                 PROVE  f[k] = f[k - 1] + r[k].time
      BY <1>3
    <2>1. k \in 0 .. n - 1 /\ k - 1 \in 0 .. n - 1 /\ k + 1 \in 1 .. n /\ k \in 0 .. n
          /\ (k + 1) - 1 = k /\ (k - 1) + 1 = k
      BY <1>1
    <2>2. f[k] = Due(s, k + 1) - t /\ f[k - 1] = Due(s, k) - t /\ r[k].time = s[k + 1].time
      BY <1>3, <1>5, <2>1
    <2>3. /\ Due(s, k + 1) = Due(s, k) + s[k + 1].time
          /\ s[k + 1].time \in Nat /\ Due(s, k) \in Nat
      BY <1>1, <2>1
    <2> QED
      BY <1>4, <2>2, <2>3
  <1>8. \A k \in 0 .. Len(r) : Due(r, k) = f[k]
    BY <1>3, <1>6, <1>7, DueUnique
  <1>9. ASSUME NEW k \in 1 .. Len(r)
        PROVE  <<s[k + 1].h, Due(s, k + 1)>> \in Dues(s)
               /\ <<r[k].h, Due(r, k)>> = <<s[k + 1].h, Due(s, k + 1) - t>>
    <2>1. k \in 0 .. n - 1 /\ k + 1 \in 1 .. n /\ k \in 0 .. Len(r) /\ k \in 1 .. n - 1
      BY <1>1, <1>3
    <2> QED
      BY <1>3, <1>5, <1>8, <2>1 DEF Dues
  <1>10. \A d \in Dues(r) : \E e \in Dues(s) : d = <<e[1], e[2] - t>>
    <2> SUFFICES ASSUME NEW k \in 1 .. Len(r)
                 PROVE  \E e \in Dues(s) : <<r[k].h, Due(r, k)>> = <<e[1], e[2] - t>>
      BY DEF Dues
    <2> QED
      BY <1>9
  <1>11. <<s[1].h, t>> \in Dues(s)
    BY <1>2, <1>4 DEF Dues
  <1> QED
    BY <1>2, <1>3, <1>10, <1>11 DEF r, t

-----------------------------------------------------------------------------
(* What the thread is in the middle of                                     *)

LEMMA PushStack ==
    ASSUME NEW s, IsStack(s), NEW f \in Frames,
           f \in Handlers => f \notin ToSet(s),
           f = "message" => s = <<>>
    PROVE  IsStack(Append(s, f)) /\ ToSet(Append(s, f)) = {f} \cup ToSet(s)
  <1> DEFINE r == Append(s, f)
  <1>1. /\ r \in Seq(Frames) /\ Len(r) = Len(s) + 1 /\ ToSet(r) = {f} \cup ToSet(s)
        /\ r[Len(s) + 1] = f /\ \A k \in 1 .. Len(s) : r[k] = s[k]
    BY AppendElements, AppendProperties DEF IsStack
  <1>2. Len(s) \in Nat /\ DOMAIN s = 1 .. Len(s)
    BY SeqOfElements DEF IsStack
  <1>3. \A k \in 1 .. Len(s) : s[k] \in ToSet(s)
    BY <1>2 DEF ToSet
  <1> HIDE DEF r
  <1>4. \A k \in 1 .. Len(r) : k = Len(s) + 1 \/ k \in 1 .. Len(s)
    BY <1>1, <1>2
  <1>5. \A i, j \in 1 .. Len(r) : r[i] = r[j] /\ r[i] \in Handlers => i = j
    BY <1>1, <1>3, <1>4 DEF IsStack
  <1>6. f = "message" => Len(s) = 0
    BY EmptySeq
  <1>7. \A i \in 1 .. Len(r) : r[i] = "message" => i = 1
    BY <1>1, <1>4, <1>6 DEF IsStack
  <1> QED
    BY <1>1, <1>5, <1>7 DEF IsStack, r

LEMMA PopStack ==
    ASSUME NEW s, IsStack(s), s # <<>>
    PROVE  /\ IsStack(Front(s))
           /\ ToSet(s) = ToSet(Front(s)) \cup {Last(s)}
           /\ Last(s) \in Handlers => Last(s) \notin ToSet(Front(s))
           /\ Last(s) = "message" => ToSet(Front(s)) = {}
  <1> DEFINE r == Front(s)
  <1>1. Len(s) \in Nat \ {0} /\ DOMAIN s = 1 .. Len(s)
    BY SeqOfElements, EmptySeq DEF IsStack
  <1>2. /\ r \in Seq(Frames) /\ Len(r) = Len(s) - 1
        /\ \A k \in 1 .. Len(s) - 1 : r[k] = s[k]
    <2>1. 1 \in 1 .. Len(s) + 1 /\ Len(s) - 1 \in 0 .. Len(s)
      BY <1>1
    <2>2. /\ SubSeq(s, 1, Len(s) - 1) \in Seq(Frames)
          /\ Len(SubSeq(s, 1, Len(s) - 1)) = Len(s) - 1
          /\ \A k \in 1 .. Len(s) - 1 : SubSeq(s, 1, Len(s) - 1)[k] = s[k]
      BY <1>1, <2>1, SubSeqProperties DEF IsStack
    <2> QED
      BY <2>2 DEF Front
  <1> HIDE DEF r
  <1>3. DOMAIN r = 1 .. Len(s) - 1
    BY <1>2
  <1>12. Len(s) \in Nat \ {0}
    BY <1>1
  <1>4. \A k \in 1 .. Len(s) : k = Len(s) \/ k \in 1 .. Len(s) - 1
    BY <1>12
  <1>5. \A k \in 1 .. Len(s) - 1 : k \in 1 .. Len(s) /\ k # Len(s)
    BY <1>12
  <1>6. Len(s) \in 1 .. Len(s)
    BY <1>1
  <1>7. ToSet(s) = ToSet(r) \cup {s[Len(s)]}
    BY <1>1, <1>2, <1>3, <1>4, <1>5, <1>6 DEF ToSet
  <1>8. s[Len(s)] \in Handlers => s[Len(s)] \notin ToSet(r)
    BY <1>2, <1>3, <1>5, <1>6 DEF ToSet, IsStack
  <1>9. s[Len(s)] = "message" => Len(s) = 1
    BY <1>6 DEF IsStack
  <1>10. s[Len(s)] = "message" => ToSet(r) = {}
    <2> SUFFICES ASSUME Len(s) = 1 PROVE ToSet(r) = {}
      BY <1>9
    <2>1. DOMAIN r = {}
      BY <1>3
    <2> QED
      BY <2>1 DEF ToSet
  <1>11. IsStack(r)
    BY <1>2, <1>5 DEF IsStack
  <1> QED
    BY <1>7, <1>8, <1>10, <1>11 DEF r, Last

-----------------------------------------------------------------------------
(* Steps                                                                   *)

\* Steps that neither arm a timer nor end one.
LEMMA KeepsScheduled ==
    ASSUME ActiveInv, NoTimerLost, active' = active,
           PoolLasts' => PoolLasts,
           (Listed \cup InProgress)' \subseteq Listed \cup InProgress,
           PoolLasts' => Listed \cup InProgress \subseteq (Listed \cup InProgress)'
    PROVE  ActiveInv' /\ NoTimerLost'
  BY DEF ActiveInv, NoTimerLost, Scheduled

LEMMA KeepsNames ==
    ASSUME IsList(timers)'
    PROVE  Listed' = Names(timers')
  BY ListedNames DEF Listed

\* sys_timeout for a handler that has no entry: there is an element for it
\* unless too many have leaked (sys.c:208).
LEMMA TimeoutStep ==
    ASSUME ListInv, PoolInv, NEW h \in Handlers, h \notin Listed, SysTimeout(h),
           Whole, UNCHANGED <<leaked, ftpTask>>
    PROVE  /\ ListInv' /\ PoolInv'
           /\ Listed' \subseteq Listed \cup {h} /\ Listed \subseteq Listed'
           /\ PoolLasts => h \in Listed'
  <1>1. CASE free > 0
    <2>1. /\ timers' = Insert(timers, h, Interval[h]) /\ free' = free - 1
          /\ stale' \in BOOLEAN
      <3>1. Pool(-1) /\ timers' = Insert(timers, h, Interval[h])
        BY <1>1 DEF SysTimeout
      <3>2. free' = free + (-1) /\ stale' = (ftp = "taking")
        BY <3>1 DEF Pool
      <3>3. stale' \in BOOLEAN
        BY <3>2
      <3>4. free \in Nat
        BY DEF PoolInv
      <3>5. free' = free - 1
        BY <3>2, <3>4
      <3> QED
        BY <3>1, <3>3, <3>5
    <2>2. /\ IsList(timers') /\ Distinct(timers') /\ Len(timers') = Len(timers) + 1
          /\ Names(timers') = Names(timers) \cup {h}
      BY <2>1, InsertList DEF ListInv
    <2>3. Listed' = Listed \cup {h}
      BY <2>2, KeepsNames DEF ListInv
    <2>4. Len(timers) \in Nat
      BY SeqOfElements DEF ListInv, IsList
    <2>5. PoolInv'
      BY <1>1, <2>1, <2>2, <2>4 DEF PoolInv, Whole, ftpTask
    <2>6. ListInv'
      BY <2>2, KeepsNames DEF ListInv
    <2> QED
      BY <2>3, <2>5, <2>6
  <1>2. CASE free = 0
    <2>1. timers' = timers /\ free' = free /\ stale' = stale
      BY <1>2 DEF SysTimeout
    <2>2. Len(timers) \in Nat /\ Len(timers) < 4
      BY RoomForMissing, SeqOfElements DEF ListInv, IsList
    <2>3. ~PoolLasts
      BY <1>2, <2>2, HandlersCount DEF PoolLasts, PoolInv, Whole
    <2>4. ListInv' /\ PoolInv' /\ Listed' = Listed
      BY <2>1 DEF ListInv, PoolInv, Listed, ftpTask
    <2> QED
      BY <2>3, <2>4
  <1> QED
    BY <1>1, <1>2 DEF SysTimeout, PoolInv

LEMMA ShortenedStep ==
    ASSUME ListInv, timers' = Shortened
    PROVE  /\ ListInv' /\ Listed' = Listed /\ Len(timers') = Len(timers)
  <1>1. /\ IsList(timers') /\ Distinct(timers') /\ Len(timers') = Len(timers)
        /\ Names(timers') = Names(timers)
    BY SameHandlers DEF ListInv, Shortened
  <1> QED
    BY <1>1, KeepsNames DEF ListInv

LEMMA NotHandlers ==
    /\ "message" \notin Handlers /\ "sem" \notin Handlers
    /\ {"message", "sem"} \subseteq Frames /\ Handlers \subseteq Frames
    /\ "tcp" \in Handlers /\ Periodic \subseteq Handlers
  BY DEF Handlers, Frames, Periodic

LEMMA ListedHandlers ==
    ASSUME ListInv PROVE Listed \subseteq Handlers
  BY DEF ListInv, IsList, Names

LEMMA InitIInv == Init => IInv
  <1> SUFFICES ASSUME Init PROVE IInv
    OBVIOUS
  <1> DEFINE s1 == Insert(<<>>, "arp", Interval["arp"])
             s2 == Insert(s1, "coarse", Interval["coarse"])
             s3 == Insert(s2, "fine", Interval["fine"])
  <1>1. IsList(<<>>) /\ Distinct(<<>>) /\ Names(<<>>) = {} /\ Len(<<>>) = 0
    <2>1. <<>> \in Seq(ToSet(<<>>)) /\ Len(<<>>) = 0 /\ 1 .. 0 = {}
      BY EmptyElements
    <2> QED
      BY <2>1 DEF IsList, Distinct, Names
  <1>2. "arp" \in Handlers /\ "coarse" \in Handlers /\ "fine" \in Handlers
    BY DEF Handlers
  <1>3. IsList(s1) /\ Distinct(s1) /\ Names(s1) = {"arp"} /\ Len(s1) = 1
    <2>1. /\ IsList(s1) /\ Len(s1) = Len(<<>>) + 1 /\ Names(s1) = Names(<<>>) \cup {"arp"}
          /\ Distinct(<<>>) /\ "arp" \notin Names(<<>>) => Distinct(s1)
      BY <1>1, <1>2, InsertList
    <2> QED
      BY <1>1, <2>1
  <1> HIDE DEF s1
  <1>4. /\ IsList(s2) /\ Distinct(s2) /\ Names(s2) = {"arp", "coarse"}
        /\ Len(s2) = 2
    <2>1. /\ IsList(s2) /\ Len(s2) = Len(s1) + 1 /\ Names(s2) = Names(s1) \cup {"coarse"}
          /\ Distinct(s1) /\ "coarse" \notin Names(s1) => Distinct(s2)
      BY <1>2, <1>3, InsertList
    <2> QED
      BY <1>3, <2>1
  <1> HIDE DEF s2
  <1>5. /\ IsList(s3) /\ Distinct(s3) /\ Names(s3) = {"arp", "coarse", "fine"}
        /\ Len(s3) = 3
    <2>1. /\ IsList(s3) /\ Len(s3) = Len(s2) + 1 /\ Names(s3) = Names(s2) \cup {"fine"}
          /\ Distinct(s2) /\ "fine" \notin Names(s2) => Distinct(s3)
      BY <1>2, <1>4, InsertList
    <2> QED
      BY <1>4, <2>1
  <1> HIDE DEF s3
  <1>6. timers = s3
    BY DEF Init, s1, s2, s3
  <1>7. ListInv /\ Listed = {"arp", "coarse", "fine"}
    BY <1>5, <1>6, ListedNames DEF ListInv, Listed
  <1>8. StackInv /\ InProgress = {}
    <2>1. stack = <<>> /\ <<>> \in Seq(Frames) /\ ToSet(<<>>) = {} /\ 1 .. Len(<<>>) = {}
      BY EmptyElements DEF Init
    <2> QED
      BY <2>1 DEF StackInv, IsStack, InProgress
  <1>9. PoolInv
    <2>1. NumTimeouts \in Nat /\ NumTimeouts > 4
      BY HandlersCount, TimeoutsAssumption
    <2>2. /\ free = NumTimeouts - 4 /\ leaked = 1 /\ Len(timers) = 3
          /\ seen = 0 /\ ~(ftp = "taking")
      BY <1>5, <1>6 DEF Init
    <2>3. stale \in BOOLEAN /\ torn \in BOOLEAN
      BY DEF Init
    <2>4. free + leaked + Len(timers) = NumTimeouts /\ free \in 0 .. NumTimeouts
      BY <2>1, <2>2
    <2> QED
      BY <2>1, <2>2, <2>3, <2>4 DEF PoolInv
  <1>10. ActiveInv /\ NoTimerLost
    BY <1>7, <1>8 DEF Init, ActiveInv, NoTimerLost, Scheduled, Periodic, Handlers
  <1> QED
    BY <1>7, <1>8, <1>9, <1>10 DEF IInv, OnceAtMost

\* Steps that only take something out of the wait or put a frame on the stack.
LEMMA SameSchedule ==
    ASSUME IInv, ListInv', StackInv', PoolInv', active' = active,
           PoolLasts' => PoolLasts, Listed' = Listed,
           InProgress' \cap Handlers = InProgress \cap Handlers
    PROVE  IInv'
  <1>1. Listed' \subseteq Handlers
    BY ListedHandlers DEF IInv
  <1>2. OnceAtMost'
    BY <1>1 DEF IInv, OnceAtMost
  <1>3. ActiveInv' /\ NoTimerLost'
    BY NotHandlers DEF IInv, ActiveInv, NoTimerLost, Scheduled
  <1> QED
    BY <1>2, <1>3 DEF IInv

LEMMA FetchMessageStep == IInv /\ FetchMessage => IInv'
  <1> SUFFICES ASSUME IInv, FetchMessage PROVE IInv'
    OBVIOUS
  <1>1. ListInv' /\ Listed' = Listed /\ Len(timers') = Len(timers)
    BY ShortenedStep DEF IInv, FetchMessage
  <1>2. StackInv' /\ InProgress' = {"message"} /\ InProgress = {}
    <2>1. stack = <<>> /\ stack' = <<"message">> /\ ToSet(<<>>) = {}
      BY EmptyElements DEF FetchMessage
    <2>2. stack' = Append(stack, "message")
      BY <2>1
    <2>3. /\ IsStack(Append(stack, "message"))
          /\ ToSet(Append(stack, "message")) = {"message"} \cup ToSet(stack)
      BY <2>1, PushStack, NotHandlers DEF IInv, StackInv
    <2> QED
      BY <2>1, <2>2, <2>3 DEF StackInv, InProgress
  <1>3. PoolInv' /\ active' = active /\ (PoolLasts' => PoolLasts)
    BY <1>1 DEF IInv, PoolInv, PoolLasts, FetchMessage, ftpTask
  <1> QED
    BY <1>1, <1>2, <1>3, SameSchedule, NotHandlers

LEMMA SemWaitStep == IInv /\ SemWait => IInv'
  <1> SUFFICES ASSUME IInv, SemWait PROVE IInv'
    OBVIOUS
  <1>1. StackInv' /\ InProgress' = {"sem"} \cup InProgress
    BY PushStack, NotHandlers DEF IInv, StackInv, InProgress, SemWait
  <1>2. ListInv' /\ Listed' = Listed
    BY DEF IInv, ListInv, Listed, SemWait
  <1>3. PoolInv' /\ active' = active /\ (PoolLasts' => PoolLasts)
    BY DEF IInv, PoolInv, PoolLasts, SemWait, ftpTask
  <1> QED
    BY <1>1, <1>2, <1>3, SameSchedule, NotHandlers

LEMMA SemTakenStep == IInv /\ SemTaken => IInv'
  <1> SUFFICES ASSUME IInv, SemTaken PROVE IInv'
    OBVIOUS
  <1>1. ListInv' /\ Listed' = Listed /\ Len(timers') = Len(timers)
    BY ShortenedStep DEF IInv, SemTaken
  <1>2. StackInv' /\ InProgress = InProgress' \cup {"sem"}
    BY PopStack DEF IInv, StackInv, InProgress, SemTaken, In
  <1>3. PoolInv' /\ active' = active /\ (PoolLasts' => PoolLasts)
    BY <1>1 DEF IInv, PoolInv, PoolLasts, SemTaken, ftpTask
  <1> QED
    BY <1>1, <1>2, <1>3, SameSchedule, NotHandlers

\* A handler goes from the list to the stack.
LEMMA TimerExpiredStep == IInv /\ TimerExpired => IInv'
  <1> SUFFICES ASSUME IInv, TimerExpired PROVE IInv'
    OBVIOUS
  <1> DEFINE h == timers[1].h
  <1>1. /\ timers # <<>> /\ timers' = Tail(timers) /\ free' = free + 1
        /\ stack' = Append(stack, h) /\ leaked' = leaked /\ active' = active
        /\ stale' \in BOOLEAN /\ UNCHANGED ftpTask /\ ~torn
    BY DEF TimerExpired, Pool, Whole
  <1>2. /\ IsList(timers') /\ Distinct(timers') /\ Len(timers') = Len(timers) - 1
        /\ h \in Names(timers) /\ h \in Handlers
        /\ Names(timers') = Names(timers) \ {h}
    BY <1>1, TailList DEF IInv, ListInv
  <1> HIDE DEF h
  <1>3. ListInv' /\ Listed' = Listed \ {h} /\ h \in Listed
    BY <1>2, KeepsNames DEF IInv, ListInv
  <1>4. h \notin InProgress
    BY <1>3 DEF IInv, OnceAtMost
  <1>5. StackInv' /\ InProgress' = {h} \cup InProgress
    BY <1>1, <1>2, <1>4, PushStack, NotHandlers DEF IInv, StackInv, InProgress
  <1>6. PoolInv'
    <2>1. Len(timers) \in Nat /\ Len(timers') \in Nat
      BY <1>2, SeqOfElements DEF IInv, ListInv, IsList
    <2>2. free + leaked + Len(timers) = NumTimeouts
      BY <1>1 DEF IInv, PoolInv
    <2>3. free' \in 0 .. NumTimeouts /\ free' + leaked' + Len(timers') = NumTimeouts
      BY <1>1, <1>2, <2>1, <2>2 DEF IInv, PoolInv
    <2> QED
      BY <1>1, <2>3 DEF IInv, PoolInv, ftpTask
  <1>7. OnceAtMost'
    BY <1>3, <1>4, <1>5 DEF IInv, OnceAtMost
  <1>8. ActiveInv' /\ NoTimerLost'
    BY <1>1, <1>3, <1>5, KeepsScheduled DEF IInv, PoolLasts, ftpTask
  <1> QED
    BY <1>3, <1>5, <1>6, <1>7, <1>8 DEF IInv

\* A handler leaves the stack for the list.
LEMMA RearmStep ==
    ASSUME IInv, NEW h \in Handlers, In(h), SysTimeout(h), stack' = Front(stack),
           Whole, UNCHANGED <<leaked, ftpTask>>, active' = active
    PROVE  IInv'
  <1>1. /\ StackInv' /\ InProgress = InProgress' \cup {h} /\ h \notin InProgress'
    BY PopStack DEF IInv, StackInv, InProgress, In
  <1>2. h \notin Listed
    BY <1>1 DEF IInv, OnceAtMost
  <1>3. /\ ListInv' /\ PoolInv'
        /\ Listed' \subseteq Listed \cup {h} /\ Listed \subseteq Listed'
        /\ PoolLasts => h \in Listed'
    BY <1>2, TimeoutStep DEF IInv
  <1>4. OnceAtMost'
    BY <1>1, <1>3 DEF IInv, OnceAtMost
  <1>5. PoolLasts' => PoolLasts
    BY DEF PoolLasts, ftpTask
  <1>6. ActiveInv' /\ NoTimerLost'
    BY <1>1, <1>3, <1>5, KeepsScheduled DEF IInv
  <1> QED
    BY <1>1, <1>3, <1>4, <1>6 DEF IInv

LEMMA PeriodicDoneStep ==
    ASSUME IInv, NEW h \in Periodic, PeriodicDone(h)
    PROVE  IInv'
  BY RearmStep, NotHandlers DEF PeriodicDone

LEMMA TcpTimerDoneStep == IInv /\ TcpTimerDone => IInv'
  <1> SUFFICES ASSUME IInv, TcpTimerDone PROVE IInv'
    OBVIOUS
  <1>1. CASE pcbs /\ SysTimeout("tcp") /\ UNCHANGED active
    BY <1>1, RearmStep, NotHandlers DEF TcpTimerDone
  <1>2. CASE ~pcbs /\ active' = FALSE /\ UNCHANGED <<timers, free, stale, left>>
    <2>1. /\ StackInv' /\ InProgress = InProgress' \cup {"tcp"}
          /\ "tcp" \notin InProgress'
      BY PopStack, NotHandlers DEF IInv, StackInv, InProgress, In, TcpTimerDone
    <2>2. ListInv' /\ PoolInv' /\ Listed' = Listed
      BY <1>2 DEF IInv, ListInv, PoolInv, Listed, TcpTimerDone, ftpTask
    <2>3. "tcp" \notin Listed /\ OnceAtMost'
      BY <2>1, <2>2 DEF IInv, OnceAtMost
    <2>4. ActiveInv'
      BY <1>2, <2>1, <2>2, <2>3 DEF ActiveInv, Scheduled
    <2>5. NoTimerLost'
      BY <1>2, <2>1, <2>2 DEF IInv, NoTimerLost, PoolLasts, Scheduled, Periodic,
                              TcpTimerDone, ftpTask
    <2> QED
      BY <2>1, <2>2, <2>3, <2>4, <2>5 DEF IInv
  <1> QED
    BY <1>1, <1>2 DEF TcpTimerDone

\* The TCP timer is armed only if tcpip_tcp_timer_active says it is not.
LEMMA ConnectionMadeStep == IInv /\ ConnectionMade => IInv'
  <1> SUFFICES ASSUME IInv, ConnectionMade PROVE IInv'
    OBVIOUS
  <1>1. StackInv' /\ InProgress' = InProgress
    BY DEF IInv, StackInv, InProgress, ConnectionMade
  <1>2. active' = TRUE /\ Whole /\ UNCHANGED <<leaked, ftpTask>>
    BY DEF ConnectionMade
  <1>3. CASE active /\ UNCHANGED <<timers, free, stale, left>>
    <2>1. ListInv' /\ PoolInv' /\ Listed' = Listed
      BY <1>2, <1>3 DEF IInv, ListInv, PoolInv, Listed, ftpTask
    <2> QED
      BY <1>1, <1>2, <1>3, <2>1, SameSchedule DEF PoolLasts, ftpTask
  <1>4. CASE ~active /\ SysTimeout("tcp")
    <2>1. "tcp" \notin Listed /\ "tcp" \notin InProgress
      BY <1>4 DEF IInv, ActiveInv, Scheduled
    <2>2. /\ ListInv' /\ PoolInv'
          /\ Listed' \subseteq Listed \cup {"tcp"} /\ Listed \subseteq Listed'
          /\ PoolLasts => "tcp" \in Listed'
      BY <1>2, <1>4, <2>1, TimeoutStep, NotHandlers DEF IInv
    <2>3. OnceAtMost'
      BY <1>1, <2>1, <2>2 DEF IInv, OnceAtMost
    <2>4. ActiveInv'
      BY <1>2 DEF ActiveInv
    <2>5. NoTimerLost'
      BY <1>1, <1>2, <2>2 DEF IInv, NoTimerLost, PoolLasts, Scheduled, ftpTask
    <2> QED
      BY <1>1, <2>2, <2>3, <2>4, <2>5 DEF IInv
  <1> QED
    BY <1>3, <1>4 DEF ConnectionMade

LEMMA MessageDoneStep == IInv /\ MessageDone => IInv'
  <1> SUFFICES ASSUME IInv, MessageDone PROVE IInv'
    OBVIOUS
  <1>1. InProgress = {"message"}
    <2>1. /\ ToSet(stack) = ToSet(Front(stack)) \cup {"message"}
          /\ ToSet(Front(stack)) = {}
      BY PopStack DEF IInv, StackInv, MessageDone, In
    <2> QED
      BY <2>1 DEF InProgress
  <1>2. StackInv' /\ InProgress' = {}
    <2>1. stack' = <<>> /\ <<>> \in Seq(Frames) /\ ToSet(<<>>) = {} /\ 1 .. Len(<<>>) = {}
      BY EmptyElements DEF MessageDone
    <2> QED
      BY <2>1 DEF StackInv, IsStack, InProgress
  <1>3. ListInv' /\ PoolInv' /\ Listed' = Listed
    BY DEF IInv, ListInv, PoolInv, Listed, MessageDone, ftpTask
  <1>4. active' = active /\ (PoolLasts' => PoolLasts)
    BY DEF MessageDone, PoolLasts, ftpTask
  <1> QED
    BY <1>1, <1>2, <1>3, <1>4, SameSchedule, NotHandlers

\* An element leaks: from then on there may be too few, or what is left of the
\* pool is torn.
LEMMA TakenStep == IInv /\ Taken => IInv'
  <1> SUFFICES ASSUME IInv, Taken PROVE IInv'
    OBVIOUS
  <1>1. /\ ListInv' /\ Listed' = Listed /\ StackInv' /\ InProgress' = InProgress
        /\ active' = active /\ timers' = timers
    BY DEF IInv, ListInv, Listed, StackInv, InProgress, Taken, thread
  <1>2. Len(timers) \in Nat
    BY SeqOfElements DEF IInv, ListInv, IsList
  <1>3. /\ ~torn /\ ftp = "taking" /\ ftp' = "waiting" /\ torn' \in BOOLEAN
        /\ seen' = 0 /\ stale' = FALSE
        /\ leaked' = leaked + 1
        /\ \/ free > 0 /\ free' = free - 1
           \/ free' = seen - 1 /\ torn'
    BY DEF Taken, Whole, IInv, PoolInv
  <1>4. /\ seen \in 1 .. NumTimeouts /\ free \in 0 .. NumTimeouts /\ leaked \in Nat
        /\ NumTimeouts \in Nat /\ free + leaked + Len(timers) = NumTimeouts
    BY <1>3 DEF IInv, PoolInv
  <1>5. /\ free' \in 0 .. NumTimeouts /\ leaked' \in 0 .. NumTimeouts + 1
        /\ ~torn' => free' + leaked' + Len(timers) = NumTimeouts
    BY <1>2, <1>3, <1>4
  <1>6. PoolInv'
    <2>1. ftp' # "taking" /\ seen' \in 0 .. NumTimeouts
      BY <1>3, <1>4
    <2>2. stale' \in BOOLEAN
      BY <1>3
    <2> QED
      BY <1>1, <1>3, <1>4, <1>5, <2>1, <2>2 DEF PoolInv
  <1>7. PoolLasts' => PoolLasts
    BY <1>3, <1>4, HandlersCount DEF PoolLasts
  <1> QED
    BY <1>1, <1>6, <1>7, SameSchedule

\* The head is only read.
LEMMA TimedWaitStep == IInv /\ TimedWait => IInv'
  <1> SUFFICES ASSUME IInv, TimedWait PROVE IInv'
    OBVIOUS
  <1>1. /\ ListInv' /\ Listed' = Listed /\ StackInv' /\ InProgress' = InProgress
        /\ active' = active /\ (PoolLasts' => PoolLasts)
    BY DEF IInv, ListInv, Listed, StackInv, InProgress, TimedWait, thread, PoolLasts
  <1>2. PoolInv'
    BY DEF IInv, PoolInv, TimedWait, thread
  <1> QED
    BY <1>1, <1>2, SameSchedule

\* The other steps leave list, stack, pool and flag alone.
LEMMA OtherStep ==
    ASSUME IInv, UNCHANGED <<timers, stack, free, leaked, active, seen, stale, torn>>,
           ftp' # "taking" \/ ftp' = ftp
    PROVE  IInv'
  BY DEF IInv, ListInv, Listed, StackInv, InProgress, OnceAtMost, PoolInv, ActiveInv,
         NoTimerLost, PoolLasts, Scheduled

LEMMA NextIInv == IInv /\ [Next]_vars => IInv'
  <1> SUFFICES ASSUME IInv, [Next]_vars PROVE IInv'
    OBVIOUS
  <1>1. CASE FetchMessage
    BY <1>1, FetchMessageStep
  <1>2. CASE SemWait
    BY <1>2, SemWaitStep
  <1>3. CASE SemTaken
    BY <1>3, SemTakenStep
  <1>4. CASE TimerExpired
    BY <1>4, TimerExpiredStep
  <1>5. CASE \E h \in Periodic : PeriodicDone(h)
    BY <1>5, PeriodicDoneStep
  <1>6. CASE TcpTimerDone
    BY <1>6, TcpTimerDoneStep
  <1>7. CASE ConnectionMade
    BY <1>7, ConnectionMadeStep
  <1>8. CASE ConnectionsGone
    BY <1>8, OtherStep DEF ConnectionsGone, ftpTask
  <1>9. CASE MessageDone
    BY <1>9, MessageDoneStep
  <1>10. CASE TimedWait
    BY <1>10, TimedWaitStep
  <1>11. CASE Taken
    BY <1>11, TakenStep
  <1>12. CASE CommandRead \/ CommandDone \/ TimedWaitSignalled
    BY <1>12, OtherStep DEF CommandRead, CommandDone, TimedWaitSignalled, thread
  <1>13. CASE Tick
    BY <1>13, OtherStep DEF Tick, ftpTask
  <1>14. CASE UNCHANGED vars
    BY <1>14, OtherStep DEF vars
  <1> QED
    BY <1>1, <1>2, <1>3, <1>4, <1>5, <1>6, <1>7, <1>8, <1>9, <1>10, <1>11, <1>12,
       <1>13, <1>14 DEF Next, Thread, FtpTask, Torn

LEMMA RunningNotListed ==
    ASSUME IInv, NEW h \in Handlers, In(h)
    PROVE  h \notin Listed /\ h \in InProgress
  BY PopStack DEF IInv, StackInv, InProgress, In, OnceAtMost

-----------------------------------------------------------------------------
(* Times                                                                   *)

\* The times of the list go on from where the wait began, the first timer ends
\* the wait, and by the list no timer is due before its time.
TimeInv ==
    /\ timers \in Seq(Entries)
    /\ waited \in Nat /\ (timers # <<>> => waited <= timers[1].time)
    /\ waited > 0 => Waiting
    /\ left \in [Handlers -> Nat]
    /\ \A d \in Dues(timers) : /\ d[2] - waited >= left[d[1]]
                               /\ d[2] <= Interval[d[1]]
    /\ pcbs \in BOOLEAN
    /\ ftp \in {"loop", "command", "taking", "waiting"}

LEMMA DueTypes ==
    ASSUME NEW s \in Seq(Entries), NEW d \in Dues(s)
    PROVE  /\ d[1] \in Names(s) /\ d[1] \in Handlers /\ d[2] \in Nat
           /\ s # <<>> /\ s[1].time \in Nat /\ s[1].time <= d[2]
  <1>1. PICK k \in 1 .. Len(s) : d = <<s[k].h, Due(s, k)>>
    BY DEF Dues
  <1>2. Len(s) \in Nat /\ 1 \in 1 .. Len(s) /\ 1 \in 0 .. k /\ k \in 0 .. Len(s) /\ 1 - 1 = 0
    OBVIOUS
  <1>3. Due(s, 1) = s[1].time /\ s[1].time \in Nat
    <2>1. Due(s, 1) = Due(s, 1 - 1) + s[1].time /\ Due(s, 0) = 0 /\ s[1].time \in Nat
      BY <1>2, DueSums
    <2> QED
      BY <1>2, <2>1
  <1>4. Due(s, 1) <= Due(s, k) /\ Due(s, k) \in Nat /\ s[k].h \in Handlers
    BY <1>2, DueSums
  <1>5. s # <<>>
    BY <1>2
  <1> QED
    BY <1>1, <1>3, <1>4, <1>5 DEF Names

\* Only a wait is timed.
LEMMA NotWaiting ==
    ASSUME TimeInv, NEW f, In(f), f # "sem"
    PROVE  waited = 0
  BY DEF TimeInv, Waiting, In

LEMMA IntervalTypes == \A h \in Handlers : Interval[h] \in Nat \ {0}
  BY TimeoutsAssumption

\* sys_timeout, which is never called in the middle of a wait.
LEMMA TimeoutTimes ==
    ASSUME TimeInv, ListInv, NEW h \in Handlers, h \notin Listed, SysTimeout(h),
           waited = 0, waited' = 0, pcbs' \in BOOLEAN, ftp' = ftp
    PROVE  TimeInv'
  <1>1. CASE UNCHANGED <<timers, left>>
    BY <1>1 DEF TimeInv
  <1>2. CASE /\ timers' = Insert(timers, h, Interval[h])
             /\ left' = [left EXCEPT ![h] = Interval[h]]
    <2>1. /\ timers' \in Seq(Entries)
          /\ Dues(timers') = Dues(timers) \cup {<<h, Interval[h]>>}
      BY <1>2, IntervalTypes, InsertDue DEF TimeInv
    <2>2. left' \in [Handlers -> Nat] /\ left'[h] = Interval[h]
          /\ \A g \in Handlers \ {h} : left'[g] = left[g]
      BY <1>2, IntervalTypes DEF TimeInv
    <2>3. ASSUME NEW d \in Dues(timers')
          PROVE  d[2] - 0 >= left'[d[1]] /\ d[2] <= Interval[d[1]]
      <3>1. CASE d = <<h, Interval[h]>>
        <4>1. d[1] = h /\ d[2] = Interval[h] /\ Interval[h] \in Nat
          BY <3>1, IntervalTypes
        <4> QED
          BY <2>2, <4>1
      <3>2. CASE d \in Dues(timers)
        <4>1. d[1] \in Listed /\ d[1] \in Handlers
          BY <3>2, DueTypes DEF TimeInv, ListInv
        <4>2. left'[d[1]] = left[d[1]]
          BY <2>2, <4>1
        <4> QED
          BY <3>2, <4>2 DEF TimeInv
      <3> QED
        BY <2>1, <3>1, <3>2
    <2>4. timers' # <<>> => 0 <= timers'[1].time
      <3> SUFFICES ASSUME timers' # <<>> PROVE timers'[1].time \in Nat
        OBVIOUS
      <3>1. 1 \in 1 .. Len(timers')
        BY <2>1, EmptySeq
      <3> QED
        BY <2>1, <3>1, EntryTypes
    <2> QED
      BY <2>1, <2>2, <2>3, <2>4 DEF TimeInv
  <1> QED
    BY <1>1, <1>2 DEF SysTimeout

\* The thread is woken in the middle of a wait (sys.c:98-105, 139-146).
LEMMA WokenTimes ==
    ASSUME TimeInv, timers' = Shortened, waited' = 0, UNCHANGED <<left, pcbs, ftp>>
    PROVE  TimeInv'
  <1>1. /\ timers' \in Seq(Entries)
        /\ Dues(timers') = {<<d[1], d[2] - waited>> : d \in Dues(timers)}
    BY ShortenedDue DEF TimeInv
  <1>2. ASSUME NEW d \in Dues(timers')
        PROVE  d[2] - 0 >= left[d[1]] /\ d[2] <= Interval[d[1]]
    <2>1. PICK e \in Dues(timers) : d = <<e[1], e[2] - waited>>
      BY <1>1
    <2>2. e[1] \in Handlers /\ e[2] \in Nat /\ waited \in Nat
      BY DueTypes DEF TimeInv
    <2>3. e[2] - waited >= left[e[1]] /\ e[2] <= Interval[e[1]]
      BY DEF TimeInv
    <2>4. Interval[e[1]] \in Nat /\ left[e[1]] \in Nat
      BY <2>2, IntervalTypes DEF TimeInv
    <2> QED
      BY <2>1, <2>2, <2>3, <2>4
  <1>3. timers' # <<>> => 0 <= timers'[1].time
    <2> SUFFICES ASSUME timers' # <<>> PROVE timers'[1].time \in Nat
      OBVIOUS
    <2>1. 1 \in 1 .. Len(timers')
      BY <1>1, EmptySeq
    <2> QED
      BY <1>1, <2>1, EntryTypes
  <1> QED
    BY <1>1, <1>2, <1>3 DEF TimeInv

\* When a timer is due by the list, its time is up.
LEMMA ExpiredTimes ==
    ASSUME TimeInv, TimerExpired
    PROVE  TimeInv' /\ left[timers[1].h] = 0
  <1> DEFINE t == timers[1].time
             h == timers[1].h
  <1>1. /\ timers \in Seq(Entries) /\ timers # <<>> /\ waited = t /\ waited \in Nat
        /\ timers' = Tail(timers) /\ waited' = 0 /\ UNCHANGED <<left, pcbs, ftp>>
    BY DEF TimeInv, TimerExpired, ftpTask
  <1>2. /\ timers' \in Seq(Entries) /\ <<h, t>> \in Dues(timers)
        /\ \A d \in Dues(timers') : \E e \in Dues(timers) : d = <<e[1], e[2] - t>>
    BY <1>1, TailDue
  <1> HIDE DEF t, h
  <1>3. ASSUME NEW e \in Dues(timers)
        PROVE  /\ e[1] \in Handlers /\ e[2] \in Nat /\ t \in Nat
               /\ left[e[1]] \in Nat /\ Interval[e[1]] \in Nat
               /\ e[2] - t >= left[e[1]] /\ e[2] <= Interval[e[1]]
    BY <1>1, DueTypes, IntervalTypes DEF TimeInv
  <1>4. ASSUME NEW d \in Dues(timers')
        PROVE  d[2] - 0 >= left[d[1]] /\ d[2] <= Interval[d[1]]
    <2>1. PICK e \in Dues(timers) : d = <<e[1], e[2] - t>>
      BY <1>2
    <2>2. d[1] = e[1] /\ d[2] = e[2] - t
      BY <2>1
    <2> QED
      BY <1>3, <2>2
  <1>5. left[h] = 0
    <2>1. t - t >= left[h] /\ left[h] \in Nat /\ t \in Nat
      BY <1>2, <1>3
    <2> QED
      BY <2>1
  <1>6. timers' # <<>> => 0 <= timers'[1].time
    <2> SUFFICES ASSUME timers' # <<>> PROVE timers'[1].time \in Nat
      OBVIOUS
    <2>1. 1 \in 1 .. Len(timers')
      BY <1>2, EmptySeq
    <2> QED
      BY <1>2, <2>1, EntryTypes
  <1>7. TimeInv'
    BY <1>1, <1>2, <1>4, <1>6 DEF TimeInv
  <1> QED
    BY <1>5, <1>7 DEF h

\* A millisecond is counted for the list only before the first timer is due.
LEMMA TickTimes == TimeInv /\ Tick => TimeInv'
  <1> SUFFICES ASSUME TimeInv, Tick PROVE TimeInv'
    OBVIOUS
  <1>1. /\ timers \in Seq(Entries) /\ timers' = timers /\ stack' = stack
        /\ waited \in Nat /\ UNCHANGED <<pcbs, ftp>>
    BY DEF TimeInv, Tick, ftpTask
  <1>2. /\ left' \in [Handlers -> Nat]
        /\ \A h \in Handlers : left'[h] = IF left[h] > 0 THEN left[h] - 1 ELSE 0
    <2>1. \A h \in Handlers : (IF left[h] > 0 THEN left[h] - 1 ELSE 0) \in Nat
      BY DEF TimeInv
    <2> QED
      BY <2>1 DEF Tick
  <1>3. \A d \in Dues(timers) :
           /\ d[1] \in Handlers /\ d[2] \in Nat /\ timers # <<>>
           /\ timers[1].time \in Nat /\ timers[1].time <= d[2]
           /\ left[d[1]] \in Nat
           /\ d[2] - waited >= left[d[1]] /\ d[2] <= Interval[d[1]]
    BY DueTypes DEF TimeInv
  <1>4. CASE Counted
    <2>1. waited' = waited + 1 /\ timers # <<>> /\ waited < timers[1].time /\ Waiting
      BY <1>4 DEF Tick, Counted
    <2>2. timers[1].time \in Nat
      <3>1. 1 \in 1 .. Len(timers)
        BY <1>1, <2>1, EmptySeq
      <3> QED
        BY <1>1, <3>1, EntryTypes
    <2>3. ASSUME NEW d \in Dues(timers)
          PROVE  d[2] - waited' >= left'[d[1]]
      <3>1. /\ d[2] \in Nat /\ left[d[1]] \in Nat /\ waited \in Nat /\ waited < d[2]
            /\ d[2] - waited >= left[d[1]]
        BY <1>1, <1>3, <2>1, <2>2
      <3>2. left'[d[1]] = IF left[d[1]] > 0 THEN left[d[1]] - 1 ELSE 0
        BY <1>2, <1>3
      <3>3. PICK x \in Nat : x = left[d[1]]
        BY <3>1
      <3>4. PICK y \in Nat : y = d[2]
        BY <3>1
      <3>5. y - (waited + 1) >= IF x > 0 THEN x - 1 ELSE 0
        BY <3>1, <3>3, <3>4
      <3> QED
        BY <2>1, <3>2, <3>3, <3>4, <3>5
    <2>4. Waiting'
      BY <1>1, <2>1 DEF Waiting, In
    <2>5. waited' \in Nat /\ waited' <= timers[1].time
      BY <1>1, <2>1, <2>2
    <2> QED
      BY <1>1, <1>2, <2>3, <2>4, <2>5 DEF TimeInv
  <1>5. CASE ~Counted
    <2>1. waited' = waited
      BY <1>5 DEF Tick
    <2>2. ASSUME NEW d \in Dues(timers)
          PROVE  d[2] - waited' >= left'[d[1]]
      BY <1>1, <1>2, <1>3, <2>1
    <2>3. Waiting' = Waiting
      BY <1>1 DEF Waiting, In
    <2> QED
      BY <1>1, <1>2, <2>1, <2>2, <2>3 DEF TimeInv
  <1> QED
    BY <1>4, <1>5

\* Steps that neither touch the list nor take time.
LEMMA OtherTimes ==
    ASSUME TimeInv, UNCHANGED <<timers, waited, left>>, waited = 0 \/ stack' = stack,
           pcbs' \in BOOLEAN, ftp' \in {"loop", "command", "taking", "waiting"}
    PROVE  TimeInv'
  BY DEF TimeInv, Waiting, In

LEMMA InitTimeInv == Init => TimeInv
  <1> SUFFICES ASSUME Init PROVE TimeInv
    OBVIOUS
  <1> DEFINE s1 == Insert(<<>>, "arp", Interval["arp"])
             s2 == Insert(s1, "coarse", Interval["coarse"])
             s3 == Insert(s2, "fine", Interval["fine"])
  <1>1. {"arp", "coarse", "fine"} \subseteq Handlers /\ Periodic = {"arp", "coarse", "fine"}
    BY DEF Handlers, Periodic
  <1>2. \A h \in Handlers : Interval[h] \in Nat
    BY IntervalTypes
  <1>3. <<>> \in Seq(Entries) /\ Dues(<<>>) = {}
    BY DEF Dues
  <1>4. s1 \in Seq(Entries) /\ Dues(s1) = {<<"arp", Interval["arp"]>>}
    <2>1. s1 \in Seq(Entries) /\ Dues(s1) = Dues(<<>>) \cup {<<"arp", Interval["arp"]>>}
      BY <1>1, <1>2, <1>3, InsertDue
    <2> QED
      BY <1>3, <2>1
  <1> HIDE DEF s1
  <1>5. /\ s2 \in Seq(Entries)
        /\ Dues(s2) = {<<"arp", Interval["arp"]>>, <<"coarse", Interval["coarse"]>>}
    <2>1. /\ s2 \in Seq(Entries)
          /\ Dues(s2) = Dues(s1) \cup {<<"coarse", Interval["coarse"]>>}
      BY <1>1, <1>2, <1>4, InsertDue
    <2> QED
      BY <1>4, <2>1
  <1> HIDE DEF s2
  <1>6. /\ s3 \in Seq(Entries)
        /\ Dues(s3) = {<<"arp", Interval["arp"]>>, <<"coarse", Interval["coarse"]>>,
                       <<"fine", Interval["fine"]>>}
    <2>1. s3 \in Seq(Entries) /\ Dues(s3) = Dues(s2) \cup {<<"fine", Interval["fine"]>>}
      BY <1>1, <1>2, <1>5, InsertDue
    <2> QED
      BY <1>5, <2>1
  <1> HIDE DEF s3
  <1>7. timers = s3 /\ waited = 0 /\ pcbs = FALSE /\ ftp = "loop"
    BY DEF Init, s1, s2, s3
  <1>8. left \in [Handlers -> Nat] /\ \A h \in Periodic : left[h] = Interval[h]
    BY <1>1, <1>2 DEF Init
  <1>9. ASSUME NEW d \in Dues(timers)
        PROVE  d[2] - 0 >= left[d[1]] /\ d[2] <= Interval[d[1]]
    <2>1. PICK h \in Periodic : d = <<h, Interval[h]>>
      BY <1>1, <1>6, <1>7
    <2>2. d[1] = h /\ d[2] = Interval[h] /\ left[h] = Interval[h] /\ Interval[h] \in Nat
      BY <1>1, <1>2, <1>8, <2>1
    <2> QED
      BY <2>2
  <1>10. timers # <<>> => 0 <= timers[1].time
    <2> SUFFICES ASSUME timers # <<>> PROVE timers[1].time \in Nat
      OBVIOUS
    <2>1. 1 \in 1 .. Len(timers)
      BY <1>6, <1>7, EmptySeq
    <2> QED
      BY <1>6, <1>7, <2>1, EntryTypes
  <1> QED
    <2>1. timers \in Seq(Entries) /\ left \in [Handlers -> Nat]
      BY <1>6, <1>7, <1>8
    <2>2. waited \in Nat /\ ~(waited > 0) /\ (timers # <<>> => waited <= timers[1].time)
      BY <1>7, <1>10
    <2>3. \A d \in Dues(timers) : d[2] - waited >= left[d[1]] /\ d[2] <= Interval[d[1]]
      BY <1>7, <1>9
    <2> QED
      BY <1>7, <2>1, <2>2, <2>3 DEF TimeInv

LEMMA NextTimeInv == IInv /\ TimeInv /\ [Next]_vars => TimeInv'
  <1> SUFFICES ASSUME IInv, TimeInv, [Next]_vars PROVE TimeInv'
    OBVIOUS
  <1> USE DEF IInv
  <1>1. CASE FetchMessage \/ SemTaken
    BY <1>1, WokenTimes DEF FetchMessage, SemTaken, ftpTask
  <1>2. CASE SemWait
    <2>1. waited = 0
      BY <1>2, NotWaiting DEF SemWait
    <2> QED
      BY <1>2, <2>1, OtherTimes DEF SemWait, TimeInv, ftpTask
  <1>3. CASE TimerExpired
    BY <1>3, ExpiredTimes
  <1>4. CASE \E h \in Periodic : PeriodicDone(h)
    <2>1. PICK h \in Periodic : PeriodicDone(h)
      BY <1>4
    <2>2. h \in Handlers /\ h # "sem" /\ h \notin Listed /\ waited = 0
      BY <2>1, NotHandlers, NotWaiting, RunningNotListed DEF PeriodicDone
    <2> QED
      BY <2>1, <2>2, TimeoutTimes DEF PeriodicDone, TimeInv, ftpTask
  <1>5. CASE TcpTimerDone
    <2>1. "tcp" \in Handlers /\ "tcp" \notin Listed /\ waited = 0
      BY <1>5, NotHandlers, NotWaiting, RunningNotListed DEF TcpTimerDone
    <2>2. CASE pcbs /\ SysTimeout("tcp") /\ UNCHANGED active
      BY <1>5, <2>1, <2>2, TimeoutTimes DEF TcpTimerDone, TimeInv, ftpTask
    <2>3. CASE ~pcbs /\ active' = FALSE /\ UNCHANGED <<timers, free, stale, left>>
      BY <1>5, <2>1, <2>3, OtherTimes DEF TcpTimerDone, TimeInv, ftpTask
    <2> QED
      BY <1>5, <2>2, <2>3 DEF TcpTimerDone
  <1>6. CASE ConnectionMade
    <2>1. waited = 0 /\ waited' = 0 /\ pcbs' = TRUE /\ ftp' = ftp
      BY <1>6, NotWaiting DEF ConnectionMade, ftpTask
    <2>2. CASE active /\ UNCHANGED <<timers, free, stale, left>>
      BY <2>1, <2>2, OtherTimes DEF TimeInv
    <2>3. CASE ~active /\ SysTimeout("tcp")
      <3>1. "tcp" \in Handlers /\ "tcp" \notin Listed
        BY <2>3, NotHandlers DEF ActiveInv, Scheduled
      <3> QED
        BY <2>1, <2>3, <3>1, TimeoutTimes
    <2> QED
      BY <1>6, <2>2, <2>3 DEF ConnectionMade
  <1>7. CASE ConnectionsGone
    BY <1>7, OtherTimes DEF ConnectionsGone, TimeInv, ftpTask
  <1>8. CASE MessageDone
    <2>1. waited = 0
      BY <1>8, NotWaiting DEF MessageDone
    <2> QED
      BY <1>8, <2>1, OtherTimes DEF MessageDone, TimeInv, ftpTask
  <1>9. CASE FtpTask
    BY <1>9, OtherTimes DEF FtpTask, CommandRead, CommandDone, TimedWait, Taken,
                            TimedWaitSignalled, thread, TimeInv
  <1>10. CASE Tick
    BY <1>10, TickTimes
  <1>11. CASE UNCHANGED vars
    BY <1>11, OtherTimes DEF vars, TimeInv
  <1> QED
    BY <1>1, <1>2, <1>3, <1>4, <1>5, <1>6, <1>7, <1>8, <1>9, <1>10, <1>11
    DEF Next, Thread, Torn

-----------------------------------------------------------------------------
(* The timers as TimerSet has them                                         *)

\* What TimerSet sees of each handler.
View == [h \in Handlers |->
            CASE h \in Listed     -> [state |-> "armed", left |-> left[h]]
              [] h \in InProgress -> [state |-> "running", left |-> 0]
              [] OTHER            -> [state |-> "off", left |-> 0]]

LEMMA ViewOf ==
    ASSUME OnceAtMost
    PROVE  /\ View = [h \in Handlers |-> View[h]]
           /\ \A h \in Handlers :
                 View[h] = IF h \in Listed THEN TimerSet!Armed(left[h])
                           ELSE IF h \in InProgress THEN TimerSet!Running ELSE TimerSet!Off
  <1>1. ASSUME NEW h \in Handlers
        PROVE  View[h] = IF h \in Listed THEN TimerSet!Armed(left[h])
                         ELSE IF h \in InProgress THEN TimerSet!Running ELSE TimerSet!Off
    <2>1. CASE h \in Listed
      BY <2>1 DEF View, TimerSet!Armed, OnceAtMost
    <2>2. CASE h \notin Listed /\ h \in InProgress
      BY <2>2 DEF View, TimerSet!Running
    <2>3. CASE h \notin Listed /\ h \notin InProgress
      BY <2>3 DEF View, TimerSet!Off
    <2> QED
      BY <2>1, <2>2, <2>3
  <1>2. View = [h \in Handlers |-> View[h]]
    BY DEF View
  <1> QED
    BY <1>1, <1>2

LEMMA ViewNext ==
    ASSUME OnceAtMost'
    PROVE  /\ View' = [h \in Handlers |-> View'[h]]
           /\ \A h \in Handlers :
                 View'[h] = IF h \in Listed' THEN TimerSet!Armed(left'[h])
                            ELSE IF h \in InProgress' THEN TimerSet!Running ELSE TimerSet!Off
  <1>1. ASSUME NEW h \in Handlers
        PROVE  View'[h] = IF h \in Listed' THEN TimerSet!Armed(left'[h])
                          ELSE IF h \in InProgress' THEN TimerSet!Running ELSE TimerSet!Off
    <2>1. CASE h \in Listed'
      BY <2>1 DEF View, TimerSet!Armed, OnceAtMost
    <2>2. CASE h \notin Listed' /\ h \in InProgress'
      BY <2>2 DEF View, TimerSet!Running
    <2>3. CASE h \notin Listed' /\ h \notin InProgress'
      BY <2>3 DEF View, TimerSet!Off
    <2> QED
      BY <2>1, <2>2, <2>3
  <1>2. View' = [h \in Handlers |-> View'[h]]
    BY DEF View
  <1> QED
    BY <1>1, <1>2

LEMMA Unseen ==
    ASSUME OnceAtMost, OnceAtMost', Listed' = Listed, left' = left,
           InProgress' \cap Handlers = InProgress \cap Handlers
    PROVE  UNCHANGED View
  <1>1. \A h \in Handlers : View'[h] = View[h]
    BY ViewOf, ViewNext
  <1> QED
    BY <1>1, ViewOf, ViewNext

LEMMA OneTimer ==
    ASSUME OnceAtMost, OnceAtMost', NEW h \in Handlers, NEW new, View'[h] = new,
           \A g \in Handlers \ {h} : /\ g \in Listed' <=> g \in Listed
                                     /\ g \in InProgress' <=> g \in InProgress
                                     /\ left'[g] = left[g]
    PROVE  View' = [View EXCEPT ![h] = new]
  <1>1. \A g \in Handlers \ {h} : View'[g] = View[g]
    BY ViewOf, ViewNext
  <1>2. DOMAIN View = Handlers
    BY DEF View
  <1> QED
    BY <1>1, <1>2, ViewOf, ViewNext

\* sys_timeout arms a timer, unless there is no element for it.
LEMMA TimeoutView ==
    ASSUME IInv, OnceAtMost', TimeInv, NEW h \in Handlers, h \notin Listed, SysTimeout(h),
           InProgress \subseteq InProgress' \cup {h}, InProgress' \subseteq InProgress
    PROVE  \/ TimerSet!Arm(h)
           \/ UNCHANGED <<timers, left>>
  <1>0. OnceAtMost
    BY DEF IInv
  <1> SUFFICES ASSUME /\ timers' = Insert(timers, h, Interval[h])
                      /\ left' = [left EXCEPT ![h] = Interval[h]]
               PROVE  TimerSet!Arm(h)
    BY DEF SysTimeout
  <1>1. /\ IsList(timers') /\ Names(timers') = Listed \cup {h}
    BY InsertList DEF IInv, ListInv
  <1>2. Listed' = Listed \cup {h}
    BY <1>1, KeepsNames
  <1>3. left'[h] = Interval[h] /\ \A g \in Handlers \ {h} : left'[g] = left[g]
    BY DEF TimeInv
  <1>4. View'[h] = TimerSet!Armed(Interval[h])
    BY <1>2, <1>3, ViewNext
  <1>5. View' = [View EXCEPT ![h] = TimerSet!Armed(Interval[h])]
    BY <1>2, <1>3, <1>4, <1>0, OneTimer
  <1>6. View[h].state # "armed"
    BY <1>0, ViewOf DEF TimerSet!Running, TimerSet!Off
  <1> QED
    BY <1>5, <1>6 DEF TimerSet!Arm, View

\* A handler that ends without a new timer.
LEMMA EndView ==
    ASSUME IInv, OnceAtMost', NEW h \in Handlers, In(h), stack' = Front(stack),
           UNCHANGED <<timers, left>>
    PROVE  TimerSet!End(h)
  <1>0. OnceAtMost
    BY DEF IInv
  <1>1. /\ InProgress = InProgress' \cup {h} /\ h \notin InProgress'
    BY PopStack DEF IInv, StackInv, InProgress, In
  <1>2. Listed' = Listed /\ h \notin Listed
    BY RunningNotListed DEF Listed
  <1>3. View[h] = TimerSet!Running /\ View'[h] = TimerSet!Off
    BY <1>1, <1>2, <1>0, ViewOf, ViewNext
  <1>4. View' = [View EXCEPT ![h] = TimerSet!Off]
    BY <1>1, <1>2, <1>3, <1>0, OneTimer
  <1>5. View[h].state = "running"
    BY <1>3 DEF TimerSet!Running
  <1> QED
    BY <1>4, <1>5 DEF TimerSet!End, View

LEMMA RearmView ==
    ASSUME IInv, OnceAtMost', TimeInv, NEW h \in Handlers, In(h), SysTimeout(h), stack' = Front(stack)
    PROVE  TimerSet!Arm(h) \/ TimerSet!End(h)
  <1>1. InProgress = InProgress' \cup {h}
    BY PopStack DEF IInv, StackInv, InProgress, In
  <1>2. h \notin Listed
    BY RunningNotListed
  <1> QED
    BY <1>1, <1>2, TimeoutView, EndView

LEMMA FireView ==
    ASSUME IInv, OnceAtMost', TimeInv, TimerExpired
    PROVE  \E h \in Handlers : TimerSet!Fire(h)
  <1>0. OnceAtMost
    BY DEF IInv
  <1>11. PICK h : h = timers[1].h
    OBVIOUS
  <1>1. /\ timers # <<>> /\ timers' = Tail(timers) /\ left' = left
        /\ stack' = Append(stack, h)
    BY <1>11 DEF TimerExpired
  <1>2. /\ IsList(timers') /\ h \in Listed /\ h \in Handlers
        /\ Names(timers') = Listed \ {h}
    BY <1>1, <1>11, TailList DEF IInv, ListInv
  <1>3. left[h] = 0
    BY <1>11, ExpiredTimes
  <1>4. Listed' = Listed \ {h}
    BY <1>2, KeepsNames
  <1>5. h \notin InProgress
    BY <1>2 DEF IInv, OnceAtMost
  <1>6. InProgress' = {h} \cup InProgress
    BY <1>1, <1>2, <1>5, PushStack, NotHandlers DEF IInv, StackInv, InProgress
  <1>7. View[h] = TimerSet!Armed(0) /\ View'[h] = TimerSet!Running
    BY <1>2, <1>3, <1>4, <1>6, <1>0, ViewOf, ViewNext
  <1>8. View' = [View EXCEPT ![h] = TimerSet!Running]
    BY <1>1, <1>2, <1>4, <1>6, <1>7, <1>0, OneTimer
  <1>9. View[h].state = "armed" /\ View[h].left = 0
    BY <1>7 DEF TimerSet!Armed
  <1>10. TimerSet!Fire(h)
    BY <1>8, <1>9 DEF TimerSet!Fire, View
  <1> QED
    BY <1>2, <1>10

LEMMA TickView ==
    ASSUME IInv, OnceAtMost', TimeInv, Tick
    PROVE  TimerSet!Tick
  <1>0. OnceAtMost
    BY DEF IInv
  <1>1. Listed' = Listed /\ InProgress' = InProgress
    BY DEF Tick, Listed, InProgress
  <1>2. \A h \in Handlers : /\ left[h] \in Nat
                            /\ left'[h] = IF left[h] > 0 THEN left[h] - 1 ELSE 0
    BY DEF Tick, TimeInv
  <1>3. ASSUME NEW h \in Handlers
        PROVE  View'[h] = [View[h] EXCEPT !.left = IF @ > 0 THEN @ - 1 ELSE 0]
    <2>1. CASE h \in Listed
      <3>1. View[h] = TimerSet!Armed(left[h]) /\ View'[h] = TimerSet!Armed(left'[h])
        BY <1>1, <2>1, <1>0, ViewOf, ViewNext
      <3> QED
        BY <1>2, <3>1 DEF TimerSet!Armed
    <2>2. CASE h \notin Listed
      <3>1. View'[h] = View[h]
        BY <1>1, <2>2, <1>0, ViewOf, ViewNext
      <3>2. View[h] \in {TimerSet!Running, TimerSet!Off}
        BY <2>2, <1>0, ViewOf
      <3> QED
        BY <3>1, <3>2 DEF TimerSet!Running, TimerSet!Off
    <2> QED
      BY <2>1, <2>2
  <1>4. View' = [h \in Handlers |->
                    [View[h] EXCEPT !.left = IF @ > 0 THEN @ - 1 ELSE 0]]
    BY <1>3, ViewNext
  <1> QED
    BY <1>4 DEF TimerSet!Tick, View

LEMMA InitView == Init => TimerSet!Init
  <1> SUFFICES ASSUME Init PROVE TimerSet!Init
    OBVIOUS
  <1>1. IInv /\ InProgress = {}
    BY InitIInv, EmptyElements DEF Init, InProgress
  <1>0. OnceAtMost
    BY <1>1 DEF IInv
  <1>2. active = FALSE /\ Periodic = Handlers \ {"tcp"} /\ "tcp" \in Handlers
    BY NotHandlers DEF Init, Periodic
  <1>3. Listed = Periodic
    <2>1. "tcp" \notin Listed
      BY <1>1, <1>2 DEF IInv, ActiveInv, Scheduled
    <2>2. PoolLasts
      <3>1. /\ leaked = 1 /\ ~torn
            /\ NumTimeouts \in Nat /\ NumTimeouts > Cardinality(Handlers)
        BY TimeoutsAssumption DEF Init
      <3> QED
        BY <3>1, HandlersCount DEF PoolLasts
    <2>3. Periodic \subseteq Listed
      BY <1>1, <2>2 DEF IInv, NoTimerLost, Scheduled
    <2>4. Listed \subseteq Handlers
      BY <1>1, ListedHandlers DEF IInv
    <2> QED
      BY <1>2, <2>1, <2>3, <2>4
  <1>4. \A h \in Handlers : h \in Periodic => left[h] = Interval[h]
    BY DEF Init
  <1>5. \A h \in Handlers :
           View[h] = IF h \in Periodic THEN TimerSet!Armed(Interval[h]) ELSE TimerSet!Off
    BY <1>1, <1>3, <1>4, <1>0, ViewOf
  <1>6. View = [h \in Handlers |->
                   IF h \in Periodic THEN TimerSet!Armed(Interval[h]) ELSE TimerSet!Off]
    BY <1>5, <1>0, ViewOf
  <1>7. Periodic \in SUBSET Handlers /\ torn = FALSE
    BY <1>2 DEF Init
  <1> QED
    BY <1>6, <1>7 DEF TimerSet!Init, View

\* What TimerSet does while nothing is broken.
Moves == \/ TimerSet!Tick
         \/ \E h \in Handlers : TimerSet!Arm(h) \/ TimerSet!Fire(h) \/ TimerSet!End(h)

LEMMA NextMoves ==
    ASSUME IInv, TimeInv, [Next]_vars
    PROVE  Moves \/ UNCHANGED View
  <1>0. OnceAtMost /\ OnceAtMost'
    BY NextIInv DEF IInv
  <1>1. CASE FetchMessage
    <2>1. Listed' = Listed /\ left' = left
      BY <1>1, ShortenedStep DEF FetchMessage, IInv
    <2>2. InProgress = {}
      BY <1>1, EmptyElements DEF FetchMessage, InProgress
    <2>3. InProgress' = {"message"}
      <3>1. /\ stack = <<>> /\ stack' = Append(stack, "message")
        BY <1>1 DEF FetchMessage
      <3>2. ToSet(stack') = {"message"} \cup ToSet(stack)
        BY <3>1, PushStack, NotHandlers DEF IInv, StackInv
      <3> QED
        BY <2>2, <3>2 DEF InProgress
    <2> QED
      BY <2>1, <2>2, <2>3, <1>0, Unseen, NotHandlers
  <1>2. CASE SemWait
    <2>1. InProgress' = {"sem"} \cup InProgress
      BY <1>2, PushStack, NotHandlers DEF IInv, StackInv, InProgress, SemWait
    <2>2. Listed' = Listed /\ left' = left
      BY <1>2 DEF SemWait, Listed
    <2> QED
      BY <1>0, <2>1, <2>2, Unseen, NotHandlers
  <1>3. CASE SemTaken
    <2>1. Listed' = Listed /\ left' = left
      BY <1>3, ShortenedStep DEF SemTaken, IInv
    <2>2. InProgress = InProgress' \cup {"sem"}
      BY <1>3, PopStack DEF IInv, StackInv, InProgress, SemTaken, In
    <2> QED
      BY <1>0, <2>1, <2>2, Unseen, NotHandlers
  <1>4. CASE TimerExpired
    BY <1>4, <1>0, FireView DEF Moves
  <1>5. CASE \E h \in Periodic : PeriodicDone(h)
    <2>1. PICK h \in Periodic : PeriodicDone(h)
      BY <1>5
    <2>2. h \in Handlers
      BY NotHandlers
    <2>3. TimerSet!Arm(h) \/ TimerSet!End(h)
      BY <1>0, <2>1, <2>2, RearmView DEF PeriodicDone
    <2> QED
      BY <2>2, <2>3 DEF Moves
  <1>6. CASE TcpTimerDone
    <2>1. "tcp" \in Handlers
      BY NotHandlers
    <2>2. TimerSet!Arm("tcp") \/ TimerSet!End("tcp")
      BY <1>6, <2>1, <1>0, RearmView, EndView DEF TcpTimerDone
    <2> QED
      BY <2>1, <2>2 DEF Moves
  <1>7. CASE ConnectionMade
    <2>1. "tcp" \in Handlers /\ InProgress' = InProgress
      BY <1>7, NotHandlers DEF ConnectionMade, InProgress
    <2>2. CASE UNCHANGED <<timers, left>>
      BY <1>0, <2>1, <2>2, Unseen DEF Listed
    <2>3. CASE ~active /\ SysTimeout("tcp")
      <3>1. "tcp" \notin Listed
        BY <2>3 DEF IInv, ActiveInv, Scheduled
      <3>2. TimerSet!Arm("tcp") \/ UNCHANGED <<timers, left>>
        BY <2>1, <2>3, <3>1, <1>0, TimeoutView
      <3> QED
        BY <2>1, <2>2, <3>2 DEF Moves
    <2> QED
      BY <1>7, <2>2, <2>3 DEF ConnectionMade
  <1>8. CASE MessageDone
    <2>1. InProgress = {"message"}
      <3>1. /\ ToSet(stack) = ToSet(Front(stack)) \cup {"message"}
            /\ ToSet(Front(stack)) = {}
        BY <1>8, PopStack DEF IInv, StackInv, MessageDone, In
      <3> QED
        BY <3>1 DEF InProgress
    <2>2. InProgress' = {} /\ Listed' = Listed /\ left' = left
      BY <1>8, EmptyElements DEF MessageDone, InProgress, Listed
    <2> QED
      BY <1>0, <2>1, <2>2, Unseen, NotHandlers
  <1>9. CASE Tick
    BY <1>9, <1>0, TickView DEF Moves
  <1>10. CASE ConnectionsGone \/ FtpTask \/ Torn \/ UNCHANGED vars
    <2>1. UNCHANGED <<timers, stack, left>>
      BY <1>10 DEF ConnectionsGone, FtpTask, CommandRead, CommandDone, TimedWait,
                   Taken, TimedWaitSignalled, Torn, thread, vars
    <2> QED
      BY <2>1, <1>0, Unseen DEF Listed, InProgress
  <1> QED
    BY <1>1, <1>2, <1>3, <1>4, <1>5, <1>6, <1>7, <1>8, <1>9, <1>10 DEF Next, Thread

\* Only the FTP task tears the pool, and for good.
LEMMA NextView ==
    ASSUME IInv, TimeInv, [Next]_vars
    PROVE  [TimerSet!Next]_<<View, torn>>
  <1>1. torn' = torn \/ torn' = TRUE
    <2>1. torn' = torn \/ (Taken /\ torn' \in BOOLEAN /\ torn = FALSE)
      BY DEF IInv, PoolInv, Next, Thread, FtpTask, Torn, vars, ftpTask, FetchMessage, SemWait,
             SemTaken, TimerExpired, PeriodicDone, TcpTimerDone, ConnectionMade,
             ConnectionsGone, MessageDone, CommandRead, CommandDone, TimedWait, Taken,
             TimedWaitSignalled, Tick, Whole
    <2> QED
      BY <2>1
  <1>2. CASE torn' = torn
    BY <1>2, NextMoves DEF TimerSet!Next, Moves
  <1>3. CASE torn' = TRUE
    BY <1>3 DEF TimerSet!Next, TimerSet!Break
  <1> QED
    BY <1>1, <1>2, <1>3

-----------------------------------------------------------------------------
(* Theorems                                                                *)

\* The inductive invariant: until the FTP task stores a head into a list the
\* thread has changed (memp.c:322-325), every element of the pool is free, in the
\* list or lost with a task that has no list; and no handler is armed or run
\* twice.
THEOREM Invariance == Spec => []IInv
  BY InitIInv, NextIInv, PTL DEF Spec

\* As long as the pool is whole, and the tasks without a list have left an
\* element for each timer, no timer is lost, whatever is run in the middle of
\* what (tcpip.c:76-178).
THEOREM TimersKept == Spec => []NoTimerLost
  <1>1. IInv => NoTimerLost
    BY DEF IInv
  <1> QED
    BY <1>1, Invariance, PTL

\* A timer that is being run is not armed, in every history: no handler is run
\* inside of itself (sys.c:98-105, 139-146).
THEOREM NeverInsideItself == Spec => [](Listed \cap InProgress = {})
  <1>1. IInv => Listed \cap InProgress = {}
    BY DEF IInv, OnceAtMost
  <1> QED
    BY <1>1, Invariance, PTL

\* Its arithmetic: the deltas are what is left from one entry to the next.
THEOREM TimesInvariance == Spec => []TimeInv
  BY InitTimeInv, NextTimeInv, Invariance, PTL DEF Spec

\* The elements of the list have a time that is not negative, and never more
\* are free than the pool has, however often the list is rearranged.
THEOREM TypeCorrect == Spec => []TypeOK
  <1>1. IInv /\ TimeInv => TypeOK
    <2> SUFFICES ASSUME IInv, TimeInv PROVE TypeOK
      OBVIOUS
    <2>1. {stale, torn} \subseteq BOOLEAN
      BY DEF IInv, PoolInv
    <2>2. {free, seen} \subseteq 0 .. NumTimeouts /\ leaked \in 0 .. NumTimeouts + 1
      BY DEF IInv, PoolInv
    <2>3. stack \in Seq(Frames) /\ active \in BOOLEAN
      BY DEF IInv, StackInv, IsStack, ActiveInv
    <2> QED
      BY <2>1, <2>2, <2>3 DEF TimeInv, TypeOK
  <1> QED
    BY <1>1, Invariance, TimesInvariance, PTL

\* By the list no timer is due before its time, and none is put off beyond the
\* interval it was armed for, whatever is armed, run or interrupted
\* (sys.c:213-234, 98-105).
THEOREM TimersInTime == Spec => []DeltasAddUp
  <1>1. TimeInv => DeltasAddUp
    <2> SUFFICES ASSUME TimeInv, NEW i \in 1 .. Len(timers)
                 PROVE  /\ Due(timers, i) - waited >= left[timers[i].h]
                        /\ Due(timers, i) <= Interval[timers[i].h]
      BY DEF DeltasAddUp
    <2> DEFINE d == <<timers[i].h, Due(timers, i)>>
    <2>1. d \in Dues(timers) /\ d[1] = timers[i].h /\ d[2] = Due(timers, i)
      BY DEF Dues
    <2> HIDE DEF d
    <2> QED
      BY <2>1 DEF TimeInv
  <1> QED
    BY <1>1, TimesInvariance, PTL

\* As long as the pool is whole, the list, the stack and the waits keep what
\* TimerSet promises a handler: it is called when its time has passed, once, and
\* not while it runs.
THEOREM Refinement == Spec => ImplementsTimerSet
  <1>1. Init => TimerSet!Init
    BY InitView
  <1>2. IInv /\ TimeInv /\ [Next]_vars => [TimerSet!Next]_<<View, torn>>
    BY NextView
  <1> QED
    BY <1>1, <1>2, Invariance, TimesInvariance, PTL
    DEF Spec, ImplementsTimerSet, TimerSet!Spec, View
=============================================================================
