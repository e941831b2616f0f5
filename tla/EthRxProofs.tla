---------------------------- MODULE EthRxProofs -----------------------------
(***************************************************************************)
(* Proofs about EthRx, for rings, pools and mailboxes of any size and any  *)
(* number of frames: the Eth_if task never reads an empty ring, no pbuf    *)
(* and no message is lost as long as no list of a pool is torn, and a      *)
(* frame that an interrupt has left behind is never made up for.           *)
(***************************************************************************)
EXTENDS EthRx, SequenceElements, FiniteSetTheorems, TLAPS

\* The types without most of the upper bounds, which follow from the rest.
Types ==
    /\ sent \in 0 .. MaxFrames
    /\ ring \in Seq(Frames) /\ Len(ring) <= RingSize
    /\ flag \in BOOLEAN /\ irq \in BOOLEAN
    /\ tokens \in Nat
    /\ eth \in {"waiting", "token", "input"} /\ hand \in Packets
    /\ mbox \in Seq(Messages) /\ Len(mbox) <= MboxSize
    /\ thread \in Messages \cup {Idle} /\ load \in BOOLEAN
    /\ freeing \in [pool : Pools \cup {"none"}, seen : Nat]
    /\ asked \in BOOLEAN /\ kept \in Nat
    /\ ftp \in {"elsewhere", "freeing"} /\ seen \in Nat
    /\ stale \in BOOLEAN /\ torn \in BOOLEAN
    /\ left \in [Pools -> Nat]
    /\ got \in Seq(Frames)

HandInUse == hand # None => eth = "input"

\* Who has read a head has an element that is not in that list.
Room ==
    /\ \A p \in Pools : left[p] <= Size[p]
    /\ freeing # Nothing => /\ freeing.pool \in Pools
                            /\ freeing.seen < Size[freeing.pool]
    /\ seen <= Size["pbuf"] /\ (ftp = "freeing" => seen < Size["pbuf"])
    /\ kept <= Size["pbuf"]

IInv == Types /\ FrameForEveryToken /\ HandInUse /\ NothingLeaks /\ Room

LEMMA Constants ==
    /\ RingSize \in Nat /\ MaxTokens \in Nat /\ MboxSize \in Nat
    /\ \A p \in Pools : Size[p] \in Nat \ {0}
    /\ Size \in [Pools -> Nat] /\ MaxFrames \in Nat
    /\ RingSize <= MaxTokens /\ MboxSize + 1 <= Size["inpkt"]
    /\ None \notin Frames /\ Api \notin Frames /\ Idle \notin Frames
    /\ PoolEmpty \notin Frames
    /\ None # Api /\ None # Idle /\ Api # Idle
    /\ PoolEmpty # None /\ PoolEmpty # Api /\ PoolEmpty # Idle
  BY RxAssumption DEF Frames

LEMMA PoolNames ==
    /\ "pbuf" \in Pools /\ "inpkt" \in Pools /\ "api" \in Pools
    /\ "none" \notin Pools /\ "pbuf" # "inpkt" /\ "pbuf" # "api" /\ "inpkt" # "api"
    /\ \A p \in Pools : p = "pbuf" \/ p = "inpkt" \/ p = "api"
  BY DEF Pools

-----------------------------------------------------------------------------
(* Counting the messages of a mailbox                                      *)

LEMMA CountType ==
    ASSUME NEW T, NEW s \in Seq(T), NEW S
    PROVE  /\ IsFiniteSet({i \in DOMAIN s : s[i] \in S})
           /\ Count(s, S) \in Nat /\ Count(s, S) <= Len(s)
  <1> DEFINE P == {i \in DOMAIN s : s[i] \in S}
  <1>1. Len(s) \in Nat /\ DOMAIN s = 1 .. Len(s)
    OBVIOUS
  <1>2. IsFiniteSet(1 .. Len(s)) /\ Cardinality(1 .. Len(s)) = Len(s)
    <2>1. 1 \in Int /\ Len(s) \in Int /\ Len(s) - 1 + 1 = Len(s)
      BY <1>1
    <2>2. 1 > Len(s) => Len(s) = 0
      BY <1>1
    <2> QED
      BY <2>1, <2>2, FS_Interval
  <1>3. P \in SUBSET (1 .. Len(s))
    BY <1>1
  <1>4. IsFiniteSet(P) /\ Cardinality(P) <= Len(s)
    BY <1>2, <1>3, FS_Subset
  <1>5. Cardinality(P) \in Nat
    BY <1>4, FS_CardinalityType
  <1> QED
    BY <1>4, <1>5 DEF Count

LEMMA CountEmpty == ASSUME NEW S PROVE Count(<<>>, S) = 0
  <1>1. {i \in DOMAIN <<>> : <<>>[i] \in S} = {}
    OBVIOUS
  <1> QED
    BY <1>1, FS_EmptySet DEF Count

LEMMA CountAppend ==
    ASSUME NEW T, NEW s \in Seq(T), NEW m \in T, NEW S
    PROVE  Count(Append(s, m), S) = Count(s, S) + One(m \in S)
  <1> DEFINE P == {i \in DOMAIN s : s[i] \in S}
             a == Append(s, m)
             Q == {i \in DOMAIN a : a[i] \in S}
  <1>1. /\ DOMAIN s = 1 .. Len(s) /\ DOMAIN a = 1 .. Len(s) + 1
        /\ Len(s) \in Nat
        /\ a[Len(s) + 1] = m /\ \A i \in 1 .. Len(s) : a[i] = s[i]
    OBVIOUS
  <1>2. IsFiniteSet(P) /\ Cardinality(P) \in Nat
    BY CountType DEF Count
  <1>3. Len(s) + 1 \notin P
    BY <1>1
  <1>4. CASE m \in S
    <2>1. Q = P \cup {Len(s) + 1}
      BY <1>1, <1>4
    <2>2. Cardinality(Q) = Cardinality(P) + 1
      BY <1>2, <1>3, <2>1, FS_AddElement
    <2> QED
      BY <1>4, <2>2 DEF Count, One
  <1>5. CASE m \notin S
    <2>1. Q = P
      BY <1>1, <1>5
    <2>2. Count(a, S) = Cardinality(Q) /\ Count(s, S) = Cardinality(P)
      BY DEF Count
    <2>3. One(m \in S) = 0
      BY <1>5 DEF One
    <2> HIDE DEF P, Q
    <2> QED
      BY <1>2, <2>1, <2>2, <2>3
  <1> QED
    BY <1>4, <1>5

LEMMA CountTail ==
    ASSUME NEW T, NEW s \in Seq(T), s # <<>>, NEW S
    PROVE  Count(s, S) = Count(Tail(s), S) + One(Head(s) \in S)
  <1> DEFINE t == Tail(s)
             P == {i \in DOMAIN s : s[i] \in S}
             Q == {i \in DOMAIN t : t[i] \in S}
             f == [i \in Q |-> i + 1]
  <1>1. /\ Len(s) \in Nat /\ Len(s) >= 1 /\ DOMAIN s = 1 .. Len(s)
        /\ t \in Seq(T) /\ DOMAIN t = 1 .. Len(s) - 1
        /\ Head(s) = s[1] /\ \A i \in 1 .. Len(s) - 1 : t[i] = s[i + 1]
    OBVIOUS
  <1>2. IsFiniteSet(P) /\ IsFiniteSet(Q) /\ Cardinality(Q) \in Nat /\ Cardinality(P) \in Nat
    BY <1>1, CountType DEF Count
  <1>3. f \in [Q -> P \ {1}]
    BY <1>1
  <1>4. \A i, j \in Q : f[i] = f[j] => i = j
    BY <1>1
  <1>5. \A k \in P \ {1} : \E i \in Q : f[i] = k
    <2> SUFFICES ASSUME NEW k \in P \ {1} PROVE k - 1 \in Q /\ f[k - 1] = k
      OBVIOUS
    <2>1. k \in 1 .. Len(s) /\ k # 1 /\ s[k] \in S
      BY <1>1
    <2>2. k - 1 \in 1 .. Len(s) - 1 /\ (k - 1) + 1 = k
      BY <1>1, <2>1
    <2>3. t[k - 1] = s[k]
      BY <1>1, <2>2
    <2>4. k - 1 \in Q
      BY <1>1, <2>1, <2>2, <2>3
    <2> QED
      BY <2>2, <2>4
  <1>6. f \in Bijection(Q, P \ {1})
    BY <1>3, <1>4, <1>5 DEF Bijection, Injection, Surjection, IsInjective
  <1>7. ExistsBijection(Q, P \ {1})
    BY <1>6 DEF ExistsBijection
  <1>8. Cardinality(P \ {1}) = Cardinality(Q)
    BY <1>2, <1>7, FS_Bijection
  <1>9. Cardinality(P \ {1}) = IF 1 \in P THEN Cardinality(P) - 1 ELSE Cardinality(P)
    BY <1>2, FS_RemoveElement
  <1>10. 1 \in P <=> Head(s) \in S
    BY <1>1
  <1>11. Count(s, S) = Cardinality(P) /\ Count(t, S) = Cardinality(Q)
    BY DEF Count
  <1> HIDE DEF P, Q, t
  <1>12. CASE 1 \in P
    BY <1>2, <1>8, <1>9, <1>10, <1>11, <1>12 DEF One, t
  <1>13. CASE 1 \notin P
    BY <1>2, <1>8, <1>9, <1>10, <1>11, <1>13 DEF One, t
  <1> QED
    BY <1>12, <1>13

-----------------------------------------------------------------------------
(* The accounts of the pools                                               *)

F(p) == One(freeing.pool = p)
T(S) == One(thread \in S)
H == One(hand # None)
L == One(thread \in Frames /\ load)
R == One(ftp = "freeing")
N(S) == Count(mbox, S)

Account(p) == left[p] + Taken(p)

LEMMA AccountTypes ==
    ASSUME Types
    PROVE  /\ \A p : F(p) \in {0, 1}
           /\ \A S : T(S) \in {0, 1} /\ N(S) \in Nat /\ N(S) <= Len(mbox)
           /\ H \in {0, 1} /\ L \in {0, 1} /\ R \in {0, 1}
           /\ kept \in Nat /\ \A p \in Pools : left[p] \in Nat
           /\ Len(mbox) \in Nat
  <1>1. \A S : N(S) \in Nat /\ N(S) <= Len(mbox)
    BY CountType DEF Types, N
  <1>2. /\ \A p : F(p) \in {0, 1}
        /\ \A S : T(S) \in {0, 1}
        /\ H \in {0, 1} /\ L \in {0, 1} /\ R \in {0, 1}
    BY DEF F, T, H, L, R, One
  <1> QED
    BY <1>1, <1>2 DEF Types

LEMMA TermTypes ==
    ASSUME Types
    PROVE  /\ F("pbuf") \in Nat /\ F("inpkt") \in Nat /\ F("api") \in Nat
           /\ T(Packets) \in Nat /\ T({PoolEmpty}) \in Nat
           /\ N(Frames) \in Nat /\ N(Packets) \in Nat /\ N({PoolEmpty}) \in Nat
           /\ H \in Nat /\ L \in Nat /\ R \in Nat /\ kept \in Nat
           /\ left["pbuf"] \in Nat /\ left["inpkt"] \in Nat /\ left["api"] \in Nat
  <1>1. \A n : n \in {0, 1} => n \in Nat
    OBVIOUS
  <1> QED
    BY <1>1, AccountTypes, PoolNames

LEMMA AccountsAre ==
    /\ Account("pbuf") = left["pbuf"] + (F("pbuf") + (H + N(Frames) + kept + L + R))
    /\ Account("inpkt") = left["inpkt"] + (F("inpkt") + (N(Packets) + T(Packets)))
    /\ Account("api") = left["api"] + (F("api") + (N({PoolEmpty}) + T({PoolEmpty})))
  BY PoolNames DEF Account, Taken, Held, F, T, H, L, R, N

LEMMA AccountsNext ==
    /\ Account("pbuf")' = left'["pbuf"] + (F("pbuf")' + (H' + N(Frames)' + kept' + L' + R'))
    /\ Account("inpkt")' = left'["inpkt"] + (F("inpkt")' + (N(Packets)' + T(Packets)'))
    /\ Account("api")' = left'["api"] + (F("api")' + (N({PoolEmpty})' + T({PoolEmpty})'))
  BY PoolNames DEF Account, Taken, Held, F, T, H, L, R, N

LEMMA LeaksNothing ==
    /\ NothingLeaks <=> (~torn => \A p \in Pools : Account(p) = Size[p])
    /\ NothingLeaks' <=> (~torn' => \A p \in Pools : Account(p)' = Size[p])
  BY DEF NothingLeaks, Account

\* What is in no account.
LEMMA SameAccounts ==
    ASSUME NothingLeaks, UNCHANGED <<left, freeing, hand, mbox, kept, thread, load, ftp, torn>>
    PROVE  NothingLeaks'
  BY DEF NothingLeaks, Taken, Held, Count

\* An account each.
LEMMA Balanced ==
    ASSUME ~torn /\ NothingLeaks,
           Account("pbuf")' = Account("pbuf"),
           Account("inpkt")' = Account("inpkt"),
           Account("api")' = Account("api")
    PROVE  NothingLeaks'
  BY LeaksNothing, PoolNames

LEMMA MessageKinds ==
    /\ Frames \subseteq Packets /\ Packets \subseteq Messages /\ {PoolEmpty} \subseteq Messages
    /\ None \in Packets /\ Api \in Messages
    /\ Idle \notin Packets /\ Api \notin Packets /\ PoolEmpty \notin Packets
    /\ Idle \notin {PoolEmpty} /\ Api \notin {PoolEmpty} /\ Idle \notin Frames
    /\ Api \notin Frames /\ PoolEmpty \notin Frames /\ None \notin Frames
    /\ \A m \in Packets : m \notin {PoolEmpty} /\ (m \in Frames <=> m # None)
  BY Constants DEF Packets, Messages

\* A message more in the mailbox.
LEMMA Posted ==
    ASSUME Types, NEW m \in Messages, mbox' = Append(mbox, m), Len(mbox) < MboxSize
    PROVE  /\ mbox' \in Seq(Messages) /\ Len(mbox') <= MboxSize
           /\ \A S : N(S)' = N(S) + One(m \in S)
  <1>1. \A S : Count(Append(mbox, m), S) = Count(mbox, S) + One(m \in S)
    BY CountAppend DEF Types
  <1>2. /\ Append(mbox, m) \in Seq(Messages) /\ Len(Append(mbox, m)) = Len(mbox) + 1
        /\ Len(mbox) \in Nat
    BY DEF Types
  <1>3. Len(mbox') <= MboxSize
    BY <1>2, Constants
  <1>4. \A S : N(S)' = Count(Append(mbox, m), S)
    BY DEF N
  <1> QED
    BY <1>1, <1>2, <1>3, <1>4 DEF N

LEMMA SameMbox ==
    ASSUME mbox' = mbox
    PROVE  N(Frames)' = N(Frames) /\ N(Packets)' = N(Packets) /\ N({PoolEmpty})' = N({PoolEmpty})
  BY DEF N, Count

LEMMA SameThread ==
    ASSUME thread' = thread
    PROVE  T(Packets)' = T(Packets) /\ T({PoolEmpty})' = T({PoolEmpty})
  BY DEF T

LEMMA ListStep ==
    ASSUME Types, NEW p \in Pools, NEW n \in Nat, Listed(p, n)
    PROVE  /\ left' \in [Pools -> Nat] /\ stale' \in BOOLEAN
           /\ left'[p] = n /\ \A q \in Pools \ {p} : left'[q] = left[q]
  <1>1. left' = [left EXCEPT ![p] = n]
    BY DEF Listed
  <1>2. stale' \in BOOLEAN
    BY DEF Listed, Types
  <1> QED
    BY <1>1, <1>2 DEF Types

\* memp_free begins: the element is between its user and the list.
LEMMA FreeBegun ==
    ASSUME Types, freeing = Nothing, NEW p \in Pools, BeginFree(p)
    PROVE  /\ freeing' \in [pool : Pools \cup {"none"}, seen : Nat] /\ freeing' # Nothing
           /\ freeing'.pool = p /\ freeing'.seen = left[p]
           /\ F(p) = 0 /\ F(p)' = 1 /\ \A q \in Pools \ {p} : F(q)' = F(q)
  <1>1. freeing' = [pool |-> p, seen |-> left[p]] /\ freeing.pool = "none" /\ left[p] \in Nat
    BY DEF BeginFree, Nothing, Types
  <1>2. p # "none" /\ freeing'.pool = p /\ freeing'.seen = left[p]
    BY <1>1, PoolNames
  <1>3. freeing' # Nothing
    BY <1>2 DEF Nothing
  <1>4. F(p) = 0
    BY <1>1, <1>2, Zenon DEF F, One
  <1>5. F(p)' = 1
    BY <1>2, Zenon DEF F, One
  <1>6. ASSUME NEW q \in Pools \ {p} PROVE F(q)' = F(q)
    <2>1. freeing.pool # q /\ freeing'.pool # q
      BY <1>1, <1>2, PoolNames
    <2> QED
      BY <2>1, Zenon DEF F, One
  <1>7. freeing' \in [pool : Pools \cup {"none"}, seen : Nat]
    BY <1>1
  <1> QED
    BY <1>2, <1>3, <1>4, <1>5, <1>6, <1>7

\* What is in the accounts has room in the pools.
LEMMA RoomKept ==
    ASSUME Types', NothingLeaks', ~torn', Room,
           \/ freeing' = freeing
           \/ freeing' = Nothing
           \/ \E p \in Pools : freeing'.pool = p /\ freeing'.seen = left'[p] /\ F(p)' = 1,
           \/ UNCHANGED <<ftp, seen>>
           \/ ftp' = "freeing" /\ seen' = left'["pbuf"]
    PROVE  Room'
  <1>1. /\ \A p : F(p)' \in {0, 1}
        /\ \A S : T(S)' \in {0, 1} /\ N(S)' \in Nat
        /\ H' \in {0, 1} /\ L' \in {0, 1} /\ R' \in {0, 1}
        /\ kept' \in Nat /\ \A p \in Pools : left'[p] \in Nat
    <2>1. \A S : N(S)' \in Nat
      BY CountType DEF Types, N
    <2>2. /\ \A p : F(p)' \in {0, 1}
          /\ \A S : T(S)' \in {0, 1}
          /\ H' \in {0, 1} /\ L' \in {0, 1} /\ R' \in {0, 1}
      BY DEF F, T, H, L, R, One
    <2> QED
      BY <2>1, <2>2 DEF Types
  <1>2. \A p \in Pools : Account(p)' = Size[p]
    BY LeaksNothing
  <1>3. \A p \in Pools : Size[p] \in Nat
    BY Constants
  <1>4. /\ left'["pbuf"] + F("pbuf")' + kept' + R' <= Size["pbuf"]
        /\ left'["inpkt"] + F("inpkt")' <= Size["inpkt"]
        /\ left'["api"] + F("api")' <= Size["api"]
    <2> HIDE DEF F, T, H, L, R, N
    <2>1. "pbuf" \in Pools /\ "inpkt" \in Pools /\ "api" \in Pools
      BY PoolNames
    <2>2. left'["pbuf"] + (F("pbuf")' + (H' + N(Frames)' + kept' + L' + R')) = Size["pbuf"]
      BY <1>2, <2>1, AccountsNext
    <2>3. left'["inpkt"] + (F("inpkt")' + (N(Packets)' + T(Packets)')) = Size["inpkt"]
      BY <1>2, <2>1, AccountsNext
    <2>4. left'["api"] + (F("api")' + (N({PoolEmpty})' + T({PoolEmpty})')) = Size["api"]
      BY <1>2, <2>1, AccountsNext
    <2>5. left'["pbuf"] + F("pbuf")' + kept' + R' <= Size["pbuf"]
      BY <1>1, <1>3, <2>1, <2>2
    <2>6. left'["inpkt"] + F("inpkt")' <= Size["inpkt"]
      BY <1>1, <1>3, <2>1, <2>3
    <2>7. left'["api"] + F("api")' <= Size["api"]
      BY <1>1, <1>3, <2>1, <2>4
    <2> QED
      BY <2>5, <2>6, <2>7
  <1>5. \A p \in Pools : left'[p] + F(p)' <= Size[p]
    <2>1. left'["pbuf"] + F("pbuf")' <= Size["pbuf"]
      BY <1>1, <1>3, <1>4, PoolNames
    <2> QED
      BY <1>4, <2>1, PoolNames
  <1>6. \A p \in Pools : left'[p] <= Size[p]
    BY <1>1, <1>3, <1>5
  <1>7. kept' <= Size["pbuf"] /\ left'["pbuf"] + R' <= Size["pbuf"]
    BY <1>1, <1>3, <1>4, PoolNames
  <1>8. freeing' # Nothing => freeing'.pool \in Pools /\ freeing'.seen < Size[freeing'.pool]
    <2>1. CASE freeing' = freeing
      BY <2>1 DEF Room
    <2>2. CASE \E p \in Pools : freeing'.pool = p /\ freeing'.seen = left'[p] /\ F(p)' = 1
      <3>1. PICK p \in Pools : freeing'.pool = p /\ freeing'.seen = left'[p] /\ F(p)' = 1
        BY <2>2
      <3>2. left'[p] + 1 <= Size[p] /\ left'[p] \in Nat /\ Size[p] \in Nat
        BY <1>1, <1>3, <1>5, <3>1
      <3> QED
        BY <3>1, <3>2
    <2> QED
      BY <2>1, <2>2
  <1>9. seen' <= Size["pbuf"] /\ (ftp' = "freeing" => seen' < Size["pbuf"])
    <2>1. CASE UNCHANGED <<ftp, seen>>
      BY <2>1 DEF Room
    <2>2. CASE ftp' = "freeing" /\ seen' = left'["pbuf"]
      <3>1. R' = 1
        BY <2>2, Zenon DEF R, One
      <3>2. left'["pbuf"] \in Nat /\ Size["pbuf"] \in Nat
        BY <1>1, <1>3, PoolNames
      <3> QED
        BY <1>7, <2>2, <3>1, <3>2
    <2> QED
      BY <2>1, <2>2
  <1> QED
    BY <1>6, <1>7, <1>8, <1>9 DEF Room

-----------------------------------------------------------------------------
(* The invariant                                                           *)

LEMMA InitInv == Init => IInv
  <1> SUFFICES ASSUME Init PROVE IInv
    OBVIOUS
  <1>1. Types
    <2>1. <<>> \in Seq(Frames) /\ <<>> \in Seq(Messages) /\ Len(<<>>) = 0
      OBVIOUS
    <2>2. None \in Packets /\ Idle \in Messages \cup {Idle}
      BY DEF Packets
    <2>3. 0 \in 0 .. MaxFrames /\ Len(ring) <= RingSize /\ Len(mbox) <= MboxSize
      BY <2>1, Constants DEF Init
    <2>4. /\ freeing \in [pool : Pools \cup {"none"}, seen : Nat]
          /\ left \in [Pools -> Nat]
      BY Constants DEF Init, Nothing
    <2>5. /\ load \in BOOLEAN /\ asked \in BOOLEAN /\ stale \in BOOLEAN /\ torn \in BOOLEAN
          /\ flag \in BOOLEAN /\ irq \in BOOLEAN
      BY DEF Init
    <2> QED
      BY <2>1, <2>2, <2>3, <2>4, <2>5 DEF Init, Types
  <1>2. FrameForEveryToken /\ HandInUse
    <2>1. InHand = 0 /\ Requested = 0
      BY Zenon DEF Init, InHand, Requested, One
    <2> QED
      BY <2>1 DEF Init, FrameForEveryToken, Behind, HandInUse
  <1>3. /\ H = 0 /\ L = 0 /\ R = 0 /\ T(Packets) = 0 /\ T({PoolEmpty}) = 0
        /\ F("pbuf") = 0 /\ F("inpkt") = 0 /\ F("api") = 0
    <2>1. H = 0
      BY Zenon DEF Init, H, One
    <2>2. ~(thread \in Frames /\ load) /\ thread \notin Packets /\ thread \notin {PoolEmpty}
      BY MessageKinds DEF Init
    <2>3. L = 0 /\ T(Packets) = 0 /\ T({PoolEmpty}) = 0
      BY <2>2, Zenon DEF L, T, One
    <2>4. ~(ftp = "freeing") /\ freeing.pool = "none"
      BY DEF Init, Nothing
    <2>5. freeing.pool # "pbuf" /\ freeing.pool # "inpkt" /\ freeing.pool # "api"
      BY <2>4
    <2> QED
      BY <2>1, <2>3, <2>4, <2>5, Zenon DEF R, F, One
  <1>4. N(Frames) = 0 /\ N(Packets) = 0 /\ N({PoolEmpty}) = 0
    BY CountEmpty DEF Init, N
  <1>5. NothingLeaks
    <2>1. left = Size /\ kept = 0
      BY DEF Init
    <2>2. Size["pbuf"] \in Nat /\ Size["inpkt"] \in Nat /\ Size["api"] \in Nat
      BY Constants, PoolNames
    <2>3. /\ Account("pbuf") = Size["pbuf"] /\ Account("inpkt") = Size["inpkt"]
          /\ Account("api") = Size["api"]
      BY <1>3, <1>4, <2>1, <2>2, AccountsAre
    <2> QED
      BY <2>3, PoolNames, LeaksNothing
  <1>6. Room
    <2>1. /\ left = Size /\ kept = 0 /\ seen = 0 /\ ~(ftp = "freeing") /\ freeing = Nothing
          /\ \A p \in Pools : Size[p] \in Nat
      BY Constants DEF Init
    <2> QED
      BY <2>1, PoolNames DEF Room
  <1> QED
    BY <1>1, <1>2, <1>5, <1>6 DEF IInv

\* A step after which a pool may be torn, or that leaves the accounts alone.
LEMMA RoomSame ==
    ASSUME Room, UNCHANGED <<left, freeing, ftp, seen, kept>>
    PROVE  Room'
  BY DEF Room

LEMMA BehindTypes ==
    ASSUME Types
    PROVE  /\ InHand \in {0, 1} /\ Requested \in {0, 1}
           /\ Len(ring) \in Nat /\ tokens \in Nat /\ Behind \in Int
  <1>1. InHand \in {0, 1} /\ Requested \in {0, 1}
    BY DEF InHand, Requested, One
  <1> QED
    BY <1>1 DEF Types, Behind

LEMMA DeviceStep ==
    ASSUME IInv, Device
    PROVE  IInv' /\ Behind' >= Behind
  <1>1. UNCHANGED <<eth, hand, stack>>
    BY DEF Device, FrameArrives, Interrupt, ClearFlag
  <1>2. NothingLeaks' /\ HandInUse' /\ Room'
    BY <1>1, SameAccounts, RoomSame DEF IInv, HandInUse, stack, threadVars, ftpTask
  <1>3. InHand' = InHand
    BY <1>1 DEF InHand
  <1>4. /\ InHand \in {0, 1} /\ Requested \in {0, 1} /\ Requested' \in {0, 1}
        /\ tokens \in Nat /\ Len(ring) \in Nat /\ ring \in Seq(Frames)
        /\ sent \in 0 .. MaxFrames /\ Behind >= 0 /\ Behind \in Int
    BY BehindTypes DEF InHand, Requested, One, IInv, Types, FrameForEveryToken
  <1>5. ASSUME /\ sent' \in 0 .. MaxFrames
               /\ ring' \in Seq(Frames) /\ Len(ring') <= RingSize
               /\ flag' \in BOOLEAN /\ irq' \in BOOLEAN /\ tokens' \in Nat,
               Behind' >= Behind, Behind' \in Int
        PROVE  IInv' /\ Behind' >= Behind
    <2>1. Types'
      BY <1>1, <1>5 DEF IInv, Types, stack, threadVars, ftpTask
    <2>2. FrameForEveryToken'
      BY <1>4, <1>5 DEF FrameForEveryToken
    <2> QED
      BY <1>2, <1>5, <2>1, <2>2 DEF IInv
  <1>6. CASE FrameArrives
    <2>1. sent' \in Frames /\ sent' \in 0 .. MaxFrames
      BY <1>4, <1>6, Constants DEF FrameArrives, Frames
    <2>2. UNCHANGED <<irq, tokens>>
      BY <1>6 DEF FrameArrives
    <2>3. CASE Len(ring) < RingSize /\ ring' = Append(ring, sent') /\ flag' = TRUE
      <3>1. ring' \in Seq(Frames) /\ Len(ring') = Len(ring) + 1 /\ Len(ring') <= RingSize
        BY <2>1, <2>3, <1>4, Constants
      <3>2. Behind' >= Behind /\ Behind' \in Int
        BY <1>3, <1>4, <2>2, <3>1 DEF Behind
      <3>3. flag' \in BOOLEAN /\ irq' \in BOOLEAN /\ tokens' \in Nat
        BY <2>2, <2>3 DEF IInv, Types
      <3> QED
        BY <1>5, <2>1, <3>1, <3>2, <3>3
    <2>4. CASE UNCHANGED <<ring, flag>>
      <3>1. Requested' = Requested
        BY <2>2, <2>4 DEF Requested
      <3>2. Behind' = Behind
        BY <1>3, <2>2, <2>4, <3>1 DEF Behind
      <3>3. /\ flag' \in BOOLEAN /\ irq' \in BOOLEAN /\ tokens' \in Nat
            /\ ring' \in Seq(Frames) /\ Len(ring') <= RingSize
        BY <2>2, <2>4 DEF IInv, Types
      <3> QED
        BY <1>4, <1>5, <2>1, <3>2, <3>3
    <2> QED
      BY <1>6, <2>3, <2>4 DEF FrameArrives
  <1>7. CASE Interrupt
    <2>1. Requested = 1 /\ Requested' = 0
      BY <1>7, Zenon DEF Interrupt, Requested, One
    <2>2. UNCHANGED <<sent, ring, flag>> /\ irq' = TRUE
      BY <1>7 DEF Interrupt
    <2>3. tokens' \in Nat /\ tokens' <= tokens + 1
      <3>1. tokens' = tokens \/ tokens' = tokens + 1
        BY <1>7 DEF Interrupt
      <3> QED
        BY <1>4, <3>1
    <2>4. Behind' >= Behind /\ Behind' \in Int
      BY <1>3, <1>4, <2>1, <2>2, <2>3 DEF Behind
    <2>5. /\ flag' \in BOOLEAN /\ irq' \in BOOLEAN /\ sent' \in 0 .. MaxFrames
          /\ ring' \in Seq(Frames) /\ Len(ring') <= RingSize
      BY <2>2 DEF IInv, Types
    <2> QED
      BY <1>5, <2>3, <2>4, <2>5
  <1>8. CASE ClearFlag
    <2>1. Requested = 0 /\ Requested' = 0
      BY <1>8, Zenon DEF ClearFlag, Requested, One
    <2>2. UNCHANGED <<sent, ring, tokens>> /\ irq' = FALSE /\ flag' = FALSE
      BY <1>8 DEF ClearFlag
    <2>3. Behind' = Behind
      BY <1>3, <2>1, <2>2 DEF Behind
    <2>4. /\ flag' \in BOOLEAN /\ irq' \in BOOLEAN /\ sent' \in 0 .. MaxFrames
          /\ ring' \in Seq(Frames) /\ Len(ring') <= RingSize /\ tokens' \in Nat
      BY <2>2 DEF IInv, Types
    <2> QED
      BY <1>4, <1>5, <2>3, <2>4
  <1> QED
    BY <1>6, <1>7, <1>8 DEF Device

\* What the Eth_if task and the thread do not touch.
LEMMA SameRequest == UNCHANGED <<flag, irq>> => Requested' = Requested
  BY DEF Requested

\* The message for pbuf_free_ooseq has an element of its own.
LEMMA AskStep ==
    ASSUME Types, ~torn, AskForPbufs, UNCHANGED <<freeing, hand, kept, thread, load, ftp>>
    PROVE  /\ mbox' \in Seq(Messages) /\ Len(mbox') <= MboxSize
           /\ left' \in [Pools -> Nat] /\ stale' \in BOOLEAN /\ asked' \in BOOLEAN
           /\ Account("pbuf")' = Account("pbuf") /\ Account("inpkt")' = Account("inpkt")
           /\ Account("api")' = Account("api")
  <1>1. /\ F("pbuf")' = F("pbuf") /\ F("inpkt")' = F("inpkt") /\ F("api")' = F("api")
        /\ H' = H /\ L' = L /\ R' = R /\ kept' = kept /\ T(Packets)' = T(Packets) /\ T({PoolEmpty})' = T({PoolEmpty})
    BY SameThread DEF F, H, L, R
  <1>2. CASE /\ left["api"] > 0 /\ Len(mbox) < MboxSize /\ asked' = TRUE
             /\ Listed("api", left["api"] - 1) /\ mbox' = Append(mbox, PoolEmpty)
    <2>1. left["api"] - 1 \in Nat /\ left["api"] \in Nat
      BY <1>2, PoolNames DEF Types
    <2>2. /\ left' \in [Pools -> Nat] /\ stale' \in BOOLEAN
          /\ left'["api"] = left["api"] - 1
          /\ left'["pbuf"] = left["pbuf"] /\ left'["inpkt"] = left["inpkt"]
      BY <1>2, <2>1, ListStep, PoolNames
    <2>3. PoolEmpty \in Messages
      BY MessageKinds
    <2>4. /\ mbox' \in Seq(Messages) /\ Len(mbox') <= MboxSize
          /\ \A S : N(S)' = N(S) + One(PoolEmpty \in S)
      BY <1>2, <2>3, Posted
    <2>5. /\ One(PoolEmpty \in Frames) = 0 /\ One(PoolEmpty \in Packets) = 0
          /\ One(PoolEmpty \in {PoolEmpty}) = 1
      BY MessageKinds, Zenon DEF One
    <2>6. /\ N(Frames)' = N(Frames) + 0 /\ N(Packets)' = N(Packets) + 0
          /\ N({PoolEmpty})' = N({PoolEmpty}) + 1
      BY <2>4, <2>5
    <2>7. Account("pbuf")' = Account("pbuf") /\ Account("inpkt")' = Account("inpkt")
          /\ Account("api")' = Account("api")
      <3>1. T(Packets)' = T(Packets) /\ T({PoolEmpty})' = T({PoolEmpty})
        BY <1>1
      <3>2. /\ F("pbuf")' = F("pbuf") /\ F("inpkt")' = F("inpkt") /\ F("api")' = F("api")
            /\ H' = H /\ L' = L /\ R' = R /\ kept' = kept
        BY <1>1
      <3> QED
        BY <2>2, <2>6, <3>1, <3>2, TermTypes, AccountsAre, AccountsNext
    <2> QED
      BY <1>2, <2>2, <2>4, <2>7
  <1>3. CASE UNCHANGED <<asked, left, stale, mbox>>
    <2>1. N(Frames)' = N(Frames) /\ N(Packets)' = N(Packets) /\ N({PoolEmpty})' = N({PoolEmpty})
      BY <1>3, SameMbox
    <2>2. Account("pbuf")' = Account("pbuf") /\ Account("inpkt")' = Account("inpkt")
          /\ Account("api")' = Account("api")
      BY <1>1, <1>3, <2>1, AccountsAre, AccountsNext
    <2> QED
      BY <1>3, <2>2 DEF Types
  <1> QED
    BY <1>2, <1>3 DEF AskForPbufs

LEMMA EthTaskStep ==
    ASSUME IInv, EthTask
    PROVE  IInv' /\ Behind' >= Behind
  <1>1. /\ UNCHANGED <<sent, flag, irq, threadVars, kept, ftpTask, torn>> /\ ~torn
        /\ Requested' = Requested
    BY SameRequest DEF EthTask, TakeToken, Read, Input, stack, interrupt, Whole
  <1>2. Types /\ FrameForEveryToken /\ NothingLeaks /\ HandInUse /\ Room
    BY DEF IInv
  <1>3. /\ UNCHANGED <<thread, load, freeing, got, ftp, seen>>
        /\ F("pbuf")' = F("pbuf") /\ F("inpkt")' = F("inpkt") /\ F("api")' = F("api")
        /\ L' = L /\ R' = R /\ kept' = kept /\ T(Packets)' = T(Packets) /\ T({PoolEmpty})' = T({PoolEmpty})
    BY <1>1, SameThread DEF F, L, R, threadVars, ftpTask
  <1>4. CASE TakeToken
    <2>1. InHand = 0 /\ InHand' = 1
      BY <1>4, Zenon DEF TakeToken, InHand, One
    <2>2. /\ UNCHANGED <<ring, hand, stack>> /\ tokens' = tokens - 1
          /\ tokens > 0 /\ eth = "waiting" /\ eth' = "token"
      BY <1>4 DEF TakeToken
    <2>3. Behind' = Behind
      BY <1>1, <1>2, <2>1, <2>2, BehindTypes DEF Behind
    <2>4. tokens' \in Nat
      BY <1>2, <2>2 DEF Types
    <2>5. Types'
      BY <1>1, <1>2, <2>2, <2>4 DEF Types, stack, threadVars, ftpTask
    <2>6. NothingLeaks' /\ Room' /\ HandInUse'
      BY <1>2, <2>2, SameAccounts, RoomSame DEF HandInUse, stack, threadVars, ftpTask
    <2> QED
      BY <1>2, <2>3, <2>5, <2>6, BehindTypes DEF IInv, FrameForEveryToken
  <1>5. CASE Read
    <2>1. InHand = 1 /\ InHand' = 0
      BY <1>5, Zenon DEF Read, InHand, One
    <2>2. /\ ring # <<>> /\ ring' = Tail(ring) /\ eth = "token" /\ eth' = "input"
          /\ UNCHANGED tokens
      BY <1>5 DEF Read
    <2>3. Head(ring) \in Frames /\ ring' \in Seq(Frames) /\ Len(ring') = Len(ring) - 1
      BY <1>2, <2>2 DEF Types
    <2>4. Behind' = Behind /\ Behind \in Int
      BY <1>1, <1>2, <2>1, <2>2, <2>3, BehindTypes DEF Behind
    <2>5. hand = None /\ H = 0
      <3>1. hand = None
        BY <1>2, <2>2 DEF HandInUse
      <3> QED
        BY <3>1, Zenon DEF H, One
    <2>6. /\ hand' \in Packets /\ asked' \in BOOLEAN
          /\ mbox' \in Seq(Messages) /\ Len(mbox') <= MboxSize
          /\ left' \in [Pools -> Nat] /\ stale' \in BOOLEAN
          /\ Account("pbuf")' = Account("pbuf") /\ Account("inpkt")' = Account("inpkt")
          /\ Account("api")' = Account("api")
      <3>1. CASE /\ left["pbuf"] > 0 /\ Listed("pbuf", left["pbuf"] - 1)
                 /\ hand' = Head(ring) /\ UNCHANGED <<asked, mbox>>
        <4>1. left["pbuf"] - 1 \in Nat /\ left["pbuf"] \in Nat
          BY <1>2, <3>1, PoolNames DEF Types
        <4>2. /\ left' \in [Pools -> Nat] /\ stale' \in BOOLEAN
              /\ left'["pbuf"] = left["pbuf"] - 1
              /\ left'["inpkt"] = left["inpkt"] /\ left'["api"] = left["api"]
          BY <1>2, <3>1, <4>1, ListStep, PoolNames
        <4>3. hand' \in Packets /\ H' = 1
          <5>1. hand' \in Frames /\ hand' # None
            BY <2>3, <3>1, Constants
          <5>2. H' = 1
            BY <5>1, Zenon DEF H, One
          <5> QED
            BY <5>1, <5>2 DEF Packets
        <4>4. N(Frames)' = N(Frames) /\ N(Packets)' = N(Packets) /\ N({PoolEmpty})' = N({PoolEmpty})
          BY <3>1, SameMbox
        <4>5. Account("pbuf")' = Account("pbuf") /\ Account("inpkt")' = Account("inpkt")
              /\ Account("api")' = Account("api")
          <5>1. T(Packets)' = T(Packets) /\ T({PoolEmpty})' = T({PoolEmpty})
            BY <1>3
          <5>2. /\ F("pbuf")' = F("pbuf") /\ F("inpkt")' = F("inpkt") /\ F("api")' = F("api")
               /\ L' = L /\ R' = R /\ kept' = kept
            BY <1>3
          <5>3. /\ N(Frames)' = N(Frames) /\ N(Packets)' = N(Packets)
               /\ N({PoolEmpty})' = N({PoolEmpty})
            BY <4>4
          <5> QED
            BY <1>2, <2>5, <4>2, <4>3, <5>1, <5>2, <5>3, TermTypes, AccountsAre, AccountsNext
        <4> QED
          BY <1>2, <3>1, <4>2, <4>3, <4>5 DEF Types
      <3>2. CASE AskForPbufs /\ hand' = None
        <4>1. hand' \in Packets /\ hand' = hand
          BY <2>5, <3>2 DEF Packets
        <4> QED
          BY <1>1, <1>2, <1>3, <3>2, <4>1, AskStep
      <3> QED
        BY <1>5, <3>1, <3>2 DEF Read
    <2>7. Types'
      <3>1. Len(ring') <= RingSize
        BY <1>2, <2>3, BehindTypes, Constants DEF Types
      <3>2. eth' \in {"waiting", "token", "input"} /\ tokens' \in Nat
        BY <1>2, <2>2 DEF Types
      <3> QED
        BY <1>1, <1>2, <1>3, <2>3, <2>6, <3>1, <3>2 DEF Types
    <2>8. NothingLeaks'
      BY <1>1, <1>2, <2>6, Balanced
    <2>9. Room'
      BY <1>1, <1>2, <1>3, <2>7, <2>8, RoomKept
    <2> QED
      BY <1>2, <2>2, <2>4, <2>7, <2>8, <2>9 DEF IInv, FrameForEveryToken, HandInUse
  <1>6. CASE Input
    <2>1. InHand = 0 /\ InHand' = 0
      BY <1>6, Zenon DEF Input, InHand, One
    <2>2. /\ eth = "input" /\ eth' = "waiting" /\ hand' = None
          /\ UNCHANGED <<ring, tokens, asked>>
      BY <1>6 DEF Input
    <2>3. Behind' = Behind /\ Behind \in Int
      BY <1>1, <1>2, <2>1, <2>2, BehindTypes DEF Behind
    <2>4. H' = 0 /\ None \in Packets /\ hand \in Packets /\ hand \in Messages
      <3>1. H' = 0
        BY <2>2, Zenon DEF H, One
      <3> QED
        BY <1>2, <3>1, MessageKinds DEF Types
    <2>5. CASE /\ left["inpkt"] > 0 /\ Len(mbox) < MboxSize
               /\ Listed("inpkt", left["inpkt"] - 1) /\ mbox' = Append(mbox, hand)
      <3>1. left["inpkt"] - 1 \in Nat /\ left["inpkt"] \in Nat
        BY <1>2, <2>5, PoolNames DEF Types
      <3>2. /\ left' \in [Pools -> Nat] /\ stale' \in BOOLEAN
            /\ left'["inpkt"] = left["inpkt"] - 1
            /\ left'["pbuf"] = left["pbuf"] /\ left'["api"] = left["api"]
        BY <1>2, <2>5, <3>1, ListStep, PoolNames
      <3>3. /\ mbox' \in Seq(Messages) /\ Len(mbox') <= MboxSize
            /\ \A S : N(S)' = N(S) + One(hand \in S)
        BY <1>2, <2>4, <2>5, Posted
      <3>4. /\ One(hand \in Packets) = 1 /\ One(hand \in Frames) = H
            /\ One(hand \in {PoolEmpty}) = 0
        <4>1. /\ hand \in Frames <=> hand # None
              /\ hand \notin {PoolEmpty}
          BY <2>4, MessageKinds
        <4> QED
          BY <2>4, <4>1, Zenon DEF One, H
      <3>5. /\ N(Frames)' = N(Frames) + H /\ N(Packets)' = N(Packets) + 1
            /\ N({PoolEmpty})' = N({PoolEmpty}) + 0
        BY <3>3, <3>4
      <3>6. Account("pbuf")' = Account("pbuf") /\ Account("inpkt")' = Account("inpkt")
            /\ Account("api")' = Account("api")
        <4>1. T(Packets)' = T(Packets) /\ T({PoolEmpty})' = T({PoolEmpty})
          BY <1>3
        <4>2. /\ F("pbuf")' = F("pbuf") /\ F("inpkt")' = F("inpkt") /\ F("api")' = F("api")
             /\ L' = L /\ R' = R /\ kept' = kept
          BY <1>3
        <4> QED
          BY <1>2, <2>4, <3>2, <3>5, <4>1, <4>2, TermTypes, AccountsAre, AccountsNext
      <3>7. NothingLeaks'
        BY <1>1, <1>2, <3>6, Balanced
      <3>8. Types'
        BY <1>1, <1>2, <1>3, <2>2, <2>4, <3>2, <3>3 DEF Types
      <3>9. Room'
        BY <1>1, <1>2, <1>3, <3>7, <3>8, RoomKept
      <3> QED
        BY <1>2, <2>2, <2>3, <3>7, <3>8, <3>9 DEF IInv, FrameForEveryToken, HandInUse
    <2>6. CASE /\ \/ hand = None /\ UNCHANGED <<left, stale>>
                  \/ hand # None /\ Listed("pbuf", left["pbuf"] + 1)
               /\ UNCHANGED mbox
      <3>1. left["pbuf"] \in Nat /\ left["pbuf"] + 1 \in Nat
        BY <1>2, PoolNames DEF Types
      <3>2. /\ left' \in [Pools -> Nat] /\ stale' \in BOOLEAN
            /\ left'["pbuf"] = left["pbuf"] + H
            /\ left'["inpkt"] = left["inpkt"] /\ left'["api"] = left["api"]
        <4>1. CASE hand = None /\ UNCHANGED <<left, stale>>
          <5>1. H = 0
            BY <4>1, Zenon DEF H, One
          <5> QED
            BY <1>2, <3>1, <4>1, <5>1 DEF Types
        <4>2. CASE hand # None /\ Listed("pbuf", left["pbuf"] + 1)
          <5>1. H = 1
            BY <4>2, Zenon DEF H, One
          <5> QED
            BY <1>2, <3>1, <4>2, <5>1, ListStep, PoolNames
        <4> QED
          BY <2>6, <4>1, <4>2
      <3>3. N(Frames)' = N(Frames) /\ N(Packets)' = N(Packets) /\ N({PoolEmpty})' = N({PoolEmpty})
        BY <2>6, SameMbox
      <3>4. Account("pbuf")' = Account("pbuf") /\ Account("inpkt")' = Account("inpkt")
            /\ Account("api")' = Account("api")
        <4>1. T(Packets)' = T(Packets) /\ T({PoolEmpty})' = T({PoolEmpty})
          BY <1>3
        <4>2. /\ F("pbuf")' = F("pbuf") /\ F("inpkt")' = F("inpkt") /\ F("api")' = F("api")
             /\ L' = L /\ R' = R /\ kept' = kept
          BY <1>3
        <4>3. /\ N(Frames)' = N(Frames) /\ N(Packets)' = N(Packets)
             /\ N({PoolEmpty})' = N({PoolEmpty})
          BY <3>3
        <4> QED
          BY <1>2, <2>4, <3>2, <4>1, <4>2, <4>3, TermTypes, AccountsAre, AccountsNext
      <3>5. NothingLeaks'
        BY <1>1, <1>2, <3>4, Balanced
      <3>6. Types'
        BY <1>1, <1>2, <1>3, <2>2, <2>4, <2>6, <3>2 DEF Types
      <3>7. Room'
        BY <1>1, <1>2, <1>3, <3>5, <3>6, RoomKept
      <3> QED
        BY <1>2, <2>2, <2>3, <3>5, <3>6, <3>7 DEF IInv, FrameForEveryToken, HandInUse
    <2> QED
      BY <1>6, <2>5, <2>6 DEF Input
  <1> QED
    BY <1>4, <1>5, <1>6 DEF EthTask


\* A step of the thread or of the FTP task that keeps the accounts.
LEMMA Accounted ==
    ASSUME IInv, Types', ~torn, ~torn', UNCHANGED device,
           Account("pbuf")' = Account("pbuf"),
           Account("inpkt")' = Account("inpkt"),
           Account("api")' = Account("api"),
           \/ freeing' = freeing
           \/ freeing' = Nothing
           \/ \E p \in Pools : freeing'.pool = p /\ freeing'.seen = left'[p] /\ F(p)' = 1,
           \/ UNCHANGED <<ftp, seen>>
           \/ ftp' = "freeing" /\ seen' = left'["pbuf"]
    PROVE  IInv' /\ Behind' = Behind
  <1>1. NothingLeaks'
    BY Balanced DEF IInv
  <1>2. Room'
    BY <1>1, RoomKept DEF IInv
  <1>3. InHand' = InHand /\ Requested' = Requested /\ Behind' = Behind
    BY DEF device, interrupt, InHand, Requested, Behind
  <1> QED
    BY <1>1, <1>2, <1>3 DEF IInv, FrameForEveryToken, HandInUse, device

\* Nor does one that tears a pool, with heads that have room.
LEMMA Torn ==
    ASSUME IInv, Types', torn', UNCHANGED device, Room'
    PROVE  IInv' /\ Behind' = Behind
  <1>1. InHand' = InHand /\ Requested' = Requested /\ Behind' = Behind
    BY DEF device, interrupt, InHand, Requested, Behind
  <1>2. NothingLeaks'
    BY DEF NothingLeaks
  <1> QED
    BY <1>1, <1>2 DEF IInv, FrameForEveryToken, HandInUse, device

LEMMA FetchStep ==
    ASSUME IInv, Fetch
    PROVE  IInv' /\ Behind' = Behind
  <1>1. /\ Types /\ ~torn /\ ~torn'
        /\ UNCHANGED device /\ UNCHANGED <<sent, ring, flag, irq, tokens, eth, hand>>
        /\ UNCHANGED <<freeing, asked, kept, ftp, seen, stale, left, torn>>
        /\ mbox # <<>> /\ mbox' = Tail(mbox) /\ thread = Idle /\ thread' = Head(mbox)
        /\ load' = (Head(mbox) \in Frames \cup {PoolEmpty})
        /\ got' = IF Head(mbox) \in Frames THEN Append(got, Head(mbox)) ELSE got
    BY DEF IInv, Fetch, device, interrupt, ftpTask, Whole
  <1>2. Head(mbox) \in Messages /\ mbox' \in Seq(Messages) /\ Len(mbox') = Len(mbox) - 1
    BY <1>1 DEF Types
  <1>3. \A S : N(S) = N(S)' + One(Head(mbox) \in S)
    <2>1. \A S : Count(mbox, S) = Count(Tail(mbox), S) + One(Head(mbox) \in S)
      BY <1>1, CountTail DEF Types
    <2> QED
      BY <1>1, <2>1 DEF N
  <1>4. /\ F("pbuf")' = F("pbuf") /\ F("inpkt")' = F("inpkt") /\ F("api")' = F("api")
        /\ H' = H /\ R' = R /\ \A S : T(S)' = One(Head(mbox) \in S)
    BY <1>1 DEF F, H, R, T
  <1>5. T(Packets) = 0 /\ T({PoolEmpty}) = 0 /\ L = 0
    <2>1. thread \notin Packets /\ thread \notin {PoolEmpty} /\ ~(thread \in Frames /\ load)
      BY <1>1, MessageKinds
    <2> QED
      BY <2>1, Zenon DEF T, L, One
  <1>6. L' = One(Head(mbox) \in Frames)
    <2>1. (thread' \in Frames /\ load') <=> Head(mbox) \in Frames
      BY <1>1
    <2> QED
      BY <2>1, Zenon DEF L, One
  <1>7. /\ Account("pbuf")' = Account("pbuf") /\ Account("inpkt")' = Account("inpkt")
        /\ Account("api")' = Account("api")
    <2>1. \A S : One(Head(mbox) \in S) \in {0, 1}
      BY DEF One
    <2>2. \A S : N(S)' \in Nat
      BY <1>2, CountType DEF N
    <2> QED
      <3>1. /\ N(Frames) = N(Frames)' + L'
            /\ N(Packets) = N(Packets)' + T(Packets)'
            /\ N({PoolEmpty}) = N({PoolEmpty})' + T({PoolEmpty})'
        BY <1>3, <1>4, <1>6
      <3>2. /\ F("pbuf")' = F("pbuf") /\ F("inpkt")' = F("inpkt") /\ F("api")' = F("api")
            /\ H' = H /\ R' = R /\ kept' = kept /\ left' = left
        BY <1>1, <1>4
      <3>3. /\ N(Frames)' \in Nat /\ N(Packets)' \in Nat /\ N({PoolEmpty})' \in Nat
            /\ T(Packets)' \in {0, 1} /\ T({PoolEmpty})' \in {0, 1} /\ L' \in {0, 1}
        BY <1>4, <1>6, <2>1, <2>2
      <3>4. Types
        BY <1>1
      <3>5. L = 0 /\ T(Packets) = 0 /\ T({PoolEmpty}) = 0
        BY <1>5
      <3>6. Account("pbuf")' = Account("pbuf")
        BY <3>1, <3>2, <3>3, <3>4, <3>5, TermTypes, AccountsAre, AccountsNext
      <3>7. Account("inpkt")' = Account("inpkt") /\ Account("api")' = Account("api")
        BY <3>1, <3>2, <3>3, <3>4, <3>5, TermTypes, AccountsAre, AccountsNext
      <3> QED
        BY <3>6, <3>7
  <1>8. Types'
    <2>1. got' \in Seq(Frames)
      BY <1>1 DEF Types
    <2>2. load' \in BOOLEAN
      BY <1>1
    <2>3. Len(mbox') <= MboxSize
      BY <1>1, <1>2, Constants DEF Types
    <2> QED
      BY <1>1, <1>2, <2>1, <2>2, <2>3 DEF Types
  <1> QED
    BY <1>1, <1>7, <1>8, Accounted

LEMMA FrameDoneStep ==
    ASSUME IInv, FrameDone
    PROVE  IInv' /\ Behind' = Behind
  <1>1. /\ Types /\ ~torn /\ ~torn'
        /\ UNCHANGED device /\ UNCHANGED <<sent, ring, flag, irq, tokens, eth, hand>>
        /\ UNCHANGED <<mbox, thread, asked, ftp, seen, stale, left, torn, got>>
        /\ freeing = Nothing /\ thread \in Frames /\ load /\ load' = FALSE
    BY DEF IInv, FrameDone, device, interrupt, ftpTask, Whole, Free
  <1>2. /\ H' = H /\ R' = R
        /\ T(Packets)' = T(Packets) /\ T({PoolEmpty})' = T({PoolEmpty})
        /\ N(Frames)' = N(Frames) /\ N(Packets)' = N(Packets) /\ N({PoolEmpty})' = N({PoolEmpty})
    BY <1>1, SameThread, SameMbox DEF H, R
  <1>3. L = 1 /\ L' = 0
    BY <1>1, Zenon DEF L, One
  <1>4. load' \in BOOLEAN
    BY <1>1
  <1>5. CASE BeginFree("pbuf") /\ UNCHANGED kept
    <2>1. /\ freeing' \in [pool : Pools \cup {"none"}, seen : Nat]
          /\ freeing'.pool = "pbuf" /\ freeing'.seen = left["pbuf"]
          /\ F("pbuf") = 0 /\ F("pbuf")' = 1
          /\ F("inpkt")' = F("inpkt") /\ F("api")' = F("api")
      BY <1>1, <1>5, FreeBegun, PoolNames
    <2>2. Types'
      BY <1>1, <1>4, <1>5, <2>1 DEF Types
    <2>3. /\ Account("pbuf")' = Account("pbuf") /\ Account("inpkt")' = Account("inpkt")
          /\ Account("api")' = Account("api")
      BY <1>1, <1>2, <1>3, <1>5, <2>1, TermTypes, AccountsAre, AccountsNext
    <2>4. \E p \in Pools : freeing'.pool = p /\ freeing'.seen = left'[p] /\ F(p)' = 1
      BY <1>1, <2>1, PoolNames
    <2> QED
      BY <1>1, <2>2, <2>3, <2>4, Accounted
  <1>6. CASE kept' = kept + 1 /\ UNCHANGED freeing
    <2>1. F("pbuf")' = F("pbuf") /\ F("inpkt")' = F("inpkt") /\ F("api")' = F("api")
      BY <1>6 DEF F
    <2>2. Types'
      BY <1>1, <1>4, <1>6 DEF Types
    <2>3. /\ Account("pbuf")' = Account("pbuf") /\ Account("inpkt")' = Account("inpkt")
          /\ Account("api")' = Account("api")
      BY <1>1, <1>2, <1>3, <1>6, <2>1, TermTypes, AccountsAre, AccountsNext
    <2> QED
      BY <1>1, <1>6, <2>2, <2>3, Accounted
  <1> QED
    BY <1>5, <1>6 DEF FrameDone

LEMMA AskedClearedStep ==
    ASSUME IInv, AskedCleared
    PROVE  IInv' /\ Behind' = Behind
  <1>1. /\ Types /\ ~torn /\ ~torn'
        /\ UNCHANGED device /\ UNCHANGED <<sent, ring, flag, irq, tokens, eth, hand>>
        /\ UNCHANGED <<mbox, thread, freeing, kept, ftp, seen, stale, left, torn, got>>
        /\ thread = PoolEmpty /\ load' = FALSE /\ asked' = FALSE
    BY DEF IInv, AskedCleared, device, interrupt, ftpTask, Whole
  <1>2. load' \in BOOLEAN /\ asked' \in BOOLEAN
    BY <1>1
  <1>3. Types'
    BY <1>1, <1>2 DEF Types
  <1>4. ~(thread \in Frames /\ load) /\ ~(thread' \in Frames /\ load')
    BY <1>1, MessageKinds
  <1>5. L' = L
    BY <1>4, Zenon DEF L, One
  <1>6. /\ F("pbuf")' = F("pbuf") /\ F("inpkt")' = F("inpkt") /\ F("api")' = F("api")
        /\ H' = H /\ R' = R
        /\ T(Packets)' = T(Packets) /\ T({PoolEmpty})' = T({PoolEmpty})
        /\ N(Frames)' = N(Frames) /\ N(Packets)' = N(Packets) /\ N({PoolEmpty})' = N({PoolEmpty})
    BY <1>1, SameThread, SameMbox DEF F, H, R
  <1>7. /\ Account("pbuf")' = Account("pbuf") /\ Account("inpkt")' = Account("inpkt")
        /\ Account("api")' = Account("api")
    BY <1>1, <1>5, <1>6, AccountsAre, AccountsNext
  <1> QED
    BY <1>1, <1>3, <1>7, Accounted

LEMMA KeptFreedStep ==
    ASSUME IInv, KeptFreed
    PROVE  IInv' /\ Behind' = Behind
  <1>1. /\ Types /\ ~torn /\ ~torn'
        /\ UNCHANGED device /\ UNCHANGED <<sent, ring, flag, irq, tokens, eth, hand>>
        /\ UNCHANGED <<mbox, thread, load, asked, ftp, seen, stale, left, torn, got>>
        /\ freeing = Nothing /\ kept > 0 /\ kept' = kept - 1 /\ BeginFree("pbuf")
    BY DEF IInv, KeptFreed, device, interrupt, ftpTask, Whole, Free
  <1>2. /\ H' = H /\ R' = R /\ L' = L
        /\ T(Packets)' = T(Packets) /\ T({PoolEmpty})' = T({PoolEmpty})
        /\ N(Frames)' = N(Frames) /\ N(Packets)' = N(Packets) /\ N({PoolEmpty})' = N({PoolEmpty})
    BY <1>1, SameThread, SameMbox DEF H, R, L
  <1>3. /\ freeing' \in [pool : Pools \cup {"none"}, seen : Nat]
        /\ freeing'.pool = "pbuf" /\ freeing'.seen = left["pbuf"]
        /\ F("pbuf") = 0 /\ F("pbuf")' = 1
        /\ F("inpkt")' = F("inpkt") /\ F("api")' = F("api")
    BY <1>1, FreeBegun, PoolNames
  <1>4. kept \in Nat /\ kept' \in Nat
    BY <1>1 DEF Types
  <1>5. Types'
    BY <1>1, <1>3, <1>4 DEF Types
  <1>6. /\ Account("pbuf")' = Account("pbuf") /\ Account("inpkt")' = Account("inpkt")
        /\ Account("api")' = Account("api")
    BY <1>1, <1>2, <1>3, <1>4, TermTypes, AccountsAre, AccountsNext
  <1>7. \E p \in Pools : freeing'.pool = p /\ freeing'.seen = left'[p] /\ F(p)' = 1
    BY <1>1, <1>3, PoolNames
  <1> QED
    BY <1>1, <1>5, <1>6, <1>7, Accounted

LEMMA MessageDoneStep ==
    ASSUME IInv, MessageDone
    PROVE  IInv' /\ Behind' = Behind
  <1>1. /\ Types /\ ~torn /\ ~torn'
        /\ UNCHANGED device /\ UNCHANGED <<sent, ring, flag, irq, tokens, eth, hand>>
        /\ UNCHANGED <<mbox, load, asked, kept, ftp, seen, stale, left, torn, got>>
        /\ freeing = Nothing /\ thread # Idle /\ ~load /\ thread' = Idle
    BY DEF IInv, MessageDone, device, interrupt, ftpTask, Whole, Free
  <1>2. H' = H /\ R' = R /\ N(Frames)' = N(Frames) /\ N(Packets)' = N(Packets) /\ N({PoolEmpty})' = N({PoolEmpty})
    BY <1>1, SameMbox DEF H, R
  <1>3. T(Packets)' = 0 /\ T({PoolEmpty})' = 0
    <2>1. thread' \notin Packets /\ thread' \notin {PoolEmpty}
      BY <1>1, MessageKinds
    <2> QED
      BY <2>1, Zenon DEF T, One
  <1>4. L' = 0 /\ L = 0
    BY <1>1, Zenon DEF L, One
  <1>5. CASE thread \in Packets /\ BeginFree("inpkt")
    <2>1. T(Packets) = 1 /\ T({PoolEmpty}) = 0
      <3>1. thread \notin {PoolEmpty}
        BY <1>5, MessageKinds
      <3> QED
        BY <1>5, <3>1, Zenon DEF T, One
    <2>2. /\ freeing' \in [pool : Pools \cup {"none"}, seen : Nat]
          /\ freeing'.pool = "inpkt" /\ freeing'.seen = left["inpkt"]
          /\ F("inpkt") = 0 /\ F("inpkt")' = 1
          /\ F("pbuf")' = F("pbuf") /\ F("api")' = F("api")
      BY <1>1, <1>5, FreeBegun, PoolNames
    <2>3. Types'
      BY <1>1, <2>2 DEF Types
    <2>4. /\ Account("pbuf")' = Account("pbuf") /\ Account("inpkt")' = Account("inpkt")
          /\ Account("api")' = Account("api")
      BY <1>1, <1>2, <1>3, <1>4, <2>1, <2>2, TermTypes, AccountsAre, AccountsNext
    <2>5. \E p \in Pools : freeing'.pool = p /\ freeing'.seen = left'[p] /\ F(p)' = 1
      BY <1>1, <2>2, PoolNames
    <2> QED
      BY <1>1, <2>3, <2>4, <2>5, Accounted
  <1>6. CASE thread = PoolEmpty /\ BeginFree("api")
    <2>1. T(Packets) = 0 /\ T({PoolEmpty}) = 1
      <3>1. thread \notin Packets /\ thread \in {PoolEmpty}
        BY <1>6, MessageKinds
      <3> QED
        BY <3>1, Zenon DEF T, One
    <2>2. /\ freeing' \in [pool : Pools \cup {"none"}, seen : Nat]
          /\ freeing'.pool = "api" /\ freeing'.seen = left["api"]
          /\ F("api") = 0 /\ F("api")' = 1
          /\ F("pbuf")' = F("pbuf") /\ F("inpkt")' = F("inpkt")
      BY <1>1, <1>6, FreeBegun, PoolNames
    <2>3. Types'
      BY <1>1, <2>2 DEF Types
    <2>4. /\ Account("pbuf")' = Account("pbuf") /\ Account("inpkt")' = Account("inpkt")
          /\ Account("api")' = Account("api")
      BY <1>1, <1>2, <1>3, <1>4, <2>1, <2>2, TermTypes, AccountsAre, AccountsNext
    <2>5. \E p \in Pools : freeing'.pool = p /\ freeing'.seen = left'[p] /\ F(p)' = 1
      BY <1>1, <2>2, PoolNames
    <2> QED
      BY <1>1, <2>3, <2>4, <2>5, Accounted
  <1>7. CASE thread = Api /\ UNCHANGED freeing
    <2>1. T(Packets) = 0 /\ T({PoolEmpty}) = 0
      <3>1. thread \notin Packets /\ thread \notin {PoolEmpty}
        BY <1>7, MessageKinds
      <3> QED
        BY <3>1, Zenon DEF T, One
    <2>2. F("pbuf")' = F("pbuf") /\ F("inpkt")' = F("inpkt") /\ F("api")' = F("api")
      BY <1>7 DEF F
    <2>3. Types'
      BY <1>1, <1>7 DEF Types
    <2>4. /\ Account("pbuf")' = Account("pbuf") /\ Account("inpkt")' = Account("inpkt")
          /\ Account("api")' = Account("api")
      BY <1>1, <1>2, <1>3, <1>4, <2>1, <2>2, AccountsAre, AccountsNext
    <2> QED
      BY <1>1, <1>7, <2>3, <2>4, Accounted
  <1> QED
    BY <1>5, <1>6, <1>7 DEF MessageDone

\* The list is as it was, or the pool is torn.
LEMMA StoreStep ==
    ASSUME IInv, Store
    PROVE  IInv' /\ Behind' = Behind
  <1>0. PICK p, n : p = freeing.pool /\ n = freeing.seen
    OBVIOUS
  <1>1. /\ Types /\ Room /\ ~torn
        /\ UNCHANGED device /\ UNCHANGED <<sent, ring, flag, irq, tokens, eth, hand>>
        /\ UNCHANGED <<mbox, thread, load, asked, kept, ftp, seen, got>>
        /\ freeing # Nothing /\ freeing' = Nothing
        /\ Listed(p, n + 1) /\ torn' = (left[p] # n)
    BY <1>0 DEF IInv, Store, device, interrupt, ftpTask, Whole
  <1>2. p \in Pools /\ n \in Nat /\ n < Size[p]
    BY <1>0, <1>1 DEF Room, Types
  <1>3. /\ left' \in [Pools -> Nat] /\ stale' \in BOOLEAN
        /\ left'[p] = n + 1 /\ \A q \in Pools \ {p} : left'[q] = left[q]
    <2>1. n + 1 \in Nat
      BY <1>2
    <2> QED
      BY <1>1, <1>2, <2>1, ListStep
  <1>4. torn' \in BOOLEAN
    BY <1>1
  <1>5. freeing' \in [pool : Pools \cup {"none"}, seen : Nat] /\ freeing'.pool = "none"
    BY <1>1 DEF Nothing
  <1>6. Types'
    BY <1>1, <1>3, <1>4, <1>5 DEF Types
  <1>7. CASE torn'
    <2>1. \A q \in Pools : left'[q] <= Size[q]
      <3>1. left'[p] <= Size[p]
        BY <1>2, <1>3, Constants
      <3> QED
        BY <1>1, <1>3, <3>1 DEF Room
    <2>2. Room'
      BY <1>1, <2>1 DEF Room
    <2> QED
      BY <1>1, <1>6, <1>7, <2>2, Torn
  <1>8. CASE ~torn'
    <2>1. left[p] = n
      BY <1>1, <1>8
    <2>2. /\ H' = H /\ R' = R /\ L' = L
        /\ T(Packets)' = T(Packets) /\ T({PoolEmpty})' = T({PoolEmpty})
        /\ N(Frames)' = N(Frames) /\ N(Packets)' = N(Packets) /\ N({PoolEmpty})' = N({PoolEmpty})
      BY <1>1, SameThread, SameMbox DEF H, R, L
    <2>3. \A q \in Pools : F(q)' = 0
      <3> SUFFICES ASSUME NEW q \in Pools PROVE F(q)' = 0
        OBVIOUS
      <3>1. freeing'.pool # q
        BY <1>5, PoolNames
      <3> QED
        BY <3>1, Zenon DEF F, One
    <2>4. F(p) = 1
      BY <1>0, Zenon DEF F, One
    <2>5. \A q \in Pools \ {p} : F(q) = 0
      <3> SUFFICES ASSUME NEW q \in Pools \ {p} PROVE F(q) = 0
        OBVIOUS
      <3>1. freeing.pool # q
        BY <1>0
      <3> QED
        BY <3>1, Zenon DEF F, One
    <2>6. \A q \in Pools : left'[q] + F(q)' = left[q] + F(q)
      <3>1. left'[p] + F(p)' = left[p] + F(p)
        BY <1>2, <1>3, <2>1, <2>3, <2>4
      <3>2. \A q \in Pools \ {p} : left'[q] + F(q)' = left[q] + F(q)
        BY <1>3, <2>3, <2>5
      <3> QED
        BY <3>1, <3>2
    <2>7. /\ left'["pbuf"] + F("pbuf")' = left["pbuf"] + F("pbuf")
          /\ left'["inpkt"] + F("inpkt")' = left["inpkt"] + F("inpkt")
          /\ left'["api"] + F("api")' = left["api"] + F("api")
      BY <2>6, PoolNames
    <2>8. /\ Account("pbuf")' = Account("pbuf") /\ Account("inpkt")' = Account("inpkt")
          /\ Account("api")' = Account("api")
      <3>1. /\ left'["pbuf"] \in Nat /\ left'["inpkt"] \in Nat /\ left'["api"] \in Nat
            /\ F("pbuf")' \in Nat /\ F("inpkt")' \in Nat /\ F("api")' \in Nat
        BY <1>3, <2>3, PoolNames
      <3>2. kept' = kept
        BY <1>1
      <3>3. /\ left["pbuf"] \in Nat /\ left["inpkt"] \in Nat /\ left["api"] \in Nat
            /\ F("pbuf") \in Nat /\ F("inpkt") \in Nat /\ F("api") \in Nat
            /\ H \in Nat /\ R \in Nat /\ L \in Nat /\ kept \in Nat
            /\ \A S : T(S) \in Nat /\ N(S) \in Nat
        BY <1>1, AccountTypes, PoolNames
      <3> HIDE DEF F, T, H, L, R, N
      <3> QED
        BY <2>2, <2>7, <3>1, <3>2, <3>3, AccountsAre, AccountsNext
    <2> QED
      BY <1>1, <1>6, <1>8, <2>8, Accounted
  <1> QED
    BY <1>4, <1>7, <1>8

LEMMA ThreadStep == ASSUME IInv, Thread PROVE IInv' /\ Behind' = Behind
  BY FetchStep, FrameDoneStep, AskedClearedStep, KeptFreedStep, MessageDoneStep, StoreStep
     DEF Thread

LEMMA FtpStep == ASSUME IInv, FtpTask PROVE IInv' /\ Behind' = Behind
  <1>1. /\ Types /\ Room /\ ~torn
        /\ UNCHANGED device /\ UNCHANGED <<sent, ring, flag, irq, tokens, eth, hand>>
        /\ UNCHANGED <<thread, load, freeing, got, asked>>
    BY DEF IInv, FtpTask, ApiCall, ReadFreed, ReadStored, device, interrupt, threadVars, Whole
  <1>2. /\ F("pbuf")' = F("pbuf") /\ F("inpkt")' = F("inpkt") /\ F("api")' = F("api")
        /\ H' = H /\ L' = L /\ T(Packets)' = T(Packets) /\ T({PoolEmpty})' = T({PoolEmpty})
    BY <1>1, SameThread DEF F, H, L
  <1>3. CASE ApiCall
    <2>1. /\ mbox' = Append(mbox, Api) /\ Len(mbox) < MboxSize
          /\ UNCHANGED <<kept, ftp, seen, stale, left, torn>>
      BY <1>3 DEF ApiCall, ftpTask
    <2>2. /\ mbox' \in Seq(Messages) /\ Len(mbox') <= MboxSize
          /\ \A S : N(S)' = N(S) + One(Api \in S)
      BY <1>1, <2>1, Posted, MessageKinds
    <2>3. One(Api \in Frames) = 0 /\ One(Api \in Packets) = 0 /\ One(Api \in {PoolEmpty}) = 0
      BY MessageKinds, Zenon DEF One
    <2>4. /\ N(Frames)' = N(Frames) + 0 /\ N(Packets)' = N(Packets) + 0
          /\ N({PoolEmpty})' = N({PoolEmpty}) + 0
      BY <2>2, <2>3
    <2>5. R' = R
      BY <2>1 DEF R
    <2>6. /\ Account("pbuf")' = Account("pbuf") /\ Account("inpkt")' = Account("inpkt")
          /\ Account("api")' = Account("api")
      BY <1>1, <1>2, <2>1, <2>4, <2>5, TermTypes, AccountsAre, AccountsNext
    <2>7. Types'
      BY <1>1, <2>1, <2>2 DEF Types
    <2> QED
      BY <1>1, <2>1, <2>6, <2>7, Accounted
  <1>4. CASE ReadFreed
    <2>1. /\ UNCHANGED <<mbox, left, torn>> /\ kept > 0 /\ kept' = kept - 1
          /\ ftp = "elsewhere" /\ ftp' = "freeing" /\ seen' = left["pbuf"] /\ stale' = FALSE
      BY <1>4 DEF ReadFreed
    <2>2. kept \in Nat /\ kept' \in Nat /\ seen' \in Nat
      BY <1>1, <2>1, PoolNames DEF Types
    <2>3. stale' \in BOOLEAN
      BY <2>1
    <2>4. Types'
      BY <1>1, <2>1, <2>2, <2>3 DEF Types
    <2>5. R = 0 /\ R' = 1
      BY <2>1, Zenon DEF R, One
    <2>6. N(Frames)' = N(Frames) /\ N(Packets)' = N(Packets) /\ N({PoolEmpty})' = N({PoolEmpty})
      BY <2>1, SameMbox
    <2>7. /\ Account("pbuf")' = Account("pbuf") /\ Account("inpkt")' = Account("inpkt")
          /\ Account("api")' = Account("api")
      BY <1>1, <1>2, <2>1, <2>2, <2>5, <2>6, TermTypes, AccountsAre, AccountsNext
    <2> QED
      BY <1>1, <2>1, <2>4, <2>7, Accounted
  <1>5. CASE ReadStored
    <2>1. /\ UNCHANGED <<mbox, kept>>
          /\ ftp = "freeing" /\ ftp' = "elsewhere" /\ seen' = 0 /\ stale' = FALSE
          /\ \/ left' = [left EXCEPT !["pbuf"] = left["pbuf"] + 1] /\ ~torn'
             \/ left' = [left EXCEPT !["pbuf"] = seen + 1] /\ torn' = TRUE
      BY <1>1, <1>5 DEF ReadStored
    <2>2. /\ seen \in Nat /\ seen < Size["pbuf"] /\ left \in [Pools -> Nat]
          /\ \A p \in Pools : left[p] <= Size[p] /\ Size[p] \in Nat
          /\ kept <= Size["pbuf"]
      BY <1>1, <2>1, Constants DEF Types, Room
    <2>3. stale' \in BOOLEAN /\ torn' \in BOOLEAN
      <3>1. torn' = torn \/ torn' = TRUE
        BY <1>5 DEF ReadStored
      <3>2. torn \in BOOLEAN
        BY <1>1 DEF Types
      <3> QED
        BY <2>1, <3>1, <3>2
    <2>4. /\ left' \in [Pools -> Nat] /\ left'["pbuf"] \in {left["pbuf"] + 1, seen + 1}
          /\ left'["inpkt"] = left["inpkt"] /\ left'["api"] = left["api"]
      <3>1. left["pbuf"] + 1 \in Nat /\ seen + 1 \in Nat
        BY <2>2, PoolNames
      <3> QED
        BY <2>1, <2>2, <3>1, PoolNames
    <2>5. Types'
      BY <1>1, <2>1, <2>3, <2>4 DEF Types
    <2>6. ASSUME left'["pbuf"] <= Size["pbuf"] PROVE Room'
      <3>1. \A p \in Pools : left'[p] <= Size[p]
        BY <2>2, <2>4, <2>6, PoolNames
      <3>2. 0 <= Size["pbuf"] /\ ftp' # "freeing"
        BY <2>1, <2>2, PoolNames
      <3> QED
        BY <1>1, <2>1, <2>2, <3>1, <3>2 DEF Room
    <2>7. CASE torn'
      <3>1. left'["pbuf"] <= Size["pbuf"]
        <4>1. left'["pbuf"] = seen + 1
          BY <2>1, <2>2, <2>7, PoolNames
        <4> QED
          BY <2>2, <4>1, PoolNames
      <3> QED
        BY <1>1, <2>5, <2>6, <2>7, <3>1, Torn
    <2>8. CASE ~torn'
      <3>1. left'["pbuf"] = left["pbuf"] + 1
        BY <2>1, <2>2, <2>8, PoolNames
      <3>2. R = 1 /\ R' = 0
        BY <2>1, Zenon DEF R, One
      <3>3. N(Frames)' = N(Frames) /\ N(Packets)' = N(Packets) /\ N({PoolEmpty})' = N({PoolEmpty})
        BY <2>1, SameMbox
      <3>4. /\ T(Packets)' = T(Packets) /\ T({PoolEmpty})' = T({PoolEmpty})
            /\ F("pbuf")' = F("pbuf") /\ F("inpkt")' = F("inpkt") /\ F("api")' = F("api")
            /\ H' = H /\ L' = L /\ kept' = kept
        BY <1>2, <2>1
      <3>5. /\ Account("pbuf")' = Account("pbuf") /\ Account("inpkt")' = Account("inpkt")
            /\ Account("api")' = Account("api")
        BY <1>1, <2>4, <3>1, <3>2, <3>3, <3>4, TermTypes, AccountsAre, AccountsNext
      <3>6. left'["pbuf"] <= Size["pbuf"]
        <4>1. Account("pbuf") = Size["pbuf"]
          BY <1>1, LeaksNothing, PoolNames DEF IInv
        <4> QED
          BY <1>1, <2>2, <3>1, <3>2, <4>1, TermTypes, AccountsAre, PoolNames
      <3>7. NothingLeaks' /\ Behind' = Behind /\ InHand' = InHand
        BY <1>1, <2>8, <3>5, Balanced DEF IInv, Behind, InHand, Requested
      <3> QED
        BY <1>1, <2>5, <2>6, <3>6, <3>7 DEF IInv, FrameForEveryToken, HandInUse
    <2> QED
      BY <2>3, <2>7, <2>8
  <1> QED
    BY <1>3, <1>4, <1>5 DEF FtpTask

LEMMA Stutter == ASSUME IInv, UNCHANGED vars PROVE IInv' /\ Behind' = Behind
  <1>1. Types'
    BY DEF IInv, Types, vars
  <1>2. NothingLeaks' /\ Room'
    BY SameAccounts, RoomSame DEF IInv, vars
  <1>3. Behind' = Behind
    BY DEF Behind, InHand, Requested, vars
  <1> QED
    BY <1>1, <1>2, <1>3 DEF IInv, FrameForEveryToken, HandInUse, vars

LEMMA Step == ASSUME IInv, [Next]_vars PROVE IInv' /\ Behind' >= Behind
  <1>1. Behind \in Int
    BY BehindTypes DEF IInv
  <1>2. CASE Thread \/ FtpTask \/ UNCHANGED vars
    BY <1>1, <1>2, ThreadStep, FtpStep, Stutter
  <1>3. CASE Device \/ EthTask
    BY <1>3, DeviceStep, EthTaskStep
  <1> QED
    BY <1>2, <1>3 DEF Next

\* The invariant that the theorems below rest on.
THEOREM Invariance == Spec => []IInv
  <1>1. IInv /\ [Next]_vars => IInv'
    BY Step
  <1> QED
    BY <1>1, InitInv, PTL DEF Spec

THEOREM TypeCorrect == Spec => []TypeOK
  <1>1. IInv => TypeOK
    <2> SUFFICES ASSUME IInv PROVE TypeOK
      OBVIOUS
    <2>1. Types /\ FrameForEveryToken /\ Room
      BY DEF IInv
    <2>2. tokens \in 0 .. MaxTokens
      BY <2>1, BehindTypes, Constants DEF FrameForEveryToken, Behind, Types
    <2>3. kept \in 0 .. Size["pbuf"] /\ seen \in 0 .. Size["pbuf"]
      <3>1. Size["pbuf"] \in Nat
        BY Constants, PoolNames
      <3> QED
        BY <2>1, <3>1 DEF Types, Room
    <2>4. {flag, irq, load, asked, stale, torn} \subseteq BOOLEAN
      BY <2>1 DEF Types
    <2> QED
      BY <2>1, <2>2, <2>3, <2>4 DEF Types, Room, TypeOK
  <1> QED
    BY <1>1, Invariance, PTL

\* The Eth_if task never comes to an empty ring, whose null descriptor it would
\* look into (ethernetif.c:235).
THEOREM NeverAnEmptyRing == Spec => []FrameForEveryToken
  <1>1. IInv => FrameForEveryToken
    BY DEF IInv
  <1> QED
    BY <1>1, Invariance, PTL

\* As long as no list of a pool is torn, no pbuf and no message is lost or freed
\* twice on the way: on the error paths of tcpip_input, with a pool that is
\* empty, and between the two steps of every memp_free.
THEOREM Conserved == Spec => []NothingLeaks
  <1>1. IInv => NothingLeaks
    BY DEF IInv
  <1> QED
    BY <1>1, Invariance, PTL

\* A message that is put back is nobody's.
MessageInUse == freeing.pool = "inpkt" => thread = Idle

LEMMA MessageFreed == Spec => []MessageInUse
  <1>1. Init => MessageInUse
    BY DEF Init, Nothing, MessageInUse
  <1>2. IInv /\ MessageInUse /\ [Next]_vars => MessageInUse'
    <2> SUFFICES ASSUME MessageInUse, [Next]_vars PROVE MessageInUse'
      OBVIOUS
    <2>1. CASE Device \/ EthTask \/ FtpTask \/ AskedCleared \/ UNCHANGED vars
      <3>1. UNCHANGED <<thread, freeing>>
        BY <2>1 DEF Device, FrameArrives, Interrupt, ClearFlag, EthTask, TakeToken, Read, Input,
                    FtpTask, ApiCall, ReadFreed, ReadStored, AskedCleared, vars, stack, threadVars
      <3> QED
        BY <3>1 DEF MessageInUse
    <2>2. CASE FrameDone \/ KeptFreed
      <3>1. freeing'.pool = "pbuf" \/ UNCHANGED <<thread, freeing>>
        BY <2>2 DEF FrameDone, KeptFreed, BeginFree
      <3> QED
        BY <3>1 DEF MessageInUse
    <2>3. CASE Fetch \/ Store
      <3>1. freeing' = Nothing
        BY <2>3 DEF Fetch, Store, Free
      <3> QED
        BY <3>1 DEF MessageInUse, Nothing
    <2>4. CASE MessageDone
      BY <2>4 DEF MessageDone, MessageInUse
    <2> QED
      BY <2>1, <2>2, <2>3, <2>4 DEF Next, Thread
  <1> QED
    BY <1>1, <1>2, Invariance, PTL DEF Spec

\* With a message more than the mailbox holds, tcpip_input fails for a full
\* mailbox only, as long as no list of a pool is torn: the message that is
\* handled or just freed is the one more.
THEOREM PoolSuffices == Spec => []MessagesSuffice
  <1>1. IInv /\ MessageInUse => MessagesSuffice
    <2> SUFFICES ASSUME IInv, MessageInUse, ~torn, Len(mbox) < MboxSize PROVE left["inpkt"] > 0
      BY DEF MessagesSuffice
    <2>1. Types /\ NothingLeaks /\ Room
      BY DEF IInv
    <2>2. left["inpkt"] + (F("inpkt") + (N(Packets) + T(Packets))) = Size["inpkt"]
      BY <2>1, LeaksNothing, AccountsAre, PoolNames
    <2>3. /\ N(Packets) \in Nat /\ N(Packets) <= Len(mbox) /\ T(Packets) \in {0, 1}
          /\ F("inpkt") \in {0, 1} /\ left["inpkt"] \in Nat /\ Len(mbox) \in Nat
      BY <2>1, AccountTypes, PoolNames
    <2>4. F("inpkt") = 0 \/ T(Packets) = 0
      <3>1. freeing.pool # "inpkt" \/ thread \notin Packets
        BY MessageKinds DEF MessageInUse
      <3> QED
        BY <3>1, Zenon DEF F, T, One
    <2> HIDE DEF F, N, T
    <2> QED
      BY <2>2, <2>3, <2>4, Constants
  <1> QED
    BY <1>1, Invariance, MessageFreed, PTL

\* A frame that one interrupt has left behind in the ring is never made up for.
THEOREM BehindForEver == Spec => NeverCaughtUp
  <1>1. IInv /\ [Next]_vars => [Behind' >= Behind]_vars
    BY Step
  <1> QED
    BY <1>1, Invariance, PTL DEF NeverCaughtUp, Spec

-----------------------------------------------------------------------------
(* Order.  What is nearer to the stack came earlier.                       *)

Ascending(s) ==
    \A i, j \in DOMAIN s : i < j /\ s[i] \in Frames /\ s[j] \in Frames => s[i] < s[j]
Before(S, Q) == \A f \in S \cap Frames, g \in Q \cap Frames : f < g

InOrder ==
    /\ Ascending(mbox) /\ Ascending(ring)
    /\ Before(ToSet(mbox), {hand}) /\ Before(ToSet(mbox), ToSet(ring))
    /\ Before({hand}, ToSet(ring))
    /\ Passing \subseteq 1 .. sent

LEMMA AscendingAppend ==
    ASSUME NEW Q, NEW s \in Seq(Q), NEW x \in Q, Ascending(s), Before(ToSet(s), {x})
    PROVE  Ascending(Append(s, x))
  <1> DEFINE r == Append(s, x)
  <1>1. PICK n \in Nat : n = Len(s)
    OBVIOUS
  <1>2. /\ DOMAIN s = 1 .. n /\ DOMAIN r = 1 .. n + 1
        /\ r[n + 1] = x /\ \A i \in 1 .. n : r[i] = s[i]
    BY <1>1
  <1> HIDE DEF r
  <1>3. ASSUME NEW i \in 1 .. n + 1, NEW j \in 1 .. n + 1, i < j, r[i] \in Frames, r[j] \in Frames
        PROVE  r[i] < r[j]
    <2>1. i \in 1 .. n /\ r[i] = s[i]
      BY <1>2, <1>3
    <2>2. CASE j \in 1 .. n
      BY <1>2, <1>3, <2>1, <2>2 DEF Ascending
    <2>3. CASE j \notin 1 .. n
      <3>1. r[j] = x
        BY <1>2, <2>3
      <3>2. s[i] \in ToSet(s)
        BY <1>2, <2>1 DEF ToSet
      <3> QED
        BY <1>3, <2>1, <3>1, <3>2 DEF Before
    <2> QED
      BY <2>2, <2>3
  <1>4. Ascending(r)
    BY <1>2, <1>3 DEF Ascending
  <1> QED
    BY <1>4 DEF r

LEMMA AscendingTail ==
    ASSUME NEW Q, NEW s \in Seq(Q), s # <<>>, Ascending(s)
    PROVE  /\ Ascending(Tail(s)) /\ Before({Head(s)}, ToSet(Tail(s)))
           /\ ToSet(s) = {Head(s)} \cup ToSet(Tail(s))
  <1> DEFINE t == Tail(s)
  <1>1. PICK n \in Nat : n = Len(s)
    OBVIOUS
  <1>2. /\ n >= 1 /\ DOMAIN s = 1 .. n /\ DOMAIN t = 1 .. n - 1 /\ Head(s) = s[1]
        /\ \A i \in 1 .. n - 1 : t[i] = s[i + 1]
    BY <1>1
  <1> HIDE DEF t
  <1>3. ASSUME NEW i \in 1 .. n - 1
        PROVE  i + 1 \in 1 .. n /\ 1 \in 1 .. n /\ 1 < i + 1 /\ t[i] = s[i + 1]
    BY <1>2
  <1>4. Ascending(t)
    <2> SUFFICES ASSUME NEW i \in 1 .. n - 1, NEW j \in 1 .. n - 1, i < j,
                        t[i] \in Frames, t[j] \in Frames
                 PROVE  t[i] < t[j]
      BY <1>2 DEF Ascending
    <2>1. i + 1 < j + 1
      OBVIOUS
    <2> QED
      BY <1>2, <1>3, <2>1 DEF Ascending
  <1>5. Before({Head(s)}, ToSet(t))
    <2> SUFFICES ASSUME Head(s) \in Frames, NEW i \in 1 .. n - 1, t[i] \in Frames
                 PROVE  Head(s) < t[i]
      BY <1>2 DEF Before, ToSet
    <2> QED
      BY <1>2, <1>3 DEF Ascending
  <1>6. ToSet(s) \subseteq {Head(s)} \cup ToSet(t)
    <2> SUFFICES ASSUME NEW k \in 1 .. n, k # 1
                 PROVE  s[k] \in ToSet(t)
      BY <1>2 DEF ToSet
    <2>1. PICK i \in 1 .. n - 1 : i + 1 = k
      <3>1. k - 1 \in 1 .. n - 1 /\ (k - 1) + 1 = k
        BY <1>2
      <3> QED
        BY <3>1
    <2> QED
      BY <1>2, <1>3, <2>1 DEF ToSet
  <1>7. {Head(s)} \cup ToSet(t) \subseteq ToSet(s)
    BY <1>2, <1>3 DEF ToSet
  <1> QED
    BY <1>4, <1>5, <1>6, <1>7 DEF t

\* What Link sees.
linkVars == <<sent + 1 .. MaxFrames, Passing, got, torn>>

\* Frames are numbers, so that the first of a set is the least.
LEMMA FramesOrdered ==
    /\ Frames \subseteq Nat /\ \A f \in Frames : ~(f < f) /\ f <= f
    /\ \A f, g \in Frames : f < g => f # g /\ f <= g
  BY Constants DEF Frames

\* A frame reaches the ring, or finds it full.
LEMMA ArrivalPasses ==
    ASSUME IInv, InOrder, FrameArrives
    PROVE  InOrder' /\ [Link!Next]_linkVars
  <1> DEFINE f == sent + 1
  <1>1. /\ sent \in Nat /\ MaxFrames \in Nat /\ sent < MaxFrames /\ f \in Frames /\ sent' = f
        /\ UNCHANGED <<hand, mbox, got, torn>> /\ ring \in Seq(Frames)
    BY Constants DEF IInv, Types, FrameArrives, stack, threadVars, Frames
  <1>2. /\ Link!Oldest(f, sent + 1 .. MaxFrames)
        /\ (sent' + 1 .. MaxFrames) = (sent + 1 .. MaxFrames) \ {f}
        /\ f \in sent + 1 .. MaxFrames
    BY <1>1 DEF Link!Oldest
  <1>3. \A g \in Passing : g < f
    BY <1>1 DEF InOrder
  <1>4. CASE ring' = Append(ring, f)
    <2>1. ToSet(ring') = {f} \cup ToSet(ring)
      BY <1>1, <1>4, AppendElements
    <2>2. Passing' = Passing \cup {f}
      BY <1>1, <2>1 DEF Passing
    <2>3. Ascending(ring')
      <3>1. Before(ToSet(ring), {f})
        BY <1>3 DEF Before, Passing
      <3> QED
        BY <1>1, <1>4, <3>1, AscendingAppend DEF InOrder
    <2>4. Before(ToSet(mbox), ToSet(ring')) /\ Before({hand}, ToSet(ring'))
      BY <1>3, <2>1 DEF InOrder, Before, Passing
    <2>5. Passing' \subseteq 1 .. sent'
      BY <1>1, <2>2 DEF InOrder
    <2>6. InOrder'
      BY <1>1, <2>3, <2>4, <2>5 DEF InOrder
    <2>7. Link!Take
      BY <1>1, <1>2, <2>2 DEF Link!Take
    <2> QED
      BY <1>1, <2>6, <2>7 DEF Link!Next
  <1>5. CASE ring' = ring
    <2>1. Passing' = Passing
      BY <1>1, <1>5 DEF Passing
    <2>2. Passing' \subseteq 1 .. sent'
      BY <1>1, <2>1 DEF InOrder
    <2>3. InOrder'
      BY <1>1, <1>5, <2>2 DEF InOrder
    <2>4. Link!Miss
      BY <1>1, <1>2, <2>1 DEF Link!Miss
    <2> QED
      BY <1>1, <2>3, <2>4 DEF Link!Next
  <1> QED
    BY <1>4, <1>5 DEF FrameArrives

\* Nothing that Link sees changes.
LEMMA NothingPasses ==
    ASSUME InOrder, UNCHANGED <<sent, ring, hand, mbox, got>>, UNCHANGED torn \/ torn'
    PROVE  InOrder' /\ [Link!Next]_linkVars
  <1>1. InOrder' /\ Passing' = Passing
    BY DEF InOrder, Passing
  <1>2. CASE UNCHANGED torn
    BY <1>1, <1>2 DEF linkVars
  <1>3. CASE torn'
    <2>1. torn' = TRUE \/ torn' # TRUE
      OBVIOUS
    <2> QED
      BY <1>1, <1>3 DEF Link!Next, Link!Break
  <1> QED
    BY <1>2, <1>3

\* The frame that has been in the ring longest goes into a pbuf, or is given up.
LEMMA ReadPasses ==
    ASSUME IInv, InOrder, Read
    PROVE  InOrder' /\ [Link!Next]_linkVars
  <1> DEFINE f == Head(ring)
  <1>1. /\ ring # <<>> /\ ring \in Seq(Frames) /\ ring' = Tail(ring) /\ hand = None
        /\ UNCHANGED <<sent, got, torn>> /\ f \in Frames /\ mbox \in Seq(Messages)
        /\ None \notin Frames /\ PoolEmpty \notin Frames /\ PoolEmpty \in Messages
    BY Constants, MessageKinds DEF Read, IInv, Types, HandInUse, threadVars
  <1>2. /\ Ascending(ring') /\ Before({f}, ToSet(ring')) /\ ToSet(ring) = {f} \cup ToSet(ring')
    BY <1>1, AscendingTail DEF InOrder
  <1>3. CASE hand' = f /\ mbox' = mbox
    <2>1. Passing' = Passing
      BY <1>1, <1>2, <1>3 DEF Passing
    <2>2. InOrder'
      BY <1>1, <1>2, <1>3, <2>1 DEF InOrder, Before
    <2> QED
      BY <1>1, <2>1, <2>2 DEF linkVars
  <1>4. CASE hand' = None /\ (mbox' = mbox \/ mbox' = Append(mbox, PoolEmpty))
    <2>1. f \notin ToSet(mbox) /\ f \notin ToSet(ring')
      BY <1>1, <1>2, FramesOrdered DEF InOrder, Before
    <2>2. ToSet(mbox') \cap Frames = ToSet(mbox) \cap Frames /\ Ascending(mbox')
      <3>1. CASE mbox' = mbox
        BY <3>1 DEF InOrder
      <3>2. CASE mbox' = Append(mbox, PoolEmpty)
        <4>1. ToSet(mbox') = {PoolEmpty} \cup ToSet(mbox)
          BY <1>1, <3>2, AppendElements
        <4>2. Before(ToSet(mbox), {PoolEmpty})
          BY <1>1 DEF Before
        <4> QED
          BY <1>1, <3>2, <4>1, <4>2, AscendingAppend DEF InOrder
      <3> QED
        BY <1>4, <3>1, <3>2
    <2>3. f \in Passing /\ Passing' = Passing \ {f}
      BY <1>1, <1>2, <1>4, <2>1, <2>2 DEF Passing
    <2>4. InOrder'
      BY <1>1, <1>2, <1>4, <2>2, <2>3 DEF InOrder, Before
    <2>5. Link!Drop
      BY <1>1, <2>3 DEF Link!Drop
    <2> QED
      BY <1>1, <2>4, <2>5 DEF Link!Next
  <1>5. \/ hand' = f /\ mbox' = mbox
        \/ hand' = None /\ (mbox' = mbox \/ mbox' = Append(mbox, PoolEmpty))
    BY DEF Read, AskForPbufs
  <1> QED
    BY <1>3, <1>4, <1>5

\* The frame in hand goes into the mailbox, or is given up.
LEMMA InputPasses ==
    ASSUME IInv, InOrder, Input
    PROVE  InOrder' /\ [Link!Next]_linkVars
  <1>1. /\ mbox \in Seq(Messages) /\ hand \in Messages /\ hand' = None
        /\ UNCHANGED <<sent, ring, got, torn>> /\ None \notin Frames
        /\ mbox' = mbox \/ mbox' = Append(mbox, hand)
    BY Constants DEF Input, IInv, Types, Messages, threadVars
  <1>2. CASE mbox' = Append(mbox, hand)
    <2>1. ToSet(mbox') = {hand} \cup ToSet(mbox)
      BY <1>1, <1>2, AppendElements
    <2>2. Passing' = Passing
      BY <1>1, <2>1 DEF Passing
    <2>3. Ascending(mbox')
      BY <1>1, <1>2, AscendingAppend DEF InOrder
    <2>4. Before(ToSet(mbox'), {hand'}) /\ Before({hand'}, ToSet(ring))
      BY <1>1 DEF Before
    <2>5. Before(ToSet(mbox'), ToSet(ring))
      BY <2>1 DEF InOrder, Before
    <2>6. InOrder'
      BY <1>1, <2>2, <2>3, <2>4, <2>5 DEF InOrder
    <2> QED
      BY <1>1, <2>2, <2>6 DEF linkVars
  <1>3. CASE mbox' = mbox
    <2>1. Before(ToSet(mbox), {hand'}) /\ Before({hand'}, ToSet(ring))
      BY <1>1 DEF Before
    <2>2. Passing' = Passing \ {hand}
      <3>1. hand \in Frames => hand \notin ToSet(mbox) /\ hand \notin ToSet(ring)
        BY FramesOrdered DEF InOrder, Before
      <3> QED
        BY <1>1, <1>3, <3>1 DEF Passing
    <2>3. InOrder'
      BY <1>1, <1>3, <2>1, <2>2 DEF InOrder
    <2>4. CASE hand \in Frames
      <3>1. hand \in Passing
        BY <2>4 DEF Passing
      <3>2. Link!Drop
        BY <1>1, <2>2, <3>1 DEF Link!Drop
      <3> QED
        BY <1>1, <2>3, <3>2 DEF Link!Next
    <2>5. CASE hand \notin Frames
      <3>1. Passing' = Passing
        BY <2>2, <2>5 DEF Passing
      <3> QED
        BY <1>1, <2>3, <3>1 DEF linkVars
    <2> QED
      BY <2>4, <2>5
  <1> QED
    BY <1>1, <1>2, <1>3

\* The thread takes the oldest frame of the mailbox, which is the oldest of all.
LEMMA FetchPasses ==
    ASSUME IInv, InOrder, Fetch
    PROVE  InOrder' /\ [Link!Next]_linkVars
  <1> DEFINE f == Head(mbox)
  <1>1. /\ mbox # <<>> /\ mbox \in Seq(Messages) /\ mbox' = Tail(mbox)
        /\ UNCHANGED <<sent, ring, hand, torn>>
        /\ got' = IF f \in Frames THEN Append(got, f) ELSE got
    BY DEF Fetch, IInv, Types, device
  <1>2. /\ Ascending(mbox') /\ Before({f}, ToSet(mbox')) /\ ToSet(mbox) = {f} \cup ToSet(mbox')
    BY <1>1, AscendingTail DEF InOrder
  <1>3. /\ Before(ToSet(mbox'), {hand}) /\ Before(ToSet(mbox'), ToSet(ring))
        /\ Before({f}, {hand}) /\ Before({f}, ToSet(ring))
    BY <1>2 DEF InOrder, Before
  <1>4. Passing' = Passing \ {f}
    <2>1. f \in Frames => f \notin ToSet(mbox') /\ f # hand /\ f \notin ToSet(ring)
      BY <1>2, <1>3, FramesOrdered DEF Before
    <2> QED
      BY <1>1, <1>2, <2>1 DEF Passing
  <1>5. InOrder'
    BY <1>1, <1>2, <1>3, <1>4 DEF InOrder
  <1>6. CASE f \in Frames
    <2>1. f \in Passing
      BY <1>2, <1>6 DEF Passing
    <2>2. \A g \in Passing : f <= g
      <3> TAKE g \in Passing
      <3>1. CASE g = f
        BY <1>6, <3>1, FramesOrdered
      <3>2. CASE g # f
        <4>1. g \in Frames /\ (g \in ToSet(mbox') \/ g = hand \/ g \in ToSet(ring))
          BY <1>2, <3>2 DEF Passing
        <4> QED
          BY <1>2, <1>3, <1>6, <4>1, FramesOrdered DEF Before
      <3> QED
        BY <3>1, <3>2
    <2>3. Link!HandOver
      BY <1>1, <1>4, <1>6, <2>1, <2>2 DEF Link!HandOver, Link!Oldest
    <2> QED
      BY <1>1, <1>5, <2>3 DEF Link!Next
  <1>7. CASE f \notin Frames
    <2>1. Passing' = Passing
      BY <1>4, <1>7 DEF Passing
    <2> QED
      BY <1>1, <1>5, <1>7, <2>1 DEF linkVars
  <1> QED
    BY <1>6, <1>7

LEMMA ApiCallPasses ==
    ASSUME IInv, InOrder, ApiCall
    PROVE  InOrder' /\ [Link!Next]_linkVars
  <1>1. /\ mbox \in Seq(Messages) /\ Api \in Messages /\ Api \notin Frames
        /\ mbox' = Append(mbox, Api) /\ UNCHANGED <<sent, ring, hand, got, torn>>
    BY Constants DEF ApiCall, IInv, Types, Messages, device, threadVars
  <1>2. ToSet(mbox') = {Api} \cup ToSet(mbox)
    BY <1>1, AppendElements
  <1>3. Ascending(mbox')
    <2>1. Before(ToSet(mbox), {Api})
      BY <1>1 DEF Before
    <2> QED
      BY <1>1, <2>1, AscendingAppend DEF InOrder
  <1>4. Passing' = Passing
    BY <1>1, <1>2 DEF Passing
  <1>5. InOrder'
    BY <1>1, <1>2, <1>3, <1>4 DEF InOrder, Before
  <1> QED
    BY <1>1, <1>4, <1>5 DEF linkVars

\* As long as no list of a pool is torn, the way of a received frame keeps what
\* Link promises: order, no frame twice, for every number of frames and every
\* size of ring, mailbox and pools.
THEOREM Refinement == Spec => ImplementsLink
  <1>1. Init => InOrder /\ Link!Init
    <2> SUFFICES ASSUME Init PROVE InOrder /\ Link!Init
      OBVIOUS
    <2>1. /\ ToSet(mbox) = {} /\ ToSet(ring) = {} /\ hand \notin Frames
          /\ sent = 0 /\ got = <<>> /\ torn = FALSE
      BY EmptyElements, Constants DEF Init
    <2>2. Passing = {} /\ (sent + 1 .. MaxFrames) = Frames
      BY <2>1 DEF Passing, Frames
    <2>3. Ascending(mbox) /\ Ascending(ring)
      BY DEF Init, Ascending
    <2> QED
      BY <2>1, <2>2, <2>3 DEF InOrder, Before, Link!Init
  <1>2. IInv /\ InOrder /\ [Next]_vars => InOrder' /\ [Link!Next]_linkVars
    <2> SUFFICES ASSUME IInv, InOrder, [Next]_vars PROVE InOrder' /\ [Link!Next]_linkVars
      OBVIOUS
    <2>1. CASE \/ Interrupt \/ ClearFlag \/ TakeToken
               \/ FrameDone \/ AskedCleared \/ KeptFreed \/ MessageDone \/ ReadFreed
               \/ UNCHANGED vars
      <3>1. UNCHANGED <<sent, ring, hand, mbox, got, torn>>
        BY <2>1 DEF Interrupt, ClearFlag, TakeToken, FrameDone, AskedCleared, KeptFreed,
                    MessageDone, ReadFreed, vars, stack, device, threadVars
      <3> QED
        BY <3>1, NothingPasses
    <2>2. CASE Store \/ ReadStored
      <3>1. UNCHANGED <<sent, ring, hand, mbox, got>>
        BY <2>2 DEF Store, ReadStored, device, threadVars
      <3>2. UNCHANGED torn \/ torn'
        <4>1. torn \in BOOLEAN /\ ~torn /\ (torn' \in BOOLEAN \/ torn' = torn)
          BY <2>2 DEF Store, ReadStored, Whole, IInv, Types
        <4> QED
          BY <4>1
      <3> QED
        BY <3>1, <3>2, NothingPasses
    <2> QED
      BY <2>1, <2>2, ArrivalPasses, ReadPasses, InputPasses, FetchPasses, ApiCallPasses
      DEF Next, Device, EthTask, Thread, FtpTask
  <1>3. Spec => []InOrder
    BY <1>1, <1>2, Invariance, PTL DEF Spec
  <1> QED
    BY <1>1, <1>2, <1>3, Invariance, PTL DEF Spec, ImplementsLink, Link!Spec, linkVars
=============================================================================
