-------------------------- MODULE SequenceElements --------------------------
(***************************************************************************)
(* Sequences without repetition seen as the set of their elements: what    *)
(* the operations on the session list, the walk and the accept mailbox do  *)
(* to it; where the elements of a sequence go when one is inserted; its    *)
(* prefix sums; how often it holds an element of a set; and functions that *)
(* are defined by recursion along it.                                      *)
(***************************************************************************)
EXTENDS Integers, Sequences, SequencesExt, SequenceTheorems, Sums,
        WellFoundedInduction, FiniteSetTheorems, FunctionTheorems, TLAPS

LEMMA RemoveAtType ==
    ASSUME NEW S, NEW s \in Seq(S), NEW i \in 1 .. Len(s)
    PROVE  /\ RemoveAt(s, i) \in Seq(S)
           /\ Len(RemoveAt(s, i)) = Len(s) - 1
           /\ \A k \in 1 .. Len(s) - 1 :
                 RemoveAt(s, i)[k] = IF k < i THEN s[k] ELSE s[k + 1]
  <1> DEFINE a == SubSeq(s, 1, i - 1)  b == SubSeq(s, i + 1, Len(s))
  <1>1. /\ a \in Seq(S) /\ Len(a) = i - 1
        /\ \A k \in 1 .. i - 1 : a[k] = s[k]
    BY SubSeqProperties
  <1>2. /\ b \in Seq(S) /\ Len(b) = Len(s) - i
        /\ \A k \in 1 .. Len(s) - i : b[k] = s[i + k]
    BY SubSeqProperties
  <1> HIDE DEF a, b
  <1>3. /\ a \o b \in Seq(S) /\ Len(a \o b) = Len(s) - 1
        /\ \A k \in 1 .. Len(s) - 1 :
              (a \o b)[k] = IF k <= i - 1 THEN a[k] ELSE b[k - (i - 1)]
    <2>1. /\ a \o b \in Seq(S) /\ Len(a \o b) = Len(a) + Len(b)
          /\ \A k \in 1 .. Len(a) + Len(b) :
                (a \o b)[k] = IF k <= Len(a) THEN a[k] ELSE b[k - Len(a)]
      BY <1>1, <1>2, ConcatProperties
    <2>2. Len(a) + Len(b) = Len(s) - 1
      BY <1>1, <1>2
    <2> QED
      BY <1>1, <2>1, <2>2
  <1>4. RemoveAt(s, i) = a \o b
    BY DEF RemoveAt, a, b
  <1>5. ASSUME NEW k \in 1 .. Len(s) - 1
        PROVE  (a \o b)[k] = IF k < i THEN s[k] ELSE s[k + 1]
    <2>1. CASE k < i
      BY <1>1, <1>3, <2>1
    <2>2. CASE ~(k < i)
      <3>1. k - (i - 1) \in 1 .. Len(s) - i /\ i + (k - (i - 1)) = k + 1
        BY <2>2
      <3> QED
        BY <1>2, <1>3, <2>2, <3>1
    <2> QED
      BY <2>1, <2>2
  <1> QED
    BY <1>3, <1>4, <1>5

LEMMA InsertAtType ==
    ASSUME NEW S, NEW s \in Seq(S), NEW i \in 1 .. Len(s) + 1, NEW e \in S
    PROVE  /\ InsertAt(s, i, e) \in Seq(S)
           /\ Len(InsertAt(s, i, e)) = Len(s) + 1
           /\ InsertAt(s, i, e)[i] = e
           /\ \A k \in 1 .. Len(s) :
                 InsertAt(s, i, e)[IF k < i THEN k ELSE k + 1] = s[k]
  <1> DEFINE a == SubSeq(s, 1, i - 1)  b == SubSeq(s, i, Len(s))
             c == a \o <<e>>  r == c \o b
  <1>1. /\ a \in Seq(S) /\ Len(a) = i - 1
        /\ \A k \in 1 .. i - 1 : a[k] = s[k]
    BY SubSeqProperties
  <1>2. /\ b \in Seq(S) /\ Len(b) = Len(s) + 1 - i
        /\ \A k \in 1 .. Len(s) + 1 - i : b[k] = s[i + k - 1]
    BY SubSeqProperties
  <1> HIDE DEF a, b
  <1>3. /\ c \in Seq(S) /\ Len(c) = i /\ c[i] = e
        /\ \A k \in 1 .. i - 1 : c[k] = s[k]
    <2>1. <<e>> \in Seq(S) /\ Len(<<e>>) = 1 /\ <<e>>[1] = e
      OBVIOUS
    <2>2. /\ c \in Seq(S) /\ Len(c) = Len(a) + 1
          /\ \A k \in 1 .. Len(a) + 1 :
                c[k] = IF k <= Len(a) THEN a[k] ELSE <<e>>[k - Len(a)]
      BY <1>1, <2>1, ConcatProperties
    <2>3. c[i] = <<e>>[i - Len(a)] /\ i - Len(a) = 1
      BY <1>1, <2>2
    <2> QED
      BY <1>1, <2>1, <2>2, <2>3
  <1> HIDE DEF c
  <1>4. /\ r \in Seq(S) /\ Len(r) = Len(s) + 1
        /\ \A k \in 1 .. Len(s) + 1 : r[k] = IF k <= i THEN c[k] ELSE b[k - i]
    <2>1. /\ r \in Seq(S) /\ Len(r) = Len(c) + Len(b)
          /\ \A k \in 1 .. Len(c) + Len(b) :
                r[k] = IF k <= Len(c) THEN c[k] ELSE b[k - Len(c)]
      BY <1>2, <1>3, ConcatProperties
    <2>2. Len(c) + Len(b) = Len(s) + 1
      BY <1>2, <1>3
    <2> QED
      BY <1>3, <2>1, <2>2
  <1> HIDE DEF r
  <1>5. InsertAt(s, i, e) = r
    BY DEF InsertAt, a, b, c, r
  <1>6. r[i] = e
    BY <1>3, <1>4
  <1>7. ASSUME NEW k \in 1 .. Len(s)
        PROVE  r[IF k < i THEN k ELSE k + 1] = s[k]
    <2>1. CASE k < i
      BY <1>3, <1>4, <2>1
    <2>2. CASE ~(k < i)
      <3>1. PICK l \in 1 .. Len(s) + 1 : l = k + 1
        OBVIOUS
      <3>2. PICK m \in 1 .. Len(s) + 1 - i : m = l - i
        BY <2>2, <3>1
      <3>3. r[l] = b[m]
        BY <1>4, <2>2, <3>1, <3>2
      <3>4. b[m] = s[i + m - 1] /\ i + m - 1 = k
        BY <1>2, <3>1, <3>2
      <3> QED
        BY <2>2, <3>1, <3>3, <3>4
    <2> QED
      BY <2>1, <2>2
  <1> QED
    BY <1>4, <1>5, <1>6, <1>7

LEMMA RemoveAtElements ==
    ASSUME NEW S, NEW s \in Seq(S), IsInjective(s), NEW i \in 1 .. Len(s)
    PROVE  /\ RemoveAt(s, i) \in Seq(S)
           /\ IsInjective(RemoveAt(s, i))
           /\ ToSet(RemoveAt(s, i)) = ToSet(s) \ {s[i]}
  <1> DEFINE r == RemoveAt(s, i)
  <1>1. /\ r \in Seq(S) /\ Len(r) = Len(s) - 1
        /\ \A k \in 1 .. Len(s) - 1 : r[k] = IF k < i THEN s[k] ELSE s[k + 1]
    BY RemoveAtType
  <1>2. DOMAIN s = 1 .. Len(s) /\ \A k, l \in 1 .. Len(s) : s[k] = s[l] => k = l
    BY DEF IsInjective
  <1> HIDE DEF r
  <1>3. DOMAIN r = 1 .. Len(s) - 1
    BY <1>1
  <1>4. IsInjective(r)
    BY <1>1, <1>2, <1>3 DEF IsInjective
  <1>5. ASSUME NEW k \in 1 .. Len(s) - 1
        PROVE  r[k] \in ToSet(s) \ {s[i]}
    <2>1. PICK l \in 1 .. Len(s) : l # i /\ r[k] = s[l]
      <3>1. CASE k < i
        BY <1>1, <3>1
      <3>2. CASE ~(k < i)
        BY <1>1, <3>2
      <3> QED
        BY <3>1, <3>2
    <2> QED
      BY <1>2, <2>1 DEF ToSet
  <1>6. ASSUME NEW k \in 1 .. Len(s), k # i
        PROVE  s[k] \in ToSet(r)
    <2>1. CASE k < i
      BY <1>1, <1>3, <2>1 DEF ToSet
    <2>2. CASE k > i
      <3>1. k - 1 \in 1 .. Len(s) - 1 /\ r[k - 1] = s[k]
        BY <1>1, <2>2
      <3> QED
        BY <1>3, <3>1 DEF ToSet
    <2> QED
      BY <1>6, <2>1, <2>2
  <1>7. ToSet(r) = ToSet(s) \ {s[i]}
    BY <1>2, <1>3, <1>5, <1>6 DEF ToSet
  <1> QED
    BY <1>1, <1>4, <1>7 DEF r

LEMMA HeadTailElements ==
    ASSUME NEW S, NEW s \in Seq(S), s # <<>>
    PROVE  /\ Head(s) \in S /\ Head(s) \in ToSet(s)
           /\ Tail(s) \in Seq(S) /\ Len(Tail(s)) = Len(s) - 1
           /\ ToSet(Tail(s)) \subseteq ToSet(s)
           /\ IsInjective(s) => /\ IsInjective(Tail(s))
                                /\ ToSet(Tail(s)) = ToSet(s) \ {Head(s)}
  <1>1. /\ Len(s) \in Nat \ {0} /\ DOMAIN s = 1 .. Len(s)
        /\ Head(s) = s[1] /\ Head(s) \in S
        /\ Tail(s) \in Seq(S) /\ Len(Tail(s)) = Len(s) - 1
        /\ \A k \in 1 .. Len(s) - 1 : Tail(s)[k] = s[k + 1]
    BY EmptySeq, HeadTailProperties
  <1>2. DOMAIN Tail(s) = 1 .. Len(s) - 1
    BY <1>1
  <1>3. Head(s) \in ToSet(s) /\ ToSet(Tail(s)) \subseteq ToSet(s)
    BY <1>1, <1>2 DEF ToSet
  <1>4. ASSUME IsInjective(s)
        PROVE  IsInjective(Tail(s)) /\ ToSet(Tail(s)) = ToSet(s) \ {Head(s)}
    <2>1. IsInjective(Tail(s))
      BY <1>1, <1>2, <1>4 DEF IsInjective
    <2>2. ToSet(Tail(s)) \subseteq ToSet(s) \ {Head(s)}
      BY <1>1, <1>2, <1>4 DEF ToSet, IsInjective
    <2>3. ASSUME NEW k \in 2 .. Len(s)
          PROVE  s[k] \in ToSet(Tail(s))
      <3>1. k - 1 \in 1 .. Len(s) - 1 /\ Tail(s)[k - 1] = s[k]
        BY <1>1
      <3> QED
        BY <1>2, <3>1 DEF ToSet
    <2>4. ToSet(s) = {s[k] : k \in 1 .. Len(s)}
      BY <1>1 DEF ToSet
    <2>5. ToSet(s) \ {Head(s)} \subseteq ToSet(Tail(s))
      <3> SUFFICES ASSUME NEW k \in 1 .. Len(s), s[k] # s[1]
                   PROVE  s[k] \in ToSet(Tail(s))
        BY <1>1, <2>4
      <3>1. k \in 2 .. Len(s)
        BY <1>1
      <3> QED
        BY <2>3, <3>1
    <2> QED
      BY <2>1, <2>2, <2>5
  <1> QED
    BY <1>1, <1>3, <1>4

LEMMA ConsElements ==
    ASSUME NEW S, NEW s \in Seq(S), NEW c \in S
    PROVE  /\ <<c>> \o s \in Seq(S) /\ Len(<<c>> \o s) = Len(s) + 1
           /\ ToSet(<<c>> \o s) = {c} \cup ToSet(s)
           /\ IsInjective(s) /\ c \notin ToSet(s) => IsInjective(<<c>> \o s)
  <1> DEFINE r == <<c>> \o s
  <1>1. /\ r \in Seq(S) /\ Len(r) = Len(s) + 1
        /\ r[1] = c
        /\ \A k \in 2 .. Len(s) + 1 : r[k] = s[k - 1]
    <2>1. <<c>> \in Seq(S) /\ Len(<<c>>) = 1 /\ <<c>>[1] = c
      OBVIOUS
    <2> QED
      BY <2>1, ConcatProperties
  <1> HIDE DEF r
  <1>2. DOMAIN r = 1 .. Len(s) + 1 /\ DOMAIN s = 1 .. Len(s) /\ Len(s) \in Nat
    BY <1>1
  <1>3. ASSUME NEW k \in 1 .. Len(s)
        PROVE  s[k] \in ToSet(r)
    <2>1. k + 1 \in 2 .. Len(s) + 1 /\ r[k + 1] = s[k]
      BY <1>1
    <2> QED
      BY <1>2, <2>1 DEF ToSet
  <1>4. ToSet(r) = {c} \cup ToSet(s)
    BY <1>1, <1>2, <1>3 DEF ToSet
  <1>5. ASSUME IsInjective(s), c \notin ToSet(s)
        PROVE  IsInjective(r)
    <2>1. \A k \in 1 .. Len(s) : s[k] # c
      BY <1>2, <1>5 DEF ToSet
    <2>2. \A k, l \in 2 .. Len(s) + 1 : r[k] = r[l] => k = l
      <3> TAKE k, l \in 2 .. Len(s) + 1
      <3>1. k - 1 \in 1 .. Len(s) /\ l - 1 \in 1 .. Len(s)
        BY <1>2
      <3>2. s[k - 1] = s[l - 1] => k - 1 = l - 1
        BY <1>2, <1>5, <3>1 DEF IsInjective
      <3> QED
        BY <1>1, <1>2, <3>2
    <2>3. \A k \in 2 .. Len(s) + 1 : r[k] # c
      <3> TAKE k \in 2 .. Len(s) + 1
      <3>1. k - 1 \in 1 .. Len(s)
        BY <1>2
      <3> QED
        BY <1>1, <2>1, <3>1
    <2>4. \A k \in 1 .. Len(s) + 1 : k = 1 \/ k \in 2 .. Len(s) + 1
      BY <1>2
    <2> QED
      BY <1>1, <1>2, <2>2, <2>3, <2>4 DEF IsInjective
  <1> QED
    BY <1>1, <1>4, <1>5 DEF r

LEMMA AppendElements ==
    ASSUME NEW S, NEW s \in Seq(S), NEW c \in S
    PROVE  /\ Append(s, c) \in Seq(S) /\ Len(Append(s, c)) = Len(s) + 1
           /\ ToSet(Append(s, c)) = {c} \cup ToSet(s)
           /\ IsInjective(s) /\ c \notin ToSet(s) => IsInjective(Append(s, c))
  <1> DEFINE r == Append(s, c)
  <1>1. /\ r \in Seq(S) /\ Len(r) = Len(s) + 1
        /\ r[Len(s) + 1] = c
        /\ \A k \in 1 .. Len(s) : r[k] = s[k]
    BY AppendProperties
  <1> HIDE DEF r
  <1>2. DOMAIN r = 1 .. Len(s) + 1 /\ DOMAIN s = 1 .. Len(s) /\ Len(s) \in Nat
    BY <1>1
  <1>3. ToSet(r) = {c} \cup ToSet(s)
    BY <1>1, <1>2 DEF ToSet
  <1>4. IsInjective(s) /\ c \notin ToSet(s) => IsInjective(r)
    BY <1>1, <1>2 DEF ToSet, IsInjective
  <1> QED
    BY <1>1, <1>3, <1>4 DEF r

LEMMA ElementsInSet ==
    ASSUME NEW S, NEW s \in Seq(S)
    PROVE  ToSet(s) \subseteq S
  BY DEF ToSet

LEMMA EmptyElements ==
    ASSUME NEW S
    PROVE  <<>> \in Seq(S) /\ ToSet(<<>>) = {} /\ IsInjective(<<>>)
  BY DEF ToSet, IsInjective

LEMMA ConcatElements ==
    ASSUME NEW S, NEW s \in Seq(S), NEW t \in Seq(S)
    PROVE  s \o t \in Seq(S) /\ ToSet(s \o t) = ToSet(s) \cup ToSet(t)
  <1> DEFINE r == s \o t
  <1>1. PICK m \in Nat, n \in Nat : m = Len(s) /\ n = Len(t)
    OBVIOUS
  <1>2. /\ r \in Seq(S) /\ Len(r) = m + n
        /\ \A k \in 1 .. m + n : r[k] = IF k <= m THEN s[k] ELSE t[k - m]
    BY <1>1, ConcatProperties
  <1>3. DOMAIN r = 1 .. m + n /\ DOMAIN s = 1 .. m /\ DOMAIN t = 1 .. n
    BY <1>1, <1>2
  <1> HIDE DEF r
  <1>4. \A k \in 1 .. m : k \in 1 .. m + n /\ r[k] = s[k]
    BY <1>2
  <1>5. ASSUME NEW k \in 1 .. n
        PROVE  \E l \in 1 .. m + n : r[l] = t[k]
    <2>1. PICK l \in 1 .. m + n : l = k + m /\ ~(l <= m) /\ l - m = k
      <3>1. k + m \in 1 .. m + n /\ ~(k + m <= m) /\ (k + m) - m = k
        OBVIOUS
      <3> QED
        BY <3>1
    <2>2. r[l] = t[l - m]
      BY <1>2, <2>1
    <2> QED
      BY <2>1, <2>2
  <1>6. ASSUME NEW k \in 1 .. m + n
        PROVE  (\E l \in 1 .. m : r[k] = s[l]) \/ (\E l \in 1 .. n : r[k] = t[l])
    <2>1. CASE k <= m
      BY <1>2, <2>1
    <2>2. CASE ~(k <= m)
      <3>1. k - m \in 1 .. n
        BY <2>2
      <3> QED
        BY <1>2, <2>2, <3>1
    <2> QED
      BY <2>1, <2>2
  <1>7. ToSet(r) \subseteq ToSet(s) \cup ToSet(t)
    BY <1>3, <1>6 DEF ToSet
  <1>8. ToSet(s) \cup ToSet(t) \subseteq ToSet(r)
    BY <1>3, <1>4, <1>5 DEF ToSet
  <1> QED
    BY <1>2, <1>7, <1>8 DEF r

LEMMA SingleElements ==
    ASSUME NEW S, NEW a \in S, NEW b \in S
    PROVE  /\ <<a>> \in Seq(S) /\ ToSet(<<a>>) = {a}
           /\ <<a, b>> \in Seq(S) /\ ToSet(<<a, b>>) = {a, b}
  BY DEF ToSet

-----------------------------------------------------------------------------
(* Induction over the naturals in terms of sets, where the library's rule  *)
(* takes a formula.                                                        *)

\* A set of naturals has a least element.
LEMMA LeastNat ==
    ASSUME NEW T \in SUBSET Nat, T # {}
    PROVE  \E n \in T : \A m \in T : n <= m
  <1> DEFINE R == {p \in Nat \X Nat : p[1] < p[2]}
  <1>1. R = OpToRel(<, Nat)
    BY DEF OpToRel
  <1>2. IsWellFoundedOn(R, Nat)
    BY <1>1, NatLessThanWellFounded
  <1>3. PICK n \in T : \A m \in T : <<m, n>> \notin R
    BY <1>2, WFMin
  <1>4. ASSUME NEW m \in T
        PROVE  m \in Nat /\ n \in Nat /\ ~(m < n)
    <2>1. m \in Nat /\ n \in Nat
      OBVIOUS
    <2>2. m < n => <<m, n>> \in R
      BY <2>1
    <2> QED
      BY <1>3, <2>1, <2>2
  <1>5. \A m \in T : n <= m
    BY <1>4
  <1> QED
    BY <1>5

\* A set with 0 and with the successor of each of its naturals has them all.
LEMMA InductionOnNat ==
    ASSUME NEW S, 0 \in S, \A n \in Nat : n \in S => n + 1 \in S
    PROVE  Nat \subseteq S
  <1> SUFFICES ASSUME Nat \ S # {} PROVE FALSE
    OBVIOUS
  <1>1. PICK n \in Nat \ S : \A m \in Nat \ S : n <= m
    BY LeastNat
  <1>2. n # 0
    OBVIOUS
  <1>3. n - 1 \in Nat /\ ~(n <= n - 1) /\ (n - 1) + 1 = n
    BY <1>2
  <1>4. n - 1 \in S
    BY <1>1, <1>3
  <1> QED
    BY <1>3, <1>4

\* f is the recursive function that starts at base and takes n steps within A.
RunsThrough(f, n, A, base, step) ==
    /\ f \in [0 .. n -> A] /\ f[0] = base
    /\ \A k \in 1 .. n : f[k] = step[k][f[k - 1]]

\* There is one when each step stays within A.
LEMMA RecursionOnNat ==
    ASSUME NEW A, NEW n \in Nat, NEW base \in A, NEW step \in [1 .. n -> [A -> A]]
    PROVE  \E f : RunsThrough(f, n, A, base, step)
  <1> DEFINE Rec(m, f) == RunsThrough(f, m, A, base, step)
             S == {m \in Nat : m <= n => \E f : Rec(m, f)}
  <1>1. 0 \in S
    <2>1. Rec(0, [k \in 0 .. 0 |-> base])
      BY DEF RunsThrough
    <2> QED
      BY <2>1
  <1>2. ASSUME NEW m \in Nat, m \in S
        PROVE  m + 1 \in S
    <2> HIDE DEF Rec
    <2> SUFFICES ASSUME m + 1 <= n PROVE \E f : Rec(m + 1, f)
      OBVIOUS
    <2>1. \E f : Rec(m, f)
      BY <1>2
    <2>2. PICK f : Rec(m, f)
      BY <2>1
    <2> USE DEF Rec, RunsThrough
    <2>3. PICK e : e = step[m + 1][f[m]]
      OBVIOUS
    <2>4. e \in A
      <3>1. m \in 0 .. m /\ m + 1 \in 1 .. n
        OBVIOUS
      <3>2. f[m] \in A
        BY <2>2, <3>1
      <3> QED
        BY <2>3, <3>1, <3>2
    <2> DEFINE g == [k \in 0 .. m + 1 |-> IF k <= m THEN f[k] ELSE e]
    <2>5. g \in [0 .. m + 1 -> A] /\ g[0] = base
      BY <2>2, <2>4
    <2>6. ASSUME NEW k \in 1 .. m + 1
          PROVE  g[k] = step[k][g[k - 1]]
      <3>1. k - 1 \in 0 .. m /\ k - 1 \in 0 .. m + 1
        OBVIOUS
      <3>2. g[k - 1] = f[k - 1]
        BY <3>1
      <3>3. CASE k <= m
        BY <2>2, <3>2, <3>3
      <3>4. CASE ~(k <= m)
        <4>1. k = m + 1 /\ k - 1 = m
          BY <3>4
        <4> QED
          BY <2>3, <3>2, <4>1
      <3> QED
        BY <3>3, <3>4
    <2>7. Rec(m + 1, g)
      BY <2>5, <2>6
    <2> QED
      BY <2>7
  <1> HIDE DEF S
  <1>3. n \in S
    BY <1>1, <1>2, InductionOnNat
  <1> HIDE DEF Rec
  <1>4. PICK f : Rec(n, f)
    BY <1>3 DEF S
  <1> QED
    BY <1>4 DEF Rec

-----------------------------------------------------------------------------
(* Sums along a sequence                                                   *)

\* The recursive function is what its definition says.
LEMMA PrefixSumsType ==
    ASSUME NEW s \in Seq(Int)
    PROVE  /\ PrefixSums(s) \in [0 .. Len(s) -> Int]
           /\ PrefixSums(s)[0] = 0
           /\ \A k \in 1 .. Len(s) : PrefixSums(s)[k] = PrefixSums(s)[k - 1] + s[k]
  <1> DEFINE Sums(n, f) == /\ f \in [0 .. n -> Int] /\ f[0] = 0
                           /\ \A k \in 1 .. n : f[k] = f[k - 1] + s[k]
             S == {n \in Nat : n <= Len(s) => \E f : Sums(n, f)}
             F(f) == [k \in 0 .. Len(s) |-> IF k = 0 THEN 0 ELSE f[k - 1] + s[k]]
             p == PrefixSums(s)
  <1>0. Len(s) \in Nat /\ \A k \in 1 .. Len(s) : s[k] \in Int
    OBVIOUS
  <1>1. 0 \in S
    <2>1. Sums(0, [k \in 0 .. 0 |-> 0])
      OBVIOUS
    <2> QED
      BY <2>1
  <1>2. ASSUME NEW n \in Nat, n \in S
        PROVE  n + 1 \in S
    <2> HIDE DEF Sums
    <2> SUFFICES ASSUME n + 1 <= Len(s) PROVE \E f : Sums(n + 1, f)
      BY <1>0
    <2>0. \E f : Sums(n, f)
      BY <1>0, <1>2
    <2>1. PICK f : Sums(n, f)
      BY <2>0
    <2> USE DEF Sums
    <2> DEFINE g == [k \in 0 .. n + 1 |-> IF k <= n THEN f[k] ELSE f[n] + s[n + 1]]
    <2>2. f[n] \in Int /\ s[n + 1] \in Int
      BY <1>0, <2>1
    <2>3. g \in [0 .. n + 1 -> Int] /\ g[0] = 0
      BY <2>1, <2>2
    <2>4. ASSUME NEW k \in 1 .. n + 1
          PROVE  g[k] = g[k - 1] + s[k]
      <3>1. k - 1 \in 0 .. n /\ k - 1 \in 0 .. n + 1
        OBVIOUS
      <3>2. g[k - 1] = f[k - 1]
        BY <3>1
      <3>3. CASE k <= n
        BY <2>1, <3>2, <3>3
      <3>4. CASE ~(k <= n)
        <4>1. k = n + 1 /\ k - 1 = n
          BY <3>4
        <4> QED
          BY <3>2, <4>1
      <3> QED
        BY <3>3, <3>4
    <2>5. Sums(n + 1, g)
      BY <2>3, <2>4
    <2> QED
      BY <2>5
  <1> HIDE DEF S
  <1>3. Nat \subseteq S
    BY <1>1, <1>2, InductionOnNat
  <1> HIDE DEF Sums
  <1>4. Len(s) \in S
    BY <1>0, <1>3
  <1>5. \E f : Sums(Len(s), f)
    BY <1>0, <1>4 DEF S
  <1>6. PICK f : Sums(Len(s), f)
    BY <1>5
  <1> USE DEF Sums
  <1>7. f = F(f)
    <2>1. ASSUME NEW k \in 0 .. Len(s)
          PROVE  f[k] = IF k = 0 THEN 0 ELSE f[k - 1] + s[k]
      <3>1. k # 0 => k \in 1 .. Len(s)
        BY <1>0
      <3> QED
        BY <1>6, <3>1
    <2>2. f = [k \in 0 .. Len(s) |-> f[k]]
      BY <1>6
    <2> QED
      BY <2>1, <2>2
  <1>8. p = F(p)
    <2>1. p = CHOOSE g : g = F(g)
      BY DEF PrefixSums
    <2> QED
      BY <1>7, <2>1
  <1> HIDE DEF p
  <1>9. p[0] = 0 /\ \A k \in 1 .. Len(s) : p[k] = p[k - 1] + s[k]
    BY <1>0, <1>8
  <1> DEFINE T == {n \in Nat : n <= Len(s) => p[n] \in Int}
  <1>10. 0 \in T
    BY <1>9
  <1>11. ASSUME NEW n \in Nat, n \in T
        PROVE  n + 1 \in T
    <2> SUFFICES ASSUME n + 1 <= Len(s) PROVE p[n + 1] \in Int
      OBVIOUS
    <2>1. n + 1 \in 1 .. Len(s) /\ (n + 1) - 1 = n /\ n <= Len(s)
      BY <1>0
    <2> QED
      BY <1>0, <1>9, <1>11, <2>1
  <1> HIDE DEF T
  <1>12. Nat \subseteq T
    BY <1>10, <1>11, InductionOnNat
  <1>13. \A k \in 0 .. Len(s) : p[k] \in Int
    BY <1>0, <1>12 DEF T
  <1>14. p = [k \in 0 .. Len(s) |-> p[k]]
    BY <1>8
  <1>15. p \in [0 .. Len(s) -> Int]
    BY <1>13, <1>14
  <1> QED
    BY <1>9, <1>15 DEF p

\* What follows the recursion is the sums.
LEMMA PrefixSumsUnique ==
    ASSUME NEW s \in Seq(Int), NEW f, f[0] = 0, NEW n \in 0 .. Len(s),
           \A k \in 1 .. n : f[k] = f[k - 1] + s[k]
    PROVE  \A k \in 0 .. n : f[k] = PrefixSums(s)[k]
  <1> DEFINE p == PrefixSums(s)
             T == {k \in Nat : k <= n => f[k] = p[k]}
  <1>1. n \in Nat /\ Len(s) \in Nat /\ n <= Len(s)
    OBVIOUS
  <1>2. p[0] = 0 /\ \A k \in 1 .. Len(s) : p[k] = p[k - 1] + s[k]
    BY PrefixSumsType
  <1> HIDE DEF p
  <1>3. 0 \in T
    BY <1>2
  <1>4. ASSUME NEW k \in Nat, k \in T
        PROVE  k + 1 \in T
    <2> SUFFICES ASSUME k + 1 <= n PROVE f[k + 1] = p[k + 1]
      OBVIOUS
    <2>1. k + 1 \in 1 .. n /\ k + 1 \in 1 .. Len(s) /\ (k + 1) - 1 = k /\ k <= n
      BY <1>1
    <2> QED
      BY <1>2, <1>4, <2>1
  <1> HIDE DEF T
  <1>5. Nat \subseteq T
    BY <1>3, <1>4, InductionOnNat
  <1> QED
    BY <1>1, <1>5 DEF T, p

\* The sums of naturals grow.
LEMMA PrefixSumsMonotonic ==
    ASSUME NEW s \in Seq(Nat)
    PROVE  \A j \in 0 .. Len(s) : \A i \in 0 .. j :
              PrefixSums(s)[i] \in Nat /\ PrefixSums(s)[i] <= PrefixSums(s)[j]
  <1> DEFINE p == PrefixSums(s)
             T == {j \in Nat : j <= Len(s) => \A i \in 0 .. j : p[i] \in Nat /\ p[i] <= p[j]}
  <1>1. Len(s) \in Nat /\ s \in Seq(Int) /\ \A k \in 1 .. Len(s) : s[k] \in Nat
    OBVIOUS
  <1>2. /\ p \in [0 .. Len(s) -> Int] /\ p[0] = 0
        /\ \A k \in 1 .. Len(s) : p[k] = p[k - 1] + s[k]
    BY <1>1, PrefixSumsType
  <1> HIDE DEF p
  <1>3. 0 \in T
    BY <1>2
  <1>4. ASSUME NEW k \in Nat, k \in T
        PROVE  k + 1 \in T
    <2> SUFFICES ASSUME k + 1 <= Len(s), NEW i \in 0 .. k + 1
                 PROVE  p[i] \in Nat /\ p[i] <= p[k + 1]
      OBVIOUS
    <2>1. k + 1 \in 1 .. Len(s) /\ (k + 1) - 1 = k /\ k <= Len(s) /\ k \in 0 .. k
      BY <1>1
    <2>2. p[k + 1] = p[k] + s[k + 1] /\ s[k + 1] \in Nat /\ p[k] \in Nat
      BY <1>1, <1>2, <1>4, <2>1
    <2>3. CASE i = k + 1
      BY <2>2, <2>3
    <2>4. CASE i # k + 1
      <3>1. i \in 0 .. k
        BY <2>4
      <3>2. p[i] \in Nat /\ p[i] <= p[k]
        BY <1>4, <2>1, <3>1
      <3> QED
        BY <2>2, <3>2
    <2> QED
      BY <2>3, <2>4
  <1> HIDE DEF T
  <1>5. Nat \subseteq T
    BY <1>3, <1>4, InductionOnNat
  <1> QED
    BY <1>1, <1>5 DEF T, p

LEMMA SumOfConcat ==
    ASSUME NEW s \in Seq(Int), NEW t \in Seq(Int)
    PROVE  SumOf(s) \in Int /\ SumOf(s \o t) = SumOf(s) + SumOf(t)
  <1> DEFINE r == s \o t
             a == PrefixSums(s)
             b == PrefixSums(t)
             f == [k \in 0 .. Len(s) + Len(t) |->
                     IF k <= Len(s) THEN a[k] ELSE a[Len(s)] + b[k - Len(s)]]
  <1>1. PICK m \in Nat, n \in Nat : m = Len(s) /\ n = Len(t)
    OBVIOUS
  <1>2. /\ r \in Seq(Int) /\ Len(r) = m + n
        /\ \A k \in 1 .. m + n : r[k] = IF k <= m THEN s[k] ELSE t[k - m]
    BY <1>1, ConcatProperties
  <1>3. a \in [0 .. m -> Int] /\ a[0] = 0 /\ \A k \in 1 .. m : a[k] = a[k - 1] + s[k]
    BY <1>1, PrefixSumsType
  <1>4. b \in [0 .. n -> Int] /\ b[0] = 0 /\ \A k \in 1 .. n : b[k] = b[k - 1] + t[k]
    BY <1>1, PrefixSumsType
  <1> HIDE DEF r, a, b
  <1>5. \A k \in 0 .. m + n : f[k] = IF k <= m THEN a[k] ELSE a[m] + b[k - m]
    BY <1>1
  <1> HIDE DEF f
  <1>6. f[0] = 0
    BY <1>3, <1>5
  <1>7. ASSUME NEW k \in 1 .. m + n
        PROVE  f[k] = f[k - 1] + r[k]
    <2>1. k - 1 \in 0 .. m + n /\ k \in 0 .. m + n
      OBVIOUS
    <2>2. CASE k <= m
      <3>1. k - 1 <= m /\ k \in 1 .. m
        BY <2>2
      <3> QED
        BY <1>2, <1>3, <1>5, <2>1, <2>2, <3>1
    <2>3. CASE k = m + 1
      <3>1. PICK j \in 1 .. n : j = k - m /\ j = 1 /\ j - 1 = 0
        BY <2>3
      <3>2. f[k] = a[m] + b[j] /\ f[k - 1] = a[m] /\ r[k] = t[j]
        BY <1>2, <1>5, <2>1, <2>3, <3>1
      <3>3. b[j] = b[j - 1] + t[j] /\ b[j - 1] = 0 /\ t[j] \in Int /\ a[m] \in Int
        BY <1>1, <1>3, <1>4, <3>1
      <3> QED
        BY <3>2, <3>3
    <2>4. CASE k > m + 1
      <3>1. PICK j \in 1 .. n : j = k - m /\ j - 1 = (k - 1) - m /\ j - 1 \in 0 .. n
        BY <2>4
      <3>2. f[k] = a[m] + b[j] /\ f[k - 1] = a[m] + b[j - 1] /\ r[k] = t[j]
        BY <1>2, <1>5, <2>1, <2>4, <3>1
      <3>3. PICK i \in 0 .. n : i = j - 1
        BY <3>1
      <3>4. b[i] \in Int /\ a[m] \in Int /\ b[j] = b[i] + t[j]
        BY <1>3, <1>4, <3>3
      <3>5. t[j] \in Int
        BY <1>1
      <3>6. f[k - 1] = a[m] + b[i]
        BY <3>2, <3>3
      <3> QED
        BY <3>2, <3>4, <3>5, <3>6
    <2> QED
      BY <2>2, <2>3, <2>4
  <1>8. m + n \in 0 .. Len(r)
    BY <1>2
  <1>9. f[m + n] = PrefixSums(r)[m + n]
    <2>1. PICK l \in 0 .. Len(r) : l = m + n
      BY <1>8
    <2>2. \A k \in 1 .. l : f[k] = f[k - 1] + r[k]
      BY <1>7, <2>1
    <2>3. \A k \in 0 .. l : f[k] = PrefixSums(r)[k]
      BY <1>2, <1>6, <2>2, PrefixSumsUnique
    <2>4. l \in 0 .. l
      BY <2>1
    <2> QED
      BY <2>1, <2>3, <2>4
  <1>10. f[m + n] = a[m] + b[n]
    <2>1. PICK l \in 0 .. m + n : l = m + n /\ l - m = n
      OBVIOUS
    <2>2. f[l] = IF l <= m THEN a[l] ELSE a[m] + b[l - m]
      BY <1>5
    <2>3. a[m] \in Int
      BY <1>3
    <2>4. CASE n = 0
      <3>1. l = m
        BY <2>1, <2>4
      <3>2. f[l] = a[m] /\ b[n] = 0
        BY <1>4, <2>2, <2>4, <3>1
      <3> QED
        BY <2>1, <2>3, <3>2
    <2>5. CASE n # 0
      <3>1. ~(l <= m)
        BY <2>1, <2>5
      <3> QED
        BY <2>1, <2>2, <3>1
    <2> QED
      BY <2>4, <2>5
  <1>11. SumOf(s) = a[m] /\ SumOf(t) = b[n] /\ SumOf(r) = PrefixSums(r)[m + n]
    BY <1>1, <1>2 DEF SumOf, a, b
  <1>12. a[m] \in Int
    BY <1>3
  <1> QED
    BY <1>9, <1>10, <1>11, <1>12 DEF r

LEMMA SumOfFew ==
    SumOf(<<>>) = 0 /\ \A x \in Int : SumOf(<<x>>) = x
  <1>1. SumOf(<<>>) = 0
    <2>1. <<>> \in Seq(Int) /\ Len(<<>>) = 0
      OBVIOUS
    <2> QED
      BY <2>1, PrefixSumsType DEF SumOf
  <1>2. ASSUME NEW x \in Int PROVE SumOf(<<x>>) = x
    <2>0. <<x>> \in Seq(Int) /\ Len(<<x>>) = 1 /\ <<x>>[1] = x
      OBVIOUS
    <2>1. PICK s \in Seq(Int) : s = <<x>> /\ Len(s) = 1 /\ s[1] = x
      BY <2>0
    <2>2. PrefixSums(s)[0] = 0 /\ \A k \in 1 .. 1 : PrefixSums(s)[k] = PrefixSums(s)[k - 1] + s[k]
      BY <2>1, PrefixSumsType
    <2>3. 1 \in 1 .. 1 /\ 1 - 1 = 0
      OBVIOUS
    <2>4. PrefixSums(s)[1] = x
      BY <2>1, <2>2, <2>3
    <2> QED
      BY <2>1, <2>4 DEF SumOf
  <1> QED
    BY <1>1, <1>2

-----------------------------------------------------------------------------
(* How many places of a sequence hold an element of a set                  *)

Occurrences(s, T) == Cardinality({k \in 1 .. Len(s) : s[k] \in T})

LEMMA OccurrencesType ==
    ASSUME NEW S, NEW s \in Seq(S), NEW T
    PROVE  /\ IsFiniteSet({k \in 1 .. Len(s) : s[k] \in T})
           /\ Occurrences(s, T) \in Nat /\ Occurrences(s, T) <= Len(s)
           /\ Occurrences(s, T) = 0 <=> \A k \in 1 .. Len(s) : s[k] \notin T
  <1> DEFINE P == {k \in 1 .. Len(s) : s[k] \in T}
  <1>1. Len(s) \in Nat
    OBVIOUS
  <1>2. IsFiniteSet(1 .. Len(s)) /\ Cardinality(1 .. Len(s)) = Len(s)
    BY <1>1, FS_Interval
  <1>3. P \in SUBSET (1 .. Len(s)) /\ (P = {} <=> \A k \in 1 .. Len(s) : s[k] \notin T)
    OBVIOUS
  <1> HIDE DEF P
  <1>4. IsFiniteSet(P) /\ Cardinality(P) <= Len(s)
    BY <1>2, <1>3, FS_Subset
  <1>5. Cardinality(P) \in Nat /\ (Cardinality(P) = 0 <=> P = {})
    BY <1>4, FS_CardinalityType, FS_EmptySet
  <1> QED
    BY <1>3, <1>4, <1>5 DEF P, Occurrences

LEMMA OccurrencesFew ==
    ASSUME NEW S, NEW a \in S, NEW T
    PROVE  Occurrences(<<>>, T) = 0 /\ Occurrences(<<a>>, T) = IF a \in T THEN 1 ELSE 0
  <1>1. Len(<<>>) = 0 /\ Len(<<a>>) = 1 /\ <<a>>[1] = a
    OBVIOUS
  <1>2. {k \in 1 .. Len(<<>>) : <<>>[k] \in T} = {}
    BY <1>1
  <1>3. {k \in 1 .. Len(<<a>>) : <<a>>[k] \in T} = IF a \in T THEN {1} ELSE {}
    BY <1>1
  <1> QED
    BY <1>2, <1>3, FS_EmptySet, FS_Singleton DEF Occurrences

\* The places of the second of two sequences are counted on from the first.
LEMMA OccurrencesConcat ==
    ASSUME NEW S, NEW s \in Seq(S), NEW t \in Seq(S), NEW T
    PROVE  Occurrences(s \o t, T) = Occurrences(s, T) + Occurrences(t, T)
  <1> DEFINE r == s \o t
             P == {k \in 1 .. Len(s) : s[k] \in T}
             Q == {k \in 1 .. Len(t) : t[k] \in T}
             R == {k \in 1 .. Len(r) : r[k] \in T}
  <1>1. PICK m \in Nat, n \in Nat : m = Len(s) /\ n = Len(t)
    OBVIOUS
  <1>2. /\ r \in Seq(S) /\ Len(r) = m + n
        /\ \A k \in 1 .. m + n : r[k] = IF k <= m THEN s[k] ELSE t[k - m]
    BY <1>1, ConcatProperties
  <1>3. IsFiniteSet(P) /\ IsFiniteSet(Q)
    BY OccurrencesType
  <1> HIDE DEF r
  <1> DEFINE U == {k \in m + 1 .. m + n : t[k - m] \in T}
             f == [k \in Q |-> k + m]
  <1>4. R = P \cup U
    <2>1. \A k \in 1 .. m + n : IF k <= m THEN k \in 1 .. m ELSE k \in m + 1 .. m + n
      OBVIOUS
    <2>2. \A k \in 1 .. m : k \in 1 .. m + n /\ k <= m
      OBVIOUS
    <2>3. \A k \in m + 1 .. m + n : k \in 1 .. m + n /\ ~(k <= m)
      OBVIOUS
    <2>4. ASSUME NEW k \in R PROVE k \in P \cup U
      <3>1. k \in 1 .. m + n /\ r[k] \in T
        BY <1>2
      <3> QED
        BY <1>1, <1>2, <2>1, <3>1
    <2>5. ASSUME NEW k \in P PROVE k \in R
      BY <1>1, <1>2, <2>2
    <2>6. ASSUME NEW k \in U PROVE k \in R
      BY <1>2, <2>3
    <2> HIDE DEF P, U, R
    <2> QED
      BY <2>4, <2>5, <2>6
  <1>5. P \cap U = {}
    BY <1>1
  <1>6. f \in Bijection(Q, U)
    <2>1. \A k \in Q : k \in Int /\ k + m \in U
      <3> TAKE k \in Q
      <3>1. k \in 1 .. n /\ t[k] \in T
        BY <1>1
      <3>2. k + m \in m + 1 .. m + n /\ (k + m) - m = k
        BY <3>1
      <3> QED
        BY <3>1, <3>2
    <2>2. f \in [Q -> U]
      BY <2>1
    <2>3. \A a, b \in Q : f[a] = f[b] => a = b
      <3> TAKE a, b \in Q
      <3>1. a \in Int /\ b \in Int /\ f[a] = a + m /\ f[b] = b + m
        BY <2>1
      <3> QED
        BY <3>1
    <2>4. ASSUME NEW u \in U
          PROVE  \E k \in Q : f[k] = u
      <3>1. u - m \in Q /\ (u - m) + m = u
        BY <1>1
      <3> QED
        BY <3>1
    <2> HIDE DEF Q, U, f
    <2> QED
      BY <2>2, <2>3, <2>4, Fun_IsBij
  <1>7. IsFiniteSet(U) /\ Cardinality(U) = Cardinality(Q)
    <2> HIDE DEF Q, U, f
    <2>1. ExistsBijection(Q, U)
      BY <1>6 DEF ExistsBijection
    <2> QED
      BY <1>3, <2>1, FS_Bijection
  <1> HIDE DEF P, Q, R, U, f
  <1>8. Cardinality(P) \in Nat /\ Cardinality(U) \in Nat
    BY <1>3, <1>7, FS_CardinalityType
  <1>9. Cardinality(R) = Cardinality(P) + Cardinality(U)
    <2>1. Cardinality(P \cup U) = Cardinality(P) + Cardinality(U) - Cardinality(P \cap U)
      BY <1>3, <1>7, FS_Union
    <2>2. Cardinality(P \cap U) = 0
      BY <1>5, FS_EmptySet
    <2> QED
      BY <1>4, <1>8, <2>1, <2>2
  <1> QED
    BY <1>7, <1>9 DEF Occurrences, P, Q, R, r

LEMMA OccurrencesHeadTail ==
    ASSUME NEW S, NEW s \in Seq(S), s # <<>>, NEW T
    PROVE  Occurrences(s, T) = Occurrences(Tail(s), T) + IF Head(s) \in T THEN 1 ELSE 0
  <1>1. Head(s) \in S /\ Tail(s) \in Seq(S) /\ <<Head(s)>> \in Seq(S) /\ s = <<Head(s)>> \o Tail(s)
    OBVIOUS
  <1>2. Occurrences(<<Head(s)>>, T) = IF Head(s) \in T THEN 1 ELSE 0
    <2> SUFFICES ASSUME NEW a \in S, a = Head(s)
                 PROVE  Occurrences(<<a>>, T) = IF a \in T THEN 1 ELSE 0
      BY <1>1
    <2> QED
      BY OccurrencesFew
  <1>3. Occurrences(Tail(s), T) \in Nat
    BY <1>1, OccurrencesType
  <1>4. ASSUME NEW h \in Seq(S), NEW t \in Seq(S), s = h \o t
        PROVE  Occurrences(s, T) = Occurrences(h, T) + Occurrences(t, T)
    <2>1. Occurrences(h \o t, T) = Occurrences(h, T) + Occurrences(t, T)
      BY OccurrencesConcat
    <2> QED
      BY <1>4, <2>1
  <1>5. Occurrences(s, T) = Occurrences(<<Head(s)>>, T) + Occurrences(Tail(s), T)
    BY <1>1, <1>4
  <1> QED
    BY <1>2, <1>3, <1>5
=============================================================================
