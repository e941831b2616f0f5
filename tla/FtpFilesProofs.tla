--------------------------- MODULE FtpFilesProofs ---------------------------
(***************************************************************************)
(* Theorems about FtpFiles, for any sessions, paths, offsets and size of   *)
(* the volume: no command cuts an object off from the root, no upload      *)
(* takes more clusters than there are, and, for clients with plain paths,  *)
(* the server does what FtpStore promises.                                 *)
(*                                                                         *)
(* The names of a path are a walk along its tokens; a longer path is a     *)
(* longer walk.  From that follows what CWD, CDUP and the commands on      *)
(* files make of a directory and a parameter.                              *)
(***************************************************************************)
EXTENDS FtpFiles, SequenceElements, TLAPS

-----------------------------------------------------------------------------
(* The tree                                                                *)

\* The tree t, with its root: what VolumeIsTree needs to be inductive.
Connected(t) ==
    /\ IsDir(t, <<>>)
    /\ \A o \in DOMAIN t \ {<<>>} : IsDir(t, Front(o))

LEMMA PutEntries ==
    ASSUME NEW t, NEW o, NEW node
    PROVE  /\ DOMAIN Put(t, o, node) = DOMAIN t \cup {o}
           /\ Put(t, o, node)[o] = node
           /\ \A x \in DOMAIN t : x # o => Put(t, o, node)[x] = t[x]
  BY DEF Put

\* What is put into a directory, or in the place of a file, is reached as that
\* is; and nothing was below it.
LEMMA PutKeepsConnected ==
    ASSUME NEW t, NEW o, NEW node, Connected(t),
           \/ CanCreate(t, o)
           \/ IsFile(t, o)
    PROVE  Connected(Put(t, o, node))
  <1> DEFINE u == Put(t, o, node)
  <1>1. o # <<>> /\ IsDir(t, Front(o)) /\ ~IsDir(t, o)
    BY DEF Connected, CanCreate, IsFile, IsDir
  <1>2. ASSUME NEW x, IsDir(t, x)
        PROVE  IsDir(u, x)
    <2>1. x \in DOMAIN t /\ x # o
      BY <1>1, <1>2 DEF IsDir
    <2>2. x \in DOMAIN u /\ u[x] = t[x]
      BY <2>1 DEF Put
    <2> HIDE DEF u
    <2> QED
      BY <1>2, <2>2 DEF IsDir
  <1>3. DOMAIN u = DOMAIN t \cup {o}
    BY PutEntries
  <1> HIDE DEF u
  <1>4. ASSUME NEW x \in DOMAIN u \ {<<>>}
        PROVE  IsDir(u, Front(x))
    BY <1>1, <1>2, <1>3, <1>4 DEF Connected
  <1> QED
    BY <1>2, <1>4 DEF Connected, u

\* f_unlink leaves the root, and takes no directory that has entries.
LEMMA UnlinkKeepsConnected ==
    ASSUME NEW t, NEW o, Connected(t), CanUnlink(t, o)
    PROVE  Connected(Unlinked(t, o))
  <1> DEFINE u == Unlinked(t, o)
  <1>1. o # <<>> /\ \A x \in DOMAIN t \ {<<>>} : Front(x) # o
    BY DEF CanUnlink, ChildrenOf
  <1>2. ASSUME NEW x, IsDir(t, x), x # o
        PROVE  IsDir(u, x)
    BY <1>2 DEF IsDir, Unlinked
  <1>3. DOMAIN u = DOMAIN t \ {o}
    BY DEF Unlinked
  <1> HIDE DEF u
  <1> QED
    BY <1>1, <1>2, <1>3 DEF Connected, u

-----------------------------------------------------------------------------
LEMMA InitConnected == Init => Connected(tree)
  <1> SUFFICES ASSUME Init PROVE Connected(tree)
    OBVIOUS
  <1>1. tree = [x \in {<<>>} |-> DirNode]
    BY DEF Init, EmptyVolume
  <1> QED
    BY <1>1 DEF Connected, IsDir, DirNode

LEMMA NextConnected ==
    ASSUME Connected(tree), [Next]_vars
    PROVE  Connected(tree)'
  <1>1. ASSUME tree' = tree
        PROVE  Connected(tree)'
    BY <1>1
  <1>2. CASE UNCHANGED vars
    BY <1>1, <1>2 DEF vars
  <1>3. ASSUME NEW s \in Sessions,
               Connect(s) \/ Leave(s) \/ List(s) \/ Nlst(s) \/ Rest(s) \/ Cdup(s)
        PROVE  Connected(tree)'
    BY <1>1, <1>3 DEF Connect, Leave, List, Nlst, Rest, Cdup
  <1>4. ASSUME NEW s \in Sessions, NEW p \in Params,
               Retr(s, p) \/ Size(s, p) \/ Cwd(s, p) \/ StorRefused(s, p)
        PROVE  Connected(tree)'
    BY <1>1, <1>4 DEF Retr, Size, Cwd, StorRefused
  <1>5. ASSUME NEW s \in Sessions, NEW p \in Params, StorFinished(s, p)
        PROVE  Connected(tree)'
    <2> DEFINE o == Object(Path(s, p))
    <2>1. IsFile(tree, o) \/ CanCreate(tree, o)
      BY <1>5 DEF StorFinished, OpensForWriting
    <2>2. \E node : tree' = Put(tree, o, node)
      BY <1>5 DEF StorFinished
    <2> QED
      BY <2>1, <2>2, PutKeepsConnected
  <1>6. ASSUME NEW s \in Sessions, NEW p \in Params, Mkd(s, p)
        PROVE  Connected(tree)'
    <2> DEFINE o == Object(Path(s, p))
    <2>1. tree' = tree \/ (CanCreate(tree, o) /\ tree' = Put(tree, o, DirNode))
      BY <1>6 DEF Mkd, CanMake
    <2> QED
      BY <1>1, <2>1, PutKeepsConnected
  <1>7. ASSUME NEW s \in Sessions, NEW p \in Params, Dele(s, p) \/ Rmd(s, p)
        PROVE  Connected(tree)'
    <2> DEFINE o == Object(Path(s, p))
    <2>1. tree' = tree \/ (CanUnlink(tree, o) /\ tree' = Unlinked(tree, o))
      BY <1>7 DEF Dele, Rmd, Unlink
    <2> QED
      BY <1>1, <2>1, UnlinkKeepsConnected
  <1> QED
    BY <1>2, <1>3, <1>4, <1>5, <1>6, <1>7 DEF Next

\* Every object stays below a directory that exists, whatever the sessions
\* create, overwrite and remove, and wherever they stand.
THEOREM TreeStaysConnected == Spec => []VolumeIsTree
  <1>1. Connected(tree) => VolumeIsTree
    BY DEF Connected, VolumeIsTree
  <1> QED
    BY <1>1, InitConnected, NextConnected, PTL DEF Spec

-----------------------------------------------------------------------------
(* What the names of a path are                                            *)

\* f[k] is where one stands after the first k tokens of p, from b on.
Walks(f, b, p) ==
    /\ f[0] = b
    /\ \A k \in 1 .. Len(p) : f[k] = IF p[k] = Sep THEN f[k - 1] ELSE Append(f[k - 1], p[k])

Along(S, p) == [0 .. Len(p) -> Seq(S)]

\* The tokens of T are names of S and the separator.
Spells(S, T) == T \subseteq S \cup {Sep}

LEMMA WalkExists ==
    ASSUME NEW S, NEW T, Spells(S, T), NEW p \in Seq(T), NEW b \in Seq(S)
    PROVE  \E f \in Along(S, p) : Walks(f, b, p)
  <1> DEFINE A == Seq(S)
             step == [k \in 1 .. Len(p) |-> [s \in A |-> IF p[k] = Sep THEN s ELSE Append(s, p[k])]]
  <1>1. Len(p) \in Nat
    OBVIOUS
  <1>2. step \in [1 .. Len(p) -> [A -> A]]
    <2>1. SUFFICES ASSUME NEW k \in 1 .. Len(p), NEW s \in A
                   PROVE  (IF p[k] = Sep THEN s ELSE Append(s, p[k])) \in A
      OBVIOUS
    <2>2. p[k] \in T
      OBVIOUS
    <2>3. p[k] # Sep => p[k] \in S
      BY <2>2 DEF Spells
    <2> QED
      BY <2>3
  <1>3. \A k \in 1 .. Len(p) : \A s \in A : step[k][s] = IF p[k] = Sep THEN s ELSE Append(s, p[k])
    OBVIOUS
  <1> HIDE DEF step, A
  <1>4. b \in A
    BY DEF A
  <1>5. PICK f : RunsThrough(f, Len(p), A, b, step)
    BY <1>1, <1>2, <1>4, RecursionOnNat
  <1>6. ASSUME NEW k \in 1 .. Len(p)
        PROVE  f[k] = IF p[k] = Sep THEN f[k - 1] ELSE Append(f[k - 1], p[k])
    <2>1. f[k - 1] \in A
      BY <1>1, <1>5 DEF RunsThrough
    <2> QED
      BY <1>3, <1>5, <2>1 DEF RunsThrough
  <1> QED
    BY <1>5, <1>6 DEF A, Along, Walks, RunsThrough

\* Where the walk begins is what its end begins with.
LEMMA WalkFrom ==
    ASSUME NEW S, NEW T, Spells(S, T), NEW p \in Seq(T), NEW b \in Seq(S),
           NEW f, Walks(f, b, p), NEW g \in Along(S, p), Walks(g, <<>>, p)
    PROVE  \A k \in 0 .. Len(p) : f[k] = b \o g[k]
  <1> DEFINE R == {k \in Nat : k <= Len(p) => f[k] = b \o g[k]}
  <1>1. Len(p) \in Nat /\ \A k \in 0 .. Len(p) : g[k] \in Seq(S)
    BY DEF Along
  <1>2. 0 \in R
    BY DEF Walks
  <1>3. ASSUME NEW k \in Nat, k \in R
        PROVE  k + 1 \in R
    <2>1. SUFFICES ASSUME k + 1 <= Len(p) PROVE f[k + 1] = b \o g[k + 1]
      OBVIOUS
    <2>2. k + 1 \in 1 .. Len(p) /\ (k + 1) - 1 = k /\ k \in 0 .. Len(p) /\ k <= Len(p)
      BY <1>1, <2>1
    <2>3. f[k] = b \o g[k]
      BY <1>3, <2>2
    <2>4. /\ f[k + 1] = IF p[k + 1] = Sep THEN f[k] ELSE Append(f[k], p[k + 1])
          /\ g[k + 1] = IF p[k + 1] = Sep THEN g[k] ELSE Append(g[k], p[k + 1])
      BY <2>2 DEF Walks
    <2>5. g[k] \in Seq(S) /\ p[k + 1] \in T
      BY <1>1, <2>2
    <2>6. CASE p[k + 1] = Sep
      BY <2>3, <2>4, <2>6
    <2>7. CASE p[k + 1] # Sep
      <3>1. PICK x \in S : x = p[k + 1]
        BY <2>5, <2>7 DEF Spells
      <3>2. PICK s \in Seq(S) : s = g[k]
        BY <2>5
      <3>3. Append(b \o s, x) = b \o Append(s, x)
        BY SMTT(30)
      <3> QED
        BY <2>3, <2>4, <2>7, <3>1, <3>2, <3>3
    <2> QED
      BY <2>6, <2>7
  <1> HIDE DEF R
  <1>4. Nat \subseteq R
    BY <1>2, <1>3, InductionOnNat
  <1>5. \A k \in 0 .. Len(p) : k \in R /\ k \in Nat /\ k <= Len(p)
    BY <1>1, <1>4
  <1> QED
    BY <1>5 DEF R

\* The recursive function of Segments is such a walk.
LEMMA SegmentsWalk ==
    ASSUME NEW S, NEW T, Spells(S, T), NEW p \in Seq(T)
    PROVE  \E f \in Along(S, p) : Walks(f, <<>>, p) /\ Segments(p) = f[Len(p)]
  <1> DEFINE F(f) == [k \in 0 .. Len(p) |->
                         IF k = 0 THEN <<>>
                         ELSE IF p[k] = Sep THEN f[k - 1] ELSE Append(f[k - 1], p[k])]
             n == CHOOSE f : f = F(f)
  <1>1. Segments(p) = n[Len(p)]
    BY DEF Segments
  <1>2. <<>> \in Seq(S) /\ Len(p) \in Nat
    OBVIOUS
  <1>3. PICK g \in Along(S, p) : Walks(g, <<>>, p)
    BY <1>2, WalkExists
  <1>4. g = F(g)
    <2>1. ASSUME NEW k \in 0 .. Len(p)
          PROVE  g[k] = IF k = 0 THEN <<>>
                        ELSE IF p[k] = Sep THEN g[k - 1] ELSE Append(g[k - 1], p[k])
      <3>1. k # 0 => k \in 1 .. Len(p)
        BY <1>2
      <3> QED
        BY <1>3, <3>1 DEF Walks
    <2>2. g = [k \in 0 .. Len(p) |-> g[k]]
      BY DEF Along
    <2> QED
      BY <2>1, <2>2
  <1>5. n = F(n)
    BY <1>4
  <1> HIDE DEF n
  <1>6. Walks(n, <<>>, p)
    <2>1. n[0] = <<>>
      BY <1>2, <1>5
    <2>2. ASSUME NEW k \in 1 .. Len(p)
          PROVE  n[k] = IF p[k] = Sep THEN n[k - 1] ELSE Append(n[k - 1], p[k])
      <3>1. k \in 0 .. Len(p) /\ k # 0
        BY <1>2
      <3> QED
        BY <1>5, <3>1
    <2> QED
      BY <2>1, <2>2 DEF Walks
  <1> HIDE DEF F
  <1>7. ASSUME NEW k \in 0 .. Len(p) PROVE n[k] = g[k]
    <2>0. \A j \in 0 .. Len(p) : n[j] = <<>> \o g[j]
      <3>1. PICK e \in Seq(S) : e = <<>>
        BY <1>2
      <3>2. Walks(n, e, p)
        BY <1>6, <3>1
      <3>3. \A j \in 0 .. Len(p) : n[j] = e \o g[j]
        BY <1>3, <3>2, WalkFrom
      <3> QED
        BY <3>1, <3>3
    <2>1. n[k] = <<>> \o g[k]
      BY <2>0
    <2>2. g[k] \in Seq(S)
      BY DEF Along
    <2> QED
      BY <2>1, <2>2
  <1>8. Segments(p) = g[Len(p)]
    BY <1>1, <1>2, <1>7
  <1> QED
    BY <1>3, <1>8

LEMMA SegmentsType ==
    ASSUME NEW S, NEW T, Spells(S, T), NEW p \in Seq(T)
    PROVE  Segments(p) \in Seq(S)
  <1>1. PICK f \in Along(S, p) : Segments(p) = f[Len(p)]
    BY SegmentsWalk
  <1>2. Len(p) \in 0 .. Len(p)
    OBVIOUS
  <1> QED
    BY <1>1, <1>2 DEF Along

\* A walk ends at where it begins and then the names.
LEMMA WalkEnds ==
    ASSUME NEW S, NEW T, Spells(S, T), NEW p \in Seq(T), NEW b \in Seq(S),
           NEW f, Walks(f, b, p)
    PROVE  f[Len(p)] = b \o Segments(p)
  <1>1. PICK g \in Along(S, p) : Walks(g, <<>>, p) /\ Segments(p) = g[Len(p)]
    BY SegmentsWalk
  <1>2. Len(p) \in 0 .. Len(p)
    OBVIOUS
  <1> QED
    BY <1>1, <1>2, WalkFrom

LEMMA SegmentsConcat ==
    ASSUME NEW S, NEW T, Spells(S, T), NEW a \in Seq(T), NEW b \in Seq(T)
    PROVE  Segments(a \o b) = Segments(a) \o Segments(b)
  <1>1. PICK p \in Seq(T) : /\ p = a \o b /\ Len(p) = Len(a) + Len(b)
                            /\ \A k \in 1 .. Len(a) : p[k] = a[k]
                            /\ \A k \in 1 .. Len(b) : p[Len(a) + k] = b[k]
    <2>1. a \o b \in Seq(T)
      OBVIOUS
    <2>2. Len(a \o b) = Len(a) + Len(b)
      OBVIOUS
    <2>3. \A k \in 1 .. Len(a) : (a \o b)[k] = a[k]
      OBVIOUS
    <2>4. \A k \in 1 .. Len(b) : (a \o b)[Len(a) + k] = b[k]
      OBVIOUS
    <2> QED
      BY <2>1, <2>2, <2>3, <2>4
  <1>2. PICK f \in Along(S, p) : Walks(f, <<>>, p) /\ Segments(p) = f[Len(p)]
    BY SegmentsWalk
  <1>3. PICK m \in Nat, n \in Nat : m = Len(a) /\ n = Len(b) /\ Len(p) = m + n
    BY <1>1
  <1>4. Walks(f, <<>>, a)
    BY <1>1, <1>2, <1>3 DEF Walks
  <1>5. f[m] = Segments(a)
    <2>0. Segments(a) \in Seq(S)
      BY SegmentsType
    <2>1. <<>> \in Seq(S) /\ Segments(a) \in Seq(S)
      BY <2>0
    <2>2. f[Len(a)] = <<>> \o Segments(a)
      BY <1>4, <2>1, WalkEnds
    <2> QED
      BY <1>3, <2>1, <2>2
  <1> DEFINE g == [k \in 0 .. n |-> f[m + k]]
  <1>6. g[0] = f[m]
    BY <1>3
  <1>7. ASSUME NEW k \in 1 .. n
        PROVE  g[k] = IF b[k] = Sep THEN g[k - 1] ELSE Append(g[k - 1], b[k])
    <2>1. m + k \in 1 .. Len(p) /\ (m + k) - 1 = m + (k - 1) /\ k - 1 \in 0 .. n /\ k \in 0 .. n
      BY <1>3
    <2>2. p[m + k] = b[k]
      BY <1>1, <1>3
    <2>3. f[m + k] = IF p[m + k] = Sep THEN f[(m + k) - 1] ELSE Append(f[(m + k) - 1], p[m + k])
      BY <1>2, <2>1 DEF Walks
    <2> QED
      BY <2>1, <2>2, <2>3
  <1>8. g[n] = f[m + n]
    BY <1>3
  <1> HIDE DEF g
  <1>9. Walks(g, Segments(a), b)
    BY <1>3, <1>5, <1>6, <1>7 DEF Walks
  <1>10. g[Len(b)] = Segments(a) \o Segments(b)
    BY <1>9, SegmentsType, WalkEnds
  <1> QED
    BY <1>1, <1>2, <1>3, <1>8, <1>10

LEMMA SegmentsFew ==
    /\ Segments(<<>>) = <<>>
    /\ Segments(<<Sep>>) = <<>>
    /\ \A x : x # Sep => Segments(<<x>>) = <<x>>
  <1>1. Segments(<<>>) = <<>>
    <2>1. <<>> \in Seq({Sep})
      OBVIOUS
    <2>2. Spells({}, {Sep})
      BY DEF Spells
    <2>3. Segments(<<>>) \in Seq({})
      BY <2>1, <2>2, SegmentsType
    <2> QED
      BY <2>3
  <1>2. Segments(<<Sep>>) = <<>>
    <2>1. <<Sep>> \in Seq({Sep})
      OBVIOUS
    <2>2. Spells({}, {Sep})
      BY DEF Spells
    <2>3. Segments(<<Sep>>) \in Seq({})
      BY <2>1, <2>2, SegmentsType
    <2> QED
      BY <2>3
  <1>3. ASSUME NEW x, x # Sep PROVE Segments(<<x>>) = <<x>>
    <2>1. PICK p : p = <<x>>
      OBVIOUS
    <2>2. p \in Seq({x}) /\ Len(p) = 1 /\ p[1] = x
      BY <2>1
    <2>3. PICK f \in Along({x}, p) : Walks(f, <<>>, p) /\ Segments(p) = f[Len(p)]
      <3>1. Spells({x}, {x})
        BY DEF Spells
      <3> QED
        BY <2>2, <3>1, SegmentsWalk
    <2>4. 1 \in 1 .. Len(p) /\ 1 - 1 = 0
      BY <2>2
    <2>5. f[1] = Append(f[0], x) /\ f[0] = <<>>
      BY <1>3, <2>2, <2>3, <2>4 DEF Walks
    <2> QED
      BY <2>1, <2>2, <2>3, <2>5
  <1> QED
    BY <1>1, <1>2, <1>3

\* Without ".." a path only adds its names to the place it starts from.
LEMMA ResolvePlain ==
    ASSUME NEW S, Sep \notin S, Up \notin S, NEW T, Spells(S, T), NEW p \in Seq(T), NEW place \in Seq(S)
    PROVE  Resolve(place, p) = (IF StartsWith(p, Sep) THEN <<>> ELSE place) \o Segments(p)
  <1>1. PICK b \in Seq(S) : b = IF StartsWith(p, Sep) THEN <<>> ELSE place
    <2>1. <<>> \in Seq(S)
      OBVIOUS
    <2> QED
      BY <2>1
  <1> DEFINE F(f) == [k \in 0 .. Len(p) |->
                         IF k = 0 THEN (IF StartsWith(p, Sep) THEN <<>> ELSE place)
                         ELSE CASE p[k] = Sep -> f[k - 1]
                                [] p[k] = Up  -> Parent(f[k - 1])
                                [] OTHER      -> Append(f[k - 1], p[k])]
             G(f) == [k \in 0 .. Len(p) |->
                         IF k = 0 THEN b
                         ELSE IF p[k] = Sep THEN f[k - 1] ELSE Append(f[k - 1], p[k])]
             n == CHOOSE f : f = F(f)
  <1>2. Resolve(place, p) = n[Len(p)]
    BY DEF Resolve
  <1>3. Len(p) \in Nat /\ \A k \in 1 .. Len(p) : p[k] # Up
    <2>1. Up # Sep
      BY DEF Up, Sep
    <2>2. \A k \in 1 .. Len(p) : p[k] \in T
      OBVIOUS
    <2> QED
      BY <2>1, <2>2 DEF Spells
  <1>4. ASSUME NEW f PROVE F(f) = G(f)
    <2>1. ASSUME NEW k \in 0 .. Len(p)
          PROVE  (IF k = 0 THEN (IF StartsWith(p, Sep) THEN <<>> ELSE place)
                  ELSE CASE p[k] = Sep -> f[k - 1]
                         [] p[k] = Up  -> Parent(f[k - 1])
                         [] OTHER      -> Append(f[k - 1], p[k]))
                 = IF k = 0 THEN b
                   ELSE IF p[k] = Sep THEN f[k - 1] ELSE Append(f[k - 1], p[k])
      <3>1. CASE k = 0
        BY <1>1, <3>1
      <3>2. CASE k # 0
        <4>1. k \in 1 .. Len(p)
          BY <1>3, <3>2
        <4>2. p[k] # Up
          BY <1>3, <4>1
        <4> QED
          BY <3>2, <4>2
      <3> QED
        BY <3>1, <3>2
    <2> QED
      BY <2>1
  <1>5. PICK g \in Along(S, p) : Walks(g, b, p)
    BY <1>1, WalkExists
  <1>6. g = G(g)
    <2>1. ASSUME NEW k \in 0 .. Len(p)
          PROVE  g[k] = IF k = 0 THEN b
                        ELSE IF p[k] = Sep THEN g[k - 1] ELSE Append(g[k - 1], p[k])
      <3>1. k # 0 => k \in 1 .. Len(p)
        BY <1>3
      <3> QED
        BY <1>5, <3>1 DEF Walks
    <2>2. g = [k \in 0 .. Len(p) |-> g[k]]
      BY DEF Along
    <2> QED
      BY <2>1, <2>2
  <1> HIDE DEF F, G
  <1>7. n = F(n)
    BY <1>4, <1>6
  <1> HIDE DEF n
  <1>8. n = G(n)
    BY <1>4, <1>7
  <1> USE DEF G
  <1>9. Walks(n, b, p)
    <2>1. n[0] = b
      BY <1>3, <1>8
    <2>2. ASSUME NEW k \in 1 .. Len(p)
          PROVE  n[k] = IF p[k] = Sep THEN n[k - 1] ELSE Append(n[k - 1], p[k])
      <3>1. k \in 0 .. Len(p) /\ k # 0
        BY <1>3
      <3> QED
        BY <1>8, <3>1
    <2> QED
      BY <2>1, <2>2 DEF Walks
  <1> HIDE DEF G
  <1>10. n[Len(p)] = b \o Segments(p)
    BY <1>9, WalkEnds
  <1> QED
    BY <1>1, <1>2, <1>10

-----------------------------------------------------------------------------
(* What the server does to paths                                           *)

LEMMA SequencePath ==
    ASSUME NEW S, NEW p \in Seq(S)
    PROVE  p \in Seq(ToSet(p))
  <1>1. \A i \in 1 .. Len(p) : p[i] \in ToSet(p)
    BY DEF ToSet
  <1>2. Len(p) \in Nat /\ p = [i \in 1 .. Len(p) |-> p[i]]
    OBVIOUS
  <1> QED
    BY <1>1, <1>2

\* q is the first k tokens of d.
Prefix(S, q, d, k) ==
    /\ q \in Seq(S) /\ Len(q) = k /\ (\A i \in 1 .. k : q[i] = d[i]) /\ IsPath(q)
    /\ \A e : e \notin ToSet(d) => e \notin ToSet(q)

LEMMA PrefixPath ==
    ASSUME NEW S, NEW d \in Seq(S), IsPath(d), NEW k \in 0 .. Len(d), NEW q, q = SubSeq(d, 1, k)
    PROVE  Prefix(S, q, d, k)
  <1>1. Len(d) \in Nat /\ k \in Nat /\ k <= Len(d)
    OBVIOUS
  <1>4. q \in Seq(S) /\ Len(q) = k
    BY <1>1
  <1>5. \A i \in 1 .. k : q[i] = d[i]
    BY <1>1
  <1>6. ASSUME NEW i \in 1 .. Len(q) - 1 PROVE q[i] = Sep \/ q[i + 1] = Sep
    <2>1. i \in 1 .. k /\ i + 1 \in 1 .. k /\ i \in 1 .. Len(d) - 1
      BY <1>1, <1>4
    <2>2. d[i] = Sep \/ d[i + 1] = Sep
      BY <2>1 DEF IsPath
    <2> QED
      BY <1>5, <2>1, <2>2
  <1>7. ToSet(q) \subseteq ToSet(d)
    <2>1. \A i \in 1 .. k : i \in 1 .. Len(d)
      BY <1>1
    <2>2. DOMAIN q = 1 .. k /\ DOMAIN d = 1 .. Len(d)
      BY <1>4
    <2> QED
      BY <1>5, <2>1, <2>2 DEF ToSet
  <1> QED
    BY <1>4, <1>5, <1>6, <1>7, SequencePath DEF IsPath, Prefix

Cuts(p) == {i \in 2 .. Len(p) : p[i] = Sep}

LEMMA LastCut ==
    ASSUME NEW S, NEW p \in Seq(S), Cuts(p) # {}
    PROVE  Max(Cuts(p)) \in Cuts(p) /\ \A i \in Cuts(p) : i <= Max(Cuts(p))
  <1> DEFINE T == {n \in Nat : Len(p) - n \in Cuts(p)}
  <1>1. Len(p) \in Nat /\ Cuts(p) \subseteq 2 .. Len(p)
    BY DEF Cuts
  <1>2. \A i \in Cuts(p) : Len(p) - i \in T
    BY <1>1
  <1>3. PICK n \in T : \A m \in T : n <= m
    <2>1. T # {} /\ T \in SUBSET Nat
      BY <1>2
    <2> HIDE DEF T
    <2> QED
      BY <2>1, LeastNat
  <1>4. PICK c \in Cuts(p) : c = Len(p) - n
    BY <1>3
  <1>5. \A i \in Cuts(p) : i <= c
    BY <1>1, <1>2, <1>3, <1>4
  <1>6. \A i \in Cuts(p) : i \in Int /\ c >= i
    BY <1>1, <1>5
  <1> HIDE DEF T
  <1>7. Max(Cuts(p)) = CHOOSE x \in Cuts(p) : \A y \in Cuts(p) : x >= y
    BY DEF Max
  <1>8. Max(Cuts(p)) \in Cuts(p) /\ \A i \in Cuts(p) : Max(Cuts(p)) >= i
    BY <1>6, <1>7
  <1> QED
    BY <1>1, <1>8

\* The string before the last separator, if there is one to cut at.
LEMMA StepDownCut ==
    ASSUME NEW S, NEW d \in Seq(S)
    PROVE  \/ Cuts(d) = {} /\ StepDown(d) = <<Sep>>
           \/ \E m \in 2 .. Len(d) : /\ d[m] = Sep /\ StepDown(d) = SubSeq(d, 1, m - 1)
                                     /\ \A i \in m + 1 .. Len(d) : d[i] # Sep
  <1>1. CASE Cuts(d) = {}
    BY <1>1 DEF StepDown, Cuts
  <1>2. CASE Cuts(d) # {}
    <2>1. PICK m : m = Max(Cuts(d))
      OBVIOUS
    <2>2. m \in Cuts(d) /\ \A i \in Cuts(d) : i <= m
      BY <1>2, <2>1, LastCut
    <2>3. StepDown(d) = SubSeq(d, 1, m - 1)
      BY <1>2, <2>1 DEF StepDown, Cuts
    <2>4. m \in 2 .. Len(d) /\ d[m] = Sep
      BY <2>2 DEF Cuts
    <2>5. ASSUME NEW i \in m + 1 .. Len(d) PROVE d[i] # Sep
      <3>1. i \in 2 .. Len(d) /\ ~(i <= m)
        BY <2>4
      <3> QED
        BY <2>2, <3>1 DEF Cuts
    <2> QED
      BY <2>3, <2>4, <2>5
  <1> QED
    BY <1>1, <1>2

LEMMA SinglePath ==
    ASSUME NEW S, NEW x \in S
    PROVE  <<x>> \in Seq(S) /\ IsPath(<<x>>)
  <1>1. <<x>> \in Seq(S) /\ Len(<<x>>) = 1
    OBVIOUS
  <1>2. 1 .. Len(<<x>>) - 1 = {}
    BY <1>1
  <1> QED
    BY <1>1, <1>2, SequencePath DEF IsPath

LEMMA StepDownType ==
    ASSUME NEW S, Sep \in S, NEW d \in Seq(S), IsPath(d)
    PROVE  StepDown(d) \in Seq(S) /\ IsPath(StepDown(d))
  <1>1. CASE StepDown(d) = <<Sep>>
    BY <1>1, SinglePath
  <1>2. CASE \E m \in 2 .. Len(d) : StepDown(d) = SubSeq(d, 1, m - 1)
    <2>1. PICK m \in 2 .. Len(d) : StepDown(d) = SubSeq(d, 1, m - 1)
      BY <1>2
    <2>2. m - 1 \in 0 .. Len(d)
      OBVIOUS
    <2> QED
      BY <2>1, <2>2, PrefixPath DEF Prefix
  <1> QED
    BY <1>1, <1>2, StepDownCut

LEMMA TrimSlashType ==
    ASSUME NEW S, NEW d \in Seq(S), IsPath(d)
    PROVE  TrimSlash(d) \in Seq(S) /\ IsPath(TrimSlash(d))
  <1>1. CASE TrimSlash(d) = d
    BY <1>1
  <1>2. CASE TrimSlash(d) # d
    <2>1. TrimSlash(d) = SubSeq(d, 1, Len(d) - 1) /\ Len(d) > 1
      BY <1>2 DEF TrimSlash, Front
    <2>2. Len(d) - 1 \in 0 .. Len(d)
      BY <2>1
    <2> QED
      BY <2>1, <2>2, PrefixPath DEF Prefix
  <1> QED
    BY <1>1, <1>2

\* q is d, a separator and p.
Joined(S, q, d, p) ==
    /\ q \in Seq(S) /\ Len(q) = Len(d) + 1 + Len(p)
    /\ \A i \in 1 .. Len(d) : q[i] = d[i]
    /\ q[Len(d) + 1] = Sep
    /\ \A i \in 1 .. Len(p) : q[Len(d) + 1 + i] = p[i]
    /\ IsPath(q)
    /\ ToSet(q) = ToSet(d) \cup {Sep} \cup ToSet(p)

LEMMA JoinedPath ==
    ASSUME NEW S, Sep \in S, NEW d \in Seq(S), IsPath(d), NEW p \in Seq(S), IsPath(p),
           NEW q, q = d \o <<Sep>> \o p
    PROVE  Joined(S, q, d, p)
  <1>1. PICK m \in Nat, n \in Nat : m = Len(d) /\ n = Len(p)
    OBVIOUS
  <1>2. PICK e \in Seq(S) : e = d \o <<Sep>> /\ ToSet(e) = ToSet(d) \cup {Sep}
    <2>1. <<Sep>> \in Seq(S) /\ ToSet(<<Sep>>) = {Sep}
      BY SingleElements
    <2>2. PICK c \in Seq(S) : c = <<Sep>> /\ ToSet(c) = {Sep}
      BY <2>1
    <2>3. d \o c \in Seq(S) /\ ToSet(d \o c) = ToSet(d) \cup ToSet(c)
      BY ConcatElements
    <2> QED
      BY <2>2, <2>3
  <1>3. Len(e) = m + 1 /\ (\A i \in 1 .. m : e[i] = d[i]) /\ e[m + 1] = Sep
    BY <1>1, <1>2
  <1>4. q = e \o p
    BY <1>2
  <1>5. q \in Seq(S) /\ ToSet(q) = ToSet(d) \cup {Sep} \cup ToSet(p)
    <2>1. e \o p \in Seq(S) /\ ToSet(e \o p) = ToSet(e) \cup ToSet(p)
      BY ConcatElements
    <2> QED
      BY <1>2, <1>4, <2>1
  <1>6. Len(q) = m + 1 + n
    BY <1>1, <1>3, <1>4
  <1>7. \A i \in 1 .. m + 1 : q[i] = e[i]
    BY <1>3, <1>4
  <1>8. \A i \in 1 .. n : q[m + 1 + i] = p[i]
    BY <1>1, <1>3, <1>4
  <1>9. q[m + 1] = Sep /\ \A i \in 1 .. m : q[i] = d[i]
    <2>1. m + 1 \in 1 .. m + 1 /\ \A i \in 1 .. m : i \in 1 .. m + 1
      OBVIOUS
    <2> QED
      BY <1>3, <1>7, <2>1
  <1>10. ASSUME NEW i \in 1 .. Len(q) - 1 PROVE q[i] = Sep \/ q[i + 1] = Sep
    <2>1. CASE i < m
      <3>1. i \in 1 .. Len(d) - 1 /\ i \in 1 .. m /\ i + 1 \in 1 .. m
        BY <1>1, <2>1
      <3>2. d[i] = Sep \/ d[i + 1] = Sep
        BY <3>1 DEF IsPath
      <3> QED
        BY <1>9, <3>1, <3>2
    <2>2. CASE i = m \/ i = m + 1
      BY <1>9, <2>2
    <2>3. CASE i > m + 1
      <3>1. PICK j \in 1 .. n - 1 : i = m + 1 + j /\ i + 1 = m + 1 + (j + 1) /\ j + 1 \in 1 .. n /\ j \in 1 .. n
        <4>1. i - (m + 1) \in 1 .. n - 1
          BY <1>6, <2>3
        <4> QED
          BY <4>1
      <3>2. p[j] = Sep \/ p[j + 1] = Sep
        BY <1>1, <3>1 DEF IsPath
      <3>3. q[i] = p[j] /\ q[i + 1] = p[j + 1]
        BY <1>8, <3>1
      <3> QED
        BY <3>2, <3>3
    <2> QED
      BY <1>6, <2>1, <2>2, <2>3
  <1>11. IsPath(q)
    BY <1>5, <1>10, SequencePath DEF IsPath
  <1> QED
    BY <1>1, <1>5, <1>6, <1>8, <1>9, <1>11 DEF Joined

LEMMA FullPathType ==
    ASSUME NEW S, Sep \in S, NEW d \in Seq(S), IsPath(d), NEW p \in Seq(S), IsPath(p)
    PROVE  /\ FullPath(d, p) \in Seq(S) /\ IsPath(FullPath(d, p))
           /\ DirAfterFullPath(d, p) \in Seq(S) /\ IsPath(DirAfterFullPath(d, p))
  <1>1. FullPath(d, p) \in {p, StepDown(d), d \o <<Sep>> \o p}
    BY DEF FullPath
  <1>2. StepDown(d) \in Seq(S) /\ IsPath(StepDown(d))
    BY StepDownType
  <1>3. PICK q : q = d \o <<Sep>> \o p
    OBVIOUS
  <1>4. q \in Seq(S) /\ IsPath(q)
    BY <1>3, JoinedPath DEF Joined
  <1> QED
    BY <1>1, <1>2, <1>3, <1>4 DEF DirAfterFullPath

-----------------------------------------------------------------------------
(* Plain paths keep to where the user thinks they are                      *)

LEMMA PlainAccepted ==
    ASSUME NEW S, NEW p \in Seq(S), IsPlain(p)
    PROVE  FatAccepts(p)
  <1>1. PICK n \in Nat : n = Len(p) /\ n >= 1
    BY DEF IsPlain
  <1>2. \A i \in 1 .. n : p[i] # Up
    BY <1>1 DEF IsPlain, ToSet
  <1>3. PICK r : r = IF StartsWith(p, Sep) THEN Tail(p) ELSE p
    OBVIOUS
  <1>4. SUFFICES ASSUME r # <<>> PROVE ~EndsWith(r, Sep) /\ ~Contains(r, Up)
    BY <1>3 DEF FatAccepts
  <1>5. PICK m \in Nat : m = Len(r) /\ m >= 1
    <2>1. p # <<>>
      BY <1>1
    <2>2. r \in Seq(S)
      <3>1. Tail(p) \in Seq(S)
        BY <2>1
      <3> QED
        BY <1>3, <3>1
    <2> QED
      BY <1>4, <2>2
  <1>6. \A i \in 1 .. m : \E j \in 1 .. n : r[i] = p[j] /\ (i = m => j = n) /\ (j = n => i = m)
    <2>1. CASE StartsWith(p, Sep)
      <3>1. m = n - 1 /\ \A i \in 1 .. m : r[i] = p[i + 1]
        BY <1>1, <1>3, <1>5, <2>1
      <3>2. \A i \in 1 .. m : i + 1 \in 1 .. n /\ (i = m => i + 1 = n) /\ (i + 1 = n => i = m)
        BY <3>1
      <3> QED
        BY <3>1, <3>2
    <2>2. CASE ~StartsWith(p, Sep)
      <3>1. r = p /\ m = n
        BY <1>1, <1>3, <1>5, <2>2
      <3> QED
        BY <3>1
    <2> QED
      BY <2>1, <2>2
  <1>7. ~Contains(r, Up)
    <2>1. \A i \in 1 .. m : r[i] # Up
      BY <1>2, <1>6
    <2> QED
      BY <1>5, <2>1 DEF Contains
  <1>8. Last(r) = Last(p)
    <2>1. m \in 1 .. m /\ n \in 1 .. n
      BY <1>1, <1>5
    <2>2. r[m] = p[n]
      BY <1>6, <2>1
    <2> QED
      BY <1>1, <1>5, <2>2 DEF Last
  <1>9. ASSUME p = <<Sep>> PROVE FALSE
    <2>1. StartsWith(p, Sep) /\ Tail(p) = <<>>
      BY <1>9 DEF StartsWith
    <2> QED
      BY <1>3, <1>4, <2>1
  <1>10. Last(p) # Sep
    BY <1>9 DEF IsPlain
  <1> QED
    BY <1>7, <1>8, <1>10 DEF EndsWith

LEMMA RootPlain == IsPlain(<<Sep>>) /\ Segments(<<Sep>>) = <<>>
  <1>1. Sep \in {Sep} /\ Up # Sep
    BY DEF Sep, Up
  <1>2. IsPath(<<Sep>>)
    BY SinglePath
  <1>3. ToSet(<<Sep>>) = {Sep}
    BY <1>1, SingleElements
  <1>4. 2 .. Len(<<Sep>>) - 1 = {}
    OBVIOUS
  <1> QED
    BY <1>1, <1>2, <1>3, <1>4, SegmentsFew DEF IsPlain

LEMMA OneToken ==
    ASSUME NEW T, NEW d \in Seq(T), Len(d) = 1
    PROVE  d[1] \in T /\ d = <<d[1]>>
  <1>1. PICK x \in T : x = d[1]
    OBVIOUS
  <1>2. <<x>> \in Seq(T) /\ Len(<<x>>) = 1 /\ <<x>>[1] = x
    OBVIOUS
  <1>3. \A i \in 1 .. Len(d) : d[i] = <<x>>[i]
    BY <1>1, <1>2
  <1> QED
    BY <1>1, <1>2, <1>3, SeqEqual

LEMMA TwoTokens ==
    ASSUME NEW T, NEW d \in Seq(T), Len(d) = 2, NEW a, NEW b, a = <<d[1]>>, b = <<d[2]>>
    PROVE  /\ d[1] \in T /\ d[2] \in T /\ a \in Seq(T) /\ b \in Seq(T)
           /\ d = a \o b
  <1>1. PICK x \in T, y \in T : x = d[1] /\ y = d[2]
    OBVIOUS
  <1>2. a \in Seq(T) /\ b \in Seq(T) /\ Len(a) = 1 /\ Len(b) = 1 /\ a[1] = x /\ b[1] = y
    BY <1>1
  <1>3. a \o b \in Seq(T) /\ Len(a \o b) = 2 /\ (a \o b)[1] = x /\ (a \o b)[2] = y
    BY <1>2
  <1>4. PICK e \in Seq(T) : e = a \o b
    BY <1>3
  <1>5. ASSUME NEW i \in 1 .. Len(d) PROVE d[i] = e[i]
    <2>1. i = 1 \/ i = 2
      OBVIOUS
    <2> QED
      BY <1>1, <1>3, <1>4, <2>1
  <1>6. d = e
    BY <1>3, <1>4, <1>5, SeqEqual
  <1> QED
    BY <1>1, <1>2, <1>4, <1>6

\* CDUP: the last name goes.
LEMMA StepDownPlain ==
    ASSUME NEW S, Sep \notin S, NEW T, Spells(S, T), Sep \in T, NEW d \in Seq(T), IsPlain(d)
    PROVE  IsPlain(StepDown(d)) /\ Segments(StepDown(d)) = Parent(Segments(d))
  <1>1. PICK n \in Nat : n = Len(d) /\ n >= 1
    BY DEF IsPlain
  <1>2. CASE Cuts(d) = {}
    <2>1. StepDown(d) = <<Sep>>
      BY <1>2 DEF StepDown, Cuts
    <2>2. \A i \in 2 .. n : d[i] # Sep
      BY <1>1, <1>2 DEF Cuts
    <2>3. n <= 2
      <3>1. SUFFICES ASSUME 3 <= n PROVE FALSE
        BY <1>1
      <3>2. 2 \in 1 .. Len(d) - 1 /\ 2 \in 2 .. n /\ 2 + 1 \in 2 .. n
        BY <1>1, <3>1
      <3>3. d[2] = Sep \/ d[2 + 1] = Sep
        BY <3>2 DEF IsPlain, IsPath
      <3> QED
        BY <2>2, <3>2, <3>3
    <2>4. Parent(Segments(d)) = <<>>
      <3>1. CASE n = 1
        <4>1. PICK x \in T : d = <<x>>
          BY <1>1, <3>1, OneToken
        <4>2. Segments(d) = <<>> \/ Segments(d) = <<x>>
          BY <4>1, SegmentsFew
        <4>3. Front(<<x>>) = <<>>
          BY DEF Front
        <4> QED
          BY <4>2, <4>3 DEF Parent
      <3>2. CASE n = 2
        <4>1. PICK x, y : x = d[1] /\ y = d[2]
          OBVIOUS
        <4>2. y # Sep /\ x = Sep
          <5>1. 2 \in 2 .. n /\ 1 \in 1 .. Len(d) - 1 /\ d[1] = x /\ d[2] = y /\ 1 + 1 = 2
            BY <1>1, <3>2, <4>1
          <5>2. d[1] = Sep \/ d[1 + 1] = Sep
            BY <5>1 DEF IsPlain, IsPath
          <5> QED
            BY <2>2, <5>1, <5>2
        <4>3. Segments(d) = Segments(<<x>>) \o Segments(<<y>>)
          <5>1. PICK a, b : a = <<d[1]>> /\ b = <<d[2]>>
            OBVIOUS
          <5>2. a \in Seq(T) /\ b \in Seq(T) /\ d = a \o b
            <6>1. Len(d) = 2
              BY <1>1, <3>2
            <6> QED
              BY <5>1, <6>1, TwoTokens
          <5>3. Segments(a \o b) = Segments(a) \o Segments(b)
            BY <5>2, SegmentsConcat
          <5> QED
            BY <4>1, <5>1, <5>2, <5>3
        <4>4. Segments(d) = <<>> \o <<y>>
          BY <4>2, <4>3, SegmentsFew
        <4>5. Segments(d) = <<y>> /\ Front(<<y>>) = <<>>
          BY <4>4 DEF Front
        <4> QED
          BY <4>5 DEF Parent
      <3> QED
        BY <1>1, <2>3, <3>1, <3>2
    <2> QED
      BY <2>1, <2>4, RootPlain
  <1>3. CASE Cuts(d) # {}
    <2>1. PICK m \in 2 .. Len(d) : /\ d[m] = Sep /\ StepDown(d) = SubSeq(d, 1, m - 1)
                                   /\ \A i \in m + 1 .. Len(d) : d[i] # Sep
      <3>1. PICK i \in Cuts(d) : i \in 2 .. Len(d)
        BY <1>3 DEF Cuts
      <3> QED
        BY <1>3, StepDownCut
    <2>2. m \in Nat /\ 2 <= m /\ m < n
      <3>1. m \in Nat /\ 2 <= m /\ m <= n
        BY <1>1, <2>1
      <3>2. d # <<Sep>>
        BY <1>1, <3>1
      <3>3. d[n] # Sep
        BY <1>1, <3>2 DEF IsPlain, Last
      <3> QED
        BY <2>1, <3>1, <3>3
    <2>3. n = m + 1
      <3>1. SUFFICES ASSUME m + 2 <= n PROVE FALSE
        BY <2>2
      <3>2. m + 1 \in 1 .. Len(d) - 1 /\ m + 1 \in m + 1 .. Len(d) /\ (m + 1) + 1 \in m + 1 .. Len(d)
        BY <1>1, <2>2, <3>1
      <3>3. d[m + 1] = Sep \/ d[(m + 1) + 1] = Sep
        BY <3>2 DEF IsPlain, IsPath
      <3> QED
        BY <2>1, <3>2, <3>3
    <2>4. PICK q : q = SubSeq(d, 1, m - 1)
      OBVIOUS
    <2>5. m - 1 \in 0 .. Len(d) /\ IsPath(d) /\ m - 1 >= 1
      BY <1>1, <2>2 DEF IsPlain
    <2>6. /\ q \in Seq(T) /\ Len(q) = m - 1 /\ (\A i \in 1 .. m - 1 : q[i] = d[i])
          /\ IsPath(q) /\ Up \notin ToSet(q)
      <3>1. PICK k \in 0 .. Len(d) : k = m - 1
        BY <2>5
      <3>2. q = SubSeq(d, 1, k)
        BY <2>4, <3>1
      <3>3. Prefix(T, q, d, k)
        BY <2>5, <3>1, <3>2, PrefixPath
      <3> QED
        BY <3>1, <3>3 DEF IsPlain, Prefix
    <2>7. PICK x : x = d[n] /\ x \in S
      <3>1. n \in m + 1 .. Len(d) /\ n \in 1 .. Len(d)
        BY <1>1, <2>2, <2>3
      <3> QED
        BY <2>1, <3>1 DEF Spells
    <2>8. PICK e \in Seq(T) : d = q \o e /\ Len(e) = 2 /\ e[1] = Sep /\ e[2] = x
      <3>1. PICK e : e = SubSeq(d, m, n)
        OBVIOUS
      <3>2. e \in Seq(T) /\ Len(e) = 2 /\ e[1] = d[m] /\ e[2] = d[n]
        <4>1. m \in 1 .. Len(d) + 1 /\ n \in m - 1 .. Len(d) /\ n - m + 1 = 2
          BY <1>1, <2>2, <2>3
        <4>2. e \in Seq(T) /\ Len(e) = 2 /\ \A i \in 1 .. 2 : e[i] = d[m + i - 1]
          BY <3>1, <4>1, SubSeqProperties
        <4>3. m + 1 - 1 = m /\ m + 2 - 1 = n /\ 1 \in 1 .. 2 /\ 2 \in 1 .. 2
          BY <2>2, <2>3
        <4>4. e[1] = d[m + 1 - 1] /\ e[2] = d[m + 2 - 1]
          BY <4>2, <4>3
        <4> QED
          BY <4>2, <4>3, <4>4
      <3>3. PICK w : w = q \o e
        OBVIOUS
      <3>4. /\ w \in Seq(T) /\ Len(w) = (m - 1) + 2
            /\ \A i \in 1 .. m - 1 : w[i] = q[i]
            /\ \A i \in 1 .. 2 : w[m - 1 + i] = e[i]
        <4>1. /\ w \in Seq(T) /\ Len(w) = (m - 1) + 2
              /\ \A i \in 1 .. (m - 1) + 2 : w[i] = IF i <= m - 1 THEN q[i] ELSE e[i - (m - 1)]
          <5>1. /\ q \o e \in Seq(T) /\ Len(q \o e) = Len(q) + Len(e)
                /\ \A i \in 1 .. Len(q) + Len(e) : (q \o e)[i] = IF i <= Len(q) THEN q[i] ELSE e[i - Len(q)]
            BY <2>6, <3>2, ConcatProperties
          <5>2. Len(q) = m - 1 /\ Len(e) = 2
            BY <2>6, <3>2
          <5> QED
            BY <3>3, <5>1, <5>2
        <4>2. \A i \in 1 .. m - 1 : i \in 1 .. (m - 1) + 2 /\ i <= m - 1
          BY <2>2
        <4>3. \A i \in 1 .. 2 : /\ m - 1 + i \in 1 .. (m - 1) + 2 /\ ~(m - 1 + i <= m - 1)
                               /\ (m - 1 + i) - (m - 1) = i
          BY <2>2
        <4> QED
          BY <4>1, <4>2, <4>3
      <3>5. ASSUME NEW i \in 1 .. n PROVE d[i] = w[i]
        <4>1. CASE i <= m - 1
          BY <2>2, <2>6, <3>4, <4>1
        <4>2. CASE i = m
          <5>1. 1 \in 1 .. 2 /\ m - 1 + 1 = m
            BY <2>2
          <5> QED
            BY <3>2, <3>4, <4>2, <5>1
        <4>3. CASE i = n
          <5>1. 2 \in 1 .. 2 /\ m - 1 + 2 = n
            BY <2>2, <2>3
          <5> QED
            BY <3>2, <3>4, <4>3, <5>1
        <4>4. i <= m - 1 \/ i = m \/ i = n
          BY <2>2, <2>3
        <4> QED
          BY <4>1, <4>2, <4>3, <4>4
      <3>6. Len(w) = n
        BY <2>2, <2>3, <3>4
      <3>7. d = w
        BY <1>1, <3>4, <3>5, <3>6, SeqEqual
      <3> QED
        BY <2>1, <2>7, <3>2, <3>3, <3>7
    <2>9. Segments(d) = Append(Segments(q), x) /\ Segments(q) \in Seq(S)
      <3>1. x # Sep
        BY <2>7
      <3>2. PICK a, b : a = <<Sep>> /\ b = <<x>>
        OBVIOUS
      <3>3. a \in Seq(T) /\ b \in Seq(T) /\ e = a \o b
        BY <2>8, <3>2, TwoTokens
      <3>4. Segments(e) = Segments(a) \o Segments(b)
        BY <3>3, SegmentsConcat
      <3>5. Segments(a) = <<>> /\ Segments(b) = <<x>>
        BY <3>1, <3>2, SegmentsFew
      <3>6. Segments(e) = <<x>>
        BY <3>4, <3>5
      <3>7. Segments(q \o e) = Segments(q) \o Segments(e)
        BY <2>6, <2>8, SegmentsConcat
      <3>8. PICK w \in Seq(S) : w = Segments(q)
        BY <2>6, SegmentsType
      <3>9. w \o <<x>> = Append(w, x)
        BY <2>7
      <3> QED
        BY <2>8, <3>6, <3>7, <3>8, <3>9
    <2>10. Parent(Segments(d)) = Segments(q)
      <3>1. PICK w \in Seq(S) : w = Segments(q)
        BY <2>9
      <3>2. Append(w, x) # <<>> /\ Front(Append(w, x)) = w
        <4>1. Len(Append(w, x)) = Len(w) + 1 /\ Append(w, x) # <<>>
          BY <2>7
        <4>2. SubSeq(Append(w, x), 1, (Len(w) + 1) - 1) = w
          BY <2>7
        <4> QED
          BY <4>1, <4>2 DEF Front
      <3> QED
        BY <2>9, <3>1, <3>2 DEF Parent
    <2>11. IsPlain(q)
      <3>1. q # <<>>
        BY <2>2, <2>6
      <3>2. q = <<Sep>> \/ Last(q) # Sep
        <4>1. CASE m = 2
          <5>1. Len(q) = 1 /\ Last(q) = q[1]
            BY <2>6, <4>1 DEF Last
          <5>2. q = <<q[1]>>
            BY <2>6, <5>1, OneToken
          <5> QED
            BY <5>1, <5>2
        <4>2. CASE m # 2
          <5>1. m - 1 \in 2 .. Len(d) - 1 /\ (m - 1) + 1 = m /\ m - 1 \in 1 .. m - 1
            BY <1>1, <2>2, <4>2
          <5>2. d[m - 1] # Sep
            BY <2>1, <5>1 DEF IsPlain
          <5> QED
            BY <2>6, <5>1, <5>2 DEF Last
        <4> QED
          BY <4>1, <4>2
      <3>3. ASSUME NEW i \in 2 .. Len(q) - 1 PROVE q[i] # Sep \/ q[i + 1] # Sep
        <4>1. i \in 2 .. Len(d) - 1 /\ i \in 1 .. m - 1 /\ i + 1 \in 1 .. m - 1
          BY <1>1, <2>2, <2>6
        <4>2. d[i] # Sep \/ d[i + 1] # Sep
          BY <4>1 DEF IsPlain
        <4> QED
          BY <2>6, <4>1, <4>2
      <3> QED
        BY <2>6, <3>1, <3>2, <3>3 DEF IsPlain
    <2> QED
      BY <2>1, <2>4, <2>10, <2>11
  <1> QED
    BY <1>2, <1>3

\* CWD and the commands on files: what the path means from here.
LEMMA FullPathPlain ==
    ASSUME NEW S, Sep \notin S, Up \notin S, NEW T, Spells(S, T), Sep \in T, NEW d \in Seq(T), IsPlain(d),
           NEW p \in Seq(T), IsPlain(p)
    PROVE  /\ IsPlain(FullPath(d, p)) /\ DirAfterFullPath(d, p) = d
           /\ Segments(FullPath(d, p)) = Resolve(Segments(d), p)
  <1>1. ~StepsDown(d, p)
    <2>1. p # <<>> => Head(p) \in T
      OBVIOUS
    <2>2. Up # Sep
      BY DEF Up, Sep
    <2> QED
      BY <2>1, <2>2 DEF StepsDown, StartsWith, Spells
  <1>2. Segments(d) \in Seq(S) /\ Segments(p) \in Seq(S)
    BY SegmentsType
  <1>3. Resolve(Segments(d), p) = (IF StartsWith(p, Sep) THEN <<>> ELSE Segments(d)) \o Segments(p)
    BY <1>2, ResolvePlain
  <1>4. CASE StartsWith(p, Sep) \/ d = <<Sep>>
    <2>1. FullPath(d, p) = p
      BY <1>1, <1>4 DEF FullPath
    <2>2. Resolve(Segments(d), p) = <<>> \o Segments(p)
      BY <1>3, <1>4, RootPlain
    <2> QED
      BY <1>1, <1>2, <2>1, <2>2 DEF DirAfterFullPath
  <1>5. CASE ~(StartsWith(p, Sep) \/ d = <<Sep>>)
    <2>1. PICK q : q = d \o <<Sep>> \o p
      OBVIOUS
    <2>2. FullPath(d, p) = q
      BY <1>1, <1>5, <2>1 DEF FullPath
    <2>3. PICK m \in Nat, n \in Nat : m = Len(d) /\ n = Len(p) /\ m >= 1 /\ n >= 1
      BY DEF IsPlain
    <2>4. IsPath(d) /\ IsPath(p) /\ Up \notin ToSet(d) /\ Up \notin ToSet(p) /\ Up # Sep
      BY DEF IsPlain, Up, Sep
    <2>5. /\ q \in Seq(T) /\ Len(q) = m + 1 + n
          /\ \A i \in 1 .. m : q[i] = d[i]
          /\ q[m + 1] = Sep
          /\ \A i \in 1 .. n : q[m + 1 + i] = p[i]
          /\ IsPath(q)
          /\ ToSet(q) = ToSet(d) \cup {Sep} \cup ToSet(p)
      <3>2. Sep \in T
        OBVIOUS
      <3>3. Joined(T, q, d, p)
        BY <2>1, <2>4, <3>2, JoinedPath
      <3> QED
        BY <2>3, <3>3 DEF Joined
    <2>6. d[m] # Sep /\ p[n] # Sep /\ p[1] # Sep
      <3>1. p # <<Sep>>
        BY <1>5 DEF StartsWith
      <3>2. p # <<>> /\ Head(p) = p[1]
        BY <2>3
      <3> QED
        BY <1>5, <2>3, <3>1, <3>2 DEF IsPlain, Last, StartsWith
    <2>7. q # <<>> /\ Last(q) # Sep
      <3>1. n \in 1 .. n /\ Last(q) = q[m + 1 + n]
        BY <2>3, <2>5 DEF Last
      <3> QED
        BY <2>3, <2>5, <2>6, <3>1
    <2>8. ASSUME NEW i \in 2 .. Len(q) - 1 PROVE q[i] # Sep \/ q[i + 1] # Sep
      <3>1. CASE i < m
        <4>1. i \in 2 .. Len(d) - 1 /\ i \in 1 .. m /\ i + 1 \in 1 .. m
          BY <2>3, <3>1
        <4>2. d[i] # Sep \/ d[i + 1] # Sep
          BY <4>1 DEF IsPlain
        <4> QED
          BY <2>5, <4>1, <4>2
      <3>2. CASE i = m
        <4>1. i \in 1 .. m
          BY <3>2
        <4> QED
          BY <2>5, <2>6, <3>2, <4>1
      <3>3. CASE i = m + 1
        <4>1. 1 \in 1 .. n /\ i + 1 = m + 1 + 1
          BY <2>3, <3>3
        <4> QED
          BY <2>5, <2>6, <4>1
      <3>4. CASE i > m + 1
        <4>1. PICK j \in 1 .. n - 1 : /\ i = m + 1 + j /\ i + 1 = m + 1 + (j + 1)
                                      /\ j + 1 \in 1 .. n /\ j \in 1 .. n
          <5>1. i - (m + 1) \in 1 .. n - 1
            BY <2>5, <3>4
          <5> QED
            BY <5>1
        <4>2. p[j] # Sep \/ p[j + 1] # Sep
          <5>1. CASE j = 1
            BY <2>6, <5>1
          <5>2. CASE j # 1
            <6>1. j \in 2 .. Len(p) - 1
              BY <2>3, <5>2
            <6> QED
              BY <6>1 DEF IsPlain
          <5> QED
            BY <5>1, <5>2
        <4> QED
          BY <2>5, <4>1, <4>2
      <3> QED
        BY <2>5, <3>1, <3>2, <3>3, <3>4
    <2>9. IsPlain(q)
      BY <2>4, <2>5, <2>7, <2>8 DEF IsPlain
    <2>10. Segments(q) = Segments(d) \o Segments(p)
      <3>1. PICK s : s = <<Sep>>
        OBVIOUS
      <3>2. s \in Seq(T)
        BY <3>1
      <3>3. PICK e : e = d \o s
        OBVIOUS
      <3>4. e \in Seq(T)
        BY <3>2, <3>3
      <3>5. Segments(e) = Segments(d) \o Segments(s) /\ Segments(e \o p) = Segments(e) \o Segments(p)
        <4>1. Segments(d \o s) = Segments(d) \o Segments(s)
          BY <3>2, SegmentsConcat
        <4>2. Segments(e \o p) = Segments(e) \o Segments(p)
          BY <3>4, SegmentsConcat
        <4> QED
          BY <3>3, <4>1, <4>2
      <3>6. Segments(s) = <<>>
        BY <3>1, SegmentsFew
      <3>7. q = e \o p
        BY <2>1, <3>1, <3>3
      <3>8. PICK v \in Seq(S), w \in Seq(S) : v = Segments(d) /\ w = Segments(p)
        BY <1>2
      <3>9. v \o <<>> = v
        OBVIOUS
      <3> QED
        BY <3>5, <3>6, <3>7, <3>8, <3>9
    <2> QED
      BY <1>1, <1>3, <1>5, <2>2, <2>9, <2>10 DEF DirAfterFullPath
  <1> QED
    BY <1>4, <1>5

-----------------------------------------------------------------------------
(* The clusters in use                                                     *)

\* What is allocated is known, and is there.
Fits(t) == IsFiniteSet(Clusters(t)) /\ Used(t) <= Capacity

LEMMA RoomType ==
    ASSUME NEW t, Fits(t)
    PROVE  Used(t) \in Nat /\ Room(t) \in Nat
  <1>1. Used(t) \in Nat
    BY FS_CardinalityType DEF Fits, Used
  <1> QED
    BY <1>1, CapacityAssumption DEF Fits, Room

LEMMA OneCluster ==
    ASSUME NEW t, NEW c
    PROVE  c \in Clusters(t) <=> \E o \in DOMAIN t \ {<<>>} : c \in {o} \X (1 .. ClustersOf(t[o]))
  BY DEF Clusters

\* An object that has m clusters of its own or is new (m = 0), and then n.
LEMMA PutClusters ==
    ASSUME NEW t, NEW o, NEW node, Fits(t), NEW m \in Nat, NEW n \in Nat, m <= n,
           ClustersOf(node) = n,
           IF o \in DOMAIN t THEN ClustersOf(t[o]) = m ELSE m = 0
    PROVE  /\ IsFiniteSet(Clusters(Put(t, o, node)))
           /\ Used(Put(t, o, node)) <= Used(t) + (n - m)
  <1> DEFINE u == Put(t, o, node)
             more == {o} \X (m + 1 .. n)
  <1>1. DOMAIN u = DOMAIN t \cup {o} /\ u[o] = node /\ \A x \in DOMAIN t : x # o => u[x] = t[x]
    BY DEF Put
  <1>2. IsFiniteSet(more) /\ Cardinality(more) = n - m
    <2>1. PICK I : I = m + 1 .. n
      OBVIOUS
    <2>2. IsFiniteSet(I) /\ Cardinality(I) = n - m
      <3>1. m + 1 \in Int /\ n \in Int
        OBVIOUS
      <3>2. IsFiniteSet(m + 1 .. n) /\ Cardinality(m + 1 .. n) = IF m + 1 > n THEN 0 ELSE n - (m + 1) + 1
        BY <3>1, FS_Interval
      <3> QED
        BY <2>1, <3>2
    <2>3. PICK O : O = {o}
      OBVIOUS
    <2>4. IsFiniteSet(O) /\ Cardinality(O) = 1
      BY <2>3, FS_Singleton
    <2>5. IsFiniteSet(O \X I) /\ Cardinality(O \X I) = Cardinality(O) * Cardinality(I)
      BY <2>2, <2>4, FS_Product
    <2>6. O \X I = more
      BY <2>1, <2>3
    <2>7. Cardinality(O \X I) = 1 * (n - m)
      BY <2>2, <2>4, <2>5
    <2>8. 1 * (n - m) = n - m
      OBVIOUS
    <2> QED
      BY <2>5, <2>6, <2>7, <2>8
  <1> HIDE DEF u
  <1>3. Clusters(u) \subseteq Clusters(t) \cup more
    <2>1. SUFFICES ASSUME NEW c \in Clusters(u), c \notin Clusters(t) PROVE c \in more
      OBVIOUS
    <2>2. PICK x \in DOMAIN u \ {<<>>} : c \in {x} \X (1 .. ClustersOf(u[x]))
      BY OneCluster
    <2>3. x = o
      <3>1. SUFFICES ASSUME x # o PROVE FALSE
        OBVIOUS
      <3>2. x \in DOMAIN t \ {<<>>} /\ u[x] = t[x]
        BY <1>1, <2>2, <3>1
      <3>3. c \in {x} \X (1 .. ClustersOf(t[x]))
        BY <2>2, <3>2
      <3> QED
        BY <2>1, <3>2, <3>3, OneCluster
    <2>4. PICK i \in 1 .. n : c = <<o, i>>
      <3>1. ClustersOf(u[x]) = n
        BY <1>1, <2>3
      <3> QED
        BY <2>2, <2>3, <3>1
    <2>5. i > m
      <3>1. SUFFICES ASSUME i <= m PROVE FALSE
        OBVIOUS
      <3>2. CASE o \in DOMAIN t
        <4>1. c \in {o} \X (1 .. m)
          BY <2>4, <3>1
        <4>2. c \in {o} \X (1 .. ClustersOf(t[o])) /\ o \in DOMAIN t \ {<<>>}
          BY <2>2, <2>3, <3>2, <4>1
        <4> QED
          BY <2>1, <4>2, OneCluster
      <3>3. CASE o \notin DOMAIN t
        <4>1. m = 0 /\ i \in 1 .. n
          BY <3>3
        <4> QED
          BY <3>1, <4>1
      <3> QED
        BY <3>2, <3>3
    <2> QED
      BY <2>4, <2>5
  <1> HIDE DEF more
  <1>4. IsFiniteSet(Clusters(t)) /\ Cardinality(Clusters(t)) \in Nat
    BY FS_CardinalityType DEF Fits
  <1>5. /\ IsFiniteSet(Clusters(t) \cup more)
        /\ Cardinality(Clusters(t) \cup more)
             = Cardinality(Clusters(t)) + Cardinality(more) - Cardinality(Clusters(t) \cap more)
    BY <1>2, <1>4, FS_Union
  <1>6. Cardinality(Clusters(t) \cap more) \in Nat
    BY <1>4, FS_Intersection, FS_CardinalityType
  <1>7. /\ IsFiniteSet(Clusters(u)) /\ Cardinality(Clusters(u)) \in Nat
        /\ Cardinality(Clusters(u)) <= Cardinality(Clusters(t) \cup more)
    BY <1>3, <1>5, FS_Subset, FS_CardinalityType
  <1> QED
    BY <1>2, <1>4, <1>5, <1>6, <1>7 DEF Used, u

LEMMA PutFits ==
    ASSUME NEW t, NEW o, NEW node, Fits(t), NEW m \in Nat, NEW n \in Nat, m <= n,
           ClustersOf(node) = n,
           IF o \in DOMAIN t THEN ClustersOf(t[o]) = m ELSE m = 0,
           n - m <= Room(t)
    PROVE  Fits(Put(t, o, node))
  <1>1. PICK u : u = Put(t, o, node)
    OBVIOUS
  <1>2. IsFiniteSet(Clusters(u)) /\ Used(u) <= Used(t) + (n - m)
    BY <1>1, PutClusters
  <1>3. Used(u) \in Nat
    BY <1>2, FS_CardinalityType DEF Used
  <1>4. Used(t) \in Nat /\ Room(t) \in Nat
    BY RoomType
  <1>5. Used(u) <= Capacity
    BY <1>2, <1>3, <1>4, CapacityAssumption DEF Room
  <1> QED
    BY <1>1, <1>2, <1>5 DEF Fits

LEMMA UnlinkFits ==
    ASSUME NEW t, NEW o, Fits(t)
    PROVE  Fits(Unlinked(t, o))
  <1>1. PICK u : u = Unlinked(t, o)
    OBVIOUS
  <1>2. DOMAIN u = DOMAIN t \ {o} /\ \A x \in DOMAIN u : u[x] = t[x]
    BY <1>1 DEF Unlinked
  <1>3. Clusters(u) \subseteq Clusters(t)
    <2>1. SUFFICES ASSUME NEW c \in Clusters(u) PROVE c \in Clusters(t)
      OBVIOUS
    <2>2. PICK x \in DOMAIN u \ {<<>>} : c \in {x} \X (1 .. ClustersOf(u[x]))
      BY OneCluster
    <2>3. x \in DOMAIN t \ {<<>>} /\ u[x] = t[x]
      BY <1>2, <2>2
    <2>4. c \in {x} \X (1 .. ClustersOf(t[x]))
      BY <2>2, <2>3
    <2> QED
      BY <2>3, <2>4, OneCluster
  <1>4. IsFiniteSet(Clusters(u)) /\ Cardinality(Clusters(u)) <= Cardinality(Clusters(t))
    BY <1>3, FS_Subset DEF Fits
  <1>5. Used(u) \in Nat /\ Used(t) \in Nat
    BY <1>4, FS_CardinalityType, RoomType DEF Used
  <1>6. Used(u) <= Capacity
    BY <1>4, <1>5, CapacityAssumption DEF Fits, Used
  <1> QED
    BY <1>1, <1>4, <1>6 DEF Fits

LEMMA EmptyFits == Fits(EmptyVolume)
  <1>1. DOMAIN EmptyVolume \ {<<>>} = {}
    BY DEF EmptyVolume
  <1>2. Clusters(EmptyVolume) = {}
    BY <1>1, OneCluster
  <1> QED
    BY <1>2, FS_EmptySet, CapacityAssumption DEF Fits, Used

-----------------------------------------------------------------------------
(* What an upload leaves in a file                                         *)

LEMMA WrittenType ==
    ASSUME NEW len \in Nat, NEW old, Len(old) = len, NEW room \in Nat, NEW n \in Nat
    PROVE  /\ Written(old, room, n) \in 0 .. n
           /\ Written(old, room, n) <= len + room
           /\ Written(old, room, n) < n => Written(old, room, n) = len + room
  BY DEF Written

LEMMA OverwrittenType ==
    ASSUME NEW u \in Nat, NEW old \in Seq(1 .. u), NEW n \in Nat
    PROVE  /\ Overwritten(old, u + 1, n) \in Seq(1 .. u + 1)
           /\ Len(Overwritten(old, u + 1, n)) = IF n > Len(old) THEN n ELSE Len(old)
  <1>1. PICK m \in Nat : m = Len(old)
    OBVIOUS
  <1>2. PICK l \in Nat : l = IF n > m THEN n ELSE m
    OBVIOUS
  <1>3. ASSUME NEW i \in 1 .. l
        PROVE  (IF i <= n THEN u + 1 ELSE old[i]) \in 1 .. u + 1
    <2>1. CASE i <= n
      BY <2>1
    <2>2. CASE ~(i <= n)
      <3>1. i \in 1 .. m
        BY <1>2, <2>2
      <3>2. old[i] \in 1 .. u
        BY <1>1, <3>1
      <3> QED
        BY <2>2, <3>2
    <2> QED
      BY <2>1, <2>2
  <1>4. PICK w : w = [i \in 1 .. l |-> IF i <= n THEN u + 1 ELSE old[i]]
    OBVIOUS
  <1>5. w = Overwritten(old, u + 1, n)
    BY <1>1, <1>2, <1>4 DEF Overwritten
  <1>6. w \in [1 .. l -> 1 .. u + 1]
    BY <1>3, <1>4
  <1>7. w \in Seq(1 .. u + 1) /\ Len(w) = l
    BY <1>6
  <1> QED
    BY <1>1, <1>2, <1>5, <1>7

-----------------------------------------------------------------------------
(* Type correctness                                                        *)

Tokens == Names \cup {Sep, Up}

\* The sessions: where they stand and where they restart.
SessionsType ==
    /\ currentdir \in [Sessions -> Seq(Tokens)]
    /\ \A s \in Sessions : IsPath(currentdir[s])
    /\ offset \in [Sessions -> Nat]

Nodes(u) == {DirNode} \cup {FileNode(d) : d \in Seq(1 .. u)}

\* The volume after u uploads.
VolumeType(t, u) ==
    /\ DOMAIN t \subseteq Objects /\ Connected(t) /\ Fits(t)
    /\ \A o \in DOMAIN t : t[o] \in Nodes(u)

LastType == last.cmd \in Commands /\ last.ok \in BOOLEAN

FilesInv ==
    /\ online \subseteq Sessions /\ SessionsType
    /\ uploads \in 0 .. MaxUploads /\ VolumeType(tree, uploads)
    /\ LastType

LEMMA ParamType ==
    ASSUME NEW p \in Params
    PROVE  p \in Seq(Tokens) /\ IsPath(p)
  <1>1. IsPath(p) /\ p \in Seq(ToSet(p))
    BY ParamsAssumption DEF IsPath
  <1>2. ToSet(p) \subseteq Tokens
    <2>1. PICK U : U = UNION {ToSet(q) : q \in Params}
      OBVIOUS
    <2>2. Names = U \ {Sep, Up}
      BY <2>1 DEF Names
    <2>3. ToSet(p) \subseteq U
      BY <2>1
    <2> QED
      BY <2>2, <2>3 DEF Tokens
  <1>3. PICK T : T = ToSet(p)
    OBVIOUS
  <1>4. Len(p) \in Nat /\ p \in [1 .. Len(p) -> T]
    BY <1>1, <1>3
  <1>5. p \in [1 .. Len(p) -> Tokens]
    BY <1>2, <1>3, <1>4
  <1> QED
    BY <1>1, <1>4, <1>5

LEMMA PathType ==
    ASSUME SessionsType, NEW s \in Sessions, NEW p \in Params
    PROVE  /\ Path(s, p) \in Seq(Tokens) /\ IsPath(Path(s, p))
           /\ DirAfterFullPath(currentdir[s], p) \in Seq(Tokens)
           /\ IsPath(DirAfterFullPath(currentdir[s], p))
  <1>1. PICK d \in Seq(Tokens) : d = currentdir[s] /\ IsPath(d)
    BY DEF SessionsType
  <1>2. p \in Seq(Tokens) /\ IsPath(p)
    BY ParamType
  <1>3. Sep \in Tokens
    BY DEF Tokens
  <1>4. /\ FullPath(d, p) \in Seq(Tokens) /\ IsPath(FullPath(d, p))
        /\ DirAfterFullPath(d, p) \in Seq(Tokens) /\ IsPath(DirAfterFullPath(d, p))
    BY <1>1, <1>2, <1>3, FullPathType
  <1> QED
    BY <1>1, <1>4 DEF Path

\* What FatFs opens has no ".." in its name.
LEMMA AcceptedNames ==
    ASSUME NEW d \in Seq(Tokens), FatAccepts(d)
    PROVE  Segments(d) \in Seq(Names)
  <1>1. PICK n \in Nat : n = Len(d)
    OBVIOUS
  <1>2. ASSUME NEW i \in 1 .. n, d[i] = Up PROVE FALSE
    <2>1. Up # Sep
      BY DEF Up, Sep
    <2>2. CASE StartsWith(d, Sep)
      <3>1. d # <<>> /\ d[1] = Sep
        BY <2>2 DEF StartsWith
      <3>2. i \in 2 .. n
        BY <1>2, <2>1, <3>1
      <3>3. PICK r : r = Tail(d)
        OBVIOUS
      <3>4. Len(r) = n - 1 /\ r[i - 1] = d[i] /\ i - 1 \in 1 .. n - 1
        BY <1>1, <3>1, <3>2, <3>3
      <3>5. r # <<>>
        BY <3>2, <3>4
      <3>6. ~Contains(r, Up)
        BY <2>2, <3>3, <3>5 DEF FatAccepts
      <3> QED
        BY <1>2, <3>4, <3>6 DEF Contains
    <2>3. CASE ~StartsWith(d, Sep)
      <3>1. d # <<>>
        BY <1>1
      <3>2. ~Contains(d, Up)
        BY <2>3, <3>1 DEF FatAccepts
      <3> QED
        BY <1>1, <1>2, <3>2 DEF Contains
    <2> QED
      BY <2>2, <2>3
  <1>3. ToSet(d) \subseteq Tokens /\ Up \notin ToSet(d)
    BY <1>1, <1>2 DEF ToSet
  <1>4. Spells(Names, ToSet(d))
    BY <1>3 DEF Spells, Tokens
  <1>5. d \in Seq(ToSet(d))
    BY SequencePath
  <1> QED
    BY <1>4, <1>5, SegmentsType

LEMMA ObjectsHave ==
    ASSUME NEW o \in Seq(Names), Len(o) <= MaxDepth
    PROVE  o \in Objects
  <1>1. Len(o) \in 0 .. MaxDepth /\ o \in [1 .. Len(o) -> Names]
    BY BoundsAssumption
  <1> QED
    BY <1>1 DEF Objects

LEMMA PathObject ==
    ASSUME SessionsType, NEW s \in Sessions, NEW p \in Params, FatAccepts(Path(s, p)),
           Len(Object(Path(s, p))) <= MaxDepth
    PROVE  Object(Path(s, p)) \in Objects
  <1>1. Path(s, p) \in Seq(Tokens)
    BY PathType
  <1>2. Object(Path(s, p)) \in Seq(Names)
    BY <1>1, AcceptedNames DEF Object
  <1> QED
    BY <1>2, ObjectsHave

-----------------------------------------------------------------------------
LEMMA VolumeLater ==
    ASSUME NEW t, NEW u \in Nat, VolumeType(t, u)
    PROVE  VolumeType(t, u + 1)
  <1>1. Nodes(u) \subseteq Nodes(u + 1)
    <2>1. ASSUME NEW d \in Seq(1 .. u) PROVE d \in Seq(1 .. u + 1)
      <3>1. \A i \in 1 .. Len(d) : d[i] \in 1 .. u + 1
        OBVIOUS
      <3> QED
        BY <3>1
    <2> QED
      BY <2>1 DEF Nodes
  <1> QED
    BY <1>1 DEF VolumeType

LEMMA VolumePut ==
    ASSUME NEW t, NEW u, VolumeType(t, u), NEW o \in Objects, NEW node \in Nodes(u),
           Connected(Put(t, o, node)), Fits(Put(t, o, node))
    PROVE  VolumeType(Put(t, o, node), u)
  <1>1. PICK v : v = Put(t, o, node)
    OBVIOUS
  <1>2. DOMAIN v = DOMAIN t \cup {o} /\ v[o] = node /\ \A x \in DOMAIN t : x # o => v[x] = t[x]
    BY <1>1 DEF Put
  <1>3. DOMAIN v \subseteq Objects /\ \A x \in DOMAIN v : v[x] \in Nodes(u)
    BY <1>2 DEF VolumeType
  <1> QED
    BY <1>1, <1>3 DEF VolumeType

LEMMA FileNodeData ==
    ASSUME NEW u, NEW node \in Nodes(u), node.kind = "file"
    PROVE  node.data \in Seq(1 .. u) /\ node = FileNode(node.data)
  BY DEF Nodes, DirNode, FileNode

LEMMA NodeClusters ==
    ASSUME NEW u
    PROVE  /\ ClustersOf(DirNode) = 1
           /\ \A d : ClustersOf(FileNode(d)) = Len(d)
  BY DEF ClustersOf, DirNode, FileNode

LEMMA DirectoryMade ==
    ASSUME NEW t, NEW u \in Nat, VolumeType(t, u), NEW o \in Objects, CanMake(t, o)
    PROVE  VolumeType(Put(t, o, DirNode), u)
  <1>1. Connected(Put(t, o, DirNode))
    BY PutKeepsConnected DEF CanMake, VolumeType
  <1>2. Fits(Put(t, o, DirNode))
    <2>1. Room(t) \in Nat /\ Room(t) > 0 /\ Fits(t)
      BY RoomType DEF CanMake, VolumeType
    <2>2. o \notin DOMAIN t
      BY DEF CanMake, CanCreate
    <2>3. ClustersOf(DirNode) = 1
      BY NodeClusters
    <2>4. 1 - 0 <= Room(t) /\ 0 \in Nat /\ 1 \in Nat /\ 0 <= 1
      BY <2>1
    <2>5. IF o \in DOMAIN t THEN ClustersOf(t[o]) = 0 ELSE 0 = 0
      BY <2>2
    <2> QED
      BY <2>1, <2>3, <2>4, <2>5, PutFits
  <1>3. DirNode \in Nodes(u)
    BY DEF Nodes
  <1> QED
    BY <1>1, <1>2, <1>3, VolumePut

LEMMA FileWritten ==
    ASSUME NEW t, NEW u \in Nat, VolumeType(t, u), NEW o \in Objects,
           IsFile(t, o) \/ CanCreate(t, o), NEW n \in Nat,
           NEW old, old = IF o \in DOMAIN t THEN t[o].data ELSE <<>>,
           NEW new, new = Overwritten(old, u + 1, Written(old, Room(t), n))
    PROVE  VolumeType(Put(t, o, FileNode(new)), u + 1)
  <1>1. old \in Seq(1 .. u)
    <2>1. CASE IsFile(t, o)
      <3>1. o \in DOMAIN t /\ t[o].kind = "file"
        BY <2>1 DEF IsFile
      <3>2. t[o] \in Nodes(u)
        BY <3>1 DEF VolumeType
      <3> QED
        BY <3>1, <3>2, FileNodeData
    <2>2. CASE CanCreate(t, o)
      <3>1. old = <<>>
        BY <2>2 DEF CanCreate
      <3>2. <<>> \in Seq(1 .. u)
        OBVIOUS
      <3> QED
        BY <3>1, <3>2
    <2> QED
      BY <2>1, <2>2
  <1>2. PICK m \in Nat : m = Len(old)
    BY <1>1
  <1>3. PICK r \in Nat : r = Room(t)
    BY RoomType DEF VolumeType
  <1>4. PICK w \in Nat : w = Written(old, r, n) /\ w <= m + r
    <2>1. Written(old, r, n) \in 0 .. n /\ Written(old, r, n) <= m + r
      BY <1>2, <1>3, WrittenType
    <2> QED
      BY <2>1
  <1>5. new \in Seq(1 .. u + 1) /\ Len(new) = IF w > m THEN w ELSE m
    <2>1. PICK a \in Seq(1 .. u) : a = old
      BY <1>1
    <2>2. /\ Overwritten(a, u + 1, w) \in Seq(1 .. u + 1)
          /\ Len(Overwritten(a, u + 1, w)) = IF w > Len(a) THEN w ELSE Len(a)
      BY OverwrittenType
    <2>3. new = Overwritten(a, u + 1, w) /\ Len(a) = m
      BY <1>2, <1>3, <1>4, <2>1
    <2> QED
      BY <2>2, <2>3
  <1>6. Fits(Put(t, o, FileNode(new)))
    <2>1. PICK k \in Nat : k = Len(new) /\ m <= k /\ k - m <= r
      BY <1>4, <1>5
    <2>2. ClustersOf(FileNode(new)) = k
      BY <2>1, NodeClusters
    <2>3. IF o \in DOMAIN t THEN ClustersOf(t[o]) = m ELSE m = 0
      <3>1. CASE o \in DOMAIN t
        <4>1. IsFile(t, o)
          BY <3>1 DEF CanCreate
        <4>2. t[o].kind = "file"
          BY <4>1 DEF IsFile
        <4> QED
          BY <1>2, <3>1, <4>2 DEF ClustersOf
      <3>2. CASE o \notin DOMAIN t
        BY <1>2, <3>2
      <3> QED
        BY <3>1, <3>2
    <2>4. Fits(t)
      BY DEF VolumeType
    <2> QED
      BY <1>3, <2>1, <2>2, <2>3, <2>4, PutFits
  <1>7. Connected(Put(t, o, FileNode(new)))
    BY PutKeepsConnected DEF VolumeType
  <1>8. FileNode(new) \in Nodes(u + 1)
    BY <1>5 DEF Nodes
  <1>9. VolumeType(t, u + 1)
    BY VolumeLater
  <1> QED
    BY <1>6, <1>7, <1>8, <1>9, VolumePut

LEMMA ObjectRemoved ==
    ASSUME NEW t, NEW u, VolumeType(t, u), NEW o, CanUnlink(t, o)
    PROVE  VolumeType(Unlinked(t, o), u)
  <1>1. Connected(Unlinked(t, o)) /\ Fits(Unlinked(t, o))
    BY UnlinkKeepsConnected, UnlinkFits DEF VolumeType
  <1>2. DOMAIN Unlinked(t, o) = DOMAIN t \ {o} /\ \A x \in DOMAIN t \ {o} : Unlinked(t, o)[x] = t[x]
    BY DEF Unlinked
  <1> QED
    BY <1>1, <1>2 DEF VolumeType

-----------------------------------------------------------------------------
LEMMA RootDirectory ==
    <<Sep>> \in Seq(Tokens) /\ IsPath(<<Sep>>)
  <1>1. Sep \in Tokens
    BY DEF Tokens
  <1> QED
    BY <1>1, SinglePath

LEMMA OutcomeType ==
    ASSUME NEW s, NEW cmd \in Commands, NEW ok \in BOOLEAN, NEW names, NEW sent
    PROVE  /\ Outcome(s, cmd, ok).cmd \in Commands /\ Outcome(s, cmd, ok).ok \in BOOLEAN
           /\ [Outcome(s, cmd, ok) EXCEPT !.names = names].cmd \in Commands
           /\ [Outcome(s, cmd, ok) EXCEPT !.names = names].ok \in BOOLEAN
           /\ [Outcome(s, cmd, ok) EXCEPT !.sent = sent].cmd \in Commands
           /\ [Outcome(s, cmd, ok) EXCEPT !.sent = sent].ok \in BOOLEAN
  BY DEF Outcome

LEMMA InitFilesInv == Init => FilesInv
  <1> SUFFICES ASSUME Init PROVE FilesInv
    OBVIOUS
  <1>1. SessionsType
    BY RootDirectory DEF Init, SessionsType
  <1>2. LastType
    BY OutcomeType DEF Init, LastType, Commands
  <1>3. uploads = 0 /\ uploads \in 0 .. MaxUploads /\ online \subseteq Sessions
    BY BoundsAssumption DEF Init
  <1>4. VolumeType(tree, uploads)
    <2>1. tree = EmptyVolume
      BY DEF Init
    <2>2. DOMAIN tree = {<<>>} /\ tree[<<>>] = DirNode
      BY <2>1 DEF EmptyVolume
    <2>3. <<>> \in Objects
      <3>1. <<>> \in Seq(Names) /\ Len(<<>>) <= MaxDepth
        BY BoundsAssumption
      <3> QED
        BY <3>1, ObjectsHave
    <2>4. Connected(tree) /\ Fits(tree)
      BY <2>1, InitConnected, EmptyFits
    <2> QED
      BY <2>2, <2>3, <2>4 DEF VolumeType, Nodes
  <1> QED
    BY <1>1, <1>2, <1>3, <1>4 DEF FilesInv

\* A session's directory becomes another path.
LEMMA DirectoryChanges ==
    ASSUME SessionsType, NEW s \in Sessions, NEW d \in Seq(Tokens), IsPath(d),
           currentdir' = [currentdir EXCEPT ![s] = d], offset' \in [Sessions -> Nat]
    PROVE  SessionsType'
  BY DEF SessionsType

LEMMA SessionsTypeKept ==
    ASSUME SessionsType, NEW s \in Sessions, NEW p \in Params, PathTaken(s, p),
           offset' \in [Sessions -> Nat]
    PROVE  SessionsType'
  <1>1. PICK d \in Seq(Tokens) : d = DirAfterFullPath(currentdir[s], p) /\ IsPath(d)
    BY PathType
  <1>2. currentdir' = [currentdir EXCEPT ![s] = d]
    BY <1>1 DEF PathTaken, SessionsType
  <1> QED
    BY <1>1, <1>2, DirectoryChanges

LEMMA SessionActions ==
    ASSUME FilesInv, NEW s \in Sessions,
           Connect(s) \/ Leave(s) \/ List(s) \/ Nlst(s) \/ Rest(s) \/ Cdup(s)
    PROVE  FilesInv'
  <1> USE DEF FilesInv
  <1>1. ASSUME UNCHANGED <<tree, uploads>>, LastType', SessionsType', online' \subseteq Sessions
        PROVE  FilesInv'
    BY <1>1 DEF FilesInv, VolumeType
  <1>2. CASE Connect(s)
    <2>1. offset' \in [Sessions -> Nat]
      BY <1>2 DEF Connect, SessionsType
    <2>2. SessionsType'
      BY <1>2, <2>1, RootDirectory, DirectoryChanges DEF Connect
    <2> QED
      BY <1>1, <1>2, <2>2 DEF Connect, LastType
  <1>3. CASE Leave(s)
    BY <1>1, <1>3 DEF Leave, LastType, SessionsType
  <1>4. CASE List(s)
    <2>1. PICK d \in Seq(Tokens) : d = TrimSlash(currentdir[s]) /\ IsPath(d)
      BY TrimSlashType DEF SessionsType
    <2>2. currentdir' = [currentdir EXCEPT ![s] = d] /\ offset' = offset
      BY <1>4, <2>1 DEF List, SessionsType
    <2>3. SessionsType'
      BY <2>1, <2>2, DirectoryChanges DEF SessionsType
    <2>4. LastType'
      <3>1. PICK ok \in BOOLEAN : ok = OpensDir(currentdir'[s])
        BY DEF OpensDir
      <3>2. PICK names : last' = [Outcome(s, "LIST", ok) EXCEPT !.names = names]
        BY <1>4, <3>1 DEF List, Listing
      <3>3. "LIST" \in Commands
        BY DEF Commands
      <3> QED
        BY <3>2, <3>3, OutcomeType DEF LastType
    <2> QED
      BY <1>1, <1>4, <2>3, <2>4 DEF List
  <1>5. CASE Nlst(s)
    <2>1. SessionsType'
      BY <1>5 DEF Nlst, SessionsType
    <2>2. LastType'
      <3>1. PICK ok \in BOOLEAN : ok = OpensDir(currentdir[s])
        BY DEF OpensDir
      <3> QED
        BY <1>5, <3>1, OutcomeType DEF Nlst, Listing, LastType, Commands
    <2> QED
      BY <1>1, <1>5, <2>1, <2>2 DEF Nlst
  <1>6. CASE Rest(s)
    <2>1. PICK n \in Offsets : /\ offset' = [offset EXCEPT ![s] = IF n >= 0 THEN n ELSE @]
                               /\ last' = Outcome(s, "REST", n >= 0)
      BY <1>6 DEF Rest
    <2>2. n \in Int
      BY OffsetsAssumption
    <2>3. offset' \in [Sessions -> Nat]
      BY <2>1, <2>2 DEF SessionsType
    <2>4. SessionsType'
      BY <1>6, <2>3 DEF Rest, SessionsType
    <2>5. LastType'
      <3>1. (n >= 0) \in BOOLEAN /\ "REST" \in Commands
        BY DEF Commands
      <3> QED
        BY <2>1, <3>1, OutcomeType DEF LastType
    <2> QED
      BY <1>1, <1>6, <2>4, <2>5 DEF Rest
  <1>7. CASE Cdup(s)
    <2>1. Sep \in Tokens
      BY DEF Tokens
    <2>2. PICK d \in Seq(Tokens) : d = StepDown(currentdir[s]) /\ IsPath(d)
      BY <2>1, StepDownType DEF SessionsType
    <2>3. currentdir' = [currentdir EXCEPT ![s] = d] /\ offset' = offset
      BY <1>7, <2>2 DEF Cdup, SessionsType
    <2>4. SessionsType'
      BY <2>2, <2>3, DirectoryChanges DEF SessionsType
    <2>5. LastType'
      BY <1>7, OutcomeType DEF Cdup, LastType, Commands
    <2> QED
      BY <1>1, <1>7, <2>4, <2>5 DEF Cdup
  <1> QED
    BY <1>2, <1>3, <1>4, <1>5, <1>6, <1>7

LEMMA ReadingActions ==
    ASSUME FilesInv, NEW s \in Sessions, NEW p \in Params,
           Retr(s, p) \/ Size(s, p) \/ Cwd(s, p) \/ StorRefused(s, p)
    PROVE  FilesInv'
  <1>1. ASSUME UNCHANGED <<online, tree, uploads>>, LastType', SessionsType'
        PROVE  FilesInv'
    BY <1>1 DEF FilesInv, VolumeType
  <1>2. SessionsType
    BY DEF FilesInv
  <1>3. CASE Retr(s, p)
    <2>1. offset' \in [Sessions -> Nat]
      <3>1. offset' = offset \/ offset' = [offset EXCEPT ![s] = 0]
        BY <1>3 DEF Retr
      <3>2. offset \in [Sessions -> Nat]
        BY <1>2 DEF SessionsType
      <3>3. [offset EXCEPT ![s] = 0] \in [Sessions -> Nat]
        BY <3>2
      <3> QED
        BY <3>1, <3>2, <3>3
    <2>2. SessionsType'
      BY <1>2, <1>3, <2>1, SessionsTypeKept DEF Retr
    <2>3. LastType'
      <3>1. \/ last' = Outcome(s, "RETR", FALSE)
            \/ \E sent : last' = [Outcome(s, "RETR", TRUE) EXCEPT !.sent = sent]
        <4>1. CASE ~OpensFile(Path(s, p))
          BY <1>3, <4>1 DEF Retr
        <4>2. CASE OpensFile(Path(s, p))
          <5>1. PICK data, from : /\ data = tree[Object(Path(s, p))].data
                                  /\ from = RestartAt(offset[s], data) + 1
            OBVIOUS
          <5>2. last' = [Outcome(s, "RETR", TRUE) EXCEPT !.sent = SubSeq(data, from, Len(data))]
            BY <1>3, <4>2, <5>1 DEF Retr
          <5> QED
            BY <5>2
        <4> QED
          BY <4>1, <4>2
      <3>2. "RETR" \in Commands /\ TRUE \in BOOLEAN /\ FALSE \in BOOLEAN
        BY DEF Commands
      <3>3. CASE last' = Outcome(s, "RETR", FALSE)
        BY <3>2, <3>3, OutcomeType DEF LastType
      <3>4. CASE \E sent : last' = [Outcome(s, "RETR", TRUE) EXCEPT !.sent = sent]
        <4>1. PICK sent : last' = [Outcome(s, "RETR", TRUE) EXCEPT !.sent = sent]
          BY <3>4
        <4> QED
          BY <3>2, <4>1, OutcomeType DEF LastType
      <3> QED
        BY <3>1, <3>3, <3>4
    <2> QED
      BY <1>1, <1>3, <2>2, <2>3 DEF Retr
  <1>4. CASE Size(s, p)
    <2>1. SessionsType'
      BY <1>2, <1>4, SessionsTypeKept DEF Size, SessionsType
    <2>2. LastType'
      <3>1. PICK ok \in BOOLEAN : ok = OpensFile(Path(s, p))
        BY DEF OpensFile
      <3> QED
        BY <1>4, <3>1, OutcomeType DEF Size, LastType, Commands
    <2> QED
      BY <1>1, <1>4, <2>1, <2>2 DEF Size
  <1>5. CASE Cwd(s, p)
    <2>1. PICK d \in Seq(Tokens) : d = FullPath(currentdir[s], p) /\ IsPath(d)
      BY <1>2, PathType DEF Path
    <2>2. currentdir' = [currentdir EXCEPT ![s] = d] /\ offset' = offset
      BY <1>2, <1>5, <2>1 DEF Cwd, SessionsType
    <2>3. SessionsType'
      BY <1>2, <2>1, <2>2, DirectoryChanges DEF SessionsType
    <2>4. LastType'
      BY <1>5, OutcomeType DEF Cwd, LastType, Commands
    <2> QED
      BY <1>1, <1>5, <2>3, <2>4 DEF Cwd
  <1>6. CASE StorRefused(s, p)
    <2>1. SessionsType'
      BY <1>2, <1>6, SessionsTypeKept DEF StorRefused, SessionsType
    <2>2. LastType'
      BY <1>6, OutcomeType DEF StorRefused, LastType, Commands
    <2> QED
      BY <1>1, <1>6, <2>1, <2>2 DEF StorRefused
  <1> QED
    BY <1>3, <1>4, <1>5, <1>6

LEMMA UploadAction ==
    ASSUME FilesInv, NEW s \in Sessions, NEW p \in Params, StorFinished(s, p)
    PROVE  FilesInv'
  <1>1. PICK o : o = Object(Path(s, p))
    OBVIOUS
  <1>2. PICK n \in 0 .. MaxSectors :
          /\ tree' = Put(tree, o, FileNode(
                        Overwritten(Before(o), uploads', Written(Before(o), Room(tree), n))))
          /\ last' = [Outcome(s, "STOR", TRUE) EXCEPT !.sent = Overwritten(<<>>, uploads', n)]
    BY <1>1 DEF StorFinished
  <1>3. /\ PathTaken(s, p) /\ FatAccepts(Path(s, p))
        /\ IsFile(tree, o) \/ (CanCreate(tree, o) /\ Len(o) <= MaxDepth)
        /\ uploads < MaxUploads /\ uploads' = uploads + 1 /\ UNCHANGED <<online, offset>>
    BY <1>1 DEF StorFinished, OpensForWriting
  <1>4. /\ SessionsType /\ VolumeType(tree, uploads) /\ online \subseteq Sessions
        /\ uploads \in 0 .. MaxUploads
    BY DEF FilesInv
  <1>5. o \in Objects
    <2>1. CASE IsFile(tree, o)
      BY <1>4, <2>1 DEF VolumeType, IsFile
    <2>2. CASE Len(o) <= MaxDepth
      BY <1>1, <1>3, <1>4, <2>2, PathObject
    <2> QED
      BY <1>3, <2>1, <2>2
  <1>6. uploads \in Nat /\ uploads' \in 0 .. MaxUploads /\ n \in Nat
    BY <1>3, <1>4, BoundsAssumption
  <1>7. VolumeType(tree', uploads')
    <2>1. PICK old : old = Before(o)
      OBVIOUS
    <2>2. PICK new : new = Overwritten(old, uploads + 1, Written(old, Room(tree), n))
      OBVIOUS
    <2>3. old = IF o \in DOMAIN tree THEN tree[o].data ELSE <<>>
      BY <2>1 DEF Before
    <2>4. VolumeType(Put(tree, o, FileNode(new)), uploads + 1)
      BY <1>3, <1>4, <1>5, <1>6, <2>2, <2>3, FileWritten
    <2>5. tree' = Put(tree, o, FileNode(new))
      BY <1>2, <1>3, <2>1, <2>2
    <2> QED
      BY <1>3, <2>4, <2>5
  <1>8. SessionsType'
    BY <1>3, <1>4, SessionsTypeKept DEF SessionsType
  <1>9. LastType'
    <2>1. PICK sent : last' = [Outcome(s, "STOR", TRUE) EXCEPT !.sent = sent]
      BY <1>2
    <2>2. "STOR" \in Commands /\ TRUE \in BOOLEAN
      BY DEF Commands
    <2> QED
      BY <2>1, <2>2, OutcomeType DEF LastType
  <1> QED
    BY <1>3, <1>4, <1>6, <1>7, <1>8, <1>9 DEF FilesInv, VolumeType

LEMMA ChangingActions ==
    ASSUME FilesInv, NEW s \in Sessions, NEW p \in Params,
           Mkd(s, p) \/ Dele(s, p) \/ Rmd(s, p)
    PROVE  FilesInv'
  <1>1. PICK o : o = Object(Path(s, p))
    OBVIOUS
  <1>2. /\ SessionsType /\ VolumeType(tree, uploads) /\ online \subseteq Sessions
        /\ uploads \in 0 .. MaxUploads /\ uploads \in Nat
    BY DEF FilesInv
  <1>3. PathTaken(s, p) /\ UNCHANGED <<online, offset, uploads>>
    BY DEF Mkd, Dele, Rmd, Unlink
  <1>4. SessionsType'
    BY <1>2, <1>3, SessionsTypeKept DEF SessionsType
  <1>5. CASE Mkd(s, p)
    <2>1. PICK ok \in BOOLEAN : ok <=> FatAccepts(Path(s, p)) /\ CanMake(tree, o)
      OBVIOUS
    <2>2. /\ ok => Len(o) <= MaxDepth
          /\ tree' = IF ok THEN Put(tree, o, DirNode) ELSE tree
          /\ last' = Outcome(s, "MKD", FatAccepts(Path(s, p)) /\ CanMake(tree, o))
      BY <1>1, <1>5, <2>1 DEF Mkd
    <2>3. VolumeType(tree', uploads)
      <3>1. CASE ok
        <4>1. o \in Objects
          BY <1>1, <1>2, <2>1, <2>2, <3>1, PathObject
        <4> QED
          BY <1>2, <2>1, <2>2, <3>1, <4>1, DirectoryMade
      <3>2. CASE ~ok
        BY <1>2, <2>2, <3>2
      <3> QED
        BY <3>1, <3>2
    <2>4. LastType'
      <3>1. (FatAccepts(Path(s, p)) /\ CanMake(tree, o)) \in BOOLEAN /\ "MKD" \in Commands
        BY DEF Commands
      <3> QED
        BY <2>2, <3>1, OutcomeType DEF LastType
    <2> QED
      BY <1>2, <1>3, <1>4, <2>3, <2>4 DEF FilesInv, VolumeType
  <1>6. ASSUME NEW cmd \in {"DELE", "RMD"}, Unlink(s, cmd, p)
        PROVE  FilesInv'
    <2>1. PICK ok \in BOOLEAN : ok <=> FatAccepts(Path(s, p)) /\ CanUnlink(tree, o)
      OBVIOUS
    <2>2. /\ tree' = IF ok THEN Unlinked(tree, o) ELSE tree
          /\ last' = Outcome(s, cmd, FatAccepts(Path(s, p)) /\ CanUnlink(tree, o))
      BY <1>1, <1>6, <2>1 DEF Unlink
    <2>3. VolumeType(tree', uploads)
      <3>1. CASE ok
        BY <1>2, <2>1, <2>2, <3>1, ObjectRemoved
      <3>2. CASE ~ok
        BY <1>2, <2>2, <3>2
      <3> QED
        BY <3>1, <3>2
    <2>4. LastType'
      <3>1. (FatAccepts(Path(s, p)) /\ CanUnlink(tree, o)) \in BOOLEAN /\ cmd \in Commands
        BY DEF Commands
      <3> QED
        BY <2>2, <3>1, OutcomeType DEF LastType
    <2> QED
      BY <1>2, <1>3, <1>4, <2>3, <2>4 DEF FilesInv, VolumeType
  <1>7. CASE Dele(s, p) \/ Rmd(s, p)
    BY <1>6, <1>7 DEF Dele, Rmd
  <1> QED
    BY <1>5, <1>7

LEMMA NextFilesInv ==
    ASSUME FilesInv, [Next]_vars
    PROVE  FilesInv'
  <1>1. CASE UNCHANGED vars
    BY <1>1 DEF vars, FilesInv, SessionsType, VolumeType, LastType
  <1>2. CASE Next
    BY <1>2, SessionActions, ReadingActions, UploadAction, ChangingActions DEF Next
  <1> QED
    BY <1>1, <1>2

\* Sessions stand in paths and restart at offsets; the volume is a tree of
\* directories and of files with clusters of uploads that took place; and what
\* it holds is never more than there is.
THEOREM Invariance == Spec => []FilesInv
  BY InitFilesInv, NextFilesInv, PTL DEF Spec

\* Every directory a session stands in is a path, every object has at most
\* MaxDepth names, and a file holds clusters of uploads that took place.
THEOREM TypeCorrect == Spec => []TypeOK
  <1>1. FilesInv => TypeOK
    <2> SUFFICES ASSUME FilesInv PROVE TypeOK
      OBVIOUS
    <2>1. ASSUME NEW o \in DOMAIN tree, IsFile(tree, o)
          PROVE  ToSet(tree[o].data) \subseteq 1 .. uploads
      <3>1. tree[o] \in Nodes(uploads) /\ tree[o].kind = "file"
        BY <2>1 DEF FilesInv, VolumeType, IsFile
      <3>2. tree[o].data \in Seq(1 .. uploads)
        BY <3>1, FileNodeData
      <3> QED
        BY <3>2, ElementsInSet
    <2>2. \A s \in Sessions : IsPath(currentdir[s]) /\ offset[s] \in Nat
      BY DEF FilesInv, SessionsType
    <2>3. DOMAIN tree \subseteq Objects /\ IsDir(tree, <<>>)
      BY DEF FilesInv, VolumeType, Connected
    <2> QED
      BY <2>1, <2>2, <2>3 DEF TypeOK, FilesInv, LastType
  <1> QED
    BY <1>1, Invariance, PTL

\* f_mkdir and f_write never take a cluster that is not free: what directories
\* and files occupy together stays within the volume.
THEOREM NeverOverfull == Spec => [](Used(tree) <= Capacity)
  <1>1. FilesInv => Used(tree) <= Capacity
    BY DEF FilesInv, VolumeType, Fits
  <1> QED
    BY <1>1, Invariance, PTL

-----------------------------------------------------------------------------
(* Clients with plain paths                                                *)

ParamsPlain == \A p \in Params : IsPlain(p)
DirsPlain == \A s \in Sessions : IsPlain(currentdir[s])

PlainTokens == Names \cup {Sep}

LEMMA PlainTokensSpell ==
    Spells(Names, PlainTokens) /\ Sep \in PlainTokens /\ Sep \notin Names /\ Up \notin Names
  BY DEF Spells, PlainTokens, Names

LEMMA PlainType ==
    ASSUME NEW d \in Seq(Tokens), IsPlain(d)
    PROVE  d \in Seq(PlainTokens)
  <1>1. PICK n \in Nat : n = Len(d) /\ d = [i \in 1 .. n |-> d[i]]
    OBVIOUS
  <1>2. ASSUME NEW i \in 1 .. n PROVE d[i] \in PlainTokens
    <2>1. d[i] \in Tokens /\ d[i] # Up
      BY <1>1 DEF IsPlain, ToSet
    <2> QED
      BY <2>1 DEF Tokens, PlainTokens
  <1> QED
    BY <1>1, <1>2

\* The server goes where the client means to go.
LEMMA PlainPath ==
    ASSUME SessionsType, ParamsPlain, DirsPlain, NEW s \in Sessions, NEW p \in Params
    PROVE  /\ IsPlain(Path(s, p)) /\ FatAccepts(Path(s, p))
           /\ Object(Path(s, p)) = Resolve(Segments(currentdir[s]), p)
           /\ PathTaken(s, p) => currentdir' = currentdir
  <1>1. PICK d \in Seq(Tokens) : d = currentdir[s] /\ IsPlain(d)
    BY DEF SessionsType, DirsPlain
  <1>2. IsPlain(p) /\ p \in Seq(Tokens)
    BY ParamType DEF ParamsPlain
  <1>3. d \in Seq(PlainTokens) /\ p \in Seq(PlainTokens)
    BY <1>1, <1>2, PlainType
  <1>4. /\ IsPlain(FullPath(d, p)) /\ DirAfterFullPath(d, p) = d
        /\ Segments(FullPath(d, p)) = Resolve(Segments(d), p)
    BY <1>1, <1>2, <1>3, PlainTokensSpell, FullPathPlain
  <1>5. FatAccepts(Path(s, p))
    BY <1>1, <1>4, PathType, PlainAccepted DEF Path
  <1>6. ASSUME PathTaken(s, p) PROVE currentdir' = currentdir
    <2>1. currentdir' = [currentdir EXCEPT ![s] = d]
      BY <1>1, <1>4, <1>6 DEF PathTaken, SessionsType
    <2> QED
      BY <1>1, <2>1 DEF SessionsType
  <1> QED
    BY <1>1, <1>4, <1>5, <1>6 DEF Path, Object

LEMMA PlainDirectory ==
    ASSUME SessionsType, DirsPlain, NEW s \in Sessions
    PROVE  /\ FatAccepts(currentdir[s]) /\ TrimSlash(currentdir[s]) = currentdir[s]
           /\ IsPlain(StepDown(currentdir[s]))
           /\ Segments(StepDown(currentdir[s])) = Parent(Segments(currentdir[s]))
  <1>1. PICK d \in Seq(Tokens) : d = currentdir[s] /\ IsPlain(d)
    BY DEF SessionsType, DirsPlain
  <1>2. d \in Seq(PlainTokens)
    BY <1>1, PlainType
  <1>3. IsPlain(StepDown(d)) /\ Segments(StepDown(d)) = Parent(Segments(d))
    BY <1>1, <1>2, PlainTokensSpell, StepDownPlain
  <1>4. FatAccepts(d)
    BY <1>1, PlainAccepted
  <1>5. TrimSlash(d) = d
    <2>1. CASE d = <<Sep>>
      <3>1. ~(Len(d) > 1)
        BY <2>1
      <3> QED
        BY <3>1 DEF TrimSlash
    <2>2. CASE d # <<Sep>>
      BY <1>1, <2>2 DEF IsPlain, TrimSlash, EndsWith
    <2> QED
      BY <2>1, <2>2
  <1> QED
    BY <1>1, <1>3, <1>4, <1>5

\* CWD, CDUP and LIST, which write the directory, keep it plain.
LEMMA DirsStayPlain ==
    ASSUME SessionsType, ParamsPlain, DirsPlain, [Next]_vars
    PROVE  DirsPlain'
  <1>1. ASSUME currentdir' = currentdir PROVE DirsPlain'
    BY <1>1 DEF DirsPlain
  <1>2. ASSUME NEW s \in Sessions, NEW d, IsPlain(d), currentdir' = [currentdir EXCEPT ![s] = d]
        PROVE  DirsPlain'
    BY <1>2 DEF DirsPlain, SessionsType
  <1>3. CASE UNCHANGED vars
    BY <1>1, <1>3 DEF vars
  <1>4. ASSUME NEW s \in Sessions, Connect(s) PROVE DirsPlain'
    BY <1>2, <1>4, RootPlain DEF Connect
  <1>5. ASSUME NEW s \in Sessions, Leave(s) \/ Nlst(s) \/ Rest(s) PROVE DirsPlain'
    BY <1>1, <1>5 DEF Leave, Nlst, Rest
  <1>6. ASSUME NEW s \in Sessions, List(s) PROVE DirsPlain'
    <2>1. PICK d : d = TrimSlash(currentdir[s])
      OBVIOUS
    <2>2. IsPlain(d)
      BY <2>1, PlainDirectory DEF DirsPlain
    <2>3. currentdir' = [currentdir EXCEPT ![s] = d]
      BY <1>6, <2>1 DEF List, SessionsType
    <2> QED
      BY <1>2, <2>2, <2>3
  <1>7. ASSUME NEW s \in Sessions, Cdup(s) PROVE DirsPlain'
    <2>1. PICK d : d = StepDown(currentdir[s])
      OBVIOUS
    <2>2. IsPlain(d)
      BY <2>1, PlainDirectory
    <2>3. currentdir' = [currentdir EXCEPT ![s] = d]
      BY <1>7, <2>1 DEF Cdup, SessionsType
    <2> QED
      BY <1>2, <2>2, <2>3
  <1>8. ASSUME NEW s \in Sessions, NEW p \in Params, Cwd(s, p) PROVE DirsPlain'
    <2>1. PICK d : d = Path(s, p)
      OBVIOUS
    <2>2. IsPlain(d)
      BY <2>1, PlainPath
    <2>3. currentdir' = [currentdir EXCEPT ![s] = d]
      BY <1>8, <2>1 DEF Cwd, SessionsType, Path
    <2> QED
      BY <1>2, <2>2, <2>3
  <1>9. ASSUME NEW s \in Sessions, NEW p \in Params, PathTaken(s, p) PROVE DirsPlain'
    BY <1>1, <1>9, PlainPath
  <1>10. ASSUME NEW s \in Sessions, NEW p \in Params,
                \/ Retr(s, p) \/ Size(s, p) \/ StorRefused(s, p) \/ StorFinished(s, p)
                \/ Mkd(s, p) \/ Dele(s, p) \/ Rmd(s, p)
         PROVE  DirsPlain'
    <2>1. PathTaken(s, p)
      BY <1>10 DEF Retr, Size, StorRefused, StorFinished, OpensForWriting, Mkd, Dele, Rmd, Unlink
    <2> QED
      BY <1>9, <2>1
  <1> QED
    BY <1>3, <1>4, <1>5, <1>6, <1>7, <1>8, <1>10 DEF Next

-----------------------------------------------------------------------------
(* The store: where the sessions are, and what its operators mean          *)

Places == [s \in Sessions |-> IF s \in online THEN Segments(currentdir[s]) ELSE <<>>]
Marks == [s \in Sessions |-> IF s \in online THEN offset[s] ELSE 0]

LEMMA StoreTree ==
    ASSUME NEW t, NEW o
    PROVE  /\ Store!IsDir(t, o) <=> IsDir(t, o)
           /\ Store!IsFile(t, o) <=> IsFile(t, o)
           /\ Store!NamesIn(t, o) = NamesIn(t, o)
           /\ Store!CanCreate(t, o) <=> CanCreate(t, o)
           /\ Store!CanUnlink(t, o) <=> CanUnlink(t, o)
           /\ Store!Unlinked(t, o) = Unlinked(t, o)
  <1>1. \A x : Store!IsDir(t, x) <=> IsDir(t, x)
    BY DEF Store!IsDir, IsDir
  <1>2. Store!IsFile(t, o) <=> IsFile(t, o)
    BY DEF Store!IsFile, IsFile
  <1>3. Store!ChildrenOf(t, o) = ChildrenOf(t, o)
    BY DEF Store!ChildrenOf, ChildrenOf, Store!Front, Front
  <1>4. Store!NamesIn(t, o) = NamesIn(t, o)
    BY <1>3 DEF Store!NamesIn, NamesIn, Store!Last, Last
  <1>5. Store!CanCreate(t, o) <=> CanCreate(t, o)
    BY <1>1 DEF Store!CanCreate, CanCreate, Store!Front, Front
  <1>6. Store!CanUnlink(t, o) <=> CanUnlink(t, o)
    BY <1>3 DEF Store!CanUnlink, CanUnlink
  <1>7. Store!Unlinked(t, o) = Unlinked(t, o)
    BY DEF Store!Unlinked, Unlinked
  <1> QED
    BY <1>1, <1>2, <1>4, <1>5, <1>6, <1>7

LEMMA StoreRoom ==
    ASSUME NEW t, NEW o
    PROVE  /\ Store!Room(t) = Room(t)
           /\ Store!CanMake(t, o) <=> CanMake(t, o)
  <1>1. Store!Clusters(t) = Clusters(t)
    BY DEF Store!Clusters, Clusters, Store!ClustersOf, ClustersOf
  <1>2. Store!Room(t) = Room(t)
    BY <1>1 DEF Store!Room, Room, Store!Used, Used, Store!Cardinality, Cardinality
  <1> QED
    BY <1>2, StoreTree DEF Store!CanMake, CanMake

LEMMA StoreNodes ==
    /\ Store!DirNode = DirNode
    /\ Store!EmptyVolume = EmptyVolume
    /\ \A d : Store!FileNode(d) = FileNode(d)
    /\ \A t, o, n : Store!Put(t, o, n) = Put(t, o, n)
    /\ \A old, u, n : Store!Overwritten(old, u, n) = Overwritten(old, u, n)
    /\ \A s, cmd, ok : Store!Outcome(s, cmd, ok) = Outcome(s, cmd, ok)
  BY DEF Store!DirNode, Store!EmptyVolume, Store!FileNode, Store!Put, Store!Overwritten,
         Store!Outcome, DirNode, EmptyVolume, FileNode, Put, Overwritten, Outcome

LEMMA StorePaths ==
    ASSUME NEW place, NEW p
    PROVE  /\ Store!Parent(place) = Parent(place)
           /\ Store!Resolve(place, p) = Resolve(place, p)
  <1>1. \A x : Store!Parent(x) = Parent(x)
    BY DEF Store!Parent, Parent, Store!Front, Front
  <1>2. Store!Resolve(place, p) = Resolve(place, p)
    BY Zenon DEF Store!Parent, Store!Resolve, Store!StartsWith, Store!Sep, Store!Up,
                 Parent, Resolve, StartsWith, Sep, Up, Store!Front, Front
  <1> QED
    BY <1>1, <1>2

-----------------------------------------------------------------------------
(* Each command as a step of the store                                     *)

LEMMA HereAndThere ==
    ASSUME NEW s \in Sessions, s \in online
    PROVE  Places[s] = Segments(currentdir[s]) /\ Marks[s] = offset[s]
  BY DEF Places, Marks

LEMMA PlacesKept ==
    /\ UNCHANGED <<online, currentdir>> => UNCHANGED Places
    /\ UNCHANGED <<online, offset>> => UNCHANGED Marks
  BY DEF Places, Marks

LEMMA PlaceMoves ==
    ASSUME SessionsType, NEW s \in Sessions, s \in online, NEW d, online' = online,
           currentdir' = [currentdir EXCEPT ![s] = d]
    PROVE  Places' = [Places EXCEPT ![s] = Segments(d)]
  BY DEF Places, SessionsType

LEMMA MarkMoves ==
    ASSUME SessionsType, NEW s \in Sessions, s \in online, NEW n, online' = online,
           offset' = [offset EXCEPT ![s] = n]
    PROVE  Marks' = [Marks EXCEPT ![s] = n]
  BY DEF Marks, SessionsType

LEMMA ConnectStep ==
    ASSUME SessionsType, NEW s \in Sessions, Connect(s)
    PROVE  Store!Session(s)
  <1>1. /\ online' = online \cup {s} /\ currentdir' = [currentdir EXCEPT ![s] = <<Sep>>]
        /\ offset' = [offset EXCEPT ![s] = 0] /\ UNCHANGED <<tree, uploads, last>>
    BY DEF Connect
  <1>2. Places' = [Places EXCEPT ![s] = <<>>]
    BY <1>1, RootPlain DEF Places, SessionsType
  <1>3. Marks' = [Marks EXCEPT ![s] = 0]
    BY <1>1 DEF Marks, SessionsType
  <1> QED
    BY <1>1, <1>2, <1>3 DEF Store!Session, Places, Marks

LEMMA LeaveStep ==
    ASSUME SessionsType, NEW s \in Sessions, Leave(s)
    PROVE  Store!Session(s)
  <1>1. online' = online \ {s} /\ UNCHANGED <<currentdir, offset, tree, uploads, last>>
    BY DEF Leave
  <1>2. Places' = [Places EXCEPT ![s] = <<>>]
    BY <1>1 DEF Places
  <1>3. Marks' = [Marks EXCEPT ![s] = 0]
    BY <1>1 DEF Marks
  <1> QED
    BY <1>1, <1>2, <1>3 DEF Store!Session, Places, Marks

LEMMA CdupStep ==
    ASSUME SessionsType, DirsPlain, NEW s \in Sessions, Cdup(s)
    PROVE  Store!Move(s)
  <1>1. PICK d : d = StepDown(currentdir[s])
    OBVIOUS
  <1>2. /\ s \in online /\ currentdir' = [currentdir EXCEPT ![s] = d]
        /\ last' = Outcome(s, "CDUP", TRUE) /\ UNCHANGED <<online, offset, tree, uploads>>
    BY <1>1 DEF Cdup, SessionsType
  <1>3. Segments(d) = Parent(Segments(currentdir[s]))
    BY <1>1, PlainDirectory
  <1>4. Places' = [Places EXCEPT ![s] = Store!Parent(Places[s])]
    BY <1>2, <1>3, PlaceMoves, HereAndThere, StorePaths
  <1>5. Marks' = Marks
    BY <1>2, PlacesKept
  <1>6. last' = Store!Outcome(s, "CDUP", TRUE)
    BY <1>2, StoreNodes
  <1> QED
    BY <1>2, <1>4, <1>5, <1>6 DEF Store!Move, Places, Marks

LEMMA CwdStep ==
    ASSUME SessionsType, ParamsPlain, DirsPlain, NEW s \in Sessions, NEW p \in Params, Cwd(s, p)
    PROVE  Store!Move(s)
  <1>1. PICK d : d = Path(s, p)
    OBVIOUS
  <1>2. /\ s \in online /\ currentdir' = [currentdir EXCEPT ![s] = d]
        /\ last' = Outcome(s, "CWD", TRUE) /\ UNCHANGED <<online, offset, tree, uploads>>
    BY <1>1 DEF Cwd, SessionsType, Path
  <1>3. Segments(d) = Resolve(Segments(currentdir[s]), p)
    BY <1>1, PlainPath DEF Object
  <1>4. Places' = [Places EXCEPT ![s] = Store!Resolve(Places[s], p)]
    BY <1>2, <1>3, PlaceMoves, HereAndThere, StorePaths
  <1>5. Marks' = Marks
    BY <1>2, PlacesKept
  <1>6. last' = Store!Outcome(s, "CWD", TRUE)
    BY <1>2, StoreNodes
  <1> QED
    BY <1>2, <1>4, <1>5, <1>6 DEF Store!Move, Places, Marks

\* The reply to LIST and to NLST.
LEMMA ListingMeans ==
    ASSUME SessionsType, DirsPlain, NEW s \in Sessions, s \in online,
           NEW cmd, Listing(s, cmd, currentdir[s])
    PROVE  last' = IF Store!IsDir(tree, Places[s])
                   THEN [Store!Outcome(s, cmd, TRUE) EXCEPT !.names = Store!NamesIn(tree, Places[s])]
                   ELSE Store!Outcome(s, cmd, FALSE)
  <1>1. PICK o : o = Segments(currentdir[s])
    OBVIOUS
  <1>2. OpensDir(currentdir[s]) <=> IsDir(tree, o)
    BY <1>1, PlainDirectory DEF OpensDir, Object
  <1>3. CASE IsDir(tree, o)
    <2>1. OpensDir(currentdir[s]) = TRUE
      BY <1>2, <1>3 DEF OpensDir
    <2>2. last' = [Outcome(s, cmd, TRUE) EXCEPT !.names = NamesIn(tree, o)]
      BY <1>1, <2>1 DEF Listing, Object
    <2> QED
      BY <1>1, <1>3, <2>2, HereAndThere, StoreTree, StoreNodes
  <1>4. CASE ~IsDir(tree, o)
    <2>1. OpensDir(currentdir[s]) = FALSE
      BY <1>2, <1>4 DEF OpensDir
    <2>2. last' = [Outcome(s, cmd, FALSE) EXCEPT !.names = {}]
      BY <2>1 DEF Listing
    <2>3. last' = Outcome(s, cmd, FALSE)
      BY <2>2 DEF Outcome
    <2> QED
      BY <1>1, <1>4, <2>3, HereAndThere, StoreTree, StoreNodes
  <1> QED
    BY <1>3, <1>4

LEMMA ListStep ==
    ASSUME SessionsType, DirsPlain, NEW s \in Sessions, List(s) \/ Nlst(s)
    PROVE  Store!Read(s)
  <1>1. s \in online /\ UNCHANGED <<online, offset, tree, uploads>>
    BY DEF List, Nlst
  <1>2. UNCHANGED currentdir
    BY PlainDirectory DEF List, Nlst, SessionsType
  <1>3. PICK cmd \in {"LIST", "NLST"} : Listing(s, cmd, currentdir[s])
    BY <1>2 DEF List, Nlst
  <1>4. last' = IF Store!IsDir(tree, Places[s])
                THEN [Store!Outcome(s, cmd, TRUE) EXCEPT !.names = Store!NamesIn(tree, Places[s])]
                ELSE Store!Outcome(s, cmd, FALSE)
    BY <1>1, <1>3, ListingMeans
  <1>5. UNCHANGED <<Places, Marks>>
    BY <1>1, <1>2, PlacesKept
  <1> QED
    BY <1>1, <1>4, <1>5 DEF Store!Read, Places, Marks

LEMMA RestStep ==
    ASSUME SessionsType, NEW s \in Sessions, Rest(s)
    PROVE  Store!Read(s)
  <1>1. PICK n \in Offsets : /\ offset' = [offset EXCEPT ![s] = IF n >= 0 THEN n ELSE @]
                             /\ last' = Outcome(s, "REST", n >= 0)
    BY DEF Rest
  <1>2. s \in online /\ UNCHANGED <<online, currentdir, tree, uploads>>
    BY DEF Rest
  <1>3. PICK m : m = IF n >= 0 THEN n ELSE offset[s]
    OBVIOUS
  <1>4. offset' = [offset EXCEPT ![s] = m]
    BY <1>1, <1>3 DEF SessionsType
  <1>5. Marks' = [Marks EXCEPT ![s] = m]
    BY <1>2, <1>4, MarkMoves
  <1>6. Marks' = [Marks EXCEPT ![s] = IF n >= 0 THEN n ELSE Marks[s]]
    BY <1>2, <1>3, <1>5, HereAndThere
  <1>7. UNCHANGED Places
    BY <1>2, PlacesKept
  <1>8. last' = Store!Outcome(s, "REST", n >= 0)
    BY <1>1, StoreNodes
  <1> QED
    BY <1>2, <1>6, <1>7, <1>8 DEF Store!Read, Places, Marks

\* What a path refers to, for the server and for the store.
LEMMA ObjectNamed ==
    ASSUME SessionsType, ParamsPlain, DirsPlain, NEW s \in Sessions, NEW p \in Params, s \in online
    PROVE  /\ Object(Path(s, p)) = Store!Named(s, p)
           /\ FatAccepts(Path(s, p))
           /\ OpensFile(Path(s, p)) <=> Store!IsFile(tree, Store!Named(s, p))
           /\ PathTaken(s, p) => currentdir' = currentdir
  <1>1. /\ FatAccepts(Path(s, p)) /\ Object(Path(s, p)) = Resolve(Segments(currentdir[s]), p)
        /\ PathTaken(s, p) => currentdir' = currentdir
    BY PlainPath
  <1>2. Object(Path(s, p)) = Store!Resolve(Places[s], p)
    BY <1>1, HereAndThere, StorePaths
  <1>3. Object(Path(s, p)) = Store!Named(s, p)
    BY <1>2 DEF Store!Named, Places
  <1> QED
    BY <1>1, <1>3, StoreTree DEF OpensFile

LEMMA SizeStep ==
    ASSUME SessionsType, ParamsPlain, DirsPlain, NEW s \in Sessions, NEW p \in Params, Size(s, p)
    PROVE  Store!Read(s)
  <1>1. /\ s \in online /\ PathTaken(s, p) /\ UNCHANGED <<online, offset, tree, uploads>>
        /\ last' = Outcome(s, "SIZE", OpensFile(Path(s, p)))
    BY DEF Size
  <1>2. UNCHANGED <<Places, Marks>>
    BY <1>1, ObjectNamed, PlacesKept
  <1>3. OpensFile(Path(s, p)) = Store!IsFile(tree, Store!Named(s, p))
    <2>1. OpensFile(Path(s, p)) <=> Store!IsFile(tree, Store!Named(s, p))
      BY <1>1, ObjectNamed
    <2> QED
      BY <2>1 DEF OpensFile, Store!IsFile
  <1>4. last' = Store!Outcome(s, "SIZE", Store!IsFile(tree, Store!Named(s, p)))
    BY <1>1, <1>3, StoreNodes
  <1> QED
    BY <1>1, <1>2, <1>4 DEF Store!Read, Places, Marks

LEMMA RetrStep ==
    ASSUME SessionsType, ParamsPlain, DirsPlain, NEW s \in Sessions, NEW p \in Params, Retr(s, p)
    PROVE  Store!Read(s)
  <1>1. s \in online /\ PathTaken(s, p) /\ UNCHANGED <<online, tree, uploads>>
    BY DEF Retr
  <1>2. UNCHANGED currentdir /\ UNCHANGED Places
    BY <1>1, ObjectNamed, PlacesKept
  <1>3. PICK o : o = Store!Named(s, p)
    OBVIOUS
  <1>4. o = Object(Path(s, p)) /\ (OpensFile(Path(s, p)) <=> Store!IsFile(tree, o))
    BY <1>1, <1>3, ObjectNamed
  <1>5. CASE ~OpensFile(Path(s, p))
    <2>1. offset' = [offset EXCEPT ![s] = 0] /\ last' = Outcome(s, "RETR", FALSE)
      BY <1>5 DEF Retr
    <2>2. Marks' = [Marks EXCEPT ![s] = 0]
      BY <1>1, <2>1, MarkMoves
    <2>3. last' = Store!Outcome(s, "RETR", FALSE)
      BY <2>1, StoreNodes
    <2>4. ~Store!IsFile(tree, Store!Named(s, p))
      BY <1>3, <1>4, <1>5
    <2> QED
      BY <1>1, <1>2, <2>2, <2>3, <2>4 DEF Store!Read, Places, Marks
  <1>6. CASE OpensFile(Path(s, p))
    <2>1. PICK data : data = tree[o].data
      OBVIOUS
    <2>2. /\ UNCHANGED offset
          /\ last' = [Outcome(s, "RETR", TRUE) EXCEPT
                         !.sent = SubSeq(data, RestartAt(offset[s], data) + 1, Len(data))]
      BY <1>4, <1>6, <2>1 DEF Retr
    <2>3. UNCHANGED Marks
      BY <1>1, <2>2, PlacesKept
    <2>4. PICK from : from = IF Marks[s] < Len(data) THEN Marks[s] ELSE 0
      OBVIOUS
    <2>5. RestartAt(offset[s], data) = from
      BY <1>1, <2>4, HereAndThere DEF RestartAt
    <2>6. last' = [Store!Outcome(s, "RETR", TRUE) EXCEPT !.sent = SubSeq(data, from + 1, Len(data))]
      BY <2>2, <2>5, StoreNodes
    <2>7. /\ Store!IsFile(tree, Store!Named(s, p)) /\ data = tree[Store!Named(s, p)].data
      BY <1>3, <1>4, <1>6, <2>1
    <2> QED
      BY <1>1, <1>2, <2>3, <2>4, <2>6, <2>7 DEF Store!Read, Places, Marks
  <1> QED
    BY <1>5, <1>6

LEMMA RefusedStep ==
    ASSUME SessionsType, ParamsPlain, DirsPlain, NEW s \in Sessions, NEW p \in Params,
           StorRefused(s, p)
    PROVE  Store!Upload(s, p)
  <1>1. /\ s \in online /\ PathTaken(s, p) /\ UNCHANGED <<online, offset, tree, uploads>>
        /\ ~OpensFile(Path(s, p))
        /\ ~(FatAccepts(Path(s, p)) /\ CanCreate(tree, Object(Path(s, p))))
        /\ last' = Outcome(s, "STOR", FALSE)
    BY DEF StorRefused
  <1>2. UNCHANGED <<Places, Marks>>
    BY <1>1, ObjectNamed, PlacesKept
  <1>3. /\ ~Store!IsFile(tree, Store!Named(s, p))
        /\ ~Store!CanCreate(tree, Store!Named(s, p))
    BY <1>1, ObjectNamed, StoreTree
  <1>4. last' = Store!Outcome(s, "STOR", FALSE)
    BY <1>1, StoreNodes
  <1> QED
    BY <1>1, <1>2, <1>3, <1>4 DEF Store!Upload, Places, Marks

LEMMA FinishedStep ==
    ASSUME FilesInv, ParamsPlain, DirsPlain, NEW s \in Sessions, NEW p \in Params,
           StorFinished(s, p)
    PROVE  Store!Upload(s, p)
  <1>1. PICK o : o = Store!Named(s, p)
    OBVIOUS
  <1>2. s \in online /\ PathTaken(s, p) /\ UNCHANGED <<online, offset>> /\ uploads' = uploads + 1
    BY DEF StorFinished, OpensForWriting
  <1>3. SessionsType /\ VolumeType(tree, uploads) /\ uploads \in Nat
    BY DEF FilesInv
  <1>4. o = Object(Path(s, p))
    BY <1>1, <1>2, <1>3, ObjectNamed
  <1>5. IsFile(tree, o) \/ CanCreate(tree, o)
    BY <1>4 DEF StorFinished, OpensForWriting
  <1>6. PICK n \in 0 .. MaxSectors :
          /\ tree' = Put(tree, o, FileNode(
                        Overwritten(Before(o), uploads', Written(Before(o), Room(tree), n))))
          /\ last' = [Outcome(s, "STOR", TRUE) EXCEPT !.sent = Overwritten(<<>>, uploads', n)]
    BY <1>4 DEF StorFinished
  <1>7. PICK old : old = IF Store!IsFile(tree, o) THEN tree[o].data ELSE <<>>
    OBVIOUS
  <1>8. old = Before(o)
    <2>1. CASE IsFile(tree, o)
      BY <1>7, <2>1, StoreTree DEF Before, IsFile
    <2>2. CASE CanCreate(tree, o)
      <3>1. o \notin DOMAIN tree /\ ~Store!IsFile(tree, o)
        BY <2>2, StoreTree DEF CanCreate, IsFile
      <3> QED
        BY <1>7, <3>1 DEF Before
    <2> QED
      BY <1>5, <2>1, <2>2
  <1>9. Len(old) \in Nat
    <2>1. CASE IsFile(tree, o)
      <3>1. tree[o] \in Nodes(uploads) /\ tree[o].kind = "file"
        BY <1>3, <2>1 DEF VolumeType, IsFile
      <3>2. old = tree[o].data
        BY <1>7, <2>1, StoreTree
      <3> QED
        BY <3>1, <3>2, FileNodeData
    <2>2. CASE CanCreate(tree, o)
      BY <1>7, <2>2, StoreTree DEF CanCreate, IsFile
    <2> QED
      BY <1>5, <2>1, <2>2
  <1>10. PICK stored : stored = Written(old, Room(tree), n)
    OBVIOUS
  <1>11. /\ stored \in 0 .. MaxSectors /\ stored <= n
         /\ stored < n => stored = Len(old) + Store!Room(tree)
    <2>1. Room(tree) \in Nat /\ n \in Nat
      BY <1>3, RoomType DEF VolumeType
    <2>2. /\ stored \in 0 .. n
          /\ stored < n => stored = Len(old) + Room(tree)
      BY <1>9, <1>10, <2>1, WrittenType
    <2>3. stored \in 0 .. MaxSectors /\ stored <= n
      BY <2>1, <2>2, BoundsAssumption
    <2> QED
      BY <2>2, <2>3, StoreRoom
  <1>12. /\ tree' = Store!Put(tree, o, Store!FileNode(Store!Overwritten(old, uploads', stored)))
         /\ last' = [Store!Outcome(s, "STOR", TRUE) EXCEPT
                        !.sent = Store!Overwritten(<<>>, uploads', n)]
    BY <1>6, <1>8, <1>10, StoreNodes
  <1>13. Store!IsFile(tree, o) \/ Store!CanCreate(tree, o)
    BY <1>5, StoreTree
  <1>14. UNCHANGED <<Places, Marks>>
    BY <1>2, <1>3, ObjectNamed, PlacesKept
  <1> QED
    BY <1>1, <1>2, <1>7, <1>11, <1>12, <1>13, <1>14 DEF Store!Upload, Places, Marks

LEMMA MkdStep ==
    ASSUME SessionsType, ParamsPlain, DirsPlain, NEW s \in Sessions, NEW p \in Params, Mkd(s, p)
    PROVE  Store!Change(s, p)
  <1>1. PICK o : o = Store!Named(s, p)
    OBVIOUS
  <1>2. s \in online /\ PathTaken(s, p) /\ UNCHANGED <<online, offset, uploads>>
    BY DEF Mkd
  <1>3. o = Object(Path(s, p)) /\ FatAccepts(Path(s, p))
    BY <1>1, <1>2, ObjectNamed
  <1>4. (FatAccepts(Path(s, p)) /\ CanMake(tree, o)) = Store!CanMake(tree, o)
    BY <1>3, StoreRoom DEF CanMake, Store!CanMake
  <1>5. /\ tree' = IF Store!CanMake(tree, o) THEN Put(tree, o, DirNode) ELSE tree
        /\ last' = Outcome(s, "MKD", Store!CanMake(tree, o))
    BY <1>3, <1>4 DEF Mkd
  <1>6. /\ tree' = IF Store!CanMake(tree, o) THEN Store!Put(tree, o, Store!DirNode) ELSE tree
        /\ last' = Store!Outcome(s, "MKD", Store!CanMake(tree, o))
    BY <1>5, StoreNodes
  <1>7. UNCHANGED <<Places, Marks>>
    BY <1>2, ObjectNamed, PlacesKept
  <1> QED
    BY <1>1, <1>2, <1>6, <1>7 DEF Store!Change, Places, Marks

LEMMA UnlinkStep ==
    ASSUME SessionsType, ParamsPlain, DirsPlain, NEW s \in Sessions, NEW p \in Params,
           Dele(s, p) \/ Rmd(s, p)
    PROVE  Store!Change(s, p)
  <1>1. PICK cmd \in {"DELE", "RMD"} : Unlink(s, cmd, p)
    BY DEF Dele, Rmd
  <1>2. PICK o : o = Store!Named(s, p)
    OBVIOUS
  <1>3. s \in online /\ PathTaken(s, p) /\ UNCHANGED <<online, offset, uploads>>
    BY <1>1 DEF Unlink
  <1>4. o = Object(Path(s, p)) /\ FatAccepts(Path(s, p))
    BY <1>2, <1>3, ObjectNamed
  <1>5. (FatAccepts(Path(s, p)) /\ CanUnlink(tree, o)) = Store!CanUnlink(tree, o)
    BY <1>4, StoreTree DEF CanUnlink, Store!CanUnlink
  <1>6. /\ tree' = IF Store!CanUnlink(tree, o) THEN Unlinked(tree, o) ELSE tree
        /\ last' = Outcome(s, cmd, Store!CanUnlink(tree, o))
    BY <1>1, <1>4, <1>5 DEF Unlink
  <1>7. /\ tree' = IF Store!CanUnlink(tree, o) THEN Store!Unlinked(tree, o) ELSE tree
        /\ last' = Store!Outcome(s, cmd, Store!CanUnlink(tree, o))
    BY <1>6, StoreNodes, StoreTree
  <1>8. UNCHANGED <<Places, Marks>>
    BY <1>3, ObjectNamed, PlacesKept
  <1> QED
    BY <1>2, <1>3, <1>7, <1>8 DEF Store!Change, Places, Marks

LEMMA EveryStep ==
    ASSUME FilesInv, ParamsPlain, DirsPlain, [Next]_vars
    PROVE  [Store!Next]_(Store!vars)
  <1>1. SessionsType
    BY DEF FilesInv
  <1>2. CASE UNCHANGED vars
    BY <1>2, PlacesKept DEF vars, Store!vars, Places, Marks
  <1>3. ASSUME NEW s \in Sessions,
               Connect(s) \/ Leave(s) \/ List(s) \/ Nlst(s) \/ Rest(s) \/ Cdup(s)
        PROVE  Store!Next
    <2>1. Store!Session(s) \/ Store!Move(s) \/ Store!Read(s)
      BY <1>1, <1>3, ConnectStep, LeaveStep, ListStep, RestStep, CdupStep
    <2> QED
      BY <2>1 DEF Store!Next
  <1>4. ASSUME NEW s \in Sessions, NEW p \in Params,
               \/ Retr(s, p) \/ Size(s, p) \/ Cwd(s, p) \/ StorRefused(s, p) \/ StorFinished(s, p)
               \/ Mkd(s, p) \/ Dele(s, p) \/ Rmd(s, p)
        PROVE  Store!Next
    <2>1. Store!Move(s) \/ Store!Read(s) \/ Store!Upload(s, p) \/ Store!Change(s, p)
      BY <1>1, <1>4, RetrStep, SizeStep, CwdStep, RefusedStep, FinishedStep, MkdStep, UnlinkStep
    <2> QED
      BY <2>1 DEF Store!Next
  <1> QED
    BY <1>2, <1>3, <1>4 DEF Next

LEMMA StoreBegins ==
    ASSUME Init
    PROVE  Store!Init /\ DirsPlain
  <1>1. Places = [s \in Sessions |-> <<>>] /\ Marks = [s \in Sessions |-> 0]
    BY DEF Init, Places, Marks
  <1>2. tree = Store!EmptyVolume /\ last = Store!Outcome("nobody", "none", FALSE)
    BY StoreNodes DEF Init
  <1>3. DirsPlain
    BY RootPlain DEF Init, DirsPlain
  <1> QED
    BY <1>1, <1>2, <1>3 DEF Init, Store!Init, Places, Marks

\* While clients go up by CDUP and write separators only between names or in
\* front of them, what the server does with its strings is what a server does
\* that knows where each session is in one tree of files.
THEOREM Refinement ==
    ASSUME \A p \in Params : IsPlain(p)
    PROVE  Spec => ImplementsStore
  <1>1. ParamsPlain
    BY DEF ParamsPlain
  <1>2. Init => Store!Init /\ DirsPlain /\ FilesInv
    BY StoreBegins, InitFilesInv
  <1>3. FilesInv /\ DirsPlain /\ [Next]_vars => FilesInv' /\ DirsPlain'
    BY <1>1, NextFilesInv, DirsStayPlain DEF FilesInv
  <1>4. FilesInv /\ DirsPlain /\ [Next]_vars => [Store!Next]_(Store!vars)
    BY <1>1, EveryStep
  <1> QED
    BY <1>2, <1>3, <1>4, PTL DEF Spec, ImplementsStore, Store!Spec
=============================================================================
