----------------------------- MODULE FatVolume -----------------------------
(***************************************************************************)
(* A FatFs volume (library/FatFs/ff.c) as the FTP server uses it: a        *)
(* function from the names on the way to an object to the object.  A file  *)
(* is the sequence of its clusters.  The medium works, but it may be full. *)
(***************************************************************************)
EXTENDS Integers, Sequences, SequencesExt, FiniteSets

CONSTANT Capacity  \* clusters of the volume that the root does not occupy

ASSUME CapacityAssumption == Capacity \in Nat

DirNode == [kind |-> "dir", data |-> <<>>]
FileNode(d) == [kind |-> "file", data |-> d]
EmptyVolume == [o \in {<<>>} |-> DirNode]

IsDir(t, o) == o \in DOMAIN t /\ t[o].kind = "dir"
IsFile(t, o) == o \in DOMAIN t /\ t[o].kind = "file"
ChildrenOf(t, o) == {x \in DOMAIN t \ {<<>>} : Front(x) = o}
NamesIn(t, o) == {Last(x) : x \in ChildrenOf(t, o)}

\* Clusters allocated: a directory has one, a file one for every cluster of data.
ClustersOf(node) == IF node.kind = "dir" THEN 1 ELSE Len(node.data)
Clusters(t) == UNION {{o} \X (1 .. ClustersOf(t[o])) : o \in DOMAIN t \ {<<>>}}
Used(t) == Cardinality(Clusters(t))
Room(t) == Capacity - Used(t)

\* dir_register: a new entry in a directory that exists.
CanCreate(t, o) == o \notin DOMAIN t /\ IsDir(t, Front(o))

\* f_mkdir needs a cluster for the new directory, too.
CanMake(t, o) == CanCreate(t, o) /\ Room(t) > 0
Put(t, o, node) == [x \in DOMAIN t \cup {o} |-> IF x = o THEN node ELSE t[x]]

\* Mutant: a directory may be removed with what is in it.
CanUnlinkFull(t, o) == o \in DOMAIN t \ {<<>>}

\* f_unlink: a file, or a directory that is empty; never the root.
CanUnlink(t, o) == o \in DOMAIN t \ {<<>>} /\ ChildrenOf(t, o) = {}
Unlinked(t, o) == [x \in DOMAIN t \ {o} |-> t[x]]

\* f_write, called until n clusters were offered: it goes over the clusters the
\* file has and takes free ones, and writes nothing more when none is left.
Written(old, room, n) == IF n > Len(old) + room THEN Len(old) + room ELSE n

\* A file after n clusters were written from its start.
Overwritten(old, sector, n) ==
    [i \in 1 .. (IF n > Len(old) THEN n ELSE Len(old)) |->
        IF i <= n THEN sector ELSE old[i]]
=============================================================================
