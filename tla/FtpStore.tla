------------------------------ MODULE FtpStore ------------------------------
(***************************************************************************)
(* What the FTP server promises its clients: each session is at a place in *)
(* one tree of files, and every command acts on the object that its        *)
(* parameter names from there.                                             *)
(***************************************************************************)
EXTENDS FtpPaths, FatVolume

CONSTANTS Sessions, Params, Offsets, MaxSectors

VARIABLES
    online,
    place,       \* where each session is: the names on the way from the root
    mark,        \* where its next download starts, if the file is that long
    tree, uploads, last

vars == <<online, place, mark, tree, uploads, last>>

Outcome(s, cmd, ok) ==
    [by |-> s, cmd |-> cmd, ok |-> ok, sent |-> <<>>, names |-> {}]

Init ==
    /\ online = {}
    /\ place = [s \in Sessions |-> <<>>] /\ mark = [s \in Sessions |-> 0]
    /\ tree = EmptyVolume /\ uploads = 0
    /\ last = Outcome("nobody", "none", FALSE)

\* A session begins, and ends, at the root with nothing to restart.
Session(s) ==
    /\ online' \in {online \cup {s}, online \ {s}}
    /\ place' = [place EXCEPT ![s] = <<>>] /\ mark' = [mark EXCEPT ![s] = 0]
    /\ UNCHANGED <<tree, uploads, last>>

Named(s, p) == Resolve(place[s], p)

\* A session goes up, or to where a path leads, whether that exists or not.
Move(s) ==
    /\ s \in online
    /\ \/ /\ place' = [place EXCEPT ![s] = Parent(@)]
          /\ last' = Outcome(s, "CDUP", TRUE)
       \/ /\ \E p \in Params : place' = [place EXCEPT ![s] = Resolve(@, p)]
          /\ last' = Outcome(s, "CWD", TRUE)
    /\ UNCHANGED <<online, mark, tree, uploads>>

\* Reading changes nothing but the mark, which a missing file clears.
Read(s) ==
    /\ s \in online
    /\ \/ /\ \E cmd \in {"LIST", "NLST"} :
                last' = IF IsDir(tree, place[s])
                        THEN [Outcome(s, cmd, TRUE) EXCEPT !.names = NamesIn(tree, place[s])]
                        ELSE Outcome(s, cmd, FALSE)
          /\ UNCHANGED mark
       \/ /\ \E n \in Offsets :
                /\ mark' = [mark EXCEPT ![s] = IF n >= 0 THEN n ELSE @]
                /\ last' = Outcome(s, "REST", n >= 0)
       \/ \E p \in Params :
             /\ last' = Outcome(s, "SIZE", IsFile(tree, Named(s, p)))
             /\ UNCHANGED mark
       \/ \E p \in Params :
             /\ IsFile(tree, Named(s, p))
             /\ LET data == tree[Named(s, p)].data
                    from == IF mark[s] < Len(data) THEN mark[s] ELSE 0
                IN  last' = [Outcome(s, "RETR", TRUE) EXCEPT
                                !.sent = SubSeq(data, from + 1, Len(data))]
             /\ UNCHANGED mark
       \/ \E p \in Params :
             /\ ~IsFile(tree, Named(s, p))
             /\ last' = Outcome(s, "RETR", FALSE)
             /\ mark' = [mark EXCEPT ![s] = 0]
    /\ UNCHANGED <<online, place, tree, uploads>>

\* An upload replaces the first clusters of the file it names.  It is always
\* acknowledged; what is missing of it then found no room on the volume.
Upload(s, p) ==
    /\ s \in online
    /\ LET o == Named(s, p)
           old == IF IsFile(tree, o) THEN tree[o].data ELSE <<>>
       IN  \/ /\ IsFile(tree, o) \/ CanCreate(tree, o)
              /\ uploads' = uploads + 1
              /\ \E n, stored \in 0 .. MaxSectors :
                    LET new == Overwritten(old, uploads', stored)
                    IN  /\ stored <= n
                        /\ stored < n => stored = Len(old) + Room(tree)
                        /\ tree' = Put(tree, o, FileNode(new))
                        /\ last' = [Outcome(s, "STOR", TRUE) EXCEPT
                                       !.sent = Overwritten(<<>>, uploads', n)]
           \/ /\ ~IsFile(tree, o) /\ ~CanCreate(tree, o)
              /\ last' = Outcome(s, "STOR", FALSE)
              /\ UNCHANGED <<tree, uploads>>
    /\ UNCHANGED <<online, place, mark>>

\* A directory is made where nothing is, and what is not a full directory
\* is removed.
Change(s, p) ==
    /\ s \in online
    /\ LET o == Named(s, p)
       IN  \/ /\ tree' = IF CanMake(tree, o) THEN Put(tree, o, DirNode) ELSE tree
              /\ last' = Outcome(s, "MKD", CanMake(tree, o))
           \/ \E cmd \in {"DELE", "RMD"} :
                 /\ tree' = IF CanUnlink(tree, o) THEN Unlinked(tree, o) ELSE tree
                 /\ last' = Outcome(s, cmd, CanUnlink(tree, o))
    /\ UNCHANGED <<online, place, mark, uploads>>

Next ==
    \E s \in Sessions :
        \/ Session(s) \/ Move(s) \/ Read(s)
        \/ \E p \in Params : Upload(s, p) \/ Change(s, p)

Spec == Init /\ [][Next]_vars
=============================================================================
