------------------------------ MODULE FtpFiles ------------------------------
(***************************************************************************)
(* What the FTP commands do to the volume, to a session's directory and to *)
(* its restart offset (ftp/ftpd.c, ftp_process_request, over ftp/cmds.c).  *)
(*                                                                         *)
(* One task serves all sessions, one command at a time, and a command that *)
(* waits for its data connection keeps the task: here each command is one  *)
(* step, and what happens to descriptors meanwhile is the matter of        *)
(* FtpServer.  USER, PASS, TYPE, MDTM, SYST, PWD and FEAT change nothing.  *)
(***************************************************************************)
EXTENDS FtpPaths, FatVolume

CONSTANTS
    Sessions,    \* control connections
    Params,      \* paths that clients send
    Offsets,     \* arguments of REST
    MaxSectors,  \* bound: clusters in one upload
    MaxUploads,  \* bound: uploads
    MaxDepth,    \* bound: names on the way to an object that is created
    MaxDir       \* bound: length of a session's directory string

ASSUME ParamsAssumption == \A p \in Params : IsPath(p)
ASSUME OffsetsAssumption == Offsets \subseteq Int
ASSUME BoundsAssumption ==
    {MaxSectors, MaxUploads, MaxDepth, MaxDir} \subseteq Nat \ {0}

VARIABLES
    online,      \* sessions that are connected
    currentdir,  \* conn->currentdir
    offset,      \* conn->offset
    tree,        \* the volume
    uploads,     \* uploads so far; each writes its own number in its clusters
    last         \* the last command and what the client learnt from it

vars == <<online, currentdir, offset, tree, uploads, last>>

Commands == {"LIST", "NLST", "RETR", "STOR", "SIZE", "CWD", "CDUP", "REST",
             "MKD", "DELE", "RMD", "none"}

\* The outcome of a command: ok when it was carried out to its end, sent the
\* clusters and names the entries that went to the data connection.
Outcome(s, cmd, ok) ==
    [by |-> s, cmd |-> cmd, ok |-> ok, sent |-> <<>>, names |-> {}]

Names == (UNION {ToSet(p) : p \in Params}) \ {Sep, Up}
Objects == UNION {[1 .. n -> Names] : n \in 0 .. MaxDepth}

TypeOK ==
    /\ online \subseteq Sessions
    /\ \A s \in Sessions : IsPath(currentdir[s]) /\ offset[s] \in Nat
    /\ DOMAIN tree \subseteq Objects /\ IsDir(tree, <<>>)
    /\ \A o \in DOMAIN tree : IsFile(tree, o) => ToSet(tree[o].data) \subseteq 1 .. uploads
    /\ uploads \in 0 .. MaxUploads
    /\ last.cmd \in Commands /\ last.ok \in BOOLEAN

Init ==
    /\ online = {}
    /\ currentdir = [s \in Sessions |-> <<Sep>>]
    /\ offset = [s \in Sessions |-> 0]
    /\ tree = EmptyVolume
    /\ uploads = 0
    /\ last = Outcome("nobody", "none", FALSE)

\* Mutant: the offset of the session that had the memory before is kept.
ConnectKeepsOffset(s) ==
    /\ s \notin online /\ online' = online \cup {s}
    /\ currentdir' = [currentdir EXCEPT ![s] = <<Sep>>]
    /\ UNCHANGED <<offset, tree, uploads, last>>

\* alloc_new_conn, and the root as current directory.
Connect(s) ==
    /\ s \notin online /\ online' = online \cup {s}
    /\ currentdir' = [currentdir EXCEPT ![s] = <<Sep>>]
    /\ offset' = [offset EXCEPT ![s] = 0]
    /\ UNCHANGED <<tree, uploads, last>>

\* QUIT, or the client goes: the memory of the session is freed as it is.
Leave(s) ==
    /\ s \in online /\ online' = online \ {s}
    /\ UNCHANGED <<currentdir, offset, tree, uploads, last>>

-----------------------------------------------------------------------------
Path(s, p) == FullPath(currentdir[s], p)

\* do_full_path has run, with its side effect on the directory.
PathTaken(s, p) ==
    currentdir' = [currentdir EXCEPT ![s] = DirAfterFullPath(@, p)]

Object(path) == Segments(path)
OpensFile(path) == FatAccepts(path) /\ IsFile(tree, Object(path))
OpensDir(path) == FatAccepts(path) /\ IsDir(tree, Object(path))

Listing(s, cmd, path) ==
    last' = [Outcome(s, cmd, OpensDir(path)) EXCEPT
                !.names = IF OpensDir(path) THEN NamesIn(tree, Object(path)) ELSE {}]

List(s) ==
    /\ s \in online
    /\ currentdir' = [currentdir EXCEPT ![s] = TrimSlash(@)]
    /\ Listing(s, "LIST", currentdir'[s])
    /\ UNCHANGED <<online, offset, tree, uploads>>

Nlst(s) ==
    /\ s \in online
    /\ Listing(s, "NLST", currentdir[s])
    /\ UNCHANGED <<online, currentdir, offset, tree, uploads>>

\* A negative argument is ignored, without a reply.
Rest(s) ==
    /\ s \in online
    /\ \E n \in Offsets :
          /\ offset' = [offset EXCEPT ![s] = IF n >= 0 THEN n ELSE @]
          /\ last' = Outcome(s, "REST", n >= 0)
    /\ UNCHANGED <<online, currentdir, tree, uploads>>

\* Clusters skipped: an offset that is not inside the file counts as none.
RestartAt(n, data) == IF n < Len(data) THEN n ELSE 0

\* The offset is kept after a transfer and cleared when there is no file.
Retr(s, p) ==
    /\ s \in online
    /\ PathTaken(s, p)
    /\ \/ /\ ~OpensFile(Path(s, p))
          /\ offset' = [offset EXCEPT ![s] = 0]
          /\ last' = Outcome(s, "RETR", FALSE)
       \/ /\ OpensFile(Path(s, p))
          /\ LET data == tree[Object(Path(s, p))].data
             IN  last' = [Outcome(s, "RETR", TRUE) EXCEPT
                             !.sent = SubSeq(data, RestartAt(offset[s], data) + 1, Len(data))]
          /\ UNCHANGED offset
    /\ UNCHANGED <<online, tree, uploads>>

Size(s, p) ==
    /\ s \in online
    /\ PathTaken(s, p)
    /\ last' = Outcome(s, "SIZE", OpensFile(Path(s, p)))
    /\ UNCHANGED <<online, offset, tree, uploads>>

StorRefused(s, p) ==
    /\ s \in online
    /\ PathTaken(s, p)
    /\ ~OpensFile(Path(s, p))
    /\ ~(FatAccepts(Path(s, p)) /\ CanCreate(tree, Object(Path(s, p))))
    /\ last' = Outcome(s, "STOR", FALSE)
    /\ UNCHANGED <<online, offset, tree, uploads>>

\* FA_OPEN_ALWAYS: an existing file is opened as it is, else one is created.
Before(o) == IF o \in DOMAIN tree THEN tree[o].data ELSE <<>>

OpensForWriting(s, p) ==
    /\ s \in online
    /\ PathTaken(s, p)
    /\ FatAccepts(Path(s, p))
    /\ \/ IsFile(tree, Object(Path(s, p)))
       \/ /\ CanCreate(tree, Object(Path(s, p)))
          /\ Len(Object(Path(s, p))) <= MaxDepth
    /\ uploads < MaxUploads /\ uploads' = uploads + 1
    /\ UNCHANGED <<online, offset>>

\* n clusters and then the end of the stream: the file is closed, 226.  What
\* f_write() returns and how much it wrote is not looked at.
StorFinished(s, p) ==
    /\ OpensForWriting(s, p)
    /\ LET o == Object(Path(s, p))
       IN  \E n \in 0 .. MaxSectors :
              /\ tree' = Put(tree, o, FileNode(
                            Overwritten(Before(o), uploads', Written(Before(o), Room(tree), n))))
              /\ last' = [Outcome(s, "STOR", TRUE) EXCEPT !.sent = Overwritten(<<>>, uploads', n)]

\* Whether the directory exists is not looked at.
Cwd(s, p) ==
    /\ s \in online
    /\ Len(Path(s, p)) <= MaxDir
    /\ currentdir' = [currentdir EXCEPT ![s] = FullPath(@, p)]
    /\ last' = Outcome(s, "CWD", TRUE)
    /\ UNCHANGED <<online, offset, tree, uploads>>

Cdup(s) ==
    /\ s \in online
    /\ currentdir' = [currentdir EXCEPT ![s] = StepDown(@)]
    /\ last' = Outcome(s, "CDUP", TRUE)
    /\ UNCHANGED <<online, offset, tree, uploads>>

Mkd(s, p) ==
    /\ s \in online
    /\ PathTaken(s, p)
    /\ LET o == Object(Path(s, p))
           ok == FatAccepts(Path(s, p)) /\ CanMake(tree, o)
       IN  /\ ok => Len(o) <= MaxDepth
           /\ tree' = IF ok THEN Put(tree, o, DirNode) ELSE tree
           /\ last' = Outcome(s, "MKD", ok)
    /\ UNCHANGED <<online, offset, uploads>>

\* DELE and RMD are both f_unlink: either removes a file or a directory.
Unlink(s, cmd, p) ==
    /\ s \in online
    /\ PathTaken(s, p)
    /\ LET o == Object(Path(s, p))
           ok == FatAccepts(Path(s, p)) /\ CanUnlink(tree, o)
       IN  /\ tree' = IF ok THEN Unlinked(tree, o) ELSE tree
           /\ last' = Outcome(s, cmd, ok)
    /\ UNCHANGED <<online, offset, uploads>>

Dele(s, p) == Unlink(s, "DELE", p)
Rmd(s, p) == Unlink(s, "RMD", p)

Next ==
    \E s \in Sessions :
        \/ Connect(s) \/ Leave(s) \/ List(s) \/ Nlst(s) \/ Rest(s) \/ Cdup(s)
        \/ \E p \in Params :
              \/ Retr(s, p) \/ Size(s, p) \/ Cwd(s, p)
              \/ StorRefused(s, p) \/ StorFinished(s, p)
              \/ Mkd(s, p) \/ Dele(s, p) \/ Rmd(s, p)

Spec == Init /\ [][Next]_vars
-----------------------------------------------------------------------------
(* Properties                                                              *)

\* The server keeps a directory as a string that CWD, CDUP, LIST and even the
\* commands on files rewrite (with the first "/" at one time, without it at
\* another).  As long as clients go up by CDUP and do not end a path with a
\* separator, what it does is what a server does that knows where it is.
Store == INSTANCE FtpStore WITH
    place <- [s \in Sessions |-> IF s \in online THEN Segments(currentdir[s]) ELSE <<>>],
    mark <- [s \in Sessions |-> IF s \in online THEN offset[s] ELSE 0]
ImplementsStore == Store!Spec

\* Whatever sessions create, overwrite and remove, and wherever they stand at
\* the time, f_unlink leaves no object without a way to it.
VolumeIsTree == \A o \in DOMAIN tree \ {<<>>} : IsDir(tree, Front(o))
=============================================================================
