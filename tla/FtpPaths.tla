------------------------------ MODULE FtpPaths ------------------------------
(***************************************************************************)
(* The path strings of the FTP server (ftp/cmds.c) and what FatFs makes of *)
(* them.  A string is the sequence of its separators and the names between *)
(* them: "/a/b" is <<"/", a, "/", b>>.  Names are FAT 8.3 names, upper and *)
(* lower case alike; lengths are not represented.                          *)
(***************************************************************************)
EXTENDS Integers, Sequences, SequencesExt, FiniteSetsExt

Sep == "/"
Up == ".."

\* Names without separator between them would be one name.
IsPath(p) == p \in Seq(ToSet(p)) /\ \A i \in 1 .. Len(p) - 1 : p[i] = Sep \/ p[i + 1] = Sep

\* A path of a client that goes up by CDUP and writes separators only between
\* names, or one or two in front of them.
IsPlain(p) ==
    /\ IsPath(p) /\ p # <<>> /\ Up \notin ToSet(p)
    /\ p = <<Sep>> \/ Last(p) # Sep
    /\ \A i \in 2 .. Len(p) - 1 : p[i] # Sep \/ p[i + 1] # Sep

StartsWith(p, token) == p # <<>> /\ Head(p) = token
EndsWith(p, token) == p # <<>> /\ Last(p) = token

\* The names of a path, which alone say what it refers to.
Segments(p) ==
    LET names[k \in 0 .. Len(p)] ==
            IF k = 0 THEN <<>>
            ELSE IF p[k] = Sep THEN names[k - 1] ELSE Append(names[k - 1], p[k])
    IN  names[Len(p)]

\* do_step_down: the string is cut at its last separator, unless that is its
\* first character; then, and when there is none, it becomes "/".
StepDown(p) ==
    LET cuts == {i \in 2 .. Len(p) : p[i] = Sep}
    IN  IF cuts = {} THEN <<Sep>> ELSE SubSeq(p, 1, Max(cuts) - 1)

\* do_full_path takes the last but one branch: it steps down conn->currentdir
\* itself, and what follows the ".." is lost.
StepsDown(dir, p) == StartsWith(p, Up) /\ dir # <<Sep>>

\* Mutant: the special case of the root directory comes too late.
FullPathNoSep(dir, p) == IF StartsWith(p, Sep) THEN p ELSE dir \o p

FullPath(dir, p) ==
    CASE StartsWith(p, Sep) \/ dir = <<Sep>> -> p
      [] StepsDown(dir, p)                   -> StepDown(dir)
      [] OTHER                               -> dir \o <<Sep>> \o p

DirAfterFullPath(dir, p) == IF StepsDown(dir, p) THEN StepDown(dir) ELSE dir

\* do_full_list: a trailing separator is cut off conn->currentdir.
TrimSlash(dir) == IF Len(dir) > 1 /\ EndsWith(dir, Sep) THEN Front(dir) ELSE dir

-----------------------------------------------------------------------------
(* FatFs without relative paths (_FS_RPATH 0, no LFN)                      *)

\* follow_path drops one leading separator.  An empty rest is the root;
\* else create_name refuses ".." and the empty name after a last separator.
\* Separators in a row are one.
FatAccepts(p) ==
    LET rest == IF StartsWith(p, Sep) THEN Tail(p) ELSE p
    IN  rest = <<>> \/ (~EndsWith(rest, Sep) /\ ~Contains(rest, Up))

-----------------------------------------------------------------------------
(* What a path means to the user who types it                              *)

Parent(place) == IF place = <<>> THEN place ELSE Front(place)

Resolve(place, p) ==
    LET at[k \in 0 .. Len(p)] ==
            IF k = 0 THEN (IF StartsWith(p, Sep) THEN <<>> ELSE place)
            ELSE CASE p[k] = Sep -> at[k - 1]
                   [] p[k] = Up  -> Parent(at[k - 1])
                   [] OTHER      -> Append(at[k - 1], p[k])
    IN  at[Len(p)]
=============================================================================
