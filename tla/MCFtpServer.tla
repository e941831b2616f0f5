---------------------------- MODULE MCFtpServer ----------------------------
(* Instances of FtpServer for TLC.                                         *)
EXTENDS FtpServer, TLC

CONSTANT c1

\* Fresh memory holds the number of the first session, or none.
SomeUnset == {1, NoFd}
\* Fresh memory holds a number outside the table.
NoUnset == {NoFd}

Symmetry == Permutations(Conns)

\* Every command that has arrived from a client is read (the walk of
\* ftpd.c:156-178), in histories without the exceptions of CommandServedOf.  c1
\* stands for every client, as nothing tells one from another.
CommandServed == CommandServedOf(c1)
=============================================================================
