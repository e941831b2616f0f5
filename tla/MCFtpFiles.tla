----------------------------- MODULE MCFtpFiles -----------------------------
(* Instances of FtpFiles for TLC.                                          *)
EXTENDS FtpFiles

CONSTANTS a, b

\* Paths of clients that go up by CDUP and end no path with a slash.
PlainParams == {<<Sep>>, <<a>>, <<a, Sep, b>>, <<Sep, Sep, a>>}

ASSUME ParamsArePlain == \A p \in PlainParams : IsPlain(p)

Restarts == {-1, 1}
=============================================================================
