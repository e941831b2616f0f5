------------------------------ MODULE MCTcpSend -----------------------------
EXTENDS TcpSend
=============================================================================
