------------------------------ MODULE MCEthRx -------------------------------
(* Instances of EthRx for TLC.                                             *)
EXTENDS EthRx

Pools2 == [pbuf |-> 2, inpkt |-> 3, api |-> 2]
=============================================================================
