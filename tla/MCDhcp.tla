------------------------------- MODULE MCDhcp -------------------------------
(* Instances of Dhcp for TLC.                                              *)
EXTENDS Dhcp

CONSTANTS a1, a2
=============================================================================
