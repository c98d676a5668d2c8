------------------------------ MODULE MCUdp ------------------------------
(***************************************************************************)
(* Instances of Udp for TLC: three sockets (one per Start), one to three   *)
(* Starts, a delay that reaches its maximum in two doublings.              *)
(***************************************************************************)
EXTENDS Udp

CONSTANTS s1, s2, s3

MCSocket == {s1, s2, s3}
=============================================================================
