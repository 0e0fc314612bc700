------------------------------ MODULE MCHostCerts ------------------------------
(* HostCerts for TLC: the constants are given by the HostCerts*.cfg files. *)
EXTENDS HostCerts
=============================================================================
