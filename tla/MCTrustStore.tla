----------------------------- MODULE MCTrustStore -----------------------------
(* TrustStore for TLC: the constants are given by the TrustStore*.cfg files. *)
EXTENDS TrustStore
=============================================================================
