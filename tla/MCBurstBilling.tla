--------------------------- MODULE MCBurstBilling ---------------------------
(* Two concurrent bursts of one key, with two month ends that can fall      *)
(* between any of their calls.                                              *)
EXTENDS BurstBilling, TLC

\* Requests are interchangeable.
ReqSymmetry == Permutations(Reqs)
=============================================================================
