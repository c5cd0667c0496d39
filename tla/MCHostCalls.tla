---------------------------- MODULE MCHostCalls ----------------------------
(* The sets of HostCalls as model values, for TLC. *)
EXTENDS HostCalls

CONSTANTS c1, r1, k1, m1, m2

MCClosures == {c1}
MCReceivers == {r1}
MCCategories == {k1}
MCMethods == {m1, m2}
=============================================================================
