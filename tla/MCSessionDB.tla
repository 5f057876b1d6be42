----------------------------- MODULE MCSessionDB -----------------------------
(* Bounds for TLC: six sessions over the life of the registry, with three    *)
(* hash values to share between them.                                        *)
EXTENDS SessionDB

MCKey == 1..3
=============================================================================
