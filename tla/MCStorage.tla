----------------------------- MODULE MCStorage -----------------------------
(* Storage with two values to replace each other in every place.             *)
EXTENDS Storage

CONSTANTS n1, n2, p1, p2, k1, k2

MCNets == {n1, n2}
MCPs5s == {p1, p2}
MCKeys == {k1, k2}
=============================================================================
