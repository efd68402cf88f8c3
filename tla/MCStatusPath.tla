--------------------------- MODULE MCStatusPath ---------------------------
(* StatusPath with one target to play with.                                  *)
EXTENDS StatusPath

CONSTANT t1

MCTargets == {t1}
=============================================================================
