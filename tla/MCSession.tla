----------------------------- MODULE MCSession -----------------------------
(* Session with four targets, two accounts on two consoles, so that one      *)
(* session can follow another that was for someone else or somewhere else.   *)
EXTENDS Session

CONSTANTS a1, a2, h1, h2

MCTargets == [account : {a1, a2}, ip : {h1, h2}]
=============================================================================
