--------------------------- MODULE MCConfigHandoff ---------------------------
(* ConfigHandoff on the smallest data that tells changed, unchanged, cleared *)
(* and kept fields apart: one network with a password, and two consoles.     *)
EXTENDS ConfigHandoff

CONSTANTS s1, p1, h1, h2

MCSsids == {s1}
MCPasswords == {p1}
MCAccounts == {}
MCHosts == {h1, h2}
=============================================================================
