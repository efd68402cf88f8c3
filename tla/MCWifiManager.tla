--------------------------- MODULE MCWifiManager ---------------------------
(* WifiManager with two networks to choose from.  Two events may be on their *)
(* way behind the one being handled: a late answer, its end, the next answer.*)
EXTENDS WifiManager

CONSTANTS c1, c2

MCCredentials == {c1, c2}
=============================================================================
