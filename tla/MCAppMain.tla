----------------------------- MODULE MCAppMain -----------------------------
(* AppMain on small sets of configurations and reports.                      *)
EXTENDS AppMain

CONSTANTS s1, s2, a1, h1, h2, k1

MCSsids == {s1, s2}
MCPasswords == {}
MCAccounts == {a1}
MCHosts == {h1, h2}
MCPins == {k1}

Cfg(s, a, h) == [ssid |-> s, password |-> Empty, account |-> a, ip |-> h]
Net(s) == [ssid |-> s, password |-> Empty]
Ps5(a, h) == [account |-> a, ip |-> h]

NoReports == {}

\* Factory-new, or fully set up.
Factory == Cfg(Empty, Empty, Empty)
SetUp == Cfg(s1, a1, h1)
BootAny == {Factory, SetUp}
BootSetUp == {SetUp}

\* The owner moves house: another network, and another console.
NetMoves == {Net(s2)}
Ps5Moves == {Ps5(a1, h2)}

\* The owner cannot decide.
NetToggles == {Net(s1), Net(Empty)}
Ps5Toggles == {Ps5(a1, h1), Ps5(a1, h2)}
=============================================================================
