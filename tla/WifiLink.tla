------------------------------ MODULE WifiLink ------------------------------
(***************************************************************************)
(* What wifi_manager.h promises: a blocking connect, a blocking disconnect *)
(* and wifi_manager_is_connected(), which the driver's events may change   *)
(* at any moment, during a call or between calls.  WifiManager models how  *)
(* wifi_manager.c keeps the promise.                                       *)
(***************************************************************************)

CONSTANTS
  Credentials,  (* what a connect request carries: network and password    *)
  NoNetwork     (* no request has been made since power-on                 *)

VARIABLES
  up,           (* wifi_manager_is_connected()                             *)
  call,         (* the call the main thread is in                          *)
  joined,       (* the credentials of the latest connect request           *)
  result        (* what the latest connect returned                        *)

vars == <<up, call, joined, result>>

\* 0, -EACCES, any other error; "none" before the first and during a call.
Results == {"none", "ok", "denied", "failed"}

TypeOK ==
  /\ up \in BOOLEAN
  /\ call \in {"none", "connect", "disconnect"}
  /\ joined \in Credentials \cup {NoNetwork}
  /\ result \in Results

Init ==
  /\ up = FALSE
  /\ call = "none"
  /\ joined = NoNetwork
  /\ result = "none"

\* The driver reports an association and an address.  It can come long after
\* the call that asked for it gave up waiting.
LinkUp ==
  /\ joined # NoNetwork
  /\ up' = TRUE
  /\ UNCHANGED <<call, joined, result>>

\* The driver reports a lost association.
LinkDown ==
  /\ up' = FALSE
  /\ UNCHANGED <<call, joined, result>>

\* wifi_manager_init_and_connect(ssid, psk): the state flags are reset first.
Connect(c) ==
  /\ call = "none"
  /\ call' = "connect"
  /\ up' = FALSE
  /\ joined' = c
  /\ result' = "none"

\* It returns: 0, -EACCES or a transient error.  None of the three tells
\* whether the link is up now; a caller that cares asks again.
ConnectReturns(ret) ==
  /\ call = "connect"
  /\ call' = "none"
  /\ result' = ret
  /\ UNCHANGED <<up, joined>>

\* wifi_manager_disconnect().
Disconnect ==
  /\ call = "none"
  /\ call' = "disconnect"
  /\ UNCHANGED <<up, joined, result>>

\* It returns: the driver confirmed, or the state flags were forced, or the
\* request was refused and nothing changed.
DisconnectReturns ==
  /\ call = "disconnect"
  /\ call' = "none"
  /\ up' \in {up, FALSE}
  /\ UNCHANGED <<joined, result>>

Driver == LinkUp \/ LinkDown

Next ==
  \/ Driver
  \/ \E c \in Credentials : Connect(c)
  \/ \E ret \in Results \ {"none"} : ConnectReturns(ret)
  \/ Disconnect
  \/ DisconnectReturns

Spec == Init /\ [][Next]_vars
=============================================================================
