---------------------------- MODULE WifiManager ----------------------------
(***************************************************************************)
(* The Wi-Fi manager (app/src/wifi_manager.c): two state flags and three   *)
(* semaphores between the main thread, which makes one blocking call at a  *)
(* time, and the network event thread, which runs the event handlers.      *)
(*                                                                         *)
(* An event is handled some time after the driver raised it, and a handler *)
(* stores the status, the flags and the semaphore one after the other.  So *)
(* the answer to a request that timed out may come after the next request  *)
(* has reset the semaphores, or halfway through that.                      *)
(*                                                                         *)
(* External: the driver raises its events in order and loses none.  It may *)
(* refuse a request, leave a connect request unanswered for ever, drop the *)
(* association at any time, and replace an association by another without  *)
(* raising an event for the end of the first.                              *)
(***************************************************************************)

EXTENDS Naturals, Sequences

CONSTANTS
  Credentials,  (* what a connect request carries: network and password    *)
  NoNetwork,    (* no request has been made since power-on                 *)
  MaxQueue      (* bound: events raised and not yet handled                *)

ASSUME NoNetworkAssumption == NoNetwork \notin Credentials

ASSUME MaxQueueAssumption == MaxQueue \in Nat

VARIABLES
  wifiConnected,   (* s_wifi_connected                                     *)
  ipv4Acquired,    (* s_ipv4_acquired                                      *)
  lastStatus,      (* s_last_conn_status                                   *)
  connectedSem,    (* the count of s_wifi_connected_sem is 1               *)
  disconnectedSem, (* the count of s_wifi_disconnected_sem is 1            *)
  ipv4Sem,         (* the count of s_ipv4_acquired_sem is 1                *)
  queue,           (* events raised by the driver, not yet handled         *)
  event,           (* the event being handled                              *)
  at,              (* the store its handler makes next                     *)
  link,            (* the driver's association                             *)
  leased,          (* the interface has an address                         *)
  pc,              (* where the main thread is inside a call               *)
  joined,          (* the credentials of the latest connect request        *)
  result,          (* what the latest connect returned                     *)
  accepted,        (* history: the driver took the latest connect request  *)
  heard            (* history: the events handled since the latest reset   *)

flagVars == <<wifiConnected, ipv4Acquired, lastStatus>>
semVars == <<connectedSem, disconnectedSem, ipv4Sem>>
threadVars == <<queue, event, at>>
driverVars == <<link, leased>>
callVars == <<pc, joined, result, accepted>>
vars == <<flagVars, semVars, threadVars, driverVars, callVars, heard>>

\* CONNECT_RESULT, by its conn_status: 0, the wrong password, anything else.
ConnectResults == {"joined", "wrong_password", "not_joined"}

\* With DISCONNECT_RESULT and IPV4_ADDR_ADD.
Events == ConnectResults \cup {"lost", "address"}

Results == {"none", "ok", "denied", "failed"}

TypeOK ==
  /\ wifiConnected \in BOOLEAN
  /\ ipv4Acquired \in BOOLEAN
  /\ lastStatus \in ConnectResults
  /\ connectedSem \in BOOLEAN
  /\ disconnectedSem \in BOOLEAN
  /\ ipv4Sem \in BOOLEAN
  /\ queue \in Seq(Events)
  /\ event \in Events \cup {"none"}
  /\ at \in {"idle", "connected", "ipv4", "give"}
  /\ link \in {"down", "joining", "up"}
  /\ leased \in BOOLEAN
  /\ pc \in {"idle", "clear", "request", "wait_joined", "check", "why",
             "wait_ipv4", "leave", "leave_request", "wait_lost"}
  /\ joined \in Credentials \cup {NoNetwork}
  /\ result \in Results
  /\ accepted \in BOOLEAN
  /\ heard \subseteq Events

Init ==
  /\ wifiConnected = FALSE
  /\ ipv4Acquired = FALSE
  /\ lastStatus = "joined"
  /\ connectedSem = FALSE
  /\ disconnectedSem = FALSE
  /\ ipv4Sem = FALSE
  /\ queue = <<>>
  /\ event = "none"
  /\ at = "idle"
  /\ link = "down"
  /\ leased = FALSE
  /\ pc = "idle"
  /\ joined = NoNetwork
  /\ result = "none"
  /\ accepted = FALSE
  /\ heard = {}

\* wifi_manager_is_connected().  Only the main thread calls it.
IsConnected == wifiConnected /\ ipv4Acquired

-----------------------------------------------------------------------------
(* The driver, on its own account.  It raises an event for what it does.   *)

Raise(e) ==
  /\ Len(queue) < MaxQueue
  /\ queue' = Append(queue, e)
  /\ UNCHANGED <<event, at>>
  /\ UNCHANGED <<flagVars, semVars, callVars, heard>>

Associate == link = "joining" /\ link' = "up" /\ UNCHANGED leased /\ Raise("joined")

Refuse(e) == link = "joining" /\ link' = "down" /\ UNCHANGED leased /\ Raise(e)

Lease == link = "up" /\ ~leased /\ leased' = TRUE /\ UNCHANGED link /\ Raise("address")

Drop == link = "up" /\ link' = "down" /\ leased' = FALSE /\ Raise("lost")

-----------------------------------------------------------------------------
(* The event thread: wifi_mgmt_event_handler, ipv4_mgmt_event_handler.     *)

\* The next event; a CONNECT_RESULT leaves its status first.
HandleEvent ==
  /\ at = "idle"
  /\ queue # <<>>
  /\ event' = Head(queue)
  /\ queue' = Tail(queue)
  /\ at' = IF event' = "address" THEN "ipv4" ELSE "connected"
  /\ lastStatus' = IF event' \in ConnectResults THEN event' ELSE lastStatus
  /\ heard' = heard \cup {event'}
  /\ UNCHANGED <<wifiConnected, ipv4Acquired, semVars, driverVars, callVars>>

\* Up to s_wifi_connected, which gets the given value.
StoresConnected(value) ==
  /\ at = "connected"
  /\ wifiConnected' = value
  /\ at' = IF event = "lost" THEN "ipv4" ELSE "give"
  /\ UNCHANGED <<ipv4Acquired, lastStatus, queue, event>>
  /\ UNCHANGED <<semVars, driverVars, callVars, heard>>

\* StoreConnected that leaves the flag alone when the connect failed.
StoreConnectedOnChange ==
  StoresConnected(event = "joined" \/ (event # "lost" /\ wifiConnected))

StoreConnected == StoresConnected(event = "joined")

\* A lost association takes the address with it.
StoreIpv4 ==
  /\ at = "ipv4"
  /\ ipv4Acquired' = (event = "address")
  /\ at' = "give"
  /\ UNCHANGED <<wifiConnected, lastStatus, queue, event>>
  /\ UNCHANGED <<semVars, driverVars, callVars, heard>>

GiveSem ==
  /\ at = "give"
  /\ connectedSem' = (connectedSem \/ event \in ConnectResults)
  /\ disconnectedSem' = (disconnectedSem \/ event = "lost")
  /\ ipv4Sem' = (ipv4Sem \/ event = "address")
  /\ event' = "none"
  /\ at' = "idle"
  /\ UNCHANGED <<queue, flagVars, driverVars, callVars, heard>>

-----------------------------------------------------------------------------
(* wifi_manager_init_and_connect().  The resets of the semaphores touch    *)
(* one variable each, and so do the stores that clear the flags; each group*)
(* is one step.                                                            *)

\* From one place in a call to another.
Goes(from, to) ==
  /\ pc = from
  /\ pc' = to
  /\ UNCHANGED <<joined, threadVars>>

\* Goes, when the call neither returns an answer nor asks the driver.
Moves(from, to) ==
  /\ Goes(from, to)
  /\ UNCHANGED <<result, accepted, driverVars, heard>>

Returns(from, ret) ==
  /\ Goes(from, "idle")
  /\ result' = ret
  /\ UNCHANGED <<flagVars, driverVars, heard>>

ForceFlags ==
  /\ wifiConnected' = FALSE
  /\ ipv4Acquired' = FALSE

ConnectBegins ==
  /\ Moves("idle", "clear")
  /\ connectedSem' = FALSE
  /\ ipv4Sem' = FALSE
  /\ UNCHANGED <<disconnectedSem, flagVars>>

\* What was heard before counts no more, but for the event being handled and
\* for an address whose semaphore was given since its reset.
Begin(c) ==
  /\ pc = "clear"
  /\ heard' = ({event} \ {"none"}) \cup (IF ipv4Sem THEN {"address"} ELSE {})
  /\ joined' = c
  /\ result' = "none"
  /\ pc' = "request"
  /\ UNCHANGED <<accepted, semVars, threadVars, driverVars>>

\* Clear with the status of the attempt before left standing.
ClearFlagsOnly(c) == Begin(c) /\ ForceFlags /\ UNCHANGED lastStatus

\* Clear with only the status cleared.
ClearStatusOnly(c) ==
  Begin(c) /\ lastStatus' = "joined" /\ UNCHANGED <<wifiConnected, ipv4Acquired>>

\* The flags, and the status to WIFI_STATUS_CONN_SUCCESS.
Clear(c) == Begin(c) /\ ForceFlags /\ lastStatus' = "joined"

\* NET_REQUEST_WIFI_CONNECT is taken, in whatever state the driver is.
RequestAccepted ==
  /\ Goes("request", "wait_joined")
  /\ link' = "joining"
  /\ leased' = FALSE
  /\ accepted' = TRUE
  /\ UNCHANGED <<result, flagVars, semVars, heard>>

RequestRefused ==
  /\ Returns("request", "failed")
  /\ accepted' = FALSE
  /\ UNCHANGED semVars

\* JoinTimeout that makes the request again instead of returning.
JoinTimeoutRetries ==
  /\ Moves("wait_joined", "request")
  /\ ~connectedSem
  /\ UNCHANGED <<semVars, flagVars>>

\* 30 s without a CONNECT_RESULT.
JoinTimeout ==
  /\ Returns("wait_joined", "failed")
  /\ ~connectedSem
  /\ UNCHANGED <<accepted, semVars>>

TakeConnected ==
  /\ Moves("wait_joined", "check")
  /\ connectedSem
  /\ connectedSem' = FALSE
  /\ UNCHANGED <<disconnectedSem, ipv4Sem, flagVars>>

CheckConnected ==
  /\ Moves("check", IF wifiConnected THEN "wait_ipv4" ELSE "why")
  /\ UNCHANGED <<semVars, flagVars>>

\* ConnectFailed that returns the driver's status instead of an errno.
ConnectFailedRaw ==
  /\ Returns("why", lastStatus)
  /\ UNCHANGED <<accepted, semVars>>

\* -EACCES for a wrong password, -EAGAIN for everything else.
ConnectFailed ==
  /\ Returns("why", IF lastStatus = "wrong_password" THEN "denied" ELSE "failed")
  /\ UNCHANGED <<accepted, semVars>>

Ipv4Timeout ==
  /\ Returns("wait_ipv4", "failed")
  /\ ~ipv4Sem
  /\ UNCHANGED <<accepted, semVars>>

TakeIpv4 ==
  /\ Returns("wait_ipv4", "ok")
  /\ ipv4Sem
  /\ ipv4Sem' = FALSE
  /\ UNCHANGED <<accepted, connectedSem, disconnectedSem>>

-----------------------------------------------------------------------------
(* wifi_manager_disconnect().                                              *)

DisconnectBegins == Moves("idle", "leave") /\ UNCHANGED <<flagVars, semVars>>

NothingToLeave ==
  /\ Moves("leave", "idle")
  /\ ~wifiConnected
  /\ UNCHANGED <<flagVars, semVars>>

ResetDisconnected ==
  /\ Moves("leave", "leave_request")
  /\ wifiConnected
  /\ disconnectedSem' = FALSE
  /\ UNCHANGED <<connectedSem, ipv4Sem, flagVars>>

LeaveRefused == Moves("leave_request", "idle") /\ UNCHANGED <<flagVars, semVars>>

LeaveAccepted ==
  /\ pc = "leave_request"
  /\ link # "down"
  /\ Len(queue) < MaxQueue
  /\ link' = "down"
  /\ leased' = FALSE
  /\ queue' = Append(queue, "lost")
  /\ pc' = "wait_lost"
  /\ UNCHANGED <<event, at, joined, result, accepted, flagVars, semVars, heard>>

\* -EALREADY is waited for like an accepted request; nothing need come.
LeftAlready ==
  /\ Moves("leave_request", "wait_lost")
  /\ link = "down"
  /\ UNCHANGED <<flagVars, semVars>>

TakeDisconnected ==
  /\ Moves("wait_lost", "idle")
  /\ disconnectedSem
  /\ disconnectedSem' = FALSE
  /\ UNCHANGED <<connectedSem, ipv4Sem, flagVars>>

\* 5 s without a DISCONNECT_RESULT: the flags are forced.
LeaveTimeout ==
  /\ Moves("wait_lost", "idle")
  /\ ~disconnectedSem
  /\ ForceFlags
  /\ UNCHANGED <<lastStatus, semVars>>

-----------------------------------------------------------------------------

Driver ==
  \/ Associate
  \/ Refuse("wrong_password")
  \/ Refuse("not_joined")
  \/ Lease
  \/ Drop

Handler == HandleEvent \/ StoreConnected \/ StoreIpv4 \/ GiveSem

Connect ==
  \/ \E c \in Credentials : Clear(c)
  \/ RequestAccepted \/ RequestRefused \/ JoinTimeout \/ TakeConnected
  \/ CheckConnected \/ ConnectFailed \/ Ipv4Timeout \/ TakeIpv4

Disconnect ==
  \/ NothingToLeave \/ ResetDisconnected \/ LeaveRefused \/ LeaveAccepted
  \/ LeftAlready \/ TakeDisconnected \/ LeaveTimeout

Next ==
  \/ Driver
  \/ Handler
  \/ ConnectBegins
  \/ DisconnectBegins
  \/ Connect
  \/ Disconnect

Spec == Init /\ [][Next]_vars

(* Both threads are scheduled, and a wait with a timeout ends.  The driver *)
(* owes nothing.                                                           *)
Fairness == WF_vars(Handler) /\ WF_vars(Connect) /\ WF_vars(Disconnect)

FairSpec == Spec /\ Fairness

-----------------------------------------------------------------------------
(* Properties.                                                             *)

\* A connect never goes by the flags, the status or the signals that an earlier
\* one left behind, however far a handler has got when they are reset: 0 takes
\* an association and an address, -EACCES a wrong password, that were handled,
\* or still being handled, after the reset.  It need not be its own attempt's:
\* the manager cannot tell a report of an earlier attempt, one that timed out,
\* from its own, and if it is handled after the reset it counts, in the code as
\* in heard.  So the stale signals that wifi_manager.c:127 is about do not fire,
\* and still a late wrong password may deny credentials that are right.
AnswersEarned ==
  /\ result = "ok" => {"joined", "address"} \subseteq heard
  /\ result = "denied" => "wrong_password" \in heard

\* No call is running and every event has been handled.
Quiet == pc = "idle" /\ queue = <<>> /\ at = "idle"

\* Whatever timed out, came late or was forced: once all events are handled,
\* s_wifi_connected is never up over a lost association; and after a connect
\* request the driver took, a link with an address is known to be one.
FlagsTellTheLink ==
  Quiet =>
    /\ wifiConnected => link # "down"
    /\ (accepted /\ link = "up" /\ leased) => IsConnected

\* Every call comes back, whatever the driver does ("Blocks until the
\* disconnect event is confirmed (or a short timeout expires)").
CallsReturn == pc # "idle" ~> pc = "idle"

\* What the header promises and AppMain builds on.
Call ==
  IF pc \in {"leave", "leave_request", "wait_lost"} THEN "disconnect"
  ELSE IF pc \in {"idle", "clear"} THEN "none" ELSE "connect"

W == INSTANCE WifiLink WITH up <- IsConnected, call <- Call

ImplementsWifiLink == W!Spec
=============================================================================
