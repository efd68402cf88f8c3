------------------------------ MODULE AppMain ------------------------------
(***************************************************************************)
(* The firmware's main thread (app/src/main.c: main and its state machine  *)
(* helpers), composed with the threads it talks to: the usbd thread that   *)
(* runs set_report (ConfigHandoff), chiaki's session thread (Session), the *)
(* Wi-Fi driver (WifiLink) and the button thread.                          *)
(*                                                                         *)
(* The main loop polls four event sources at once and then works through   *)
(* the ones that were ready, in a fixed order, taking each by hand.  A     *)
(* Wi-Fi connect, a session teardown and a registration all block inside   *)
(* the loop, for seconds or longer, while every other thread runs on.  So  *)
(* what was ready at the poll may be stale when its turn comes.            *)
(*                                                                         *)
(* One step is a stretch of the main thread that touches one piece of      *)
(* state another thread writes.  The status line, its log and the LED are  *)
(* left to modules of their own.                                           *)
(***************************************************************************)

EXTENDS Naturals

CONSTANTS
  Empty, Ssids, Passwords, Accounts, Hosts,   \* see ConfigHandoff
  NoTarget,     (* see Session                                             *)
  NoNetwork,    (* see WifiLink                                            *)
  NoPin,        (* the PIN 0                                               *)
  Pins,         (* the other PINs                                          *)
  BootConfigs,  (* what flash may hold at power-on                         *)
  NetReports,   (* the valid Report 1s the host may send                   *)
  Ps5Reports,   (* the valid Report 2s the host may send                   *)
  PinReports    (* the PINs of the valid Report 3s the host may send       *)

ASSUME NoNetworkAssumption ==
  NoNetwork \notin [ssid : Ssids, password : Passwords \cup {Empty}]

ASSUME PinAssumption == NoPin \notin Pins /\ PinReports \subseteq Pins \cup {NoPin}

VARIABLES
  \* main.c: configuration handoff, as in ConfigHandoff
  pending, savePending, wifiChanged, ps5Changed, signaled, app, usb, cfgPc,
  snap,
  \* session.c, as in Session
  connected, sem, thread, stopping, target, fini,
  \* wifi_manager.c, as in WifiLink
  up, call, joined, result,
  \* main.c: the Link button
  linkSem,      (* the count of s_link_sem is 1                            *)
  pendingPin,   (* s_pending_pin                                           *)
  linkCall,     (* set_report has stored a PIN, not yet given s_link_sem   *)
  unsavedAtPin, (* history: where the report staged before s_pending_pin   *)
                (* was stored is on its way to s_app_config                *)
  overtaken,    (* history: s_pending_pin has been stored over the PIN of  *)
                (* a click that main had not read                          *)
  \* settings.c and buttons.c
  registered,   (* s_has_registered_host                                   *)
  inputSem,     (* the count of g_input_sem is 1                           *)
  \* main's locals
  state,        (* state, the AppState                                     *)
  pin,          (* pin, of step 4                                          *)
  evts,         (* the events k_poll reported that are not yet handled     *)
  pc,           (* where the main thread is                                *)
  cont          (* where it goes on after session_fini                     *)

H == INSTANCE ConfigHandoff
S == INSTANCE Session WITH Targets <- [account : Accounts, ip : Hosts]
W == INSTANCE WifiLink WITH
       Credentials <- [ssid : Ssids, password : Passwords \cup {Empty}]

ASSUME ReportsAssumption ==
  /\ BootConfigs \subseteq H!Config
  /\ NetReports \subseteq H!NetReport
  /\ Ps5Reports \subseteq H!Ps5Report

handoffVars == <<pending, savePending, wifiChanged, ps5Changed, signaled, app,
                 usb, cfgPc, snap>>
sessionVars == <<connected, sem, thread, stopping, target, fini>>
wifiVars == <<up, call, joined, result>>
linkVars == <<linkSem, pendingPin, linkCall, unsavedAtPin, overtaken>>
mainVars == <<state, pin, evts, pc, cont>>
vars == <<handoffVars, sessionVars, wifiVars, linkVars, registered, inputSem, mainVars>>

AppStates == {"NO_WIFI", "WIFI_CONNECTING", "UNREGISTERED", "REGISTERING",
              "SESSION_STARTING", "SESSION_CONNECTING", "SESSION_RUNNING"}

Events == {"CONFIG", "LINK", "SESSION", "INPUT"}

Places == {"poll", "config", "link", "link_pin", "session", "session_check",
           "input", "switch", "park", "connect", "connecting", "retry",
           "disconnect", "disconnecting", "fini", "ps5_changed", "register",
           "registering", "dropped"}

TypeOK ==
  /\ H!TypeOK
  /\ S!TypeOK
  /\ W!TypeOK
  /\ linkSem \in BOOLEAN
  /\ pendingPin \in Pins \cup {NoPin}
  /\ linkCall \in BOOLEAN
  /\ unsavedAtPin \in {"no", "staged", "snapped"}
  /\ overtaken \in BOOLEAN
  /\ registered \in BOOLEAN
  /\ inputSem \in BOOLEAN
  /\ state \in AppStates
  /\ pin \in Pins \cup {NoPin}
  /\ evts \subseteq Events
  /\ pc \in Places
  /\ cont \in Places

\* main() after initialize_usb(): flash has been read, the staging copy is
\* seeded, set_report may be called, and Wi-Fi comes first.
Init ==
  /\ H!Init
  /\ app \in BootConfigs
  /\ S!Init
  /\ W!Init
  /\ linkSem = FALSE
  /\ pendingPin = NoPin
  /\ linkCall = FALSE
  /\ unsavedAtPin = "no"
  /\ overtaken = FALSE
  /\ registered \in BOOLEAN
  /\ inputSem = FALSE
  /\ state = "NO_WIFI"
  /\ pin = NoPin
  /\ evts = {}
  /\ pc = "connect"
  /\ cont = "poll"

InSession == state \in {"SESSION_CONNECTING", "SESSION_RUNNING"}

-----------------------------------------------------------------------------
(* The other threads.                                                      *)

\* usbd: set_report with Report 1 or 2.  It is one thread, so not during a
\* Report 3.
UsbdConfig ==
  /\ ~linkCall
  /\ \/ \E rep \in NetReports : H!StageNet(rep)
     \/ \E rep \in Ps5Reports : H!StagePs5(rep)
     \/ H!FlagWifi
     \/ H!FlagPs5
     \/ H!RaiseSignal
  /\ UNCHANGED <<sessionVars, wifiVars, linkVars, registered, inputSem, mainVars>>

\* usbd: set_report with Report 3.  The PIN, then the semaphore.
StorePin(p) ==
  /\ usb = "idle"
  /\ ~linkCall
  /\ pendingPin' = p
  /\ linkCall' = TRUE
  /\ unsavedAtPin' = IF savePending THEN "staged"
                     ELSE IF snap.save THEN "snapped" ELSE "no"
  /\ overtaken' = (overtaken \/ linkSem \/ pc = "link_pin")
  /\ UNCHANGED linkSem
  /\ UNCHANGED <<handoffVars, sessionVars, wifiVars, registered, inputSem, mainVars>>

GiveLink ==
  /\ linkCall
  /\ linkCall' = FALSE
  /\ linkSem' = TRUE
  /\ UNCHANGED <<pendingPin, unsavedAtPin, overtaken>>
  /\ UNCHANGED <<handoffVars, sessionVars, wifiVars, registered, inputSem, mainVars>>

Chiaki ==
  /\ S!Chiaki
  /\ UNCHANGED <<handoffVars, wifiVars, linkVars, registered, inputSem, mainVars>>

Driver ==
  /\ W!Driver
  /\ UNCHANGED <<handoffVars, sessionVars, linkVars, registered, inputSem, mainVars>>

\* The button thread saw a change; k_sem_give on a semaphore capped at 1.
Buttons ==
  /\ inputSem' = TRUE
  /\ UNCHANGED <<handoffVars, sessionVars, wifiVars, linkVars, registered, mainVars>>

-----------------------------------------------------------------------------
(* Steps 1 and 2: the poll.                                                *)

Ready == {e \in Events : \/ e = "CONFIG" /\ signaled
                         \/ e = "LINK" /\ linkSem
                         \/ e = "SESSION" /\ sem = 1
                         \/ e = "INPUT" /\ inputSem}

\* NextPlace with step 4 before step 3.
NextPlaceLinkFirst(es) ==
  IF "LINK" \in es THEN "link"
  ELSE IF "CONFIG" \in es THEN "config"
  ELSE IF "SESSION" \in es THEN "session"
  ELSE IF "INPUT" \in es THEN "input" ELSE "switch"

\* Where steps 3 to 7 go next with these events left to handle.
NextPlace(es) ==
  IF "CONFIG" \in es THEN "config"
  ELSE IF "LINK" \in es THEN "link"
  ELSE IF "SESSION" \in es THEN "session"
  ELSE IF "INPUT" \in es THEN "input" ELSE "switch"

Handled(e) ==
  /\ evts' = evts \ {e}
  /\ pc' = NextPlace(evts \ {e})

\* k_poll reports every source that is ready and takes none.  It blocks when
\* none is, except in SESSION_STARTING (K_NO_WAIT).
Poll ==
  /\ pc = "poll"
  /\ Ready # {} \/ state = "SESSION_STARTING"
  /\ evts' = Ready
  /\ pc' = NextPlace(Ready)
  /\ UNCHANGED <<state, pin, cont>>
  /\ UNCHANGED <<handoffVars, sessionVars, wifiVars, linkVars, registered, inputSem>>

-----------------------------------------------------------------------------
(* session_fini and teardown_session.                                      *)

\* TeardownThen that overlooks a session that is still connecting.
TeardownRunningThen(place) ==
  IF state = "SESSION_RUNNING" THEN pc' = "fini" /\ cont' = place
                               ELSE pc' = place /\ UNCHANGED cont

\* teardown_session: session_fini if the state says a session is in flight,
\* then on to the given place.
TeardownThen(place) ==
  IF InSession THEN pc' = "fini" /\ cont' = place
               ELSE pc' = place /\ UNCHANGED cont

SessionFini ==
  /\ pc = "fini"
  /\ S!FiniClear \/ S!FiniStop \/ S!FiniStopDead
  /\ UNCHANGED <<handoffVars, wifiVars, linkVars, registered, inputSem, mainVars>>

SessionFiniReturns ==
  /\ pc = "fini"
  /\ S!FiniJoin
  /\ pc' = cont
  /\ cont' = "poll"
  /\ UNCHANGED <<state, pin, evts>>
  /\ UNCHANGED <<handoffVars, wifiVars, linkVars, registered, inputSem>>

-----------------------------------------------------------------------------
(* connect_wifi_and_transition and connect_wifi_with_retry, called at boot *)
(* and from step 3.                                                        *)

\* Back to the caller: the main loop, or the rest of step 3.
ConnectEnds == pc' = IF cfgPc = "idle" THEN "poll" ELSE "config"

\* The retry loop tests the SSID as well, but nothing can have changed it.
ConnectNoSsid ==
  /\ pc = "connect"
  /\ app.ssid = Empty
  /\ state' = "NO_WIFI"
  /\ ConnectEnds
  /\ UNCHANGED <<pin, evts, cont>>
  /\ UNCHANGED <<handoffVars, sessionVars, wifiVars, linkVars, registered, inputSem>>

\* Connect with the two strings in the wrong order.
ConnectSwapped ==
  /\ pc = "connect"
  /\ app.ssid # Empty
  /\ W!Connect([ssid |-> app.password, password |-> app.ssid])
  /\ state' = "WIFI_CONNECTING"
  /\ pc' = "connecting"
  /\ UNCHANGED <<pin, evts, cont>>
  /\ UNCHANGED <<handoffVars, sessionVars, linkVars, registered, inputSem>>

Connect ==
  /\ pc = "connect"
  /\ app.ssid # Empty
  /\ W!Connect([ssid |-> app.ssid, password |-> app.password])
  /\ state' = "WIFI_CONNECTING"
  /\ pc' = "connecting"
  /\ UNCHANGED <<pin, evts, cont>>
  /\ UNCHANGED <<handoffVars, sessionVars, linkVars, registered, inputSem>>

ConnectOk ==
  /\ pc = "connecting"
  /\ W!ConnectReturns("ok")
  /\ state' = IF registered THEN "SESSION_STARTING" ELSE "UNREGISTERED"
  /\ ConnectEnds
  /\ UNCHANGED <<pin, evts, cont>>
  /\ UNCHANGED <<handoffVars, sessionVars, linkVars, registered, inputSem>>

ConnectDenied ==
  /\ pc = "connecting"
  /\ W!ConnectReturns("denied")
  /\ state' = "NO_WIFI"
  /\ ConnectEnds
  /\ UNCHANGED <<pin, evts, cont>>
  /\ UNCHANGED <<handoffVars, sessionVars, linkVars, registered, inputSem>>

\* A transient failure: sleep, then start over.
ConnectFails ==
  /\ pc = "connecting"
  /\ W!ConnectReturns("failed")
  /\ pc' = "connect"
  /\ UNCHANGED <<state, pin, evts, cont>>
  /\ UNCHANGED <<handoffVars, sessionVars, linkVars, registered, inputSem>>

-----------------------------------------------------------------------------
(* Step 3: the configuration changed.                                      *)

ConsumeSignal ==
  /\ pc = "config"
  /\ H!Consume
  /\ UNCHANGED <<sessionVars, wifiVars, linkVars, registered, inputSem, mainVars>>

SnapshotConfig ==
  /\ pc = "config"
  /\ H!Snapshot
  /\ unsavedAtPin' = IF unsavedAtPin = "staged" THEN "snapped" ELSE unsavedAtPin
  /\ UNCHANGED <<linkSem, pendingPin, linkCall, overtaken>>
  /\ UNCHANGED <<sessionVars, wifiVars, registered, inputSem, mainVars>>

SaveConfig ==
  /\ pc = "config"
  /\ H!Save
  /\ unsavedAtPin' = IF unsavedAtPin = "snapped" THEN "no" ELSE unsavedAtPin
  /\ UNCHANGED <<linkSem, pendingPin, linkCall, overtaken>>
  /\ UNCHANGED <<sessionVars, wifiVars, registered, inputSem, mainVars>>

TakeWifiChanged ==
  /\ pc = "config"
  /\ H!TakeWifi
  /\ IF wifiChanged THEN TeardownThen("disconnect") ELSE UNCHANGED <<pc, cont>>
  /\ UNCHANGED <<state, pin, evts>>
  /\ UNCHANGED <<sessionVars, wifiVars, linkVars, registered, inputSem>>

Disconnect ==
  /\ pc = "disconnect"
  /\ W!Disconnect
  /\ pc' = "disconnecting"
  /\ UNCHANGED <<state, pin, evts, cont>>
  /\ UNCHANGED <<handoffVars, sessionVars, linkVars, registered, inputSem>>

DisconnectReturns ==
  /\ pc = "disconnecting"
  /\ W!DisconnectReturns
  /\ pc' = "connect"
  /\ UNCHANGED <<state, pin, evts, cont>>
  /\ UNCHANGED <<handoffVars, sessionVars, linkVars, registered, inputSem>>

TakePs5Changed ==
  /\ pc = "config"
  /\ H!TakePs5
  /\ IF ps5Changed THEN TeardownThen("ps5_changed") /\ UNCHANGED evts
                   ELSE Handled("CONFIG") /\ UNCHANGED cont
  /\ UNCHANGED <<state, pin>>
  /\ UNCHANGED <<sessionVars, wifiVars, linkVars, registered, inputSem>>

Ps5Changed ==
  /\ pc = "ps5_changed"
  /\ state' = "SESSION_STARTING"
  /\ Handled("CONFIG")
  /\ UNCHANGED <<pin, cont>>
  /\ UNCHANGED <<handoffVars, sessionVars, wifiVars, linkVars, registered, inputSem>>

-----------------------------------------------------------------------------
(* Step 4: Link, and registration_run.                                     *)

TakeLink ==
  /\ pc = "link"
  /\ linkSem' = FALSE
  /\ pc' = "link_pin"
  /\ UNCHANGED <<pendingPin, linkCall, unsavedAtPin, overtaken>>
  /\ UNCHANGED <<state, pin, evts, cont>>
  /\ UNCHANGED <<handoffVars, sessionVars, wifiVars, registered, inputSem>>

ReadPin ==
  /\ pc = "link_pin"
  /\ pin' = pendingPin
  /\ overtaken' = FALSE
  /\ TeardownThen("register")
  /\ UNCHANGED <<linkSem, pendingPin, linkCall, unsavedAtPin>>
  /\ UNCHANGED <<state, evts>>
  /\ UNCHANGED <<handoffVars, sessionVars, wifiVars, registered, inputSem>>

\* What registration_run requires before it starts anything.
CanRegister ==
  /\ app.ssid # Empty
  /\ app.ip # Empty
  /\ app.account # Empty
  /\ pin # NoPin

RegisterBegins ==
  /\ pc = "register"
  /\ CanRegister
  /\ state' = "REGISTERING"
  /\ pc' = "registering"
  /\ UNCHANGED <<pin, evts, cont>>
  /\ UNCHANGED <<handoffVars, sessionVars, wifiVars, linkVars, registered, inputSem>>

\* The request is invalid, or chiaki could not start it, or the console
\* refused it.
RegisterFails ==
  /\ \/ pc = "register" /\ ~CanRegister
     \/ pc = "registering"
  /\ state' = "UNREGISTERED"
  /\ pin' = NoPin
  /\ Handled("LINK")
  /\ UNCHANGED cont
  /\ UNCHANGED <<handoffVars, sessionVars, wifiVars, linkVars, registered, inputSem>>

\* The console registered the controller.  settings_save_registration() sets
\* the RAM copy before it writes flash, and the write may fail.
Registered(saved) ==
  /\ pc = "registering"
  /\ registered' = TRUE
  /\ state' = IF saved THEN "SESSION_STARTING" ELSE "UNREGISTERED"
  /\ pin' = NoPin
  /\ Handled("LINK")
  /\ UNCHANGED cont
  /\ UNCHANGED <<handoffVars, sessionVars, wifiVars, linkVars, inputSem>>

-----------------------------------------------------------------------------
(* Step 5: the session connected or quit.                                  *)

TakeSessionEvent ==
  /\ pc = "session"
  /\ S!TakeEvent
  /\ pc' = "session_check"
  /\ UNCHANGED <<state, pin, evts, cont>>
  /\ UNCHANGED <<handoffVars, wifiVars, linkVars, registered, inputSem>>

\* SessionConnected that takes the first event of a connecting session for
\* CONNECTED.
SessionConnectedUnasked ==
  /\ pc = "session_check"
  /\ connected \/ state = "SESSION_CONNECTING"
  /\ state' = "SESSION_RUNNING"
  /\ Handled("SESSION")
  /\ UNCHANGED <<pin, cont>>
  /\ UNCHANGED <<handoffVars, sessionVars, wifiVars, linkVars, registered, inputSem>>

SessionConnected ==
  /\ pc = "session_check"
  /\ connected
  /\ state' = "SESSION_RUNNING"
  /\ Handled("SESSION")
  /\ UNCHANGED <<pin, cont>>
  /\ UNCHANGED <<handoffVars, sessionVars, wifiVars, linkVars, registered, inputSem>>

\* SessionDropped that reconnects without session_fini.
SessionDroppedUnfinished ==
  /\ pc = "session_check"
  /\ ~connected
  /\ pc' = "dropped"
  /\ UNCHANGED <<state, pin, evts, cont>>
  /\ UNCHANGED <<handoffVars, sessionVars, wifiVars, linkVars, registered, inputSem>>

\* session_fini() whatever the state, then a sleep and a reconnect.
SessionDropped ==
  /\ pc = "session_check"
  /\ ~connected
  /\ pc' = "fini"
  /\ cont' = "dropped"
  /\ UNCHANGED <<state, pin, evts>>
  /\ UNCHANGED <<handoffVars, sessionVars, wifiVars, linkVars, registered, inputSem>>

Reconnect ==
  /\ pc = "dropped"
  /\ state' = "SESSION_STARTING"
  /\ Handled("SESSION")
  /\ UNCHANGED <<pin, cont>>
  /\ UNCHANGED <<handoffVars, sessionVars, wifiVars, linkVars, registered, inputSem>>

-----------------------------------------------------------------------------
(* Step 6: controller input.  In SESSION_RUNNING it is sent to s_session,  *)
(* if s_connected is up.                                                   *)

Input ==
  /\ pc = "input"
  /\ inputSem' = FALSE
  /\ Handled("INPUT")
  /\ UNCHANGED <<state, pin, cont>>
  /\ UNCHANGED <<handoffVars, sessionVars, wifiVars, linkVars, registered>>

-----------------------------------------------------------------------------
(* Step 7: only SESSION_STARTING has anything to do.                       *)

CanStart == up /\ registered /\ app.ip # Empty

NothingToStart ==
  /\ pc = "switch"
  /\ state # "SESSION_STARTING"
  /\ pc' = "poll"
  /\ UNCHANGED <<state, pin, evts, cont>>
  /\ UNCHANGED <<handoffVars, sessionVars, wifiVars, linkVars, registered, inputSem>>

StartSession ==
  /\ pc = "switch"
  /\ state = "SESSION_STARTING"
  /\ CanStart
  /\ app.account # Empty
  /\ S!InitStarts([account |-> app.account, ip |-> app.ip])
  /\ state' = "SESSION_CONNECTING"
  /\ pc' = "poll"
  /\ UNCHANGED <<pin, evts, cont>>
  /\ UNCHANGED <<handoffVars, wifiVars, linkVars, registered, inputSem>>

\* -EINVAL before anything was touched, or -EIO; a sleep; try again.
StartFails ==
  /\ pc = "switch"
  /\ state = "SESSION_STARTING"
  /\ CanStart
  /\ IF app.account = Empty THEN UNCHANGED sessionVars ELSE S!InitFails
  /\ pc' = "poll"
  /\ UNCHANGED <<state, pin, evts, cont>>
  /\ UNCHANGED <<handoffVars, wifiVars, linkVars, registered, inputSem>>

CannotStart ==
  /\ pc = "switch"
  /\ state = "SESSION_STARTING"
  /\ ~CanStart
  /\ pc' = "park"
  /\ UNCHANGED <<state, pin, evts, cont>>
  /\ UNCHANGED <<handoffVars, sessionVars, wifiVars, linkVars, registered, inputSem>>

\* The link is looked at a second time.
Park ==
  /\ pc = "park"
  /\ state' = IF up THEN "UNREGISTERED" ELSE "NO_WIFI"
  /\ pc' = "poll"
  /\ UNCHANGED <<pin, evts, cont>>
  /\ UNCHANGED <<handoffVars, sessionVars, wifiVars, linkVars, registered, inputSem>>

-----------------------------------------------------------------------------

Usbd == UsbdConfig \/ (\E p \in PinReports : StorePin(p)) \/ GiveLink

ConnectSteps == ConnectNoSsid \/ Connect \/ ConnectOk \/ ConnectDenied \/ ConnectFails

ConfigSteps ==
  \/ ConsumeSignal \/ SnapshotConfig \/ SaveConfig \/ TakeWifiChanged
  \/ Disconnect \/ DisconnectReturns \/ TakePs5Changed \/ Ps5Changed

LinkSteps ==
  \/ TakeLink \/ ReadPin \/ RegisterBegins \/ RegisterFails
  \/ \E saved \in BOOLEAN : Registered(saved)

SessionSteps ==
  \/ TakeSessionEvent \/ SessionConnected \/ SessionDropped \/ Reconnect
  \/ SessionFini \/ SessionFiniReturns

SwitchSteps ==
  \/ NothingToStart \/ StartSession \/ StartFails \/ CannotStart \/ Park

Main == Poll \/ ConnectSteps \/ ConfigSteps \/ LinkSteps \/ SessionSteps \/ Input \/ SwitchSteps

Next == Usbd \/ Chiaki \/ Driver \/ Buttons \/ Main

Spec == Init /\ [][Next]_vars

(* The main thread is scheduled; every call it blocks in ends, if only by  *)
(* its timeout, except a session join, which waits for chiaki.  A          *)
(* set_report once begun is finished, and chiaki is as fair as in Session. *)
Fairness ==
  /\ WF_vars(Main)
  /\ WF_vars(GiveLink \/ (UsbdConfig /\ usb # "idle"))
  /\ WF_vars(Chiaki /\ thread \in {"connected_cb", "quit_cb"})
  /\ WF_vars(Chiaki /\ stopping /\ thread' = "quit_cb")

FairSpec == Spec /\ Fairness

-----------------------------------------------------------------------------
(* Properties.                                                             *)

\* Whenever the main loop goes back to its poll, the AppState tells the truth
\* about the session, which is what every teardown and every event is judged
\* by: a session exists exactly in the two session states.  Nor does the loop
\* ever wait in a state it means to pass through (main.c: "we should never
\* idle in this state").
SettledAtPoll ==
  pc = "poll" =>
    /\ (thread # "none") <=> InSession
    /\ state \notin {"WIFI_CONNECTING", "REGISTERING"}

\* CONNECTED and QUIT share a semaphore capped at 1, "if the main loop misses
\* an event it will catch up on the next iteration" (session.c): back at the
\* poll, whatever the main thread does not know of its session yet is still
\* announced, and SESSION_RUNNING was not concluded from another session's
\* event.
NoLostSessionEvent ==
  (pc = "poll" /\ InSession) =>
    /\ thread = "exited" => sem = 1
    /\ (thread = "streaming" /\ state = "SESSION_CONNECTING") => sem = 1
    /\ state = "SESSION_RUNNING" => thread \notin {"connecting", "connected_cb"}

\* The config page sends the configuration and then the Link command, on two
\* channels the main loop polls together.  When step 4 reads s_pending_pin, the
\* reports sent before that PIN are in s_app_config, where registration_run
\* reads the account and the address.  The one exception is a click made while
\* an earlier one waits: set_report stores its PIN over the other's and the
\* capped semaphore absorbs it, so the step 4 of the earlier click may run the
\* new PIN on a configuration older than the report sent before it.
LinkUsesStagedConfig == pc = "link_pin" => (unsavedAtPin = "no" \/ overtaken)

\* The sources are taken one by one with K_NO_WAIT, the answer ignored, up to
\* minutes after the one poll that reported them.  No take is made in vain:
\* whatever the steps before it did, teardowns and reconnects included, what
\* the poll saw ready is still ready when its turn comes.
PolledStaysReady ==
  /\ (pc = "config" /\ cfgPc = "idle") => signaled
  /\ pc = "link" => linkSem
  /\ pc = "session" => sem = 1
  /\ pc = "input" => inputSem

\* main() is a legitimate caller of session.c: it never initialises s_session
\* over a live session, never takes an event that is not there, and follows
\* every session_fini through.
KeepsSessionContract == S!Spec

\* A session whose thread has ended is not left behind: it is joined and
\* released, whatever the main thread was doing when it quit.
SessionReclaimed == thread = "exited" ~> (thread = "none" \/ fini = "fault")

\* A staged configuration is picked up, unless the main thread retries Wi-Fi
\* for ever or hangs in a session_fini on a dead session.
StagedIsPickedUp ==
  \/ <>[](state = "WIFI_CONNECTING")
  \/ <>(fini = "fault")
  \/ savePending ~> ~savePending

(* What the source says and the code does not do.                          *)

\* session.c resets session_event_sem "so a stale signal from a previous
\* session is discarded", and main calls session_fini in step 5 to clean up
\* after a session that dropped: it never does so when there is none.
FiniOnlyLive == fini = "stop" => thread # "none"

\* connect_wifi_with_retry: "credentials pushed via WebHID while this is
\* retrying take effect on the next attempt".
RetryTakesPushedCredentials ==
  [][(call' = "connect" /\ state = "WIFI_CONNECTING" /\ pc = "connect" /\ usb = "idle")
       => joined' = [ssid |-> pending.ssid, password |-> pending.password]]_vars

\* "PS5 configuration changed - restarting session.": at rest, a session is
\* one for the configuration the controller has saved.
SessionFollowsConfig ==
  (pc = "poll" /\ usb = "idle" /\ ~signaled /\ InSession)
     => target = [account |-> app.account, ip |-> app.ip]

\* APP_STATE_NO_WIFI: "no credentials; wait for WebHID config".  With
\* credentials it is for a wrong password alone; any other failure "is
\* treated as transient and retried forever".
ParkedOnlyWithoutCredentials ==
  (pc = "poll" /\ state = "NO_WIFI") => (app.ssid = Empty \/ result = "denied")
=============================================================================
