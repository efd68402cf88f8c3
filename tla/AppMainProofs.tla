--------------------------- MODULE AppMainProofs ---------------------------
(***************************************************************************)
(* AppMain for every set of configurations, reports and PINs.              *)
(*                                                                         *)
(* What the properties say of the poll alone is not inductive.  IInv says  *)
(* what holds at every other place of the main loop: between two calls     *)
(* that block, the AppState and chiaki's thread agree as they do at the    *)
(* poll; from a teardown to the state that follows it there is no thread.  *)
(* It also says which events may still be ahead at each place, and how far *)
(* step 3 is with the report that the PIN sent after it must not overtake. *)
(***************************************************************************)
EXTENDS AppMain, TLAPS

\* Where no teardown is under way: the state means what it says.
Between == {"poll", "config", "link", "link_pin", "session", "session_check",
            "input", "switch", "park"}

\* Where a session, if there was one, has been torn down, and the state that
\* follows is not set yet.
TornDown == Places \ (Between \cup {"fini"})

\* The place in main()'s text, whether or not it is inside session_fini.
Place == IF pc = "fini" THEN cont ELSE pc

\* Where the Link click of this iteration has been taken already.
LinkTaken == {"link_pin", "register", "registering"}

\* The events that may still have to be handled.
Ahead(place) ==
  IF place \in {"poll", "switch", "park"} THEN {}
  ELSE IF place = "input" THEN {"INPUT"}
  ELSE IF place \in {"session", "session_check", "dropped"} THEN {"SESSION", "INPUT"}
  ELSE IF place \in LinkTaken \cup {"link"} THEN Events \ {"CONFIG"}
  ELSE Events

\* The AppState, chiaki's thread, and what the main thread has still to learn
\* of it.
SessionInv ==
  /\ S!ConnectedMeansLive
  /\ S!NoStaleEvent
  /\ pc \in Between => /\ (thread # "none") <=> InSession
                       /\ state \notin {"WIFI_CONNECTING", "REGISTERING"}
  /\ pc \in TornDown => thread = "none"
  /\ pc \in Between /\ InSession =>
       /\ thread = "exited" => sem = 1 \/ pc = "session_check"
       /\ (thread = "streaming" /\ state = "SESSION_CONNECTING")
             => sem = 1 \/ pc = "session_check"
       /\ state = "SESSION_RUNNING" => thread \notin {"connecting", "connected_cb"}
  /\ pc = "session_check" => thread \notin {"connecting", "connected_cb"}
  /\ pc = "park" => state = "SESSION_STARTING"

\* Where the main thread is, how far step 3 is, and what is still ahead.
PlaceInv ==
  /\ pc = "fini" => cont \in {"disconnect", "ps5_changed", "register", "dropped"}
  /\ evts \subseteq Ahead(Place)
  /\ Place \in {"connect", "connecting"} => cfgPc = "ps5" \/ (cfgPc = "idle" /\ evts = {})
  /\ Place \in {"disconnect", "disconnecting"} => cfgPc = "ps5"
  /\ Place \notin {"config", "disconnect", "disconnecting", "connect", "connecting"}
       => cfgPc = "idle"

\* An event that the poll reported is still there until it is taken.
EventInv ==
  /\ pc = "config" /\ cfgPc = "idle" => signaled
  /\ pc \in {"link", "link_pin"} => "LINK" \in evts
  /\ pc = "session" => "SESSION" \in evts
  /\ pc = "input" => "INPUT" \in evts
  /\ "LINK" \in evts => linkSem \/ Place \in LinkTaken
  /\ "SESSION" \in evts => sem = 1 \/ Place \in {"session_check", "dropped"}
  /\ "INPUT" \in evts => inputSem

\* A report sent before the PIN in s_pending_pin is announced, or in step 3's
\* snapshot; and this iteration's step 4 is behind the step 3 that saves it,
\* unless that PIN was stored over the one of a click that waits.
LinkInv ==
  /\ linkCall => usb = "idle"
  /\ savePending => signaled \/ usb # "idle" \/ cfgPc = "snapshot"
  /\ snap.save => cfgPc = "save"
  /\ unsavedAtPin = "staged" => savePending /\ (signaled \/ cfgPc = "snapshot")
  /\ unsavedAtPin = "snapped" => snap.save
  /\ ("LINK" \in evts /\ unsavedAtPin = "staged" /\ ~overtaken) =>
       \/ pc = "config" /\ cfgPc \in {"idle", "snapshot"}
       \/ Place \in LinkTaken \ {"link_pin"}

IInv == TypeOK /\ SessionInv /\ PlaceInv /\ EventInv /\ LinkInv

-----------------------------------------------------------------------------
(* The components' types, whatever calls them.                             *)

\* set_report's critical section, for a merged configuration.
LEMMA StageTypes ==
  ASSUME H!TypeOK, NEW merged \in H!Config, NEW flag \in {"flag_wifi", "flag_ps5"},
         H!Stage(merged, flag)
  PROVE  H!TypeOK'
BY DEF H!TypeOK, H!Stage

\* ConfigHandoff's steps keep its types.
LEMMA HandoffTypes == H!TypeOK /\ [H!Next]_(H!vars) => H!TypeOK'
<1> SUFFICES ASSUME H!TypeOK, [H!Next]_(H!vars) PROVE H!TypeOK'
  OBVIOUS
<1>1. ASSUME NEW rep \in H!NetReport, H!StageNet(rep) PROVE H!TypeOK'
  <2>1. H!MergeNet(pending, rep) \in H!Config
    BY DEF H!TypeOK, H!Config, H!NetReport, H!MergeNet
  <2> QED
    BY <1>1, <2>1, StageTypes DEF H!StageNet
<1>2. ASSUME NEW rep \in H!Ps5Report, H!StagePs5(rep) PROVE H!TypeOK'
  <2>1. H!MergePs5(pending, rep) \in H!Config
    BY DEF H!TypeOK, H!Config, H!Ps5Report, H!MergePs5
  <2> QED
    BY <1>2, <2>1, StageTypes DEF H!StagePs5
<1>3. CASE H!FlagWifi
  BY <1>3 DEF H!TypeOK, H!FlagWifi
<1>4. CASE H!FlagPs5
  BY <1>4 DEF H!TypeOK, H!FlagPs5
<1>5. CASE H!RaiseSignal
  BY <1>5 DEF H!TypeOK, H!RaiseSignal
<1>6. CASE H!Consume
  BY <1>6 DEF H!TypeOK, H!Consume
<1>7. CASE H!Snapshot
  BY <1>7 DEF H!TypeOK, H!Snapshot
<1>8. CASE H!Save
  <2>1. app' \in H!Config
    BY <1>8 DEF H!TypeOK, H!Save
  <2>2. snap' \in [save : BOOLEAN, cfg : H!Config]
    BY <1>8 DEF H!Save, H!NoSnap, H!Config
  <2> QED
    BY <1>8, <2>1, <2>2 DEF H!TypeOK, H!Save
<1>9. CASE H!TakeWifi
  BY <1>9 DEF H!TypeOK, H!TakeWifi
<1>10. CASE H!TakePs5
  BY <1>10 DEF H!TypeOK, H!TakePs5
<1>11. CASE UNCHANGED H!vars
  BY <1>11 DEF H!TypeOK, H!vars
<1> QED
  BY <1>1, <1>2, <1>3, <1>4, <1>5, <1>6, <1>7, <1>8, <1>9, <1>10, <1>11
  DEF H!Next, H!Usbd, H!Main

\* Session's steps keep its types.
LEMMA SessionTypes == S!TypeOK /\ [S!Next]_(S!vars) => S!TypeOK'
<1> SUFFICES ASSUME S!TypeOK, [S!Next]_(S!vars) PROVE S!TypeOK'
  OBVIOUS
<1> USE DEF S!TypeOK, S!ThreadStates
<1>1. CASE S!Chiaki
  <2>1. CASE S!ConnectedFlag
    BY <2>1 DEF S!ConnectedFlag
  <2>2. CASE S!ConnectedGive
    BY <2>2 DEF S!ConnectedGive
  <2>3. CASE S!QuitFlag
    BY <2>3 DEF S!QuitFlag
  <2>4. CASE S!QuitGive
    BY <2>4 DEF S!QuitGive
  <2> QED
    BY <1>1, <2>1, <2>2, <2>3, <2>4 DEF S!Chiaki
<1>2. CASE S!InitFails
  <2>1. sem' \in 0..1
    BY <1>2 DEF S!InitFails
  <2> QED
    BY <1>2, <2>1, Zenon DEF S!InitFails
<1>3. ASSUME NEW t \in [account : Accounts, ip : Hosts], S!InitStarts(t) PROVE S!TypeOK'
  <2>1. sem' \in 0..1
    BY <1>3 DEF S!InitStarts
  <2> QED
    BY <1>3, <2>1, Zenon DEF S!InitStarts
<1>4. CASE S!TakeEvent
  BY <1>4 DEF S!TakeEvent
<1>5. CASE S!FiniClear
  BY <1>5 DEF S!FiniClear
<1>6. CASE S!FiniStop
  BY <1>6 DEF S!FiniStop
<1>7. CASE S!FiniStopDead
  BY <1>7 DEF S!FiniStopDead
<1>8. CASE S!FiniJoin
  BY <1>8 DEF S!FiniJoin
<1>9. CASE UNCHANGED S!vars
  BY <1>9 DEF S!vars
<1> QED
  BY <1>1, <1>2, <1>3, <1>4, <1>5, <1>6, <1>7, <1>8, <1>9 DEF S!Next, S!Caller

\* WifiLink's steps keep its types.
LEMMA WifiTypes == W!TypeOK /\ [W!Next]_(W!vars) => W!TypeOK'
BY DEF W!TypeOK, W!Next, W!Driver, W!LinkUp, W!LinkDown, W!Connect, W!ConnectReturns,
       W!Disconnect, W!DisconnectReturns, W!Results, W!vars

-----------------------------------------------------------------------------
(* What a step of the program is to each component: a step of its own      *)
(* specification, or nothing.                                              *)

LEMMA HandoffStep == [Next]_vars => [H!Next]_(H!vars)
<1> SUFFICES ASSUME [Next]_vars PROVE [H!Next]_(H!vars)
  OBVIOUS
<1> USE DEF H!vars, handoffVars
<1>1. CASE UsbdConfig
  BY <1>1, ReportsAssumption DEF UsbdConfig, H!Next, H!Usbd
<1>2. CASE ConsumeSignal \/ SnapshotConfig \/ SaveConfig
  BY <1>2 DEF ConsumeSignal, SnapshotConfig, SaveConfig, H!Next, H!Main
<1>3. CASE TakeWifiChanged \/ TakePs5Changed
  BY <1>3 DEF TakeWifiChanged, TakePs5Changed, H!Next, H!Main
<1>4. CASE (\E p \in PinReports : StorePin(p)) \/ GiveLink \/ Chiaki \/ Driver \/ Buttons
  BY <1>4 DEF StorePin, GiveLink, Chiaki, Driver, Buttons
<1>5. CASE Poll \/ ConnectSteps \/ Input
  BY <1>5 DEF Poll, ConnectSteps, ConnectNoSsid, Connect, ConnectOk, ConnectDenied, ConnectFails, Input
<1>6. CASE Disconnect \/ DisconnectReturns \/ Ps5Changed \/ LinkSteps
  BY <1>6 DEF Disconnect, DisconnectReturns, Ps5Changed, LinkSteps, TakeLink, ReadPin,
              RegisterBegins, RegisterFails, Registered
<1>7. CASE SessionSteps \/ SwitchSteps
  BY <1>7 DEF SessionSteps, TakeSessionEvent, SessionConnected, SessionDropped, Reconnect,
              SessionFini, SessionFiniReturns, SwitchSteps, NothingToStart, StartSession,
              StartFails, CannotStart, Park
<1>8. CASE UNCHANGED vars
  BY <1>8 DEF vars
<1> QED
  BY <1>1, <1>2, <1>3, <1>4, <1>5, <1>6, <1>7, <1>8 DEF Next, Usbd, Main, ConfigSteps

\* The credentials of a connect are a configuration's, with a network.
LEMMA WifiStep == H!TypeOK /\ [Next]_vars => [W!Next]_(W!vars)
<1> SUFFICES ASSUME H!TypeOK, [Next]_vars PROVE [W!Next]_(W!vars)
  OBVIOUS
<1> USE DEF W!vars, wifiVars
<1>1. CASE Driver
  BY <1>1 DEF Driver, W!Next
<1>2. CASE Connect
  <2>1. [ssid |-> app.ssid, password |-> app.password]
          \in [ssid : Ssids, password : Passwords \cup {Empty}]
    BY <1>2 DEF Connect, H!TypeOK, H!Config
  <2> QED
    BY <1>2, <2>1 DEF Connect, W!Next
<1>3. CASE ConnectOk \/ ConnectDenied \/ ConnectFails
  BY <1>3 DEF ConnectOk, ConnectDenied, ConnectFails, W!Next, W!Results
<1>4. CASE Disconnect \/ DisconnectReturns
  BY <1>4 DEF Disconnect, DisconnectReturns, W!Next
<1>5. CASE Usbd \/ Chiaki \/ Buttons
  BY <1>5 DEF Usbd, UsbdConfig, StorePin, GiveLink, Chiaki, Buttons
<1>6. CASE Poll \/ ConnectNoSsid \/ Input \/ LinkSteps
  BY <1>6 DEF Poll, ConnectNoSsid, Input, LinkSteps, TakeLink, ReadPin, RegisterBegins,
              RegisterFails, Registered
<1>7. CASE ConsumeSignal \/ SnapshotConfig \/ SaveConfig \/ TakeWifiChanged
           \/ TakePs5Changed \/ Ps5Changed
  BY <1>7 DEF ConsumeSignal, SnapshotConfig, SaveConfig, TakeWifiChanged, TakePs5Changed,
              Ps5Changed
<1>8. CASE SessionSteps \/ SwitchSteps
  BY <1>8 DEF SessionSteps, TakeSessionEvent, SessionConnected, SessionDropped, Reconnect,
              SessionFini, SessionFiniReturns, SwitchSteps, NothingToStart, StartSession,
              StartFails, CannotStart, Park
<1>9. CASE UNCHANGED vars
  BY <1>9 DEF vars
<1> QED
  BY <1>1, <1>2, <1>3, <1>4, <1>5, <1>6, <1>7, <1>8, <1>9
  DEF Next, Main, ConnectSteps, ConfigSteps

\* A session is only started where SessionInv says there is none.
LEMMA SessionStep == TypeOK /\ SessionInv /\ [Next]_vars => [S!Next]_(S!vars)
<1> SUFFICES ASSUME TypeOK, SessionInv, [Next]_vars PROVE [S!Next]_(S!vars)
  OBVIOUS
<1> USE DEF S!vars, sessionVars
<1>1. CASE Chiaki
  BY <1>1 DEF Chiaki, S!Next
<1>2. CASE TakeSessionEvent \/ SessionFini \/ SessionFiniReturns
  BY <1>2 DEF TakeSessionEvent, SessionFini, SessionFiniReturns, S!Next, S!Caller
<1>3. ASSUME pc = "switch", state = "SESSION_STARTING" PROVE ~S!Live
  BY <1>3 DEF SessionInv, Between, InSession, S!Live
<1>4. CASE StartSession
  <2>1. [account |-> app.account, ip |-> app.ip] \in [account : Accounts, ip : Hosts]
    BY <1>4 DEF StartSession, CanStart, TypeOK, H!TypeOK, H!Config
  <2> QED
    BY <1>3, <1>4, <2>1 DEF StartSession, S!Next, S!Caller
<1>5. CASE StartFails
  BY <1>3, <1>5 DEF StartFails, S!Next, S!Caller
<1>6. CASE Usbd \/ Driver \/ Buttons
  BY <1>6 DEF Usbd, UsbdConfig, StorePin, GiveLink, Driver, Buttons
<1>7. CASE Poll \/ ConnectSteps \/ Input \/ LinkSteps
  BY <1>7 DEF Poll, ConnectSteps, ConnectNoSsid, Connect, ConnectOk, ConnectDenied,
              ConnectFails, Input, LinkSteps, TakeLink, ReadPin, RegisterBegins,
              RegisterFails, Registered
<1>8. CASE ConfigSteps
  BY <1>8 DEF ConfigSteps, ConsumeSignal, SnapshotConfig, SaveConfig, TakeWifiChanged,
              Disconnect, DisconnectReturns, TakePs5Changed, Ps5Changed
<1>9. CASE SessionConnected \/ SessionDropped \/ Reconnect \/ NothingToStart
           \/ CannotStart \/ Park
  BY <1>9 DEF SessionConnected, SessionDropped, Reconnect, NothingToStart, CannotStart, Park
<1>10. CASE UNCHANGED vars
  BY <1>10 DEF vars
<1> QED
  BY <1>1, <1>2, <1>4, <1>5, <1>6, <1>7, <1>8, <1>9, <1>10
  DEF Next, Main, SessionSteps, SwitchSteps

-----------------------------------------------------------------------------
(* IInv, one part at a time.                                               *)

LEMMA InitEstablishes == Init => IInv
<1> SUFFICES ASSUME Init PROVE IInv
  OBVIOUS
<1>1. H!TypeOK
  <2>1. snap \in [save : BOOLEAN, cfg : H!Config]
    BY DEF Init, H!Init, H!NoSnap, H!Config
  <2> QED
    BY <2>1, Zenon DEF Init, H!Init, H!TypeOK
<1>2. S!TypeOK
  <2>1. sem \in 0..1
    BY DEF Init, S!Init
  <2> QED
    BY <2>1, Zenon DEF Init, S!Init, S!TypeOK, S!ThreadStates
<1>3. W!TypeOK
  BY DEF Init, W!Init, W!TypeOK, W!Results
<1>4. TypeOK
  BY <1>1, <1>2, <1>3, Zenon DEF Init, TypeOK, AppStates, Places
<1>5. SessionInv
  BY DEF Init, S!Init, SessionInv, S!ConnectedMeansLive, S!NoStaleEvent, Between
<1>6. PlaceInv
  BY DEF Init, H!Init, PlaceInv, Place
<1>7. EventInv
  BY DEF Init, EventInv
<1>8. LinkInv
  BY DEF Init, H!Init, H!NoSnap, LinkInv
<1> QED
  BY <1>4, <1>5, <1>6, <1>7, <1>8 DEF IInv

\* The types of main's locals and of the Link button's values.
MainTypes ==
  /\ pendingPin \in Pins \cup {NoPin}
  /\ unsavedAtPin \in {"no", "staged", "snapped"}
  /\ state \in AppStates
  /\ pin \in Pins \cup {NoPin}
  /\ evts \subseteq Events
  /\ pc \in Places
  /\ cont \in Places

\* The types of the flags that belong to no component.
FlagTypes ==
  /\ linkSem \in BOOLEAN
  /\ linkCall \in BOOLEAN
  /\ overtaken \in BOOLEAN
  /\ registered \in BOOLEAN
  /\ inputSem \in BOOLEAN

LEMMA MainTypesKept == MainTypes /\ [Next]_vars => MainTypes'
<1> SUFFICES ASSUME MainTypes, [Next]_vars PROVE MainTypes'
  OBVIOUS
<1> USE DEF MainTypes, linkVars, mainVars
<1> USE DEF AppStates, Events, Places, Handled, NextPlace, TeardownThen, ConnectEnds
<1>1. CASE UsbdConfig \/ Chiaki \/ Driver \/ Buttons
  <2>1. UNCHANGED linkVars /\ UNCHANGED mainVars
    BY <1>1, Zenon DEF UsbdConfig, Chiaki, Driver, Buttons
  <2> QED
    BY <2>1
<1>2. ASSUME NEW p \in PinReports, StorePin(p) PROVE MainTypes'
  BY <1>2, PinAssumption DEF StorePin
<1>3. CASE GiveLink
  BY <1>3 DEF GiveLink
<1>4. CASE Poll
  BY <1>4 DEF Poll, Ready
<1>5. CASE ConnectSteps
  BY <1>5 DEF ConnectSteps, ConnectNoSsid, Connect, ConnectOk, ConnectDenied, ConnectFails
<1>6. CASE ConsumeSignal \/ SnapshotConfig \/ SaveConfig \/ TakeWifiChanged
  <2>1. CASE ConsumeSignal
    BY <2>1 DEF ConsumeSignal
  <2>2. CASE SnapshotConfig
    BY <2>2 DEF SnapshotConfig
  <2>3. CASE SaveConfig
    BY <2>3 DEF SaveConfig
  <2>4. CASE TakeWifiChanged
    BY <2>4 DEF TakeWifiChanged
  <2> QED
    BY <1>6, <2>1, <2>2, <2>3, <2>4
<1>7. CASE Disconnect \/ DisconnectReturns \/ TakePs5Changed \/ Ps5Changed
  <2>1. CASE Disconnect
    BY <2>1 DEF Disconnect
  <2>2. CASE DisconnectReturns
    BY <2>2 DEF DisconnectReturns
  <2>3. CASE TakePs5Changed
    <3>1. \/ TeardownThen("ps5_changed") /\ UNCHANGED evts
          \/ Handled("CONFIG") /\ UNCHANGED cont
      BY <2>3, Zenon DEF TakePs5Changed
    <3>2. UNCHANGED linkVars /\ UNCHANGED <<state, pin>>
      BY <2>3, Zenon DEF TakePs5Changed
    <3>3. CASE TeardownThen("ps5_changed") /\ UNCHANGED evts
      BY <3>2, <3>3
    <3>4. CASE Handled("CONFIG") /\ UNCHANGED cont
      BY <3>2, <3>4
    <3> QED
      BY <3>1, <3>3, <3>4
  <2>4. CASE Ps5Changed
    BY <2>4 DEF Ps5Changed
  <2> QED
    BY <1>7, <2>1, <2>2, <2>3, <2>4
<1>8. CASE TakeLink \/ ReadPin
  <2>1. CASE TakeLink
    BY <2>1 DEF TakeLink
  <2>2. CASE ReadPin
    BY <2>2 DEF ReadPin
  <2> QED
    BY <1>8, <2>1, <2>2
<1>9. CASE RegisterBegins \/ RegisterFails \/ \E saved \in BOOLEAN : Registered(saved)
  BY <1>9 DEF RegisterBegins, RegisterFails, Registered
<1>10. CASE SessionSteps
  <2>1. CASE TakeSessionEvent
    BY <2>1 DEF TakeSessionEvent
  <2>2. CASE SessionConnected
    BY <2>2 DEF SessionConnected
  <2>3. CASE SessionDropped
    BY <2>3 DEF SessionDropped
  <2>4. CASE Reconnect
    BY <2>4 DEF Reconnect
  <2>5. CASE SessionFini
    BY <2>5 DEF SessionFini
  <2>6. CASE SessionFiniReturns
    BY <2>6 DEF SessionFiniReturns
  <2> QED
    BY <1>10, <2>1, <2>2, <2>3, <2>4, <2>5, <2>6 DEF SessionSteps
<1>11. CASE Input
  BY <1>11 DEF Input
<1>12. CASE SwitchSteps
  <2>1. CASE NothingToStart
    BY <2>1 DEF NothingToStart
  <2>2. CASE StartSession
    BY <2>2 DEF StartSession
  <2>3. CASE StartFails
    BY <2>3 DEF StartFails
  <2>4. CASE CannotStart
    BY <2>4 DEF CannotStart
  <2>5. CASE Park
    BY <2>5 DEF Park
  <2> QED
    BY <1>12, <2>1, <2>2, <2>3, <2>4, <2>5 DEF SwitchSteps
<1>13. CASE UNCHANGED vars
  BY <1>13 DEF vars
<1> QED
  BY <1>1, <1>2, <1>3, <1>4, <1>5, <1>6, <1>7, <1>8, <1>9, <1>10, <1>11, <1>12, <1>13
  DEF Next, Usbd, Main, ConfigSteps, LinkSteps

\* A flag is left alone or set to a constant by every step.
LEMMA FlagTypesKept == FlagTypes /\ [Next]_vars => FlagTypes'
<1> SUFFICES ASSUME FlagTypes, [Next]_vars PROVE FlagTypes'
  OBVIOUS
<1> USE DEF FlagTypes, linkVars
<1>1. CASE UsbdConfig \/ Chiaki \/ Driver \/ Buttons
  BY <1>1, Zenon DEF UsbdConfig, Chiaki, Driver, Buttons
<1>2. CASE (\E p \in PinReports : StorePin(p)) \/ GiveLink
  BY <1>2, Zenon DEF StorePin, GiveLink
<1>3. CASE Poll \/ ConnectSteps \/ Input
  BY <1>3, Zenon DEF Poll, ConnectSteps, ConnectNoSsid, Connect, ConnectOk, ConnectDenied,
                     ConnectFails, Input
<1>4. CASE ConfigSteps
  BY <1>4, Zenon DEF ConfigSteps, ConsumeSignal, SnapshotConfig, SaveConfig, TakeWifiChanged,
                     Disconnect, DisconnectReturns, TakePs5Changed, Ps5Changed
<1>5. CASE LinkSteps
  BY <1>5, Zenon DEF LinkSteps, TakeLink, ReadPin, RegisterBegins, RegisterFails, Registered
<1>6. CASE SessionSteps
  BY <1>6, Zenon DEF SessionSteps, TakeSessionEvent, SessionConnected, SessionDropped,
                     Reconnect, SessionFini, SessionFiniReturns
<1>7. CASE SwitchSteps
  BY <1>7, Zenon DEF SwitchSteps, NothingToStart, StartSession, StartFails, CannotStart, Park
<1>8. CASE UNCHANGED vars
  BY <1>8, Zenon DEF vars
<1> QED
  BY <1>1, <1>2, <1>3, <1>4, <1>5, <1>6, <1>7, <1>8 DEF Next, Usbd, Main

LEMMA TypeOKKept == TypeOK /\ SessionInv /\ [Next]_vars => TypeOK'
<1> SUFFICES ASSUME TypeOK, SessionInv, [Next]_vars PROVE TypeOK'
  OBVIOUS
<1>1. H!TypeOK' /\ W!TypeOK'
  BY HandoffStep, HandoffTypes, WifiStep, WifiTypes DEF TypeOK
<1>2. S!TypeOK'
  BY SessionStep, SessionTypes DEF TypeOK
<1>3. MainTypes' /\ FlagTypes'
  BY MainTypesKept, FlagTypesKept DEF TypeOK, MainTypes, FlagTypes
<1> QED
  BY <1>1, <1>2, <1>3, Zenon DEF TypeOK, MainTypes, FlagTypes

\* Every place of the main loop agrees with chiaki's thread: the hard steps are
\* the callbacks, which move while main is anywhere, and SessionConnected, which
\* looks at s_connected a step after the event.
LEMMA SessionInvKept == IInv /\ [Next]_vars => SessionInv'
<1> SUFFICES ASSUME IInv, [Next]_vars PROVE SessionInv'
  OBVIOUS
<1> USE DEF IInv, SessionInv, PlaceInv, EventInv, TypeOK, S!TypeOK, S!ThreadStates
<1> USE DEF S!ConnectedMeansLive, S!NoStaleEvent
<1> USE DEF Handled, NextPlace, TeardownThen, ConnectEnds, handoffVars, sessionVars,
            linkVars, mainVars
<1> USE DEF Place, LinkTaken, Ahead, Between, TornDown, InSession, Places, Events
<1>1. ASSUME UNCHANGED <<connected, sem, thread, state, pc>>
      PROVE  SessionInv'
  BY <1>1
<1>2. CASE UsbdConfig \/ (\E p \in PinReports : StorePin(p)) \/ GiveLink \/ Driver \/
           Buttons \/ ConsumeSignal \/ SnapshotConfig \/ SaveConfig \/ UNCHANGED vars
  BY <1>1, <1>2, Zenon DEF UsbdConfig, StorePin, GiveLink, Driver, Buttons,
                            ConsumeSignal, SnapshotConfig, SaveConfig, vars
<1>3. CASE Chiaki
  <2>1. CASE S!ConnectedFlag
    BY <1>3, <2>1 DEF Chiaki, S!ConnectedFlag
  <2>2. CASE S!ConnectedGive
    BY <1>3, <2>2 DEF Chiaki, S!ConnectedGive
  <2>3. CASE S!QuitFlag
    BY <1>3, <2>3 DEF Chiaki, S!QuitFlag
  <2>4. CASE S!QuitGive
    BY <1>3, <2>4 DEF Chiaki, S!QuitGive
  <2> QED
    BY <1>3, <2>1, <2>2, <2>3, <2>4 DEF Chiaki, S!Chiaki
<1>4. CASE Poll
  BY <1>4 DEF Poll, Ready
<1>5. CASE ConnectNoSsid
  BY <1>5 DEF ConnectNoSsid
<1>6. CASE Connect
  BY <1>6 DEF Connect
<1>7. CASE ConnectOk
  BY <1>7 DEF ConnectOk
<1>8. CASE ConnectDenied
  BY <1>8 DEF ConnectDenied
<1>9. CASE ConnectFails
  BY <1>9 DEF ConnectFails
<1>10. CASE TakeWifiChanged
  BY <1>10 DEF TakeWifiChanged, H!TakeWifi
<1>11. CASE Disconnect
  BY <1>11 DEF Disconnect
<1>12. CASE DisconnectReturns
  BY <1>12 DEF DisconnectReturns
<1>13. CASE TakePs5Changed
  BY <1>13 DEF TakePs5Changed, H!TakePs5
<1>14. CASE Ps5Changed
  BY <1>14 DEF Ps5Changed
<1>15. CASE TakeLink
  BY <1>15 DEF TakeLink
<1>16. CASE ReadPin
  BY <1>16 DEF ReadPin
<1>17. CASE RegisterBegins
  BY <1>17 DEF RegisterBegins
<1>18. CASE RegisterFails
  BY <1>18 DEF RegisterFails
<1>19. CASE \E saved \in BOOLEAN : Registered(saved)
  BY <1>19 DEF Registered
<1>20. CASE TakeSessionEvent
  BY <1>20 DEF TakeSessionEvent, S!TakeEvent
<1>21. CASE SessionConnected
  BY <1>21 DEF SessionConnected
<1>22. CASE SessionDropped
  BY <1>22 DEF SessionDropped
<1>23. CASE Reconnect
  BY <1>23 DEF Reconnect
<1>24. CASE SessionFini
  BY <1>24 DEF SessionFini, S!FiniClear, S!FiniStop, S!FiniStopDead
<1>25. CASE SessionFiniReturns
  BY <1>25 DEF SessionFiniReturns, S!FiniJoin
<1>26. CASE Input
  BY <1>26 DEF Input
<1>27. CASE NothingToStart
  BY <1>27 DEF NothingToStart
<1>28. CASE StartSession
  BY <1>28 DEF StartSession, S!InitStarts
<1>29. CASE StartFails
  BY <1>29 DEF StartFails, S!InitFails
<1>30. CASE CannotStart
  BY <1>30 DEF CannotStart
<1>31. CASE Park
  <2>1. UNCHANGED sessionVars /\ pc' = "poll" /\ state' \in {"UNREGISTERED", "NO_WIFI"}
    BY <1>31, Zenon DEF Park
  <2>2. thread = "none"
    BY <1>31, <2>1 DEF Park
  <2> QED
    BY <2>1, <2>2
<1> QED
  BY <1>2, <1>3, <1>4, <1>5, <1>6, <1>7, <1>8, <1>9, <1>10, <1>11, <1>12, <1>13, <1>14,
     <1>15, <1>16, <1>17, <1>18, <1>19, <1>20, <1>21, <1>22, <1>23, <1>24, <1>25, <1>26,
     <1>27, <1>28, <1>29, <1>30, <1>31
  DEF Next, Usbd, Main, ConnectSteps, ConfigSteps, LinkSteps, SessionSteps, SwitchSteps

\* Handling an event, a teardown and a return from a Wi-Fi connect each lead to
\* a place with fewer events ahead of it.
LEMMA PlaceInvKept == IInv /\ [Next]_vars => PlaceInv'
<1> SUFFICES ASSUME IInv, [Next]_vars PROVE PlaceInv'
  OBVIOUS
<1> USE DEF IInv, PlaceInv, EventInv, TypeOK, H!TypeOK
<1> USE DEF Handled, NextPlace, TeardownThen, ConnectEnds, handoffVars, sessionVars,
            linkVars, mainVars
<1> USE DEF Place, LinkTaken, Ahead, Between, TornDown, InSession, Places, Events
<1>1. ASSUME UNCHANGED <<evts, pc, cont, cfgPc>>
      PROVE  PlaceInv'
  BY <1>1
<1>2. CASE UsbdConfig \/ (\E p \in PinReports : StorePin(p)) \/ GiveLink \/ Chiaki \/
           Driver \/ Buttons \/ SessionFini \/ UNCHANGED vars
  BY <1>1, <1>2, Zenon DEF UsbdConfig, H!StageNet, H!StagePs5, H!Stage, H!FlagWifi,
                            H!FlagPs5, H!RaiseSignal, StorePin, GiveLink, Chiaki,
                            Driver, Buttons, SessionFini, vars
<1>3. CASE Poll
  BY <1>3 DEF Poll, Ready
<1>4. CASE ConnectNoSsid
  BY <1>4 DEF ConnectNoSsid
<1>5. CASE Connect
  BY <1>5 DEF Connect
<1>6. CASE ConnectOk
  BY <1>6 DEF ConnectOk
<1>7. CASE ConnectDenied
  BY <1>7 DEF ConnectDenied
<1>8. CASE ConnectFails
  BY <1>8 DEF ConnectFails
<1>9. CASE ConsumeSignal
  BY <1>9 DEF ConsumeSignal, H!Consume
<1>10. CASE SnapshotConfig
  BY <1>10 DEF SnapshotConfig, H!Snapshot
<1>11. CASE SaveConfig
  BY <1>11 DEF SaveConfig, H!Save, H!NoSnap
<1>12. CASE TakeWifiChanged
  BY <1>12 DEF TakeWifiChanged, H!TakeWifi
<1>13. CASE Disconnect
  BY <1>13 DEF Disconnect
<1>14. CASE DisconnectReturns
  BY <1>14 DEF DisconnectReturns
<1>15. CASE TakePs5Changed
  <2>1. pc = "config" /\ cfgPc' = "idle"
    BY <1>15 DEF TakePs5Changed, H!TakePs5
  <2>2. \/ TeardownThen("ps5_changed") /\ UNCHANGED evts
        \/ Handled("CONFIG") /\ UNCHANGED cont
    BY <1>15, Zenon DEF TakePs5Changed
  <2>3. CASE TeardownThen("ps5_changed") /\ UNCHANGED evts
    BY <2>1, <2>3
  <2>4. CASE Handled("CONFIG") /\ UNCHANGED cont
    BY <2>1, <2>4
  <2> QED
    BY <2>2, <2>3, <2>4
<1>16. CASE Ps5Changed
  BY <1>16 DEF Ps5Changed
<1>17. CASE TakeLink
  BY <1>17 DEF TakeLink
<1>18. CASE ReadPin
  BY <1>18 DEF ReadPin
<1>19. CASE RegisterBegins
  BY <1>19 DEF RegisterBegins
<1>20. CASE RegisterFails
  BY <1>20 DEF RegisterFails
<1>21. CASE \E saved \in BOOLEAN : Registered(saved)
  BY <1>21 DEF Registered
<1>22. CASE TakeSessionEvent
  BY <1>22 DEF TakeSessionEvent, S!TakeEvent
<1>23. CASE SessionConnected
  BY <1>23 DEF SessionConnected
<1>24. CASE SessionDropped
  BY <1>24 DEF SessionDropped
<1>25. CASE Reconnect
  BY <1>25 DEF Reconnect
<1>26. CASE SessionFiniReturns
  BY <1>26 DEF SessionFiniReturns, S!FiniJoin
<1>27. CASE Input
  BY <1>27 DEF Input
<1>28. CASE NothingToStart
  BY <1>28 DEF NothingToStart
<1>29. CASE StartSession
  BY <1>29 DEF StartSession, S!InitStarts
<1>30. CASE StartFails
  BY <1>30 DEF StartFails, S!InitFails
<1>31. CASE CannotStart
  BY <1>31 DEF CannotStart
<1>32. CASE Park
  BY <1>32 DEF Park
<1> QED
  BY <1>2, <1>3, <1>4, <1>5, <1>6, <1>7, <1>8, <1>9, <1>10, <1>11, <1>12, <1>13, <1>14,
     <1>15, <1>16, <1>17, <1>18, <1>19, <1>20, <1>21, <1>22, <1>23, <1>24, <1>25, <1>26,
     <1>27, <1>28, <1>29, <1>30, <1>31, <1>32
  DEF Next, Usbd, Main, ConnectSteps, ConfigSteps, LinkSteps, SessionSteps, SwitchSteps

\* Only the main loop takes from a source, each at a place of its own: a
\* session_init, which empties the semaphore too, finds no event ahead.
LEMMA EventInvKept == IInv /\ [Next]_vars => EventInv'
<1> SUFFICES ASSUME IInv, [Next]_vars PROVE EventInv'
  OBVIOUS
<1> USE DEF IInv, EventInv, PlaceInv, TypeOK
<1> USE DEF Handled, NextPlace, TeardownThen, ConnectEnds, handoffVars, sessionVars,
            linkVars, mainVars
<1> USE DEF Place, LinkTaken, Ahead, Between, TornDown, InSession, Places, Events
<1>1. ASSUME UNCHANGED <<mainVars, cfgPc, signaled, linkSem, sem, inputSem>>
      PROVE  EventInv'
  BY <1>1
<1>2. CASE (\E p \in PinReports : StorePin(p)) \/ Driver \/ SnapshotConfig \/ SaveConfig
           \/ SessionFini \/ UNCHANGED vars
  BY <1>1, <1>2, Zenon DEF StorePin, Driver, SnapshotConfig, H!Snapshot, SaveConfig,
                            H!Save, H!NoSnap, SessionFini, S!FiniClear, S!FiniStop,
                            S!FiniStopDead, vars
<1>3. CASE UsbdConfig
  BY <1>3 DEF UsbdConfig, H!StageNet, H!StagePs5, H!Stage, H!FlagWifi, H!FlagPs5,
              H!RaiseSignal
<1>4. CASE GiveLink
  BY <1>4 DEF GiveLink
<1>5. CASE Chiaki
  BY <1>5 DEF Chiaki, S!Chiaki, S!ConnectedFlag, S!ConnectedGive, S!QuitFlag, S!QuitGive
<1>6. CASE Buttons
  BY <1>6 DEF Buttons
<1>7. CASE Poll
  BY <1>7 DEF Poll, Ready
<1>8. CASE ConnectNoSsid
  BY <1>8 DEF ConnectNoSsid
<1>9. CASE Connect
  BY <1>9 DEF Connect
<1>10. CASE ConnectOk
  BY <1>10 DEF ConnectOk
<1>11. CASE ConnectDenied
  BY <1>11 DEF ConnectDenied
<1>12. CASE ConnectFails
  BY <1>12 DEF ConnectFails
<1>13. CASE ConsumeSignal
  BY <1>13 DEF ConsumeSignal, H!Consume
<1>14. CASE TakeWifiChanged
  BY <1>14 DEF TakeWifiChanged, H!TakeWifi
<1>15. CASE Disconnect
  BY <1>15 DEF Disconnect
<1>16. CASE DisconnectReturns
  BY <1>16 DEF DisconnectReturns
<1>17. CASE TakePs5Changed
  BY <1>17 DEF TakePs5Changed, H!TakePs5
<1>18. CASE Ps5Changed
  BY <1>18 DEF Ps5Changed
<1>19. CASE TakeLink
  BY <1>19 DEF TakeLink
<1>20. CASE ReadPin
  BY <1>20 DEF ReadPin
<1>21. CASE RegisterBegins
  BY <1>21 DEF RegisterBegins
<1>22. CASE RegisterFails
  BY <1>22 DEF RegisterFails
<1>23. CASE \E saved \in BOOLEAN : Registered(saved)
  BY <1>23 DEF Registered
<1>24. CASE TakeSessionEvent
  BY <1>24 DEF TakeSessionEvent, S!TakeEvent
<1>25. CASE SessionConnected
  BY <1>25 DEF SessionConnected
<1>26. CASE SessionDropped
  BY <1>26 DEF SessionDropped
<1>27. CASE Reconnect
  BY <1>27 DEF Reconnect
<1>28. CASE SessionFiniReturns
  BY <1>28 DEF SessionFiniReturns, S!FiniJoin
<1>29. CASE Input
  BY <1>29 DEF Input
<1>30. CASE NothingToStart
  BY <1>30 DEF NothingToStart
<1>31. CASE StartSession
  BY <1>31 DEF StartSession, S!InitStarts
<1>32. CASE StartFails
  BY <1>32 DEF StartFails, S!InitFails
<1>33. CASE CannotStart
  BY <1>33 DEF CannotStart
<1>34. CASE Park
  BY <1>34 DEF Park
<1> QED
  BY <1>2, <1>3, <1>4, <1>5, <1>6, <1>7, <1>8, <1>9, <1>10, <1>11, <1>12, <1>13, <1>14,
     <1>15, <1>16, <1>17, <1>18, <1>19, <1>20, <1>21, <1>22, <1>23, <1>24, <1>25, <1>26,
     <1>27, <1>28, <1>29, <1>30, <1>31, <1>32, <1>33, <1>34
  DEF Next, Usbd, Main, ConnectSteps, ConfigSteps, LinkSteps, SessionSteps, SwitchSteps

\* usbd does one report at a time, so a PIN finds the report before it
\* announced; step 3 then moves it to the snapshot and to s_app_config.
LEMMA LinkInvKept == IInv /\ [Next]_vars => LinkInv'
<1> SUFFICES ASSUME IInv, [Next]_vars PROVE LinkInv'
  OBVIOUS
<1> USE DEF IInv, LinkInv, EventInv, PlaceInv, TypeOK, H!TypeOK
<1> USE DEF Handled, NextPlace, TeardownThen, ConnectEnds, handoffVars, sessionVars,
            linkVars, mainVars
<1> USE DEF Place, LinkTaken, Ahead, Between, TornDown, InSession, Places, Events
<1>1. ASSUME UNCHANGED <<handoffVars, linkVars, mainVars>>
      PROVE  LinkInv'
  BY <1>1
<1>2. CASE Chiaki \/ Driver \/ Buttons \/ SessionFini \/ UNCHANGED vars
  BY <1>1, <1>2, Zenon DEF Chiaki, Driver, Buttons, SessionFini, vars
<1>3. CASE UsbdConfig
  BY <1>3 DEF UsbdConfig, H!StageNet, H!StagePs5, H!Stage, H!FlagWifi, H!FlagPs5,
              H!RaiseSignal
<1>4. CASE \E p \in PinReports : StorePin(p)
  BY <1>4 DEF StorePin
<1>5. CASE GiveLink
  BY <1>5 DEF GiveLink
<1>6. CASE Poll
  BY <1>6 DEF Poll, Ready
<1>7. CASE ConnectNoSsid
  BY <1>7 DEF ConnectNoSsid
<1>8. CASE Connect
  BY <1>8 DEF Connect
<1>9. CASE ConnectOk
  BY <1>9 DEF ConnectOk
<1>10. CASE ConnectDenied
  BY <1>10 DEF ConnectDenied
<1>11. CASE ConnectFails
  BY <1>11 DEF ConnectFails
<1>12. CASE ConsumeSignal
  BY <1>12 DEF ConsumeSignal, H!Consume
<1>13. CASE SnapshotConfig
  BY <1>13 DEF SnapshotConfig, H!Snapshot
<1>14. CASE SaveConfig
  BY <1>14 DEF SaveConfig, H!Save, H!NoSnap
<1>15. CASE TakeWifiChanged
  BY <1>15 DEF TakeWifiChanged, H!TakeWifi
<1>16. CASE Disconnect
  BY <1>16 DEF Disconnect
<1>17. CASE DisconnectReturns
  BY <1>17 DEF DisconnectReturns
<1>18. CASE TakePs5Changed
  BY <1>18 DEF TakePs5Changed, H!TakePs5
<1>19. CASE Ps5Changed
  BY <1>19 DEF Ps5Changed
<1>20. CASE TakeLink
  BY <1>20 DEF TakeLink
<1>21. CASE ReadPin
  BY <1>21 DEF ReadPin
<1>22. CASE RegisterBegins
  BY <1>22 DEF RegisterBegins
<1>23. CASE RegisterFails
  BY <1>23 DEF RegisterFails
<1>24. CASE \E saved \in BOOLEAN : Registered(saved)
  BY <1>24 DEF Registered
<1>25. CASE TakeSessionEvent
  BY <1>25 DEF TakeSessionEvent, S!TakeEvent
<1>26. CASE SessionConnected
  BY <1>26 DEF SessionConnected
<1>27. CASE SessionDropped
  BY <1>27 DEF SessionDropped
<1>28. CASE Reconnect
  BY <1>28 DEF Reconnect
<1>29. CASE SessionFiniReturns
  BY <1>29 DEF SessionFiniReturns, S!FiniJoin
<1>30. CASE Input
  BY <1>30 DEF Input
<1>31. CASE NothingToStart
  BY <1>31 DEF NothingToStart
<1>32. CASE StartSession
  BY <1>32 DEF StartSession, S!InitStarts
<1>33. CASE StartFails
  BY <1>33 DEF StartFails, S!InitFails
<1>34. CASE CannotStart
  BY <1>34 DEF CannotStart
<1>35. CASE Park
  BY <1>35 DEF Park
<1> QED
  BY <1>2, <1>3, <1>4, <1>5, <1>6, <1>7, <1>8, <1>9, <1>10, <1>11, <1>12, <1>13, <1>14,
     <1>15, <1>16, <1>17, <1>18, <1>19, <1>20, <1>21, <1>22, <1>23, <1>24, <1>25, <1>26,
     <1>27, <1>28, <1>29, <1>30, <1>31, <1>32, <1>33, <1>34, <1>35
  DEF Next, Usbd, Main, ConnectSteps, ConfigSteps, LinkSteps, SessionSteps, SwitchSteps

LEMMA Invariance == Spec => []IInv
<1>1. IInv /\ [Next]_vars => IInv'
  BY TypeOKKept, SessionInvKept, PlaceInvKept, EventInvKept, LinkInvKept DEF IInv
<1> QED
  BY InitEstablishes, <1>1, PTL DEF Spec

-----------------------------------------------------------------------------

\* Every variable of the program keeps its type, those of the session, the
\* configuration handoff and the Wi-Fi link included; the main thread is always
\* at a place main()'s text has.
THEOREM TypeCorrect == Spec => []TypeOK
<1>1. IInv => TypeOK
  BY DEF IInv
<1> QED
  BY <1>1, Invariance, PTL

\* Back at its poll, main() knows by the AppState whether there is a session,
\* and is in none of the states it means to pass through.
THEOREM LoopIsSettled == Spec => []SettledAtPoll
<1>1. IInv => SettledAtPoll
  BY DEF IInv, SessionInv, Between, SettledAtPoll
<1> QED
  BY <1>1, Invariance, PTL

\* With one count for two events, none is lost: what main() does not know of
\* its session is announced when it polls.
THEOREM NoEventLost == Spec => []NoLostSessionEvent
<1>1. IInv => NoLostSessionEvent
  BY DEF IInv, SessionInv, Between, NoLostSessionEvent
<1> QED
  BY <1>1, Invariance, PTL

\* Registration runs on every report sent before the PIN it uses, unless that
\* PIN was stored over the one of a click that main() had not come to yet.
THEOREM LinkSeesConfig == Spec => []LinkUsesStagedConfig
<1>1. IInv => LinkUsesStagedConfig
  <2> SUFFICES ASSUME IInv, pc = "link_pin", ~overtaken PROVE unsavedAtPin = "no"
    BY DEF LinkUsesStagedConfig
  <2>1. "LINK" \in evts /\ cfgPc = "idle"
    BY DEF IInv, EventInv, PlaceInv, Place
  <2>2. unsavedAtPin # "staged"
    BY <2>1 DEF IInv, LinkInv, Place, LinkTaken
  <2>3. unsavedAtPin # "snapped"
    BY <2>1 DEF IInv, LinkInv
  <2> QED
    BY <2>2, <2>3 DEF IInv, TypeOK
<1> QED
  BY <1>1, Invariance, PTL

\* No k_sem_take of the loop, nor its reset of the poll signal, is made in vain.
THEOREM NoTakeInVain == Spec => []PolledStaysReady
<1>1. IInv => PolledStaysReady
  BY DEF IInv, EventInv, Place, LinkTaken, PolledStaysReady
<1> QED
  BY <1>1, Invariance, PTL

\* main() uses session.c as Session's Caller does; so what SessionProofs shows
\* of Session holds in the program.
THEOREM SessionContract == Spec => KeepsSessionContract
<1>1. Init => S!Init
  BY DEF Init
<1>2. IInv /\ [Next]_vars => [S!Next]_(S!vars)
  BY SessionStep DEF IInv
<1> QED
  BY <1>1, <1>2, Invariance, PTL DEF Spec, S!Spec, KeepsSessionContract

\* main() and set_report hand configurations over exactly as ConfigHandoff
\* does, teardowns, reconnects and registrations in the middle of step 3
\* included; so what ConfigHandoffProofs shows (no accepted report and no change
\* flag is lost) holds in the program.
THEOREM HandoffContract == Spec => H!Spec
<1>1. Init => H!Init
  BY DEF Init
<1> QED
  BY <1>1, HandoffStep, PTL DEF Spec, H!Spec

\* main() uses the Wi-Fi manager as wifi_manager.h means it: one blocking call
\* at a time, and a connect only with a network.
THEOREM WifiContract == Spec => W!Spec
<1>1. Init => W!Init
  BY DEF Init
<1>2. IInv => H!TypeOK
  BY DEF IInv, TypeOK
<1> QED
  BY <1>1, <1>2, WifiStep, Invariance, PTL DEF Spec, W!Spec
=============================================================================
