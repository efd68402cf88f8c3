---------------------------- MODULE StatusPath ----------------------------
(***************************************************************************)
(* What the controller says about itself: status lines (app/src/status.c), *)
(* pushed as Input Report 4 and served as Feature Report 5, the page that  *)
(* shows them (config-web/code.js), and the status LED                     *)
(* (app/src/led_status.c).                                                 *)
(*                                                                         *)
(* status_logf has one report, one frame and no lock, and two kinds of     *)
(* caller: the main thread, and chiaki's threads (here one at a time),     *)
(* whose errors chiaki_log.c turns into status lines.  The LED is derived  *)
(* anew after each line of main.c (STATUS_LOG) and after a teardown, never *)
(* otherwise.                                                              *)
(*                                                                         *)
(* Texts are left out.  A copy of the report is known by which of its      *)
(* Parts agree with s_status as it is now: a part that is written agrees   *)
(* in no copy any more, a part that is copied does.  A part is written all *)
(* at once, for a copy taken inside it agrees no more than an older one.   *)
(*                                                                         *)
(* The session is module Session.  The main loop is reduced to the lines   *)
(* it logs and to what the LED shows; the events of one iteration are      *)
(* taken one at a time, in any order (AppMain has them in theirs), and     *)
(* whether there is an SSID, a registration, an address is left open.      *)
(*                                                                         *)
(* External: the USB stack holds submitted reports by reference, fetches   *)
(* one from the frame before the host asks for it, and refuses a report    *)
(* when it has no buffer left; its threads preempt the writers and are not *)
(* preempted by them; the driver raises and drops the link; a browser      *)
(* reads input reports from an open device only; chiaki's threads log no   *)
(* more once they are joined.                                              *)
(***************************************************************************)

EXTENDS Naturals, Sequences

CONSTANTS
  Targets, NoTarget,    (* of Session                                      *)
  MaxReports,           (* the buffers of the HID input endpoint           *)
  HistoryMax            (* STATUS_HISTORY_MAX                              *)

ASSUME MaxReportsAssumption == MaxReports \in Nat \ {0}

ASSUME HistoryAssumption == HistoryMax \in Nat \ {0, 1}

VARIABLES
  connected, sem, thread, stopping, target, fini,  (* of Session           *)
  link,       (* wifi_manager_is_connected()                               *)
  state,      (* AppState, so far as logging depends on it                 *)
  todo,       (* what the main thread is going to do in this iteration     *)
  at,         (* where each writer is inside status_logf                   *)
  blank,      (* s_status.message is still empty                           *)
  frame,      (* the parts of s_input_frame that agree with s_status       *)
  queued,     (* reports submitted and not yet fetched from the frame      *)
  loaded,     (* the report that was: <<>>, or <<it agrees>>               *)
  page,       (* where the page is with opening the device                 *)
  answer,     (* what was copied for the page's Report 5 agrees            *)
  history,    (* statusHistory, each entry: it agrees                      *)
  led,        (* s_pattern                                                 *)
  missed,     (* history: the latest line was refused by the USB stack, and*)
              (* the page has not fetched the status since                 *)
  seen        (* history: the link when main last refreshed the LED or came*)
              (* back from a connect or a disconnect                       *)

sessionVars == <<connected, sem, thread, stopping, target, fini>>
mainVars == <<state, todo>>
copies == <<loaded, answer, history>>
reportVars == <<at, blank, frame, missed>>
hostVars == <<queued, page>>
vars == <<sessionVars, link, mainVars, reportVars, hostVars, copies, led, seen>>

S == INSTANCE Session

Writers == {"main", "chiaki"}
Parts == {"flags", "message"}
Patterns == {"no_wifi", "wifi_only", "ps5_connected"}
Steps == {"log", "led", "fini", "leave", "connect", "associate", "retry",
          "register", "look", "init", "request"}

TypeOK ==
  /\ S!TypeOK
  /\ link \in BOOLEAN
  /\ state \in {"waiting", "starting", "connecting", "running"}
  /\ todo \in Seq(Steps)
  /\ at \in [Writers -> {"out", "message", "flags", "copy", "rest", "submit"}]
  /\ blank \in BOOLEAN
  /\ frame \subseteq Parts
  /\ queued \in 0..MaxReports
  /\ loaded \in {<<>>, <<TRUE>>, <<FALSE>>}
  /\ queued + Len(loaded) <= MaxReports
  /\ page \in {"closed", "open", "ask", "answered", "shown"}
  /\ answer \in BOOLEAN
  /\ history \in Seq(BOOLEAN) /\ Len(history) <= HistoryMax
  /\ led \in Patterns
  /\ missed \in BOOLEAN
  /\ seen \in BOOLEAN

\* After status_init and initialize_usb, before the first connect.
Init ==
  /\ S!Init
  /\ link = FALSE
  /\ state = "waiting"
  /\ todo = <<"connect">>
  /\ at = [w \in Writers |-> "out"]
  /\ blank = TRUE
  /\ frame = {}
  /\ queued = 0
  /\ loaded = <<>>
  /\ page = "closed"
  /\ answer = FALSE
  /\ history = <<>>
  /\ led = "no_wifi"
  /\ missed = FALSE
  /\ seen = FALSE

-----------------------------------------------------------------------------
(* status_logf, by either writer.                                          *)

Goes(w, from, to) ==
  /\ at[w] = from
  /\ at' = [at EXCEPT ![w] = to]

\* A part of s_status is written: no copy of it agrees any more.
Write(part) ==
  /\ frame' = frame \ {part}
  /\ loaded' = IF loaded = <<>> THEN <<>> ELSE <<FALSE>>
  /\ answer' = FALSE
  /\ history' = [i \in DOMAIN history |-> FALSE]

\* status_logf is called.
Enter(w) ==
  /\ Goes(w, "out", "message")
  /\ UNCHANGED <<sessionVars, link, mainVars, blank, frame, missed, hostVars,
                 copies, led, seen>>

MainLogs ==
  /\ todo # <<>> /\ Head(todo) = "log"
  /\ Enter("main")

\* chiaki_log_zephyr_cb at CHIAKI_LOG_ERROR, on a thread of the session or of
\* a registration under way.
ChiakiLogs ==
  /\ \/ thread \notin {"none", "exited"}
     \/ todo # <<>> /\ Head(todo) = "register"
  /\ Enter("chiaki")

\* vsnprintf into s_status.message.
Format(w) ==
  /\ Goes(w, "message", "flags")
  /\ Write("message")
  /\ blank' = FALSE
  /\ UNCHANGED <<sessionVars, link, mainVars, missed, hostVars, led, seen>>

\* The version and current_flags().
SetFlags(w) ==
  /\ Goes(w, "flags", "copy")
  /\ Write("flags")
  /\ UNCHANGED <<sessionVars, link, mainVars, blank, missed, hostVars, led, seen>>

\* memcpy into s_input_frame, which the USB stack may still be referring to.
CopyFlags(w) ==
  /\ Goes(w, "copy", "rest")
  /\ frame' = frame \cup {"flags"}
  /\ UNCHANGED <<sessionVars, link, mainVars, blank, missed, hostVars, copies,
                 led, seen>>

CopyMessage(w) ==
  /\ Goes(w, "rest", "submit")
  /\ frame' = frame \cup {"message"}
  /\ UNCHANGED <<sessionVars, link, mainVars, blank, missed, hostVars, copies,
                 led, seen>>

\* hid_device_submit_report; a refusal is logged for debugging and forgotten.
\* With the device open at the host, only a lack of buffers makes for one.
Submit(w) ==
  /\ Goes(w, "submit", "out")
  /\ \/ /\ queued + Len(loaded) < MaxReports
        /\ queued' = queued + 1
        /\ missed' = FALSE
     \/ /\ page = "closed" \/ queued + Len(loaded) = MaxReports
        /\ missed' = TRUE
        /\ UNCHANGED queued
  /\ todo' = IF w = "main" THEN Tail(todo) ELSE todo
  /\ UNCHANGED <<sessionVars, link, state, blank, frame, page, copies, led, seen>>

StatusLogf(w) ==
  \/ Format(w) \/ SetFlags(w)
  \/ CopyFlags(w) \/ CopyMessage(w) \/ Submit(w)

-----------------------------------------------------------------------------
(* The main loop.                                                          *)

Say == <<"log", "led">>

InSession == state \in {"connecting", "running"}

\* teardown_session.  It refreshes the LED again: the line logged before it
\* still found the session connected.
TeardownUnlit == IF InSession THEN <<"fini">> ELSE <<>>
Teardown == IF InSession THEN <<"fini", "led">> ELSE <<>>

aside == <<reportVars, hostVars, copies>>

\* Main does the first step of todo and goes on with s before the others.
Does(step, s) ==
  /\ todo # <<>> /\ Head(todo) = step
  /\ todo' = s \o Tail(todo)

Plan(s, next) ==
  /\ todo = <<>>
  /\ todo' = s
  /\ state' = next

PatternOf(up) == IF ~up THEN "no_wifi"
                 ELSE IF connected THEN "ps5_connected" ELSE "wifi_only"

\* led_status_refresh.
LedRefresh ==
  /\ Does("led", <<>>)
  /\ led' = PatternOf(link)
  /\ seen' = link
  /\ UNCHANGED <<sessionVars, link, state, aside>>

\* EVT_CONFIG.
WifiChanged ==
  /\ Plan(Say \o Teardown \o <<"leave", "connect">>, "waiting")
  /\ UNCHANGED <<sessionVars, link, aside, led, seen>>

Ps5Changed ==
  /\ Plan(Say \o Teardown, "starting")
  /\ UNCHANGED <<sessionVars, link, aside, led, seen>>

\* wifi_manager_disconnect.  It returns early, with the flags as they are, when
\* s_wifi_connected is down, there is no interface or the request is refused.
Leave ==
  /\ Does("leave", <<>>)
  /\ link' \in {link, FALSE}
  /\ seen' = link'
  /\ UNCHANGED <<sessionVars, state, aside, led>>

\* connect_wifi_and_transition.  Only its first look at an empty SSID is worth
\* a line.
ConnectNoSsid ==
  /\ \/ Does("connect", Say)
     \/ Does("retry", <<>>)
  /\ UNCHANGED <<sessionVars, link, state, aside, led, seen>>

ConnectTry ==
  /\ \/ Does("connect", Say \o <<"request">>)
     \/ Does("retry", Say \o <<"request">>)
  /\ UNCHANGED <<sessionVars, link, state, aside, led, seen>>

\* wifi_manager_init_and_connect clears its flags, then asks for a connection.
ConnectBegins ==
  /\ Does("request", <<"associate">>)
  /\ link' = FALSE
  /\ UNCHANGED <<sessionVars, state, aside, led, seen>>

ConnectOk ==
  /\ Does("associate", Say)
  /\ link
  /\ seen' = link
  /\ state' \in {"starting", "waiting"}
  /\ UNCHANGED <<sessionVars, link, aside, led>>

\* A wrong password, or a failure that is retried after a sleep; without an
\* interface it fails before anything is cleared.
ConnectFails ==
  /\ \/ Does("associate", Say)
     \/ \E step \in {"request", "associate"} : Does(step, Say \o <<"retry">>)
  /\ seen' = link
  /\ UNCHANGED <<sessionVars, link, state, aside, led>>

\* EVT_LINK, and what registration_run comes to: a failed save leaves the
\* registration in RAM.  It has joined its thread.
Link ==
  /\ Plan(Say \o Teardown \o <<"register">>, "waiting")
  /\ UNCHANGED <<sessionVars, link, aside, led, seen>>

Registered ==
  /\ Does("register", Say)
  /\ at["chiaki"] = "out"
  /\ state' \in {"starting", "waiting"}
  /\ UNCHANGED <<sessionVars, link, aside, led, seen>>

RegisterFails ==
  /\ Does("register", Say)
  /\ at["chiaki"] = "out"
  /\ UNCHANGED <<sessionVars, link, state, aside, led, seen>>

\* EVT_SESSION.
TakeSessionEvent ==
  /\ Plan(<<"look">>, state)
  /\ S!TakeEvent
  /\ UNCHANGED <<link, aside, led, seen>>

\* SessionUp with the line logged as session.c logs its own.
SessionUpUnlit ==
  /\ connected
  /\ Does("look", <<"log">>)
  /\ state' = "running"
  /\ UNCHANGED <<sessionVars, link, aside, led, seen>>

SessionUp ==
  /\ connected
  /\ Does("look", Say)
  /\ state' = "running"
  /\ UNCHANGED <<sessionVars, link, aside, led, seen>>

SessionDropped ==
  /\ ~connected
  /\ Does("look", Say \o <<"fini">>)
  /\ state' = "starting"
  /\ UNCHANGED <<sessionVars, link, aside, led, seen>>

SessionFini ==
  /\ \/ /\ todo # <<>> /\ Head(todo) = "fini"
        /\ S!FiniClear \/ S!FiniStop \/ S!FiniStopDead
        /\ UNCHANGED todo
     \/ /\ S!FiniJoin
        /\ Does("fini", <<>>)
  /\ UNCHANGED <<link, state, aside, led, seen>>

\* SESSION_STARTING, with or without what a session takes.
StartSession ==
  /\ state = "starting" /\ link
  /\ Plan(Say \o <<"init">>, "starting")
  /\ UNCHANGED <<sessionVars, link, aside, led, seen>>

CannotStart ==
  /\ state = "starting"
  /\ Plan(<<>>, "waiting")
  /\ UNCHANGED <<sessionVars, link, aside, led, seen>>

SessionStarts ==
  /\ Does("init", <<>>)
  /\ \E t \in Targets : S!InitStarts(t)
  /\ state' = "connecting"
  /\ UNCHANGED <<link, aside, led, seen>>

\* chiaki's failures are logged by session.c first; an account id that is
\* missing is not, and leaves the session as it was.
SessionFails ==
  /\ \/ Does("init", <<"log">> \o Say) /\ S!InitFails
     \/ Does("init", Say) /\ UNCHANGED sessionVars
  /\ UNCHANGED <<link, state, aside, led, seen>>

Main ==
  \/ MainLogs \/ StatusLogf("main") \/ LedRefresh
  \/ WifiChanged \/ Ps5Changed \/ Leave
  \/ ConnectNoSsid \/ ConnectTry \/ ConnectBegins \/ ConnectOk \/ ConnectFails
  \/ Link \/ Registered \/ RegisterFails
  \/ TakeSessionEvent \/ SessionUp \/ SessionDropped \/ SessionFini
  \/ StartSession \/ CannotStart \/ SessionStarts \/ SessionFails

-----------------------------------------------------------------------------
(* chiaki's threads and the driver.                                        *)

\* session_event_cb.  The thread exits once its others have.
SessionCallback ==
  /\ S!Chiaki
  /\ thread' = "exited" => at["chiaki"] = "out"
  /\ UNCHANGED <<link, mainVars, aside, led, seen>>

Chiaki == SessionCallback \/ ChiakiLogs \/ StatusLogf("chiaki")

LinkMoves ==
  /\ link' = ~link
  /\ UNCHANGED <<sessionVars, mainVars, aside, led, seen>>

-----------------------------------------------------------------------------
(* The USB stack, the host and the page.                                   *)

beside == <<sessionVars, link, mainVars, reportVars, led, seen>>

\* The controller takes the next report from the frame, whatever it holds.
Load ==
  /\ queued > 0 /\ loaded = <<>>
  /\ loaded' = <<frame = Parts>>
  /\ queued' = queued - 1
  /\ UNCHANGED <<beside, page, answer, history>>

\* add_status_entry, without the shift.
AddedUnshifted(entry) == Append(history, entry)

\* add_status_entry.
Added(entry) ==
  IF Len(history) = HistoryMax THEN Append(Tail(history), entry)
                               ELSE Append(history, entry)

\* Listening once the Report 5 has been answered.
ListeningLate == page = "shown"

\* The page gets input reports from before it asks for the Report 5.
Listening == page \notin {"closed", "open"}

\* handle_input_report, or nobody, if the page has no listener yet.
InputReport ==
  /\ page # "closed" /\ loaded # <<>>
  /\ loaded' = <<>>
  /\ history' = IF Listening THEN Added(Head(loaded)) ELSE history
  /\ UNCHANGED <<beside, hostVars, answer>>

OpenDevice ==
  /\ page = "closed"
  /\ page' = "open"
  /\ UNCHANGED <<beside, queued, copies>>

\* open_device, once the device is open, or is found to be.
Listen ==
  /\ page \in {"open", "shown"}
  /\ page' = "ask"
  /\ history' = <<>>
  /\ UNCHANGED <<beside, queued, loaded, answer>>

\* get_report for Report 5: status_get_report, while a line may be under way.
\* The page does not show an empty message.
GetReport ==
  /\ page = "ask"
  /\ page' = IF blank THEN "shown" ELSE "answered"
  /\ answer' = ~blank
  /\ missed' = FALSE
  /\ UNCHANGED <<sessionVars, link, mainVars, at, blank, frame, led, seen>>
  /\ UNCHANGED <<queued, loaded, history>>

\* fetch_initial_status goes on.
Fetched ==
  /\ page = "answered"
  /\ page' = "shown"
  /\ answer' = FALSE
  /\ history' = Added(answer)
  /\ UNCHANGED <<beside, queued, loaded>>

\* The page is left, or the cable pulled; a report under way fails.
CloseDevice ==
  /\ page # "closed"
  /\ page' = "closed"
  /\ answer' = FALSE
  /\ UNCHANGED <<beside, queued, loaded, history>>

Host == Load \/ InputReport \/ OpenDevice \/ Listen \/ GetReport \/ Fetched \/ CloseDevice

Next == Main \/ Chiaki \/ LinkMoves \/ Host

Spec == Init /\ [][Next]_vars

-----------------------------------------------------------------------------
(* Properties.                                                             *)

\* Main is parked in k_poll and has taken all there was to take.
Parked ==
  /\ todo = <<>> /\ state # "starting"
  /\ sem = 0 /\ thread \notin {"connected_cb", "quit_cb"}

Quiet == \A w \in Writers : at[w] = "out"

\* A page that has finished opening shows the status as it is, whole, whatever
\* lines were written while it was cleared, listened and fetched, however the
\* two writers ran into each other, and although reports are sent by reference
\* from a frame that is rewritten.  It may not be the last entry: the fetched
\* one is added when it arrives.  The one exception is a line that the USB
\* stack refused after the page's fetch: nothing sends it again, and until the
\* next line is pushed the page shows an older one.
PageShowsStatus ==
  /\ page = "shown" /\ Quiet
  /\ queued = 0 /\ loaded = <<>>
  /\ ~missed /\ ~blank
  => \E i \in DOMAIN history : history[i]

\* The LED of a parked controller shows the session as it is, even after lines
\* of chiaki and session.c, which leave the LED as it is, and the link as main
\* last made or found it: every connect, disconnect, connection and teardown has
\* had its refresh.  It does not follow the driver: a link that drops or comes
\* back by itself refreshes nothing, so the LED may then be wrong for as long as
\* main is parked, although src/README.md has it indicate the current state.
LedFollowsMain ==
  Parked => led = PatternOf(seen)

\* Once a session is torn down the LED does not claim it, in whatever main
\* does next: it may wait for Wi-Fi or for a registration for long.
LedLetsGo ==
  /\ thread = "none"
  /\ ~(todo # <<>> /\ Head(todo) = "led")
  => led # "ps5_connected"
=============================================================================
