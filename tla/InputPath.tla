----------------------------- MODULE InputPath -----------------------------
(***************************************************************************)
(* The way of a button press to the console: the polling thread of         *)
(* app/src/buttons.c, the state and the semaphore it shares with the main  *)
(* thread, and step 6 of the main loop, which passes the state on while a  *)
(* session is running.                                                     *)
(*                                                                         *)
(* The thread reads one GPIO port after the other and stores the three     *)
(* fields of g_controller_state one after the other; the main thread may   *)
(* look at any point of this.  Sessions come and go at any time, as in     *)
(* AppMain; a new one starts from an idle controller.                      *)
(*                                                                         *)
(* External: every pin and port is ready and can be read.                  *)
(***************************************************************************)

CONSTANTS
  Pins,     (* the buttons of the board                                    *)
  L2, R2,   (* the triggers; a board that lacks one never presses it       *)
  Port      (* the GPIO port each pin is on                                *)

ASSUME PortAssumption == DOMAIN Port = Pins

\* ChiakiControllerState, as far as buttons.c sets it.
ControllerState ==
  [buttons : SUBSET (Pins \ {L2, R2}), l2_state : {0, 255}, r2_state : {0, 255}]

Idle == [buttons |-> {}, l2_state |-> 0, r2_state |-> 0]

\* ActivePorts of a buttons_init that keeps overwriting its first entry.
ActivePortsOne == {CHOOSE q \in {Port[p] : p \in Pins} : TRUE}

\* The gpio_ports buttons_init collects, each once for all its pins.
ActivePorts == {Port[p] : p \in Pins}

VARIABLES
  pressed,    (* the pins that are pressed                                 *)
  sampled,    (* gpio_port_states, as the pins that read as pressed        *)
  toRead,     (* the ports read_all_gpio_ports has not read yet            *)
  state,      (* g_controller_state                                        *)
  prev,       (* prev_buttons, prev_l2, prev_r2                            *)
  at,         (* where the polling thread is                               *)
  inputSem,   (* the count of g_input_sem is 1                             *)
  sending,    (* step 6 has taken the semaphore and not looked yet         *)
  running,    (* main's state is SESSION_RUNNING                           *)
  connected,  (* s_connected                                               *)
  console,    (* what the session was last told                            *)
  seen,       (* history: the state when step 6 last looked                *)
  sent        (* history: that was in this session, and was passed on      *)

threadVars == <<sampled, toRead, state, prev, at>>
sessionVars == <<running, connected, console>>
historyVars == <<seen, sent>>
vars == <<pressed, threadVars, inputSem, sending, sessionVars, historyVars>>

TypeOK ==
  /\ pressed \subseteq Pins
  /\ sampled \subseteq Pins
  /\ toRead \subseteq ActivePorts
  /\ state \in ControllerState
  /\ prev \in ControllerState
  /\ at \in {"sleep", "read", "buttons", "l2", "r2", "compare"}
  /\ inputSem \in BOOLEAN
  /\ sending \in BOOLEAN
  /\ running \in BOOLEAN
  /\ connected \in BOOLEAN
  /\ console \in ControllerState
  /\ seen \in ControllerState
  /\ sent \in BOOLEAN

\* buttons_init is done.
Init ==
  /\ pressed = {}
  /\ sampled = {}
  /\ toRead = {}
  /\ state = Idle
  /\ prev = Idle
  /\ at = "sleep"
  /\ inputSem = FALSE
  /\ sending = FALSE
  /\ running = FALSE
  /\ connected = FALSE
  /\ console = Idle
  /\ seen = Idle
  /\ sent = FALSE

-----------------------------------------------------------------------------
(* The player.                                                             *)

Toggle(p) ==
  /\ pressed' = IF p \in pressed THEN pressed \ {p} ELSE pressed \cup {p}
  /\ UNCHANGED <<threadVars, inputSem, sending, sessionVars, historyVars>>

-----------------------------------------------------------------------------
(* The polling thread: buttons_thread_fn and buttons_apply.                *)

ThreadAlone == UNCHANGED <<pressed, sending, sessionVars, historyVars>>

Wake ==
  /\ at = "sleep"
  /\ at' = "read"
  /\ prev' = state
  /\ toRead' = ActivePorts
  /\ UNCHANGED <<sampled, state, inputSem>>
  /\ ThreadAlone

ReadPort(q) ==
  /\ at = "read"
  /\ q \in toRead
  /\ sampled' = {p \in Pins : p \in IF Port[p] = q THEN pressed ELSE sampled}
  /\ toRead' = toRead \ {q}
  /\ at' = IF toRead' = {} THEN "buttons" ELSE "read"
  /\ UNCHANGED <<state, prev, inputSem>>
  /\ ThreadAlone

StoreButtons ==
  /\ at = "buttons"
  /\ state' = [state EXCEPT !.buttons = sampled \ {L2, R2}]
  /\ at' = "l2"
  /\ UNCHANGED <<sampled, toRead, prev, inputSem>>
  /\ ThreadAlone

\* A digital trigger is released or fully pressed.
Trigger(p) == IF p \in sampled THEN 255 ELSE 0

\* Trigger as the truth value of the reading.
TriggerRaw(p) == IF p \in sampled THEN 1 ELSE 0

StoreL2Raw ==
  /\ at = "l2"
  /\ state' = [state EXCEPT !.l2_state = TriggerRaw(L2)]
  /\ at' = "r2"
  /\ UNCHANGED <<sampled, toRead, prev, inputSem>>
  /\ ThreadAlone

StoreL2 ==
  /\ at = "l2"
  /\ state' = [state EXCEPT !.l2_state = Trigger(L2)]
  /\ at' = "r2"
  /\ UNCHANGED <<sampled, toRead, prev, inputSem>>
  /\ ThreadAlone

StoreR2 ==
  /\ at = "r2"
  /\ state' = [state EXCEPT !.r2_state = Trigger(R2)]
  /\ at' = "compare"
  /\ UNCHANGED <<sampled, toRead, prev, inputSem>>
  /\ ThreadAlone

\* Compare that overlooks the triggers.
CompareButtons ==
  /\ at = "compare"
  /\ inputSem' = (inputSem \/ state.buttons # prev.buttons)
  /\ at' = "sleep"
  /\ UNCHANGED <<sampled, toRead, state, prev>>
  /\ ThreadAlone

Compare ==
  /\ at = "compare"
  /\ inputSem' = (inputSem \/ state # prev)
  /\ at' = "sleep"
  /\ UNCHANGED <<sampled, toRead, state, prev>>
  /\ ThreadAlone

-----------------------------------------------------------------------------
(* Step 6 of the main loop.                                                *)

TakeInput ==
  /\ inputSem
  /\ ~sending
  /\ inputSem' = FALSE
  /\ sending' = TRUE
  /\ UNCHANGED <<pressed, threadVars, sessionVars, historyVars>>

\* session_send_controller_state, if the session is running.
SendInput ==
  /\ sending
  /\ sending' = FALSE
  /\ seen' = state
  /\ sent' = (running /\ connected)
  /\ console' = IF running /\ connected THEN state ELSE console
  /\ UNCHANGED <<pressed, threadVars, inputSem, running, connected>>

-----------------------------------------------------------------------------
(* Sessions, as AppMain has them.  The main thread is not in step 6 when it *)
(* works on one.                                                           *)

SessionAlone == UNCHANGED <<pressed, threadVars, inputSem, sending, seen>>

\* chiaki's callback sets s_connected; the new session's controller is idle.
SessionConnects ==
  /\ ~connected
  /\ ~running
  /\ connected' = TRUE
  /\ console' = Idle
  /\ sent' = FALSE
  /\ UNCHANGED running
  /\ SessionAlone

\* Step 5.
SessionRuns ==
  /\ connected
  /\ ~running
  /\ ~sending
  /\ running' = TRUE
  /\ UNCHANGED <<connected, console, sent>>
  /\ SessionAlone

\* chiaki's callback; main's state follows later.
SessionQuits ==
  /\ connected
  /\ connected' = FALSE
  /\ UNCHANGED <<running, console, sent>>
  /\ SessionAlone

\* session_fini, in step 3, 4 or 5.
SessionTornDown ==
  /\ ~sending
  /\ connected \/ running
  /\ connected' = FALSE
  /\ running' = FALSE
  /\ UNCHANGED <<console, sent>>
  /\ SessionAlone

-----------------------------------------------------------------------------

Player == \E p \in Pins : Toggle(p)

Buttons ==
  \/ Wake
  \/ \E q \in ActivePorts : ReadPort(q)
  \/ StoreButtons \/ StoreL2 \/ StoreR2 \/ Compare

MainInput == TakeInput \/ SendInput

Session == SessionConnects \/ SessionRuns \/ SessionQuits \/ SessionTornDown

Next == Player \/ Buttons \/ MainInput \/ Session

Spec == Init /\ [][Next]_vars

(* The polling thread wakes every 4 ms, and the main thread comes to its   *)
(* step 6.                                                                 *)
Fairness == WF_vars(Buttons) /\ WF_vars(MainInput)

FairSpec == Spec /\ Fairness

-----------------------------------------------------------------------------
(* Properties.                                                             *)

\* The thread sleeps and the main thread has no input to look at.
AtRest == at = "sleep" /\ ~inputSem /\ ~sending

\* However the reads, the stores and the main thread interleave, nothing the
\* thread has stored goes unnoticed, and a half-stored state the console was
\* sent has been followed by the whole one.
NoLostInput == AtRest => (seen = state /\ (sent => console = state))

\* Ready for input, as far as step 6 can tell.
Streaming == running /\ connected

PressedPins(s) ==
  s.buttons \cup (IF s.l2_state = 255 THEN {L2} ELSE {})
            \cup (IF s.r2_state = 255 THEN {R2} ELSE {})

\* A button pressed during a session, and held, gets to the console.  (One
\* held since before the session need not: its wake-up is consumed already.)
PressArrives ==
  \A p \in Pins :
    (Streaming /\ p \in pressed /\ p \notin PressedPins(state))
      ~> (p \in PressedPins(console) \/ p \notin pressed \/ ~Streaming)
=============================================================================
