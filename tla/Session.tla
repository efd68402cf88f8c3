------------------------------ MODULE Session ------------------------------
(***************************************************************************)
(* The Remote Play session (app/src/session.c): the one ChiakiSession, the *)
(* thread chiaki runs for it, and the two calls the main thread makes,     *)
(* session_init() and session_fini().                                      *)
(*                                                                         *)
(* chiaki reports through session_event_cb, which runs on chiaki's thread: *)
(* it writes s_connected and then gives session_event_sem, a semaphore     *)
(* capped at 1, so a QUIT may fall into the same count as the CONNECTED    *)
(* before it.  session_fini() writes s_connected too, asks chiaki to stop, *)
(* and joins the thread; the thread may still deliver events meanwhile.    *)
(*                                                                         *)
(* External: chiaki's thread delivers at most one CONNECTED, and always a  *)
(* QUIT before it exits.                                                   *)
(***************************************************************************)

EXTENDS Naturals

CONSTANTS
  Targets,      (* what a session is started for: account and address      *)
  NoTarget      (* s_session zeroed, or torn down                          *)

ASSUME TargetAssumption == NoTarget \notin Targets

VARIABLES
  connected,    (* s_connected                                             *)
  sem,          (* the count of session_event_sem                          *)
  thread,       (* s_session and chiaki's thread for it                    *)
  stopping,     (* chiaki_session_stop() was called on it                  *)
  target,       (* the connect info s_session was initialised with         *)
  fini          (* where the main thread is inside session_fini            *)

vars == <<connected, sem, thread, stopping, target, fini>>

\* "none": no session object; "exited": the thread is gone, not yet joined.
ThreadStates == {"none", "connecting", "connected_cb", "streaming",
                 "quit_cb", "exited"}

TypeOK ==
  /\ connected \in BOOLEAN
  /\ sem \in 0..1
  /\ thread \in ThreadStates
  /\ stopping \in BOOLEAN
  /\ target \in Targets \cup {NoTarget}
  /\ fini \in {"idle", "stop", "join", "fault"}

Init ==
  /\ connected = FALSE
  /\ sem = 0
  /\ thread = "none"
  /\ stopping = FALSE
  /\ target = NoTarget
  /\ fini = "idle"

\* A session object exists: chiaki_session_fini() is owed for it.
Live == thread # "none"

-----------------------------------------------------------------------------
(* chiaki's thread: session_event_cb.                                      *)

\* CHIAKI_EVENT_CONNECTED, the flag and then the semaphore.
ConnectedFlag ==
  /\ thread = "connecting"
  /\ connected' = TRUE
  /\ thread' = "connected_cb"
  /\ UNCHANGED <<sem, stopping, target, fini>>

ConnectedGive ==
  /\ thread = "connected_cb"
  /\ sem' = 1
  /\ thread' = "streaming"
  /\ UNCHANGED <<connected, stopping, target, fini>>

\* QuitFlag with the reset of s_connected left to session_fini.
QuitFlagKept ==
  /\ thread \in {"connecting", "streaming"}
  /\ thread' = "quit_cb"
  /\ UNCHANGED <<connected, sem, stopping, target, fini>>

\* CHIAKI_EVENT_QUIT: the console or the network ended it, or it was stopped.
QuitFlag ==
  /\ thread \in {"connecting", "streaming"}
  /\ connected' = FALSE
  /\ thread' = "quit_cb"
  /\ UNCHANGED <<sem, stopping, target, fini>>

\* QuitGive on a semaphore without the cap of 1.
QuitGiveUncapped ==
  /\ thread = "quit_cb"
  /\ sem' = sem + 1
  /\ thread' = "exited"
  /\ UNCHANGED <<connected, stopping, target, fini>>

QuitGive ==
  /\ thread = "quit_cb"
  /\ sem' = 1
  /\ thread' = "exited"
  /\ UNCHANGED <<connected, stopping, target, fini>>

-----------------------------------------------------------------------------
(* The main thread.                                                        *)

\* session_init() up to and including the semaphore reset, then
\* chiaki_session_init() or chiaki_session_start() fails: -EIO, object gone.
InitFails ==
  /\ fini = "idle"
  /\ connected' = FALSE
  /\ sem' = 0
  /\ thread' = "none"
  /\ stopping' = FALSE
  /\ target' = NoTarget
  /\ UNCHANGED fini

\* InitStarts without the semaphore reset.
InitStartsUnreset(t) ==
  /\ fini = "idle"
  /\ connected' = FALSE
  /\ thread' = "connecting"
  /\ stopping' = FALSE
  /\ target' = t
  /\ UNCHANGED <<sem, fini>>

\* session_init() succeeds: the thread runs, no event has been delivered.
InitStarts(t) ==
  /\ fini = "idle"
  /\ connected' = FALSE
  /\ sem' = 0
  /\ thread' = "connecting"
  /\ stopping' = FALSE
  /\ target' = t
  /\ UNCHANGED fini

\* k_sem_take(&session_event_sem, K_NO_WAIT) by the main loop.
TakeEvent ==
  /\ fini = "idle"
  /\ sem = 1
  /\ sem' = 0
  /\ UNCHANGED <<connected, thread, stopping, target, fini>>

\* session_fini(), first statement.
FiniClear ==
  /\ fini = "idle"
  /\ connected' = FALSE
  /\ fini' = "stop"
  /\ UNCHANGED <<sem, thread, stopping, target>>

\* FiniStop without chiaki_session_stop(): straight to the join.
FiniStopSkipped ==
  /\ fini = "stop"
  /\ Live
  /\ fini' = "join"
  /\ UNCHANGED <<connected, sem, thread, stopping, target>>

\* chiaki_session_stop() on a session that exists.
FiniStop ==
  /\ fini = "stop"
  /\ Live
  /\ stopping' = TRUE
  /\ fini' = "join"
  /\ UNCHANGED <<connected, sem, thread, target>>

\* session_fini() on a session that was never initialised or has been torn
\* down already works on destroyed chiaki objects.  Undefined: the calls may
\* return having done nothing, or the main thread may never come back.
FiniStopDead ==
  /\ fini = "stop"
  /\ ~Live
  /\ fini' \in {"join", "fault"}
  /\ UNCHANGED <<connected, sem, thread, stopping, target>>

\* FiniJoin that leaves the semaphore as session_init() would.
FiniJoinResets ==
  /\ fini = "join"
  /\ thread \in {"none", "exited"}
  /\ thread' = "none"
  /\ sem' = 0
  /\ stopping' = FALSE
  /\ target' = NoTarget
  /\ fini' = "idle"
  /\ UNCHANGED connected

\* chiaki_session_join() returns once the thread is gone; chiaki_session_fini()
\* then releases the object.
FiniJoin ==
  /\ fini = "join"
  /\ thread \in {"none", "exited"}
  /\ thread' = "none"
  /\ stopping' = FALSE
  /\ target' = NoTarget
  /\ fini' = "idle"
  /\ UNCHANGED <<connected, sem>>

-----------------------------------------------------------------------------

Chiaki == ConnectedFlag \/ ConnectedGive \/ QuitFlag \/ QuitGive

(* The caller: any sequence of calls, except that a session object is not  *)
(* overwritten while it is live (session_init zeroes s_session).  AppMain  *)
(* shows that main() keeps to that.                                        *)
Caller ==
  \/ ~Live /\ InitFails
  \/ ~Live /\ \E t \in Targets : InitStarts(t)
  \/ TakeEvent
  \/ FiniClear
  \/ FiniStop
  \/ FiniStopDead
  \/ FiniJoin

Next == Chiaki \/ Caller

Spec == Init /\ [][Next]_vars

(* A callback once begun is finished and a call once made goes on; a       *)
(* session that was told to stop does quit.  Nothing else is owed: a       *)
(* session may stay connected, or keep connecting, for ever.               *)
Fairness ==
  /\ WF_vars(ConnectedGive \/ QuitGive)
  /\ WF_vars(stopping /\ QuitFlag)
  /\ WF_vars(FiniStop \/ FiniStopDead \/ FiniJoin)

FairSpec == Spec /\ Fairness

-----------------------------------------------------------------------------
(* Properties.                                                             *)

\* s_connected has two writers, chiaki's callback and the main thread, and no
\* lock; still it is up only while chiaki's thread is between CONNECTED and
\* QUIT.  session_send_controller_state() relies on it: it uses s_session
\* whenever s_connected is up.
ConnectedMeansLive == connected => thread \in {"connected_cb", "streaming"}

\* A session that has not given the semaphore yet finds it empty: what an
\* earlier session left in it, such as the QUIT it gave while being joined,
\* never passes for news of this one.
NoStaleEvent == thread \in {"connecting", "connected_cb"} => sem = 0

\* session_fini() always comes back, in whatever state it finds chiaki's
\* thread, callbacks included; the only exception is the call on a session
\* that does not exist.
FiniReturns == fini = "stop" ~> fini \in {"idle", "fault"}
=============================================================================
