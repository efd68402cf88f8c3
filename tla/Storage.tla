------------------------------ MODULE Storage ------------------------------
(***************************************************************************)
(* What the controller remembers (app/src/settings.c) and how it learns    *)
(* its registration (app/src/registration.c), over power cuts, flash       *)
(* writes that fail and entries that cannot be read back.                  *)
(*                                                                         *)
(* Both the configuration and the registered host live in RAM and in       *)
(* flash.  A save replaces the RAM copy first, then writes flash.  Boot    *)
(* fills RAM from flash and seeds the staging copy of main.c from RAM.  A  *)
(* registration is a conversation of chiaki's own thread with the console; *)
(* the main thread waits for its callback without a timeout.               *)
(*                                                                         *)
(* The configuration is reduced to the two halves that Report 1 and Report *)
(* 2 replace; ConfigHandoff has the flags that go with them.               *)
(*                                                                         *)
(* External: a flash write is atomic, an entry that cannot be read leaves  *)
(* RAM as it was, and chiaki calls back exactly once, with a host if it    *)
(* succeeded.                                                              *)
(***************************************************************************)

CONSTANTS
  Nets,      (* what a Report 1 makes of the Wi-Fi half                    *)
  Ps5s,      (* what a Report 2 makes of the PS5 half                      *)
  Empty,     (* a half that was never sent                                 *)
  Keys,      (* the hosts a console may register the controller with       *)
  NoKey,     (* no registration                                            *)
  Torn       (* a host that has been copied in part                        *)

ASSUME EmptyAssumption == Empty \notin Nets \cup Ps5s

ASSUME KeyAssumption == NoKey \notin Keys /\ Torn \notin Keys /\ NoKey # Torn

Config == [net : Nets \cup {Empty}, ps5 : Ps5s \cup {Empty}]

NoConfig == [net |-> Empty, ps5 |-> Empty]

VARIABLES
  pending,     (* s_pending_cfg of main.c                                  *)
  savePending, (* s_cfg_save_pending                                       *)
  app,         (* s_app_config                                             *)
  host,        (* settings.c's s_registered_host; NoKey if it has none     *)
  flashConfig, (* the entry ps5/config                                     *)
  flashHost,   (* the entry ps5/host                                       *)
  pc,          (* where the main thread is                                 *)
  result,      (* what the latest registration_run returned; none until it  *)
               (* has                                                       *)
  thread,      (* where chiaki's registration thread is                    *)
  regSem,      (* the count of s_regist_sem is 1                           *)
  regType,     (* s_regist_event_type                                      *)
  regHost,     (* registration.c's s_registered_host                       *)
  delivered,   (* history: the host the console delivered last             *)
  unsynced     (* history: the entries whose latest write or read failed   *)

flashVars == <<flashConfig, flashHost>>
configVars == <<pending, savePending, app>>
regVars == <<thread, regSem, regType, regHost, delivered>>
vars == <<configVars, host, flashVars, pc, result, regVars, unsynced>>

TypeOK ==
  /\ pending \in Config
  /\ savePending \in BOOLEAN
  /\ app \in Config
  /\ host \in Keys \cup {NoKey, Torn}
  /\ flashConfig \in Config
  /\ flashHost \in Keys \cup {NoKey, Torn}
  /\ pc \in {"off", "idle", "write_config", "wait", "join", "save_host", "write_host"}
  /\ result \in {"none", "linked", "failed"}
  /\ thread \in {"none", "talking", "success", "copying", "give", "ended"}
  /\ regSem \in BOOLEAN
  /\ regType \in {"none", "success", "failed"}
  /\ regHost \in Keys \cup {NoKey, Torn}
  /\ delivered \in Keys \cup {NoKey}
  /\ unsynced \subseteq {"config", "host"}

\* A controller fresh from the factory, not yet booted.
Init ==
  /\ pending = NoConfig
  /\ savePending = FALSE
  /\ app = NoConfig
  /\ host = NoKey
  /\ flashConfig = NoConfig
  /\ flashHost = NoKey
  /\ pc = "off"
  /\ result = "none"
  /\ thread = "none"
  /\ regSem = FALSE
  /\ regType = "none"
  /\ regHost = NoKey
  /\ delivered = NoKey
  /\ unsynced = {}

-----------------------------------------------------------------------------
(* Power.                                                                  *)

\* Everything but flash is gone, in whatever the threads were doing.
PowerCut ==
  /\ pc # "off"
  /\ pc' = "off"
  /\ pending' = NoConfig
  /\ savePending' = FALSE
  /\ app' = NoConfig
  /\ host' = NoKey
  /\ result' = "none"
  /\ thread' = "none"
  /\ regSem' = FALSE
  /\ regType' = "none"
  /\ regHost' = NoKey
  /\ delivered' = NoKey
  /\ UNCHANGED <<flashVars, unsynced>>

\* app_settings_init, given the entries that could not be read or had another
\* size; then main seeds its staging copy.  (When settings_subsys_init fails,
\* main returns: the controller stays off.)
Load(unread) ==
  /\ pc = "off"
  /\ pc' = "idle"
  /\ app' = IF "config" \in unread THEN NoConfig ELSE flashConfig
  /\ host' = IF "host" \in unread THEN NoKey ELSE flashHost
  /\ unsynced' = unread
  /\ UNCHANGED <<savePending, flashVars, result, regVars>>

\* Boot that takes the seed before settings are loaded.
BootSeedsFirst(unread) == Load(unread) /\ pending' = app

Boot(unread) == Load(unread) /\ pending' = app'

-----------------------------------------------------------------------------
(* The configuration: set_report stages, step 3 saves.                     *)

StageNet(n) ==
  /\ pc # "off"
  /\ pending' = [pending EXCEPT !.net = n]
  /\ savePending' = TRUE
  /\ UNCHANGED <<app, host, flashVars, pc, result, regVars, unsynced>>

StagePs5(p) ==
  /\ pc # "off"
  /\ pending' = [pending EXCEPT !.ps5 = p]
  /\ savePending' = TRUE
  /\ UNCHANGED <<app, host, flashVars, pc, result, regVars, unsynced>>

\* Step 3 up to the write: the RAM copy is replaced whatever comes of it.
SaveConfig ==
  /\ pc = "idle"
  /\ savePending
  /\ savePending' = FALSE
  /\ app' = pending
  /\ pc' = "write_config"
  /\ UNCHANGED <<pending, host, flashVars, result, regVars, unsynced>>

\* settings_save_one writes an entry, or fails.
Synced(entry, ok) == unsynced' = IF ok THEN unsynced \ {entry} ELSE unsynced \cup {entry}

\* WriteConfig that leaves an entry alone once there is one.
WriteConfigOnce(ok) ==
  /\ pc = "write_config"
  /\ flashConfig' = IF ok /\ flashConfig = NoConfig THEN app ELSE flashConfig
  /\ Synced("config", ok)
  /\ pc' = "idle"
  /\ UNCHANGED <<configVars, host, flashHost, result, regVars>>

\* The result is dropped by step 3.
WriteConfig(ok) ==
  /\ pc = "write_config"
  /\ flashConfig' = IF ok THEN app ELSE flashConfig
  /\ Synced("config", ok)
  /\ pc' = "idle"
  /\ UNCHANGED <<configVars, host, flashHost, result, regVars>>

-----------------------------------------------------------------------------
(* registration_run, from the point where the request is known to be valid *)
(* (AppMain has the checks before it).                                     *)

StartRegistration ==
  /\ pc = "idle"
  /\ thread' = "talking"
  /\ pc' = "wait"
  /\ result' = "none"
  /\ UNCHANGED <<regSem, regType, regHost, delivered>>
  /\ UNCHANGED <<configVars, host, flashVars, unsynced>>

\* chiaki_regist_start failed, or one of the checks.
StartFails ==
  /\ pc = "idle"
  /\ result' = "failed"
  /\ UNCHANGED <<configVars, host, flashVars, pc, regVars, unsynced>>

\* k_sem_take(K_FOREVER).
TakeRegSem ==
  /\ pc = "wait"
  /\ regSem
  /\ regSem' = FALSE
  /\ pc' = "join"
  /\ UNCHANGED <<thread, regType, regHost, delivered>>
  /\ UNCHANGED <<configVars, host, flashVars, result, unsynced>>

\* chiaki_regist_fini joins the thread; then the type the callback left.
RegistrationDone ==
  /\ pc = "join"
  /\ thread = "ended"
  /\ thread' = "none"
  /\ IF regType = "success" THEN pc' = "save_host" /\ UNCHANGED result
                            ELSE pc' = "idle" /\ result' = "failed"
  /\ UNCHANGED <<regSem, regType, regHost, delivered>>
  /\ UNCHANGED <<configVars, host, flashVars, unsynced>>

\* settings_save_registration: RAM first.
SaveHost ==
  /\ pc = "save_host"
  /\ host' = regHost
  /\ pc' = "write_host"
  /\ UNCHANGED <<configVars, flashVars, result, regVars, unsynced>>

\* WriteHost for a registration_run that drops the result of the save.
WriteHostUnchecked(ok) ==
  /\ pc = "write_host"
  /\ flashHost' = IF ok THEN regHost ELSE flashHost
  /\ Synced("host", ok)
  /\ result' = "linked"
  /\ pc' = "idle"
  /\ UNCHANGED <<configVars, host, flashConfig, regVars>>

\* WriteHost that returns the wrong variable when the save failed.
WriteHostWrongError(ok) ==
  /\ pc = "write_host"
  /\ flashHost' = IF ok THEN regHost ELSE flashHost
  /\ Synced("host", ok)
  /\ result' = IF ok THEN "linked" ELSE regType
  /\ pc' = "idle"
  /\ UNCHANGED <<configVars, host, flashConfig, regVars>>

WriteHost(ok) ==
  /\ pc = "write_host"
  /\ flashHost' = IF ok THEN regHost ELSE flashHost
  /\ Synced("host", ok)
  /\ result' = IF ok THEN "linked" ELSE "failed"
  /\ pc' = "idle"
  /\ UNCHANGED <<configVars, host, flashConfig, regVars>>

-----------------------------------------------------------------------------
(* chiaki's thread: the conversation ends, and regist_callback stores the  *)
(* type, copies the host and gives the semaphore.                          *)

ConsoleRegisters(k) ==
  /\ thread = "talking"
  /\ thread' = "success"
  /\ regType' = "success"
  /\ delivered' = k
  /\ UNCHANGED <<regSem, regHost>>
  /\ UNCHANGED <<configVars, host, flashVars, pc, result, unsynced>>

\* ConsoleRefuses for a callback that gives the semaphore on success alone.
ConsoleRefusesSilently ==
  /\ thread = "talking"
  /\ thread' = "ended"
  /\ regType' = "failed"
  /\ UNCHANGED <<regSem, regHost, delivered>>
  /\ UNCHANGED <<configVars, host, flashVars, pc, result, unsynced>>

\* Failed or cancelled.
ConsoleRefuses ==
  /\ thread = "talking"
  /\ thread' = "give"
  /\ regType' = "failed"
  /\ UNCHANGED <<regSem, regHost, delivered>>
  /\ UNCHANGED <<configVars, host, flashVars, pc, result, unsynced>>

\* CopyBegins with the semaphore given before the copy is complete.
CopyBeginsAfterGive ==
  /\ thread = "success"
  /\ thread' = "ended"
  /\ regHost' = Torn
  /\ regSem' = TRUE
  /\ UNCHANGED <<regType, delivered>>
  /\ UNCHANGED <<configVars, host, flashVars, pc, result, unsynced>>

CopyBegins ==
  /\ thread = "success"
  /\ thread' = "copying"
  /\ regHost' = Torn
  /\ UNCHANGED <<regSem, regType, delivered>>
  /\ UNCHANGED <<configVars, host, flashVars, pc, result, unsynced>>

CopyEnds ==
  /\ thread = "copying"
  /\ thread' = "give"
  /\ regHost' = delivered
  /\ UNCHANGED <<regSem, regType, delivered>>
  /\ UNCHANGED <<configVars, host, flashVars, pc, result, unsynced>>

GiveRegSem ==
  /\ thread = "give"
  /\ thread' = "ended"
  /\ regSem' = TRUE
  /\ UNCHANGED <<regType, regHost, delivered>>
  /\ UNCHANGED <<configVars, host, flashVars, pc, result, unsynced>>

-----------------------------------------------------------------------------

Usbd == (\E n \in Nets : StageNet(n)) \/ (\E p \in Ps5s : StagePs5(p))

Saving == SaveConfig \/ \E ok \in BOOLEAN : WriteConfig(ok)

Linking ==
  \/ StartRegistration \/ StartFails \/ TakeRegSem \/ RegistrationDone \/ SaveHost
  \/ \E ok \in BOOLEAN : WriteHost(ok)

Main == (\E unread \in SUBSET {"config", "host"} : Boot(unread)) \/ Saving \/ Linking

Chiaki ==
  \/ \E k \in Keys : ConsoleRegisters(k)
  \/ ConsoleRefuses \/ CopyBegins \/ CopyEnds \/ GiveRegSem

Next == PowerCut \/ Usbd \/ Main \/ Chiaki

Spec == Init /\ [][Next]_vars

(* The main thread is scheduled, and chiaki ends its conversation: it has  *)
(* timeouts of its own.  The power may stay or fail.                       *)
Fairness == WF_vars(Main) /\ WF_vars(Chiaki)

FairSpec == Spec /\ Fairness

-----------------------------------------------------------------------------
(* Properties.                                                             *)

\* A save that is not interrupted leaves RAM and flash the same, so that a
\* reboot changes nothing the program runs on, unless the entry's latest
\* access failed: for every order of saves, failures and power cuts.
FlashFollowsRam ==
  pc = "idle" =>
    /\ "config" \in unsynced \/ app = flashConfig
    /\ "host" \in unsynced \/ host = flashHost

\* "Linked with PS5 successfully." is shown for a registration that survives
\* a power cut, and for the one the console has just granted.
LinkedIsStored == result = "linked" => flashHost = delivered

\* The callback's copy is made on another thread; neither the session nor
\* flash ever gets a part of it.
NoTornHost == Torn \notin {host, flashHost}

\* What is in flash was seen by the host page or by boot: a half that was
\* stored is replaced by another report, never wiped, so long as the latest
\* access to the entry succeeded.  Nothing is said of an entry that boot could
\* not read, over which the staging copy was seeded with nothing, nor of the
\* write that follows one that failed.
StoredHalfKept ==
  [][\/ "config" \in unsynced
     \/ /\ flashConfig.net # Empty => flashConfig'.net # Empty
        /\ flashConfig.ps5 # Empty => flashConfig'.ps5 # Empty]_vars

\* The wait in the main loop ends, though it has no timeout.
RegistrationEnds == pc = "wait" ~> pc # "wait"
=============================================================================
