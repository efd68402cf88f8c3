--------------------------- MODULE ConfigHandoff ---------------------------
(***************************************************************************)
(* How a configuration travels from the USB thread to the main thread      *)
(* (app/src/main.c: set_report and step 3 of the main loop).               *)
(*                                                                         *)
(* set_report() runs on the "usbd" thread and must not block on a flash    *)
(* write, so it merges each report into the staging copy s_pending_cfg     *)
(* under s_cfg_mutex, then sets a "changed" flag, then raises a poll       *)
(* signal.  The main thread clears the signal, snapshots the staging copy  *)
(* under the mutex, saves the snapshot, and only then looks at the flags.  *)
(* Every access of a shared variable outside the mutex is a step of its    *)
(* own; a critical section is one step.                                    *)
(***************************************************************************)

CONSTANTS
  Empty,        (* the empty string, and the all-zero account id           *)
  Ssids,        (* network names                                           *)
  Passwords,    (* network passwords                                       *)
  Accounts,     (* PSN account ids                                         *)
  Hosts         (* console addresses                                       *)

ASSUME EmptyAssumption ==
  Empty \notin Ssids \cup Passwords \cup Accounts \cup Hosts

\* AppConfig of settings.h
Config == [ssid     : Ssids \cup {Empty},
           password : Passwords \cup {Empty},
           account  : Accounts \cup {Empty},
           ip       : Hosts \cup {Empty}]

\* A valid Report 1: either string may be empty.
NetReport == [ssid : Ssids \cup {Empty}, password : Passwords \cup {Empty}]

\* A valid Report 2: the address is printed from four bytes, so the string
\* "a.b.c.d" it becomes is never the empty one.
Ps5Report == [account : Accounts \cup {Empty}, ip : Hosts]

VARIABLES
  pending,      (* s_pending_cfg, guarded by s_cfg_mutex                   *)
  savePending,  (* s_cfg_save_pending, guarded by s_cfg_mutex              *)
  wifiChanged,  (* s_wifi_changed                                          *)
  ps5Changed,   (* s_ps5_cfg_changed                                       *)
  signaled,     (* s_config_signal.signaled                                *)
  app,          (* s_app_config of settings.c: what the program runs on    *)
  usb,          (* where the usbd thread is inside set_report              *)
  cfgPc,        (* where the main thread is inside step 3                  *)
  snap          (* step 3's locals save_pending and cfg_to_save            *)

vars == <<pending, savePending, wifiChanged, ps5Changed, signaled, app,
          usb, cfgPc, snap>>

NoSnap == [save |-> FALSE,
           cfg  |-> [ssid |-> Empty, password |-> Empty,
                     account |-> Empty, ip |-> Empty]]

\* The fields of a configuration are of disjoint kinds, so this also says that
\* no merge, snapshot or save puts one field's value into another.
TypeOK ==
  /\ pending \in Config
  /\ savePending \in BOOLEAN
  /\ wifiChanged \in BOOLEAN
  /\ ps5Changed \in BOOLEAN
  /\ signaled \in BOOLEAN
  /\ app \in Config
  /\ usb \in {"idle", "flag_wifi", "flag_ps5", "raise"}
  /\ cfgPc \in {"idle", "snapshot", "save", "wifi", "ps5"}
  /\ snap \in [save : BOOLEAN, cfg : Config]

\* The staging copy is seeded at boot from whatever flash held.
Init ==
  /\ app \in Config
  /\ pending = app
  /\ savePending = FALSE
  /\ wifiChanged = FALSE
  /\ ps5Changed = FALSE
  /\ signaled = FALSE
  /\ usb = "idle"
  /\ cfgPc = "idle"
  /\ snap = NoSnap

-----------------------------------------------------------------------------
(* The usbd thread: set_report(), one call at a time.                      *)

\* MergeNet as it would be if set_report re-read the live configuration.
MergeNetReseeded(cfg, rep) ==
  [app EXCEPT !.ssid     = rep.ssid,
              !.password = IF rep.password # Empty THEN rep.password ELSE cfg.password]

\* MergeNet whose second strncpy was pasted from the first, destination and
\* all: the password ends up in wifi_ssid.
MergeNetPasted(cfg, rep) ==
  [cfg EXCEPT !.ssid = IF rep.password # Empty THEN rep.password ELSE rep.ssid]

\* The merge of Report 1: an empty password means "keep the one you have".
MergeNet(cfg, rep) ==
  [cfg EXCEPT !.ssid     = rep.ssid,
              !.password = IF rep.password # Empty THEN rep.password ELSE @]

MergePs5(cfg, rep) ==
  [cfg EXCEPT !.account = rep.account, !.ip = rep.ip]

\* Stage with the staging copy marked as unsaved only by a changed report.
StageUnsavedIfChanged(merged, flag) ==
  /\ usb = "idle"
  /\ pending' = merged
  /\ savePending' = (merged # pending)
  /\ usb' = IF merged # pending THEN flag ELSE "raise"
  /\ UNCHANGED <<wifiChanged, ps5Changed, signaled, app, cfgPc, snap>>

\* The critical section both reports share: merge, compare, mark as unsaved.
\* The flag is left for the next step, and only if something changed.
Stage(merged, flag) ==
  /\ usb = "idle"
  /\ pending' = merged
  /\ savePending' = TRUE
  /\ usb' = IF merged # pending THEN flag ELSE "raise"
  /\ UNCHANGED <<wifiChanged, ps5Changed, signaled, app, cfgPc, snap>>

StageNet(rep) == Stage(MergeNet(pending, rep), "flag_wifi")
StagePs5(rep) == Stage(MergePs5(pending, rep), "flag_ps5")

FlagWifi ==
  /\ usb = "flag_wifi"
  /\ wifiChanged' = TRUE
  /\ usb' = "raise"
  /\ UNCHANGED <<pending, savePending, ps5Changed, signaled, app, cfgPc, snap>>

FlagPs5 ==
  /\ usb = "flag_ps5"
  /\ ps5Changed' = TRUE
  /\ usb' = "raise"
  /\ UNCHANGED <<pending, savePending, wifiChanged, signaled, app, cfgPc, snap>>

\* RaiseSignal that only wakes a main thread that is at its poll.
RaiseSignalIfPolled ==
  /\ usb = "raise"
  /\ signaled' = (cfgPc = "idle")
  /\ usb' = "idle"
  /\ UNCHANGED <<pending, savePending, wifiChanged, ps5Changed, app, cfgPc, snap>>

RaiseSignal ==
  /\ usb = "raise"
  /\ signaled' = TRUE
  /\ usb' = "idle"
  /\ UNCHANGED <<pending, savePending, wifiChanged, ps5Changed, app, cfgPc, snap>>

-----------------------------------------------------------------------------
(* The main thread: step 3 of the main loop, entered with the signal up.   *)

Consume ==
  /\ cfgPc = "idle"
  /\ signaled
  /\ signaled' = FALSE
  /\ cfgPc' = "snapshot"
  /\ UNCHANGED <<pending, savePending, wifiChanged, ps5Changed, app, usb, snap>>

Snapshot ==
  /\ cfgPc = "snapshot"
  /\ snap' = [save |-> savePending, cfg |-> pending]
  /\ savePending' = FALSE
  /\ cfgPc' = "save"
  /\ UNCHANGED <<pending, wifiChanged, ps5Changed, signaled, app, usb>>

\* settings_save_config() copies into s_app_config whether or not the flash
\* write that follows succeeds; the caller ignores its result.
Save ==
  /\ cfgPc = "save"
  /\ app' = IF snap.save THEN snap.cfg ELSE app
  /\ snap' = NoSnap
  /\ cfgPc' = "wifi"
  /\ UNCHANGED <<pending, savePending, wifiChanged, ps5Changed, signaled, usb>>

\* Test and clear.  What main does when the flag was up is AppMain's.
TakeWifi ==
  /\ cfgPc = "wifi"
  /\ wifiChanged' = FALSE
  /\ cfgPc' = "ps5"
  /\ UNCHANGED <<pending, savePending, ps5Changed, signaled, app, usb, snap>>

\* TakePs5 with the signal consumed after the work instead of before it.
TakePs5ConsumesLate ==
  /\ cfgPc = "ps5"
  /\ ps5Changed' = FALSE
  /\ signaled' = FALSE
  /\ cfgPc' = "idle"
  /\ UNCHANGED <<pending, savePending, wifiChanged, app, usb, snap>>

TakePs5 ==
  /\ cfgPc = "ps5"
  /\ ps5Changed' = FALSE
  /\ cfgPc' = "idle"
  /\ UNCHANGED <<pending, savePending, wifiChanged, signaled, app, usb, snap>>

-----------------------------------------------------------------------------

Usbd ==
  \/ \E rep \in NetReport : StageNet(rep)
  \/ \E rep \in Ps5Report : StagePs5(rep)
  \/ FlagWifi
  \/ FlagPs5
  \/ RaiseSignal

Main == Consume \/ Snapshot \/ Save \/ TakeWifi \/ TakePs5

Next == Usbd \/ Main

Spec == Init /\ [][Next]_vars

(* The main thread is scheduled and keeps coming back to its poll; once a  *)
(* report has been accepted set_report() runs to its end.  Nothing obliges *)
(* the host to send a report.                                              *)
Fairness ==
  /\ WF_vars(Main)
  /\ WF_vars(FlagWifi \/ FlagPs5 \/ RaiseSignal)

FairSpec == Spec /\ Fairness

-----------------------------------------------------------------------------
(* Properties.                                                             *)

\* No set_report call is running, step 3 is not, and no signal is up for it.
Quiet == usb = "idle" /\ cfgPc = "idle" /\ ~signaled

\* Whatever way reports and step 3 interleave, once nothing is left to run
\* the program runs on everything the host was told has been accepted: no
\* report falls between the consumed signal, the snapshot and the save.
NoLostSave == Quiet => app = pending

\* Nor does a change flag outlive the signal that announces it: a flag set
\* after step 3 tested it always has a signal of its own still to come.
NoLostFlag == Quiet => ~wifiChanged /\ ~ps5Changed

\* set_report merges onto the staging copy only, so a report of one kind
\* never takes back an accepted report of the other kind, however far the
\* main thread is with saving that one.
ReportsKeepEachOther ==
  [][\/ <<pending'.ssid, pending'.password>> = <<pending.ssid, pending.password>>
     \/ <<pending'.account, pending'.ip>> = <<pending.account, pending.ip>>]_vars

\* An accepted configuration is saved, unless the host replaces it first.
EventuallySaved ==
  \A c \in Config : pending = c ~> (app = c \/ pending # c)
=============================================================================
