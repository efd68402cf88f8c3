------------------------ MODULE ConfigHandoffProofs ------------------------
(***************************************************************************)
(* ConfigHandoff for every set of networks, passwords, accounts and hosts. *)
(*                                                                         *)
(* NoLostSave and NoLostFlag speak of quiet moments only and are not       *)
(* inductive.  IInv says what keeps them true in between: an unsaved       *)
(* staging copy, and a raised flag, always have the signal up, or the      *)
(* usbd thread still on its way to raise it, or step 3 still on its way to *)
(* the place that deals with them.                                         *)
(***************************************************************************)
EXTENDS ConfigHandoff, TLAPS

\* Step 3 holds the snapshot it is about to save.
Saving == cfgPc = "save" /\ snap.save

IInv ==
  /\ TypeOK
  /\ savePending => signaled \/ usb # "idle" \/ cfgPc = "snapshot"
  /\ Saving => savePending \/ snap.cfg = pending
  /\ ~savePending /\ ~Saving => app = pending
  /\ wifiChanged => signaled \/ usb = "raise" \/ cfgPc \in {"snapshot", "save", "wifi"}
  /\ ps5Changed => signaled \/ usb = "raise" \/ cfgPc \in {"snapshot", "save", "wifi", "ps5"}

\* Merging a report onto a configuration gives a configuration.
LEMMA MergeNetType ==
  ASSUME NEW cfg \in Config, NEW rep \in NetReport
  PROVE  MergeNet(cfg, rep) \in Config
BY DEF Config, NetReport, MergeNet

LEMMA MergePs5Type ==
  ASSUME NEW cfg \in Config, NEW rep \in Ps5Report
  PROVE  MergePs5(cfg, rep) \in Config
BY DEF Config, Ps5Report, MergePs5

\* The step both reports share keeps IInv: it marks the copy as unsaved and
\* leaves usbd on its way to the signal.
LEMMA StageKeeps ==
  ASSUME IInv, NEW merged \in Config, NEW flag \in {"flag_wifi", "flag_ps5"},
         Stage(merged, flag)
  PROVE  IInv'
BY DEF IInv, TypeOK, Saving, Stage

LEMMA InitEstablishes == Init => IInv
<1> SUFFICES ASSUME Init PROVE IInv
  OBVIOUS
<1>1. snap \in [save : BOOLEAN, cfg : Config]
  BY DEF Init, NoSnap, Config
<1>2. TypeOK
  BY <1>1, Zenon DEF Init, TypeOK
<1> QED
  BY <1>2 DEF Init, IInv, Saving

LEMMA NextKeeps == IInv /\ [Next]_vars => IInv'
<1> SUFFICES ASSUME IInv, [Next]_vars PROVE IInv'
  OBVIOUS
<1>1. ASSUME NEW rep \in NetReport, StageNet(rep) PROVE IInv'
  BY <1>1, MergeNetType, StageKeeps DEF StageNet, IInv, TypeOK
<1>2. ASSUME NEW rep \in Ps5Report, StagePs5(rep) PROVE IInv'
  BY <1>2, MergePs5Type, StageKeeps DEF StagePs5, IInv, TypeOK
<1>3. CASE FlagWifi
  BY <1>3 DEF IInv, TypeOK, Saving, FlagWifi
<1>4. CASE FlagPs5
  BY <1>4 DEF IInv, TypeOK, Saving, FlagPs5
<1>5. CASE RaiseSignal
  BY <1>5 DEF IInv, TypeOK, Saving, RaiseSignal
<1>6. CASE Consume
  BY <1>6 DEF IInv, TypeOK, Saving, Consume
<1>7. CASE Snapshot
  <2>1. snap' = [save |-> savePending, cfg |-> pending] /\ pending' = pending
        /\ savePending' = FALSE /\ app' = app /\ cfgPc' = "save" /\ cfgPc = "snapshot"
    BY <1>7 DEF Snapshot
  <2>2. TypeOK'
    BY <1>7 DEF IInv, TypeOK, Snapshot
  <2>3. snap'.save = savePending /\ snap'.cfg = pending
    BY <2>1
  <2>4. ~savePending => app = pending
    BY <2>1 DEF IInv, Saving
  <2> QED
    BY <1>7, <2>1, <2>2, <2>3, <2>4 DEF IInv, Saving, Snapshot
<1>8. CASE Save
  <2>1. app' = IF snap.save THEN snap.cfg ELSE app
    BY <1>8 DEF Save
  <2>2. TypeOK'
    BY <1>8 DEF IInv, TypeOK, Save, NoSnap, Config
  <2>3. ~savePending => app' = pending
    BY <1>8, <2>1 DEF IInv, Saving, Save
  <2> QED
    BY <1>8, <2>2, <2>3 DEF IInv, Saving, Save
<1>9. CASE TakeWifi
  BY <1>9 DEF IInv, TypeOK, Saving, TakeWifi
<1>10. CASE TakePs5
  BY <1>10 DEF IInv, TypeOK, Saving, TakePs5
<1>11. CASE UNCHANGED vars
  BY <1>11 DEF IInv, TypeOK, Saving, vars
<1> QED
  BY <1>1, <1>2, <1>3, <1>4, <1>5, <1>6, <1>7, <1>8, <1>9, <1>10, <1>11
     DEF Next, Usbd, Main

LEMMA Invariance == Spec => []IInv
BY InitEstablishes, NextKeeps, PTL DEF Spec

-----------------------------------------------------------------------------

\* Every variable keeps its type: what step 3 saves and what the program runs
\* on are always whole configurations.
THEOREM TypeCorrect == Spec => []TypeOK
<1>1. IInv => TypeOK
  BY DEF IInv
<1> QED
  BY <1>1, Invariance, PTL

\* No accepted report is lost, however set_report and step 3 interleave.
THEOREM NothingLost == Spec => []NoLostSave
<1>1. IInv => NoLostSave
  BY DEF IInv, Saving, NoLostSave, Quiet
<1> QED
  BY <1>1, Invariance, PTL

\* No change flag is left standing without a signal to announce it.
THEOREM NoFlagLost == Spec => []NoLostFlag
<1>1. IInv => NoLostFlag
  BY DEF IInv, NoLostFlag, Quiet
<1> QED
  BY <1>1, Invariance, PTL

\* A report of one kind leaves the other kind's fields of the staging copy.
THEOREM ReportsIndependent == Spec => ReportsKeepEachOther
<1> DEFINE Kept == \/ <<pending'.ssid, pending'.password>> = <<pending.ssid, pending.password>>
                   \/ <<pending'.account, pending'.ip>> = <<pending.account, pending.ip>>
<1>1. IInv /\ [Next]_vars => [Kept]_vars
  <2> SUFFICES ASSUME IInv, Next PROVE Kept
    BY DEF vars
  <2>1. ASSUME NEW rep \in NetReport, StageNet(rep) PROVE Kept
    BY <2>1 DEF StageNet, Stage, MergeNet, IInv, TypeOK, Config
  <2>2. ASSUME NEW rep \in Ps5Report, StagePs5(rep) PROVE Kept
    BY <2>2 DEF StagePs5, Stage, MergePs5, IInv, TypeOK, Config
  <2>3. ASSUME FlagWifi \/ FlagPs5 \/ RaiseSignal \/ Main PROVE Kept
    BY <2>3 DEF FlagWifi, FlagPs5, RaiseSignal, Main, Consume, Snapshot, Save,
                TakeWifi, TakePs5
  <2> QED
    BY <2>1, <2>2, <2>3 DEF Next, Usbd
<1> QED
  BY <1>1, Invariance, PTL DEF Spec, ReportsKeepEachOther
=============================================================================
