--------------------------- MODULE StorageProofs ---------------------------
(* Theorems about Storage, for every set of configurations and hosts.  The   *)
(* inductive invariant is in two parts that do not need each other: one      *)
(* about registration, one about the configuration.                          *)
EXTENDS Storage, TLAPS

USE DEF flashVars, configVars, regVars

-----------------------------------------------------------------------------
(* Type correctness.                                                         *)

LEMMA TypesKept == TypeOK /\ [Next]_vars => TypeOK'
<1> SUFFICES ASSUME TypeOK, [Next]_vars PROVE TypeOK'
  OBVIOUS
<1> USE DEF TypeOK
<1>1. CASE UNCHANGED vars
  BY <1>1 DEF vars
<1>2. CASE PowerCut
  <2>1. NoConfig \in Config
    BY DEF NoConfig, Config
  <2> QED
    BY <1>2, <2>1, ZenonT(60) DEF PowerCut
<1>3. ASSUME NEW n \in Nets, StageNet(n) PROVE TypeOK'
  BY <1>3 DEF StageNet, Config
<1>4. ASSUME NEW p \in Ps5s, StagePs5(p) PROVE TypeOK'
  BY <1>4 DEF StagePs5, Config
<1>5. ASSUME NEW unread \in SUBSET {"config", "host"}, Boot(unread) PROVE TypeOK'
  BY <1>5 DEF Boot, Load, NoConfig, Config
<1>6. CASE SaveConfig
  BY <1>6, ZenonT(60) DEF SaveConfig
<1>7. ASSUME NEW ok \in BOOLEAN, WriteConfig(ok) PROVE TypeOK'
  BY <1>7 DEF WriteConfig, Synced
<1>8. CASE StartRegistration \/ StartFails \/ TakeRegSem \/ RegistrationDone
  BY <1>8 DEF StartRegistration, StartFails, TakeRegSem, RegistrationDone
<1>9. CASE SaveHost
  BY <1>9 DEF SaveHost
<1>10. ASSUME NEW ok \in BOOLEAN, WriteHost(ok) PROVE TypeOK'
  BY <1>10 DEF WriteHost, Synced
<1>11. ASSUME NEW k \in Keys, ConsoleRegisters(k) PROVE TypeOK'
  BY <1>11 DEF ConsoleRegisters
<1>12. CASE ConsoleRefuses
  BY <1>12 DEF ConsoleRefuses
<1>13. CASE CopyBegins \/ CopyEnds
  BY <1>13 DEF CopyBegins, CopyEnds
<1>14. CASE GiveRegSem
  BY <1>14, ZenonT(60) DEF GiveRegSem
<1> QED
  BY <1>1, <1>2, <1>3, <1>4, <1>5, <1>6, <1>7, <1>8, <1>9, <1>10, <1>11, <1>12,
     <1>13, <1>14 DEF Next, Usbd, Main, Saving, Linking, Chiaki

\* Every variable keeps its type, over power cuts too.
THEOREM TypeCorrect == Spec => []TypeOK
<1>1. Init => TypeOK
  <2>1. NoConfig \in Config
    BY DEF NoConfig, Config
  <2> QED
    BY <2>1, ZenonT(60) DEF Init, TypeOK
<1> QED
  BY <1>1, TypesKept, PTL DEF Spec

-----------------------------------------------------------------------------
(* Registration.                                                             *)

\* The thread exists only while the main thread waits for it.
ThreadAwaited == thread # "none" => pc \in {"wait", "join"}

\* What the callback leaves behind once it is past the copy.
CopyComplete ==
  (thread \in {"give", "ended"} /\ regType = "success") => regHost = delivered

\* What registration_run saves.
CopySaved == pc \in {"save_host", "write_host"} => regHost = delivered

NoAnswerYet == pc \in {"wait", "join"} => result = "none"

LinkInv ==
  /\ delivered # Torn
  /\ ThreadAwaited
  /\ CopyComplete
  /\ CopySaved
  /\ NoAnswerYet
  /\ NoTornHost
  /\ LinkedIsStored

LEMMA LinkInvKept == LinkInv /\ [Next]_vars => LinkInv'
<1> SUFFICES ASSUME LinkInv, [Next]_vars PROVE LinkInv'
  OBVIOUS
<1> USE KeyAssumption DEF LinkInv, ThreadAwaited, CopyComplete, CopySaved,
                          NoAnswerYet, NoTornHost, LinkedIsStored
<1>1. CASE UNCHANGED vars
  BY <1>1 DEF vars
<1>2. CASE PowerCut
  BY <1>2 DEF PowerCut
<1>3. CASE Usbd
  BY <1>3 DEF Usbd, StageNet, StagePs5
<1>4. ASSUME NEW unread \in SUBSET {"config", "host"}, Boot(unread) PROVE LinkInv'
  BY <1>4 DEF Boot, Load
<1>5. CASE Saving
  BY <1>5 DEF Saving, SaveConfig, WriteConfig
<1>6. CASE StartRegistration
  BY <1>6 DEF StartRegistration
<1>7. CASE StartFails
  BY <1>7 DEF StartFails
<1>8. CASE TakeRegSem
  BY <1>8 DEF TakeRegSem
<1>9. CASE RegistrationDone
  BY <1>9 DEF RegistrationDone
<1>10. CASE SaveHost
  BY <1>10 DEF SaveHost
<1>11. ASSUME NEW ok \in BOOLEAN, WriteHost(ok) PROVE LinkInv'
  BY <1>11 DEF WriteHost
<1>12. ASSUME NEW k \in Keys, ConsoleRegisters(k) PROVE LinkInv'
  BY <1>12 DEF ConsoleRegisters
<1>13. CASE ConsoleRefuses
  BY <1>13 DEF ConsoleRefuses
<1>14. CASE CopyBegins
  BY <1>14 DEF CopyBegins
<1>15. CASE CopyEnds
  BY <1>15 DEF CopyEnds
<1>16. CASE GiveRegSem
  BY <1>16 DEF GiveRegSem
<1> QED
  BY <1>1, <1>2, <1>3, <1>4, <1>5, <1>6, <1>7, <1>8, <1>9, <1>10, <1>11, <1>12,
     <1>13, <1>14, <1>15, <1>16 DEF Next, Main, Linking, Chiaki

LEMMA LinkInvariance == Spec => []LinkInv
<1>1. Init => LinkInv
  BY KeyAssumption DEF Init, LinkInv, ThreadAwaited, CopyComplete, CopySaved,
                       NoAnswerYet, NoTornHost, LinkedIsStored
<1> QED
  BY <1>1, LinkInvKept, PTL DEF Spec

\* Neither the session nor flash ever gets a registration that the callback
\* was still copying.
THEOREM WholeHost == Spec => []NoTornHost
<1>1. LinkInv => NoTornHost
  BY DEF LinkInv
<1> QED
  BY <1>1, LinkInvariance, PTL

\* A success is reported only for the host the console granted this time, and
\* only once flash has it.
THEOREM ReportedIsStored == Spec => []LinkedIsStored
<1>1. LinkInv => LinkedIsStored
  BY DEF LinkInv
<1> QED
  BY <1>1, LinkInvariance, PTL

-----------------------------------------------------------------------------
(* The configuration.                                                        *)

\* Apart from an entry whose latest access failed, RAM is ahead of flash only
\* between a save and its write.
Synchronised ==
  /\ pc \notin {"off", "write_config"} => ("config" \in unsynced \/ app = flashConfig)
  /\ pc \notin {"off", "write_host"} => ("host" \in unsynced \/ host = flashHost)

HostHeld == pc = "write_host" => host = regHost

\* A half that one copy has, the next one has too: staging, RAM, flash.
HasHalves(c, d) ==
  /\ d.net # Empty => c.net # Empty
  /\ d.ps5 # Empty => c.ps5 # Empty

Nested ==
  pc # "off" =>
    /\ HasHalves(pending, app)
    /\ "config" \in unsynced \/ HasHalves(app, flashConfig)

ConfigInv ==
  /\ {pending, app, flashConfig} \subseteq Config
  /\ Synchronised
  /\ HostHeld
  /\ ThreadAwaited
  /\ Nested

LEMMA ConfigInvKept == ConfigInv /\ [Next]_vars => ConfigInv'
<1> SUFFICES ASSUME ConfigInv, [Next]_vars PROVE ConfigInv'
  OBVIOUS
<1> USE EmptyAssumption DEF ConfigInv, Synchronised, HostHeld, ThreadAwaited,
                            Nested, HasHalves
<1>1. CASE UNCHANGED vars
  BY <1>1 DEF vars
<1>2. CASE PowerCut
  BY <1>2 DEF PowerCut, NoConfig, Config
<1>3. ASSUME NEW n \in Nets, StageNet(n) PROVE ConfigInv'
  BY <1>3 DEF StageNet, Config
<1>4. ASSUME NEW p \in Ps5s, StagePs5(p) PROVE ConfigInv'
  BY <1>4 DEF StagePs5, Config
<1>5. ASSUME NEW unread \in SUBSET {"config", "host"}, Boot(unread) PROVE ConfigInv'
  BY <1>5 DEF Boot, Load, NoConfig, Config
<1>6. CASE SaveConfig
  BY <1>6 DEF SaveConfig
<1>7. ASSUME NEW ok \in BOOLEAN, WriteConfig(ok) PROVE ConfigInv'
  BY <1>7 DEF WriteConfig, Synced
<1>8. CASE StartRegistration
  BY <1>8 DEF StartRegistration
<1>9. CASE StartFails \/ TakeRegSem
  BY <1>9 DEF StartFails, TakeRegSem
<1>10. CASE RegistrationDone
  BY <1>10 DEF RegistrationDone
<1>11. CASE SaveHost
  BY <1>11 DEF SaveHost
<1>12. ASSUME NEW ok \in BOOLEAN, WriteHost(ok) PROVE ConfigInv'
  BY <1>12 DEF WriteHost, Synced
<1>13. CASE Chiaki
  BY <1>13 DEF Chiaki, ConsoleRegisters, ConsoleRefuses, CopyBegins, CopyEnds,
               GiveRegSem
<1> QED
  BY <1>1, <1>2, <1>3, <1>4, <1>5, <1>6, <1>7, <1>8, <1>9, <1>10, <1>11, <1>12,
     <1>13 DEF Next, Usbd, Main, Saving, Linking

LEMMA ConfigInvariance == Spec => []ConfigInv
<1>1. Init => ConfigInv
  BY DEF Init, ConfigInv, Synchronised, HostHeld, ThreadAwaited, Nested, Config,
         NoConfig
<1> QED
  BY <1>1, ConfigInvKept, PTL DEF Spec

\* Whatever was saved, cut off or refused before: at rest, a reboot changes
\* nothing unless the entry's latest access failed.
THEOREM RebootChangesNothing == Spec => []FlashFollowsRam
<1>1. ConfigInv => FlashFollowsRam
  BY DEF ConfigInv, Synchronised, FlashFollowsRam
<1> QED
  BY <1>1, ConfigInvariance, PTL

\* A stored half of the configuration is replaced, never wiped, over an entry
\* whose latest access succeeded: a Report 1 is merged onto what boot loaded of
\* the PS5 half, and the other way round.
THEOREM HalvesAreKept == Spec => StoredHalfKept
<1>1. ConfigInv /\ [Next]_vars =>
        [\/ "config" \in unsynced
         \/ /\ flashConfig.net # Empty => flashConfig'.net # Empty
            /\ flashConfig.ps5 # Empty => flashConfig'.ps5 # Empty]_vars
  <2> SUFFICES ASSUME ConfigInv, Next, "config" \notin unsynced,
                      flashConfig' # flashConfig
               PROVE  /\ flashConfig.net # Empty => flashConfig'.net # Empty
                      /\ flashConfig.ps5 # Empty => flashConfig'.ps5 # Empty
    BY DEF vars
  <2>1. PICK ok \in BOOLEAN : WriteConfig(ok)
    BY DEF Next, PowerCut, Usbd, StageNet, StagePs5, Main, Boot, Load, Saving,
           SaveConfig, Linking, StartRegistration, StartFails, TakeRegSem,
           RegistrationDone, SaveHost, WriteHost, Chiaki, ConsoleRegisters,
           ConsoleRefuses, CopyBegins, CopyEnds, GiveRegSem
  <2> QED
    BY <2>1 DEF WriteConfig, ConfigInv, Nested, HasHalves
<1> QED
  BY <1>1, ConfigInvariance, PTL DEF Spec, StoredHalfKept
=============================================================================
