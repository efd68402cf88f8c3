-------------------------- MODULE InputPathProofs --------------------------
(* Theorems about InputPath, for every board.                                *)
EXTENDS InputPath, TLAPS

USE DEF ThreadAlone, SessionAlone, threadVars, sessionVars, historyVars

-----------------------------------------------------------------------------
(* Type correctness.                                                         *)

LEMMA ThreadTypes == TypeOK /\ Buttons => TypeOK'
<1> SUFFICES ASSUME TypeOK, Buttons PROVE TypeOK'
  OBVIOUS
<1> USE DEF TypeOK
<1>1. CASE Wake
  BY <1>1 DEF Wake
<1>2. ASSUME NEW q \in ActivePorts, ReadPort(q) PROVE TypeOK'
  BY <1>2 DEF ReadPort
<1>3. CASE StoreButtons
  BY <1>3 DEF StoreButtons, ControllerState
<1>4. CASE StoreL2
  BY <1>4 DEF StoreL2, Trigger, ControllerState
<1>5. CASE StoreR2
  BY <1>5 DEF StoreR2, Trigger, ControllerState
<1>6. CASE Compare
  BY <1>6 DEF Compare
<1> QED
  BY <1>1, <1>2, <1>3, <1>4, <1>5, <1>6 DEF Buttons

LEMMA TypesKept == TypeOK /\ [Next]_vars => TypeOK'
<1> SUFFICES ASSUME TypeOK, [Next]_vars PROVE TypeOK'
  OBVIOUS
<1> USE DEF TypeOK
<1>1. CASE UNCHANGED vars
  BY <1>1 DEF vars
<1>2. CASE Player
  BY <1>2 DEF Player, Toggle
<1>3. CASE Buttons
  BY <1>3, ThreadTypes
<1>4. CASE TakeInput
  BY <1>4 DEF TakeInput
<1>5. CASE SendInput
  BY <1>5, ZenonT(60) DEF SendInput
<1>6. CASE SessionConnects
  <2>1. Idle \in ControllerState
    BY DEF Idle, ControllerState
  <2> QED
    BY <1>6, <2>1, ZenonT(60) DEF SessionConnects
<1>7. CASE SessionRuns
  BY <1>7 DEF SessionRuns
<1>8. CASE SessionQuits
  BY <1>8 DEF SessionQuits
<1>9. CASE SessionTornDown
  BY <1>9 DEF SessionTornDown
<1> QED
  BY <1>1, <1>2, <1>3, <1>4, <1>5, <1>6, <1>7, <1>8, <1>9 DEF Next, MainInput, Session

\* Every variable keeps its type: a trigger is only ever 0 or 255.
THEOREM TypeCorrect == Spec => []TypeOK
<1>1. Init => TypeOK
  <2>1. Idle \in ControllerState
    BY DEF Idle, ControllerState
  <2> QED
    BY <2>1, ZenonT(60) DEF Init, TypeOK
<1> QED
  BY <1>1, TypesKept, PTL DEF Spec

-----------------------------------------------------------------------------
(* No lost input.  A field the thread has not come to still is as it was at  *)
(* the wake-up, and one it has changed will make the comparison fail.        *)

NotStoredYet ==
  /\ at \in {"read", "buttons"} => state = prev
  /\ at = "l2" => state.l2_state = prev.l2_state /\ state.r2_state = prev.r2_state
  /\ at = "r2" => state.r2_state = prev.r2_state

\* The main thread has looked at the state since it changed, or is about to,
\* or the thread is about to give the semaphore.
Noticed ==
  \/ inputSem \/ sending
  \/ at = "sleep" /\ seen = state
  \/ at # "sleep" /\ (seen = prev \/ state # prev)

PassedOn == sent => console = seen

InputInv == NotStoredYet /\ Noticed /\ PassedOn

LEMMA InputInvKept == TypeOK /\ InputInv /\ [Next]_vars => InputInv'
<1> SUFFICES ASSUME TypeOK, InputInv, [Next]_vars PROVE InputInv'
  OBVIOUS
<1>0. /\ state = [buttons |-> state.buttons, l2_state |-> state.l2_state,
                  r2_state |-> state.r2_state]
      /\ prev = [buttons |-> prev.buttons, l2_state |-> prev.l2_state,
                 r2_state |-> prev.r2_state]
  BY DEF TypeOK, ControllerState
<1> USE DEF InputInv, NotStoredYet, Noticed, PassedOn
<1>1. CASE UNCHANGED vars
  BY <1>1 DEF vars
<1>2. CASE Player
  BY <1>2 DEF Player, Toggle
<1>3. CASE Wake
  BY <1>3 DEF Wake
<1>4. ASSUME NEW q \in ActivePorts, ReadPort(q) PROVE InputInv'
  BY <1>4 DEF ReadPort
<1>5. CASE StoreButtons
  BY <1>5, <1>0 DEF StoreButtons
<1>6. CASE StoreL2
  BY <1>6, <1>0 DEF StoreL2
<1>7. CASE StoreR2
  BY <1>7, <1>0 DEF StoreR2
<1>8. CASE Compare
  BY <1>8 DEF Compare
<1>9. CASE TakeInput
  BY <1>9 DEF TakeInput
<1>10. CASE SendInput
  BY <1>10 DEF SendInput
<1>11. CASE Session
  BY <1>11 DEF Session, SessionConnects, SessionRuns, SessionQuits, SessionTornDown
<1> QED
  BY <1>1, <1>2, <1>3, <1>4, <1>5, <1>6, <1>7, <1>8, <1>9, <1>10, <1>11
     DEF Next, Buttons, MainInput

\* On any board: once the thread sleeps and the semaphore is taken, the main
\* thread has looked at the state as it is, and if it could pass that on, the
\* console has it.
THEOREM NothingGoesUnnoticed == Spec => []NoLostInput
<1>1. Init => InputInv
  BY DEF Init, InputInv, NotStoredYet, Noticed, PassedOn
<1>2. InputInv => NoLostInput
  BY DEF InputInv, Noticed, PassedOn, NoLostInput, AtRest
<1> QED
  BY <1>1, <1>2, TypeCorrect, InputInvKept, PTL DEF Spec
=============================================================================
