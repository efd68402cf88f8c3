--------------------------- MODULE SessionProofs ---------------------------
(***************************************************************************)
(* Session for every set of targets.  Both invariants are inductive once   *)
(* the types are known; FiniJoin needs ConnectedMeansLive for itself: it   *)
(* does not clear s_connected, and an exited thread has done so.           *)
(***************************************************************************)
EXTENDS Session, TLAPS

IInv == TypeOK /\ ConnectedMeansLive /\ NoStaleEvent

LEMMA InitEstablishes == Init => IInv
<1> SUFFICES ASSUME Init PROVE IInv
  OBVIOUS
<1>1. sem \in 0..1
  BY DEF Init
<1> QED
  BY <1>1, Zenon DEF Init, IInv, TypeOK, ThreadStates, ConnectedMeansLive, NoStaleEvent

\* chiaki's callbacks.
LEMMA ChiakiKeeps == IInv /\ Chiaki => IInv'
<1> SUFFICES ASSUME IInv, Chiaki PROVE IInv'
  OBVIOUS
<1> USE DEF IInv, TypeOK, ThreadStates, ConnectedMeansLive, NoStaleEvent
<1>1. CASE ConnectedFlag
  BY <1>1 DEF ConnectedFlag
<1>2. CASE ConnectedGive
  BY <1>2 DEF ConnectedGive
<1>3. CASE QuitFlag
  BY <1>3 DEF QuitFlag
<1>4. CASE QuitGive
  BY <1>4 DEF QuitGive
<1> QED
  BY <1>1, <1>2, <1>3, <1>4 DEF Chiaki

\* The main thread's calls.
LEMMA CallerKeeps == IInv /\ Caller => IInv'
<1> SUFFICES ASSUME IInv, Caller PROVE IInv'
  OBVIOUS
<1> USE DEF IInv, TypeOK, ThreadStates, ConnectedMeansLive, NoStaleEvent
<1>1. CASE ~Live /\ InitFails
  <2>1. sem' \in 0..1
    BY <1>1 DEF InitFails
  <2> QED
    BY <1>1, <2>1, Zenon DEF InitFails
<1>2. ASSUME NEW t \in Targets, InitStarts(t) PROVE IInv'
  <2>1. sem' \in 0..1
    BY <1>2 DEF InitStarts
  <2> QED
    BY <1>2, <2>1, Zenon DEF InitStarts
<1>3. CASE TakeEvent
  BY <1>3 DEF TakeEvent
<1>4. CASE FiniClear
  BY <1>4 DEF FiniClear
<1>5. CASE FiniStop
  BY <1>5 DEF FiniStop
<1>6. CASE FiniStopDead
  BY <1>6 DEF FiniStopDead
<1>7. CASE FiniJoin
  BY <1>7 DEF FiniJoin
<1> QED
  BY <1>1, <1>2, <1>3, <1>4, <1>5, <1>6, <1>7 DEF Caller

LEMMA Invariance == Spec => []IInv
<1>1. IInv /\ UNCHANGED vars => IInv'
  BY DEF IInv, TypeOK, ConnectedMeansLive, NoStaleEvent, vars
<1> QED
  BY InitEstablishes, ChiakiKeeps, CallerKeeps, <1>1, PTL DEF Spec, Next

-----------------------------------------------------------------------------

\* Every variable keeps its type; in particular the semaphore its cap.
THEOREM TypeCorrect == Spec => []TypeOK
<1>1. IInv => TypeOK
  BY DEF IInv
<1> QED
  BY <1>1, Invariance, PTL

\* s_connected is never up over a session that is not streaming: sending
\* controller state under it never touches a session being released.
THEOREM ConnectedIsLive == Spec => []ConnectedMeansLive
<1>1. IInv => ConnectedMeansLive
  BY DEF IInv
<1> QED
  BY <1>1, Invariance, PTL

\* A new session never meets the semaphore of an earlier one.
THEOREM StaleEventDiscarded == Spec => []NoStaleEvent
<1>1. IInv => NoStaleEvent
  BY DEF IInv
<1> QED
  BY <1>1, Invariance, PTL
=============================================================================
