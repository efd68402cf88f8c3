------------------------- MODULE StatusPathProofs -------------------------
(* Theorems about StatusPath, for every number of buffers and any length of  *)
(* the history.                                                              *)
EXTENDS StatusPath, SequenceTheorems, TLAPS

-----------------------------------------------------------------------------
(* What happens beside the report.                                           *)

\* The steps that leave the report, its copies and the page alone.
LEMMA MainIsAside ==
  ASSUME Main
  PROVE  \/ MainLogs \/ StatusLogf("main")
         \/ UNCHANGED aside
<1> SUFFICES ASSUME ~MainLogs, ~StatusLogf("main") PROVE UNCHANGED aside
  OBVIOUS
<1>1. CASE LedRefresh \/ WifiChanged \/ Ps5Changed \/ Leave
  BY <1>1 DEF LedRefresh, WifiChanged, Ps5Changed, Leave
<1>2. CASE ConnectNoSsid \/ ConnectTry \/ ConnectBegins \/ ConnectOk \/ ConnectFails
  BY <1>2 DEF ConnectNoSsid, ConnectTry, ConnectBegins, ConnectOk, ConnectFails
<1>3. CASE Link \/ Registered \/ RegisterFails
  BY <1>3 DEF Link, Registered, RegisterFails
<1>4. CASE TakeSessionEvent \/ SessionUp \/ SessionDropped \/ SessionFini
  BY <1>4 DEF TakeSessionEvent, SessionUp, SessionDropped, SessionFini
<1>5. CASE StartSession \/ CannotStart \/ SessionStarts \/ SessionFails
  BY <1>5 DEF StartSession, CannotStart, SessionStarts, SessionFails
<1> QED
  BY <1>1, <1>2, <1>3, <1>4, <1>5 DEF Main

\* So a step is a step of a writer, of the host, or aside.
LEMMA StepKinds ==
  ASSUME [Next]_vars
  PROVE  \/ \E w \in Writers : Enter(w) \/ StatusLogf(w)
         \/ Host
         \/ UNCHANGED aside
<1>1. CASE Main
  BY <1>1, MainIsAside DEF MainLogs, Writers
<1>2. CASE Chiaki
  BY <1>2 DEF Chiaki, SessionCallback, ChiakiLogs, Writers
<1>3. CASE LinkMoves
  BY <1>3 DEF LinkMoves
<1>4. CASE UNCHANGED vars
  BY <1>4 DEF vars, aside, reportVars, hostVars, copies
<1> QED
  BY <1>1, <1>2, <1>3, <1>4 DEF Next

-----------------------------------------------------------------------------
(* The types of the report and its copies.                                   *)

Places == {"out", "message", "flags", "copy", "rest", "submit"}

CopyTypes ==
  /\ at \in [Writers -> Places]
  /\ blank \in BOOLEAN
  /\ frame \subseteq Parts
  /\ queued \in 0..MaxReports
  /\ loaded \in {<<>>, <<TRUE>>, <<FALSE>>}
  /\ queued + Len(loaded) <= MaxReports
  /\ page \in {"closed", "open", "ask", "answered", "shown"}
  /\ answer \in BOOLEAN
  /\ history \in Seq(BOOLEAN) /\ Len(history) <= HistoryMax
  /\ missed \in BOOLEAN

LEMMA InitCopyTypes ==
  ASSUME Init
  PROVE  CopyTypes
<1>1. history = <<>> /\ Len(history) = 0 /\ loaded = <<>> /\ Len(loaded) = 0
  BY DEF Init
<1>2. queued = 0 /\ queued \in 0..MaxReports /\ queued + Len(loaded) <= MaxReports
  BY <1>1, MaxReportsAssumption DEF Init
<1>3. history \in Seq(BOOLEAN) /\ Len(history) <= HistoryMax
  BY <1>1, HistoryAssumption
<1>4. at \in [Writers -> Places] /\ frame \subseteq Parts
  BY DEF Init, Places
<1> QED
  BY <1>1, <1>2, <1>3, <1>4 DEF Init, CopyTypes

\* A write makes disagreeing copies of the copies there are.
LEMMA WriteTypes ==
  ASSUME CopyTypes, NEW part \in Parts, Write(part)
  PROVE  /\ frame' \subseteq Parts
         /\ loaded' \in {<<>>, <<FALSE>>} /\ Len(loaded') = Len(loaded)
         /\ answer' \in BOOLEAN
         /\ history' \in Seq(BOOLEAN) /\ Len(history') = Len(history)
<1> USE DEF CopyTypes, Write
<1>1. frame' \subseteq Parts /\ answer' \in BOOLEAN
  OBVIOUS
<1>2. loaded' \in {<<>>, <<FALSE>>} /\ Len(loaded') = Len(loaded)
  OBVIOUS
<1>3. history' \in Seq(BOOLEAN) /\ Len(history') = Len(history)
  <2>1. history' = [i \in 1..Len(history) |-> FALSE] /\ Len(history) \in Nat
    OBVIOUS
  <2> QED
    BY <2>1
<1> QED
  BY <1>1, <1>2, <1>3

\* An entry that is added is the last one, in a history of the same bound.
LEMMA AddedTypes ==
  ASSUME CopyTypes, NEW entry \in BOOLEAN
  PROVE  /\ Added(entry) \in Seq(BOOLEAN)
         /\ Len(Added(entry)) \in 1..HistoryMax
         /\ Added(entry)[Len(Added(entry))] = entry
         /\ Len(Added(entry)) > 1 =>
              Added(entry)[Len(Added(entry)) - 1] = history[Len(history)]
         /\ history # <<>> => Len(Added(entry)) > 1
<1> USE HistoryAssumption DEF CopyTypes, Added
<1>1. Len(history) \in Nat
  OBVIOUS
<1>2. CASE Len(history) = HistoryMax
  <2>1. /\ Tail(history) \in Seq(BOOLEAN)
        /\ Len(Tail(history)) = HistoryMax - 1
        /\ Tail(history)[HistoryMax - 1] = history[HistoryMax]
    BY <1>2, HeadTailProperties
  <2> QED
    BY <1>2, <2>1
<1>3. CASE Len(history) # HistoryMax
  <2> DEFINE new == Append(history, entry)
  <2>1. new \in Seq(BOOLEAN) /\ Len(new) = Len(history) + 1
    OBVIOUS
  <2>2. new[Len(history) + 1] = entry
    OBVIOUS
  <2>3. ASSUME Len(history) > 0 PROVE new[Len(history)] = history[Len(history)]
    BY <1>1, <2>3
  <2>4. Added(entry) = new
    BY <1>3
  <2> HIDE DEF new, Added
  <2>5. Len(new) \in 1..HistoryMax
    BY <1>1, <1>3, <2>1
  <2>6. history # <<>> => Len(history) > 0
    BY <1>1
  <2>7. Len(new) > 1 => new[Len(new) - 1] = history[Len(history)]
    <3>1. Len(new) - 1 = Len(history)
      BY <1>1, <2>1
    <3> QED
      BY <1>1, <2>1, <2>3, <3>1
  <2>8. new[Len(new)] = entry /\ (history # <<>> => Len(new) > 1)
    BY <1>1, <2>1, <2>2, <2>6
  <2> QED
    BY <2>1, <2>4, <2>5, <2>7, <2>8
<1> QED
  BY <1>2, <1>3

LEMMA LoadedTypes ==
  ASSUME CopyTypes
  PROVE  /\ Len(loaded) \in 0..1
         /\ loaded = <<>> => Len(loaded) = 0
         /\ loaded # <<>> => Len(loaded) = 1 /\ Head(loaded) \in BOOLEAN
<1>1. loaded = <<>> \/ loaded = <<TRUE>> \/ loaded = <<FALSE>>
  BY DEF CopyTypes
<1>2. CASE loaded = <<>>
  BY <1>2
<1>3. CASE loaded = <<TRUE>>
  BY <1>3
<1>4. CASE loaded = <<FALSE>>
  BY <1>4
<1> QED
  BY <1>1, <1>2, <1>3, <1>4

LEMMA WriterTypes ==
  ASSUME CopyTypes, NEW w \in Writers, Enter(w) \/ StatusLogf(w)
  PROVE  CopyTypes'
<1>1. at' \in [Writers -> Places]
  BY DEF CopyTypes, Places, Goes, Enter, StatusLogf, Format, SetFlags,
         CopyFlags, CopyMessage, Submit
<1>2. CASE Enter(w)
  BY <1>1, <1>2 DEF CopyTypes, Enter, hostVars, copies
<1>3. CASE Format(w) \/ SetFlags(w)
  <2>1. /\ \E part \in Parts : Write(part)
        /\ UNCHANGED <<missed, hostVars>>
        /\ blank' \in BOOLEAN
    BY <1>3 DEF CopyTypes, Format, SetFlags, Parts
  <2>2. PICK part \in Parts : Write(part)
    BY <2>1
  <2> QED
    BY <1>1, <2>1, <2>2, WriteTypes DEF CopyTypes, hostVars
<1>4. CASE CopyFlags(w) \/ CopyMessage(w)
  BY <1>1, <1>4 DEF CopyTypes, CopyFlags, CopyMessage, Parts, hostVars, copies
<1>5. CASE Submit(w)
  <2>1. queued' \in 0..MaxReports /\ queued' + Len(loaded) <= MaxReports
    BY <1>5, LoadedTypes, MaxReportsAssumption DEF CopyTypes, Submit
  <2>2. missed' \in BOOLEAN
    BY <1>5 DEF Submit
  <2>3. UNCHANGED <<blank, frame, page, loaded, answer, history>>
    BY <1>5 DEF Submit, copies
  <2> QED
    BY <1>1, <2>1, <2>2, <2>3 DEF CopyTypes
<1> QED
  BY <1>2, <1>3, <1>4, <1>5 DEF StatusLogf

LEMMA HostTypes ==
  ASSUME CopyTypes, Host
  PROVE  CopyTypes'
<1>a. ASSUME NEW entry \in BOOLEAN
      PROVE  Added(entry) \in Seq(BOOLEAN) /\ Len(Added(entry)) <= HistoryMax
  <2>1. Added(entry) \in Seq(BOOLEAN) /\ Len(Added(entry)) \in 1..HistoryMax
    BY AddedTypes
  <2> QED
    BY <2>1, HistoryAssumption
<1> USE DEF CopyTypes, beside, reportVars, hostVars, copies
<1>1. CASE Load
  <2>1. loaded' = <<TRUE>> \/ loaded' = <<FALSE>>
    BY <1>1 DEF Load
  <2>2. Len(loaded') = 1 /\ Len(loaded) = 0
    BY <1>1, <2>1, LoadedTypes DEF Load
  <2>3. queued' \in 0..MaxReports /\ queued' + Len(loaded') <= MaxReports
    BY <1>1, <2>2, MaxReportsAssumption DEF Load
  <2> QED
    BY <1>1, <2>1, <2>3 DEF Load
<1>2. CASE InputReport
  <2>1. Head(loaded) \in BOOLEAN
    BY <1>2, LoadedTypes DEF InputReport
  <2>2. loaded' = <<>> /\ Len(loaded') = 0 /\ queued + 0 <= MaxReports
    BY <1>2, MaxReportsAssumption DEF InputReport
  <2>3. Added(Head(loaded)) \in Seq(BOOLEAN) /\ Len(Added(Head(loaded))) <= HistoryMax
    BY <2>1, <1>a
  <2>4. history' \in Seq(BOOLEAN) /\ Len(history') <= HistoryMax
    BY <1>2, <2>3 DEF InputReport
  <2>5. UNCHANGED <<at, blank, frame, queued, page, answer, missed>>
    BY <1>2 DEF InputReport
  <2> QED
    BY <2>2, <2>4, <2>5
<1>3. CASE Fetched
  <2>1. Added(answer) \in Seq(BOOLEAN) /\ Len(Added(answer)) <= HistoryMax
    BY <1>a
  <2>2. history' \in Seq(BOOLEAN) /\ Len(history') <= HistoryMax
    BY <1>3, <2>1 DEF Fetched
  <2> QED
    BY <1>3, <2>2 DEF Fetched
<1>4. CASE OpenDevice \/ CloseDevice
  BY <1>4 DEF OpenDevice, CloseDevice
<1>6. CASE GetReport
  BY <1>6 DEF GetReport
<1>5. CASE Listen
  <2>1. history' \in Seq(BOOLEAN) /\ Len(history') <= HistoryMax
    <3>1. history' = <<>> /\ Len(history') = 0
      BY <1>5 DEF Listen
    <3> QED
      BY <3>1, HistoryAssumption
  <2> QED
    BY <1>5, <2>1 DEF Listen
<1> QED
  BY <1>1, <1>2, <1>3, <1>4, <1>5, <1>6 DEF Host

LEMMA CopyTypesKept ==
  ASSUME CopyTypes, [Next]_vars
  PROVE  CopyTypes'
<1>1. CASE UNCHANGED aside
  BY <1>1 DEF CopyTypes, aside, reportVars, hostVars, copies
<1> QED
  BY <1>1, StepKinds, WriterTypes, HostTypes

-----------------------------------------------------------------------------
(* The page shows the status.                                                *)

\* Where a writer has yet to copy a part to the frame.
Owes(part) == IF part = "flags" THEN {"flags", "copy"}
                                ELSE {"flags", "copy", "rest"}

\* What the frame lacks of the status some writer is about to copy.
FrameFollows ==
  blank \/ \A part \in Parts : \/ part \in frame
                               \/ \E w \in Writers : at[w] \in Owes(part)

\* No line has changed the status that is not submitted yet.
Settled == ~blank /\ ~missed /\ \A w \in Writers : at[w] \in {"out", "message"}

EndsCurrent == history # <<>> /\ history[Len(history)]

\* Then a page that has fetched the status has an entry that agrees, or is owed
\* one, by the fetch or by a report; whatever is delivered before that or added
\* after it is one entry at most, and does not push it out.
OnItsWay ==
  Settled /\ page \in {"answered", "shown"} =>
    /\ loaded = <<FALSE>> =>
         \/ queued > 0
         \/ page = "answered" /\ answer
         \/ page = "shown" /\ EndsCurrent
    /\ queued = 0 /\ loaded = <<>> =>
         /\ page = "answered" => answer \/ EndsCurrent
         /\ page = "shown" => \E i \in DOMAIN history : history[i]

LEMMA FrameFollowsKept ==
  ASSUME CopyTypes, FrameFollows, [Next]_vars
  PROVE  FrameFollows'
<1>1. CASE UNCHANGED aside \/ Host
  <2>1. UNCHANGED <<at, blank, frame>>
    BY <1>1 DEF aside, reportVars, Host, Load, InputReport, OpenDevice, Listen,
                GetReport, Fetched, CloseDevice, beside
  <2> QED
    BY <2>1 DEF FrameFollows
<1>2. ASSUME NEW w \in Writers, Enter(w) \/ StatusLogf(w)
      PROVE  FrameFollows'
  <2> USE DEF CopyTypes, FrameFollows, Owes, Goes
  <2>1. CASE Enter(w)
    BY <2>1 DEF Enter
  <2>2. CASE Format(w)
    BY <2>2 DEF Format, Write
  <2>3. CASE SetFlags(w)
    BY <2>3 DEF SetFlags, Write
  <2>4. CASE CopyFlags(w)
    BY <2>4 DEF CopyFlags, Parts
  <2>5. CASE CopyMessage(w)
    BY <2>5 DEF CopyMessage, Parts
  <2>6. CASE Submit(w)
    BY <2>6 DEF Submit
  <2> QED
    BY <1>2, <2>1, <2>2, <2>3, <2>4, <2>5, <2>6 DEF StatusLogf
<1> QED
  BY <1>1, <1>2, StepKinds

LEMMA WritersKeepOnItsWay ==
  ASSUME CopyTypes, OnItsWay, NEW w \in Writers, Enter(w) \/ StatusLogf(w)
  PROVE  OnItsWay'
<1>1. CASE Enter(w)
  BY <1>1 DEF CopyTypes, OnItsWay, Settled, EndsCurrent, Enter, Goes, hostVars, copies
<1>2. CASE Format(w) \/ SetFlags(w) \/ CopyFlags(w) \/ CopyMessage(w)
  <2>1. at'[w] \in {"flags", "copy", "rest", "submit"}
    BY <1>2 DEF CopyTypes, Goes, Format, SetFlags, CopyFlags, CopyMessage
  <2> QED
    BY <2>1 DEF OnItsWay, Settled
<1>3. CASE Submit(w)
  <2>1. (queued' > 0 /\ queued' # 0) \/ missed'
    BY <1>3 DEF CopyTypes, Submit
  <2>2. CASE missed'
    BY <2>2 DEF OnItsWay, Settled
  <2>3. CASE queued' > 0 /\ queued' # 0
    BY <2>3 DEF OnItsWay
  <2> QED
    BY <2>1, <2>2, <2>3
<1> QED
  BY <1>1, <1>2, <1>3 DEF StatusLogf

\* The frame is the status once nobody is at it.
LEMMA FrameIsStatus ==
  ASSUME CopyTypes, FrameFollows, Settled
  PROVE  frame = Parts
BY DEF CopyTypes, FrameFollows, Settled, Owes, Parts

\* An entry that agrees is still there when one more has been added.
LEMMA AddedKeeps ==
  ASSUME CopyTypes, NEW entry \in BOOLEAN, entry \/ EndsCurrent
  PROVE  \E i \in DOMAIN Added(entry) : Added(entry)[i]
<1> DEFINE new == Added(entry)
<1>1. /\ new \in Seq(BOOLEAN) /\ Len(new) \in 1..HistoryMax
      /\ new[Len(new)] = entry
      /\ Len(new) > 1 => new[Len(new) - 1] = history[Len(history)]
      /\ history # <<>> => Len(new) > 1
  BY AddedTypes
<1> HIDE DEF new
<1>2. Len(new) \in Nat /\ Len(new) >= 1 /\ DOMAIN new = 1..Len(new)
  BY <1>1, HistoryAssumption
<1>3. CASE entry
  <2>1. Len(new) \in DOMAIN new /\ new[Len(new)]
    BY <1>1, <1>2, <1>3
  <2> QED
    BY <2>1 DEF new
<1>4. CASE EndsCurrent
  <2>1. Len(new) > 1 /\ new[Len(new) - 1]
    BY <1>1, <1>4 DEF EndsCurrent
  <2>2. Len(new) - 1 \in DOMAIN new
    BY <1>2, <2>1
  <2> QED
    BY <2>1, <2>2 DEF new
<1> QED
  BY <1>3, <1>4

\* And is the last one if it was the one added.
LEMMA AddedEnds ==
  ASSUME CopyTypes, NEW entry \in BOOLEAN, entry
  PROVE  Added(entry) # <<>> /\ Added(entry)[Len(Added(entry))]
<1> DEFINE new == Added(entry)
<1>1. /\ new \in Seq(BOOLEAN) /\ Len(new) \in 1..HistoryMax
      /\ new[Len(new)] = entry
  BY AddedTypes
<1> HIDE DEF new
<1>2. new # <<>> /\ new[Len(new)]
  BY <1>1, HistoryAssumption
<1> QED
  BY <1>2 DEF new

LEMMA HostKeepsOnItsWay ==
  ASSUME CopyTypes, FrameFollows, OnItsWay, Host
  PROVE  OnItsWay'
<1>1. CASE Load
  <2>1. UNCHANGED <<page, answer, history>> /\ Settled' = Settled
    BY <1>1 DEF Load, Settled, beside, reportVars
  <2>2. Settled => loaded' = <<TRUE>>
    BY <1>1, FrameIsStatus DEF Load
  <2>3. Settled => loaded' # <<>> /\ loaded' # <<FALSE>>
    <3>1. <<TRUE>>[1] /\ ~<<FALSE>>[1] /\ <<TRUE>> # <<>>
      OBVIOUS
    <3>2. <<TRUE>> # <<FALSE>>
      BY <3>1, Zenon
    <3> QED
      BY <2>2, <3>1, <3>2, Zenon
  <2> QED
    BY <2>1, <2>3, Zenon DEF OnItsWay
<1>2. CASE InputReport
  <2>1. /\ loaded' = <<>> /\ UNCHANGED <<queued, page, answer>>
        /\ Settled' = Settled
    BY <1>2 DEF InputReport, hostVars, Settled, beside, reportVars
  <2>2. SUFFICES ASSUME queued = 0, Settled, page \in {"answered", "shown"}
                 PROVE  /\ page = "answered" => answer \/ EndsCurrent'
                        /\ page = "shown" => \E i \in DOMAIN history' : history'[i]
    BY <2>1 DEF OnItsWay
  <2>3. history' = Added(Head(loaded))
    BY <1>2, <2>2 DEF InputReport, Listening
  <2>4. CASE loaded = <<TRUE>>
    <3>1. history' = Added(TRUE)
      BY <2>3, <2>4
    <3> QED
      BY <3>1, AddedEnds, AddedKeeps DEF EndsCurrent
  <2>5. CASE loaded = <<FALSE>>
    <3>1. history' = Added(FALSE)
      BY <2>3, <2>5
    <3>2. \/ page = "answered" /\ answer
          \/ page = "shown" /\ EndsCurrent
      BY <2>2, <2>5 DEF OnItsWay
    <3> QED
      BY <3>1, <3>2, AddedKeeps
  <2>6. loaded # <<>> /\ loaded \in {<<>>, <<TRUE>>, <<FALSE>>}
    BY <1>2 DEF CopyTypes, InputReport
  <2> QED
    BY <2>4, <2>5, <2>6
<1>3. CASE Fetched
  <2>1. /\ history' = Added(answer) /\ page = "answered" /\ page' = "shown"
        /\ UNCHANGED <<queued, loaded>> /\ Settled' = Settled
    BY <1>3 DEF Fetched, Settled, beside, reportVars
  <2>2. answer \in BOOLEAN
    BY DEF CopyTypes
  <2>3. SUFFICES ASSUME Settled
                 PROVE  /\ loaded = <<FALSE>> => queued > 0 \/ EndsCurrent'
                        /\ queued = 0 /\ loaded = <<>> =>
                             \E i \in DOMAIN history' : history'[i]
    BY <2>1 DEF OnItsWay
  <2>4. ASSUME loaded = <<FALSE>>, ~(queued > 0) PROVE EndsCurrent'
    <3>1. answer
      BY <2>1, <2>3, <2>4 DEF OnItsWay
    <3>2. history' = Added(TRUE)
      BY <2>1, <2>2, <3>1
    <3> QED
      BY <3>2, AddedEnds DEF EndsCurrent
  <2>5. ASSUME queued = 0, loaded = <<>>
        PROVE  \E i \in DOMAIN history' : history'[i]
    <3>1. answer \/ EndsCurrent
      BY <2>1, <2>3, <2>5 DEF OnItsWay
    <3> QED
      BY <2>1, <2>2, <3>1, AddedKeeps
  <2> QED
    BY <2>4, <2>5
<1>4. CASE OpenDevice \/ Listen \/ CloseDevice
  BY <1>4 DEF OnItsWay, OpenDevice, Listen, CloseDevice
<1>5. CASE GetReport
  <2>1. CASE blank
    <3>1. blank'
      BY <1>5, <2>1 DEF GetReport
    <3> QED
      BY <3>1 DEF OnItsWay, Settled
  <2>2. CASE ~blank
    <3>1. page' = "answered" /\ answer'
      BY <1>5, <2>2 DEF GetReport
    <3> QED
      BY <3>1 DEF OnItsWay
  <2> QED
    BY <2>1, <2>2
<1> QED
  BY <1>1, <1>2, <1>3, <1>4, <1>5 DEF Host

\* However lines, pushes, the page's fetch and the two writers interleave, a page
\* at rest has the status as it is, unless a report was refused since the fetch
\* and none has been pushed after it.
THEOREM PageCatchesUp == Spec => []PageShowsStatus
<1> DEFINE Inv == CopyTypes /\ FrameFollows /\ OnItsWay
<1>1. Init => Inv
  BY InitCopyTypes DEF Init, FrameFollows, OnItsWay, Settled
<1>2. Inv /\ [Next]_vars => Inv'
  <2> SUFFICES ASSUME Inv, [Next]_vars PROVE Inv'
    OBVIOUS
  <2>1. OnItsWay'
    <3>1. CASE UNCHANGED aside
      BY <3>1 DEF OnItsWay, Settled, EndsCurrent, aside, reportVars, hostVars, copies
    <3> QED
      BY <3>1, StepKinds, WritersKeepOnItsWay, HostKeepsOnItsWay
  <2> QED
    BY <2>1, CopyTypesKept, FrameFollowsKept
<1>3. Inv => PageShowsStatus
  BY DEF OnItsWay, Settled, PageShowsStatus, Quiet
<1> QED
  BY <1>1, <1>2, <1>3, PTL DEF Spec

-----------------------------------------------------------------------------
(* Type correctness.                                                         *)

\* The session's own steps.
SessionStep ==
  \/ S!ConnectedFlag \/ S!ConnectedGive \/ S!QuitFlag \/ S!QuitGive
  \/ S!TakeEvent \/ S!InitFails \/ \E t \in Targets : S!InitStarts(t)
  \/ S!FiniClear \/ S!FiniStop \/ S!FiniStopDead \/ S!FiniJoin
  \/ UNCHANGED sessionVars

LEMMA SessionTypes ==
  ASSUME S!TypeOK, SessionStep
  PROVE  S!TypeOK'
<1> USE DEF S!TypeOK, S!ThreadStates
<1>1. CASE S!ConnectedFlag
  BY <1>1 DEF S!ConnectedFlag
<1>9. CASE S!QuitFlag
  BY <1>9 DEF S!QuitFlag
<1>10. CASE S!ConnectedGive
  BY <1>10 DEF S!ConnectedGive
<1>11. CASE S!QuitGive
  BY <1>11 DEF S!QuitGive
<1>2. CASE S!TakeEvent
  BY <1>2 DEF S!TakeEvent
<1>3. CASE S!InitFails
  <2>1. sem' \in 0..1
    BY <1>3 DEF S!InitFails
  <2> QED
    BY <1>3, <2>1, Zenon DEF S!InitFails
<1>4. ASSUME NEW t \in Targets, S!InitStarts(t) PROVE S!TypeOK'
  <2>1. sem' \in 0..1
    BY <1>4 DEF S!InitStarts
  <2> QED
    BY <1>4, <2>1, Zenon DEF S!InitStarts
<1>5. CASE S!FiniClear \/ S!FiniStop
  BY <1>5 DEF S!FiniClear, S!FiniStop
<1>6. CASE S!FiniStopDead
  BY <1>6 DEF S!FiniStopDead
<1>7. CASE S!FiniJoin
  BY <1>7 DEF S!FiniJoin
<1>8. CASE UNCHANGED sessionVars
  BY <1>8 DEF sessionVars
<1> QED
  BY <1>1, <1>2, <1>3, <1>4, <1>5, <1>6, <1>7, <1>8, <1>9, <1>10, <1>11
     DEF SessionStep

LEMMA StepsOfSession ==
  ASSUME [Next]_vars
  PROVE  SessionStep
<1> USE DEF SessionStep
<1>1. CASE \E w \in Writers : Enter(w) \/ StatusLogf(w)
  BY <1>1 DEF Enter, StatusLogf, Format, SetFlags, CopyFlags, CopyMessage, Submit
<1>2. CASE Host
  BY <1>2 DEF Host, Load, InputReport, OpenDevice, Listen, GetReport, Fetched,
              CloseDevice, beside
<1>3. CASE LedRefresh \/ WifiChanged \/ Ps5Changed \/ Leave
  BY <1>3 DEF LedRefresh, WifiChanged, Ps5Changed, Leave
<1>4. CASE ConnectNoSsid \/ ConnectTry \/ ConnectBegins \/ ConnectOk \/ ConnectFails
  BY <1>4 DEF ConnectNoSsid, ConnectTry, ConnectBegins, ConnectOk, ConnectFails
<1>5. CASE Link \/ Registered \/ RegisterFails
  BY <1>5 DEF Link, Registered, RegisterFails
<1>6. CASE TakeSessionEvent \/ SessionUp \/ SessionDropped \/ SessionFini
  BY <1>6 DEF TakeSessionEvent, SessionUp, SessionDropped, SessionFini
<1>7. CASE StartSession \/ CannotStart \/ SessionStarts \/ SessionFails
  BY <1>7 DEF StartSession, CannotStart, SessionStarts, SessionFails
<1>8. CASE SessionCallback \/ LinkMoves \/ UNCHANGED vars
  BY <1>8 DEF SessionCallback, S!Chiaki, LinkMoves, vars, sessionVars
<1> QED
  BY <1>1, <1>2, <1>3, <1>4, <1>5, <1>6, <1>7, <1>8
     DEF Next, Main, Chiaki, MainLogs, ChiakiLogs, Writers

-----------------------------------------------------------------------------
(* The list of what main has to do.                                          *)

TodoTypes ==
  /\ todo \in Seq(Steps)
  /\ at["main"] # "out" => todo # <<>> /\ Head(todo) = "log"

\* Main's steps outside status_logf put a list of steps in front of the rest.
MainPlans ==
  \/ UNCHANGED todo
  \/ \E s \in Seq(Steps) :
       \/ todo = <<>> /\ todo' = s
       \/ todo # <<>> /\ Head(todo) # "log" /\ todo' = s \o Tail(todo)

LEMMA ListTypes ==
  /\ <<>> \in Seq(Steps)
  /\ \A s \in Steps : <<s>> \in Seq(Steps)
  /\ Say \in Seq(Steps)
  /\ Teardown \in Seq(Steps)
  /\ \A s, t \in Seq(Steps) : s \o t \in Seq(Steps)
<1>1. /\ <<>> \in Seq(Steps)
      /\ \A s \in Steps : <<s>> \in Seq(Steps)
  OBVIOUS
<1>2. \A s, t \in Seq(Steps) : s \o t \in Seq(Steps)
  BY ConcatProperties
<1>3. "log" \in Steps /\ "led" \in Steps /\ "fini" \in Steps
  BY DEF Steps
<1>4. Say \in Seq(Steps) /\ Teardown \in Seq(Steps)
  BY <1>3 DEF Say, Teardown
<1> QED
  BY <1>1, <1>2, <1>4

LEMMA MainMakesPlans ==
  ASSUME Main, ~MainLogs, ~StatusLogf("main")
  PROVE  MainPlans
<1> USE ListTypes DEF MainPlans
<1>1. ASSUME NEW step \in Steps \ {"log"}, NEW s \in Seq(Steps), Does(step, s)
      PROVE  MainPlans
  BY <1>1 DEF Does
<1>2. ASSUME NEW s \in Seq(Steps), NEW next, Plan(s, next)
      PROVE  MainPlans
  BY <1>2 DEF Plan
<1> DEFINE Lists == {<<>>, Say, Say \o Teardown, Say \o <<"fini">>,
                     Say \o Teardown \o <<"leave", "connect">>,
                     Say \o Teardown \o <<"register">>,
                     Say \o <<"request">>, Say \o <<"retry">>,
                     Say \o <<"init">>, <<"log">> \o Say, <<"look">>,
                     <<"associate">>}
<1>3. Lists \subseteq Seq(Steps)
  <2>1. <<"leave", "connect">> \in Seq(Steps)
    BY DEF Steps
  <2>2. \A s \in {"fini", "register", "associate", "request", "retry", "init",
                   "log", "look"} :
          <<s>> \in Seq(Steps)
    BY DEF Steps
  <2>3. Say \o Teardown \in Seq(Steps)
    OBVIOUS
  <2> QED
    BY <2>1, <2>2, <2>3
<1>4. ASSUME NEW step \in Steps \ {"log"}, NEW s \in Lists, Does(step, s)
      PROVE  MainPlans
  BY <1>1, <1>3, <1>4
<1>5. ASSUME NEW s \in Lists, NEW next, Plan(s, next)
      PROVE  MainPlans
  BY <1>2, <1>3, <1>5
<1>6. CASE LedRefresh \/ Leave
  BY <1>4, <1>6 DEF LedRefresh, Leave, Steps
<1>7. CASE WifiChanged \/ Ps5Changed \/ Link
  BY <1>5, <1>7 DEF WifiChanged, Ps5Changed, Link
<1>8. CASE ConnectNoSsid \/ ConnectTry \/ ConnectBegins
  BY <1>4, <1>8 DEF ConnectNoSsid, ConnectTry, ConnectBegins, Steps
<1>9. CASE ConnectOk \/ ConnectFails
  BY <1>4, <1>9 DEF ConnectOk, ConnectFails, Steps
<1>10. CASE Registered \/ RegisterFails
  BY <1>4, <1>10 DEF Registered, RegisterFails, Steps
<1>11. CASE TakeSessionEvent \/ StartSession \/ CannotStart
  BY <1>5, <1>11 DEF TakeSessionEvent, StartSession, CannotStart
<1>12. CASE SessionUp \/ SessionDropped
  BY <1>4, <1>12 DEF SessionUp, SessionDropped, Steps
<1>13. CASE SessionFini
  BY <1>4, <1>13 DEF SessionFini, Steps
<1>14. CASE SessionStarts \/ SessionFails
  BY <1>4, <1>14 DEF SessionStarts, SessionFails, Steps
<1> QED
  BY <1>6, <1>7, <1>8, <1>9, <1>10, <1>11, <1>12, <1>13, <1>14 DEF Main

LEMMA TodoTypesKept ==
  ASSUME CopyTypes, TodoTypes, [Next]_vars
  PROVE  TodoTypes'
<1> USE DEF TodoTypes
<1>1. CASE Main /\ ~MainLogs /\ ~StatusLogf("main")
  <2>1. UNCHANGED at
    BY <1>1, MainIsAside DEF aside, reportVars
  <2>2. MainPlans
    BY <1>1, MainMakesPlans
  <2>3. CASE UNCHANGED todo
    BY <2>1, <2>3
  <2>4. ASSUME NEW s \in Seq(Steps), todo = <<>>, todo' = s
        PROVE  TodoTypes'
    BY <2>1, <2>4
  <2>5. ASSUME NEW s \in Seq(Steps), todo # <<>>, Head(todo) # "log",
               todo' = s \o Tail(todo)
        PROVE  TodoTypes'
    <3>1. Tail(todo) \in Seq(Steps)
      BY <2>5, HeadTailProperties
    <3>2. todo' \in Seq(Steps)
      BY <2>5, <3>1, ListTypes
    <3> QED
      BY <2>1, <2>5, <3>2
  <2> QED
    BY <2>2, <2>3, <2>4, <2>5 DEF MainPlans
<1>2. CASE MainLogs
  BY <1>2 DEF MainLogs, Enter, mainVars
<1>3. CASE StatusLogf("main")
  <2>1. CASE Submit("main")
    <3>1. at["main"] = "submit" /\ at'["main"] = "out" /\ todo' = Tail(todo)
      BY <2>1 DEF Submit, Goes, CopyTypes, Writers
    <3>2. Tail(todo) \in Seq(Steps)
      BY <3>1, HeadTailProperties
    <3> QED
      BY <3>1, <3>2
  <2>2. CASE ~Submit("main")
    <3>1. UNCHANGED todo /\ at["main"] # "out"
      BY <1>3, <2>2 DEF StatusLogf, Format, SetFlags, CopyFlags, CopyMessage,
                        Goes, mainVars
    <3> QED
      BY <3>1
  <2> QED
    BY <2>1, <2>2
<1>4. CASE ChiakiLogs \/ StatusLogf("chiaki")
  <2>1. UNCHANGED todo /\ at'["main"] = at["main"]
    BY <1>4 DEF ChiakiLogs, Enter, StatusLogf, Format, SetFlags, CopyFlags,
                CopyMessage, Submit, Goes, mainVars, CopyTypes, Writers
  <2> QED
    BY <2>1
<1>5. CASE SessionCallback \/ LinkMoves \/ Host \/ UNCHANGED vars
  <2>1. UNCHANGED <<todo, at>>
    BY <1>5 DEF SessionCallback, LinkMoves, Host, Load, InputReport, OpenDevice,
                Listen, GetReport, Fetched, CloseDevice, beside, vars, mainVars,
                aside, reportVars
  <2> QED
    BY <2>1
<1> QED
  BY <1>1, <1>2, <1>3, <1>4, <1>5 DEF Next, Chiaki

-----------------------------------------------------------------------------
(* The link, the state and the LED.                                          *)

RestTypes ==
  /\ link \in BOOLEAN
  /\ state \in {"waiting", "starting", "connecting", "running"}
  /\ led \in Patterns
  /\ seen \in BOOLEAN

LEMMA RestTypesKept ==
  ASSUME RestTypes, [Next]_vars
  PROVE  RestTypes'
<1> USE DEF RestTypes
<1>1. CASE \E w \in Writers : Enter(w) \/ StatusLogf(w)
  BY <1>1 DEF Enter, StatusLogf, Format, SetFlags, CopyFlags, CopyMessage, Submit,
              mainVars
<1>2. CASE Host
  BY <1>2 DEF Host, Load, InputReport, OpenDevice, Listen, GetReport, Fetched,
              CloseDevice, beside, mainVars
<1>3. CASE LedRefresh
  BY <1>3 DEF LedRefresh, PatternOf, Patterns
<1>4. CASE WifiChanged \/ Ps5Changed \/ Leave
  BY <1>4 DEF WifiChanged, Ps5Changed, Leave, Plan
<1>5. CASE ConnectNoSsid \/ ConnectTry \/ ConnectBegins \/ ConnectOk \/ ConnectFails
  BY <1>5 DEF ConnectNoSsid, ConnectTry, ConnectBegins, ConnectOk, ConnectFails
<1>6. CASE Link \/ Registered \/ RegisterFails
  BY <1>6 DEF Link, Registered, RegisterFails, Plan
<1>7. CASE TakeSessionEvent \/ SessionUp \/ SessionDropped \/ SessionFini
  BY <1>7 DEF TakeSessionEvent, SessionUp, SessionDropped, SessionFini, Plan
<1>8. CASE StartSession \/ CannotStart \/ SessionStarts \/ SessionFails
  BY <1>8 DEF StartSession, CannotStart, SessionStarts, SessionFails, Plan
<1>9. CASE SessionCallback \/ UNCHANGED vars
  BY <1>9 DEF SessionCallback, vars, mainVars
<1>10. CASE LinkMoves
  BY <1>10 DEF LinkMoves, mainVars
<1> QED
  BY <1>1, <1>2, <1>3, <1>4, <1>5, <1>6, <1>7, <1>8, <1>9, <1>10
     DEF Next, Main, Chiaki, MainLogs, ChiakiLogs, Writers

AllTypes == S!TypeOK /\ CopyTypes /\ TodoTypes /\ RestTypes

LEMMA AllTypesHold == Spec => []AllTypes
<1>1. Init => AllTypes
  <2> SUFFICES ASSUME Init PROVE AllTypes
    OBVIOUS
  <2>1. S!TypeOK
    <3>1. sem \in 0..1
      BY DEF Init, S!Init
    <3> QED
      BY <3>1, Zenon DEF Init, S!Init, S!TypeOK, S!ThreadStates
  <2>2. CopyTypes
    BY InitCopyTypes
  <2>3. TodoTypes
    BY ListTypes DEF Init, TodoTypes, Steps, Writers
  <2>4. RestTypes
    BY DEF Init, RestTypes, Patterns
  <2> QED
    BY <2>1, <2>2, <2>3, <2>4 DEF AllTypes
<1>2. AllTypes /\ [Next]_vars => AllTypes'
  BY StepsOfSession, SessionTypes, CopyTypesKept, TodoTypesKept, RestTypesKept
     DEF AllTypes
<1> QED
  BY <1>1, <1>2, PTL DEF Spec

\* Every variable keeps its type: the history its bound, the reports in the USB
\* stack the number of its buffers, and no line is logged that was not to be.
THEOREM TypeCorrect == Spec => []TypeOK
<1>1. AllTypes => TypeOK
  BY DEF AllTypes, TypeOK, CopyTypes, TodoTypes, RestTypes, Places
<1> QED
  BY <1>1, AllTypesHold, PTL

-----------------------------------------------------------------------------
(* What the LED shows.                                                       *)

\* The steps that are the last of their list, those of them that stand for a
\* session that is over, and those that refresh the LED or come to a step that
\* does.
LastSteps == {"connect", "request", "associate", "retry", "register", "look", "init"}
IdleSteps == LastSteps \ {"look"}
LightSteps == {"led", "look", "connect", "request", "associate", "register"}

Has(s, steps) == \E i \in DOMAIN s : s[i] \in steps

\* What a list of main goes on with after each of its steps.
Ordered(s) ==
  \A i \in DOMAIN s :
    /\ s[i] = "log" => i < Len(s) /\ s[i + 1] \in {"log", "led"}
    /\ s[i] = "leave" => i < Len(s) /\ s[i + 1] = "connect"
    /\ s[i] = "fini" => i = Len(s) \/ s[i + 1] = "led"
    /\ s[i] \in LastSteps => i = Len(s)

EndsInFini == todo # <<>> /\ todo[Len(todo)] = "fini"

\* The session is neither connected nor can it become so.
Down == ~connected /\ thread \notin {"connecting", "connected_cb"}

SessionInv == S!ConnectedMeansLive /\ S!NoStaleEvent

ListInv ==
  /\ Ordered(todo)
  /\ fini # "idle" => todo # <<>> /\ Head(todo) = "fini"
  /\ thread # "none" => InSession \/ Has(todo, {"fini"})
  /\ Has(todo, IdleSteps) => ~InSession
  /\ Has(todo, {"look"}) => thread \notin {"connecting", "connected_cb"}
  /\ EndsInFini => Down

\* The LED shows the link as main knows it and the session.
Lit == led = PatternOf(seen)

LitInv ==
  /\ \/ Lit \/ Has(todo, LightSteps)
     \/ sem = 1 \/ thread \in {"connected_cb", "quit_cb"}
  /\ thread = "none" => Lit \/ Has(todo, LightSteps)
  /\ todo = <<"fini">> => Lit /\ led # "ps5_connected"
  /\ LedLetsGo

-----------------------------------------------------------------------------
(* Lists.                                                                    *)

\* Without its first step a list stays a list, and keeps its other steps.
LEMMA Rest ==
  ASSUME NEW s \in Seq(Steps), s # <<>>
  PROVE  /\ Tail(s) \in Seq(Steps)
         /\ Len(Tail(s)) = Len(s) - 1
         /\ \A i \in DOMAIN Tail(s) : i + 1 \in DOMAIN s /\ Tail(s)[i] = s[i + 1]
         /\ Head(s) = s[1] /\ 1 \in DOMAIN s
         /\ DOMAIN s = 1..Len(s) /\ Len(s) \in Nat
BY HeadTailProperties

LEMMA RestOrdered ==
  ASSUME NEW s \in Seq(Steps), s # <<>>, Ordered(s)
  PROVE  Ordered(Tail(s))
<1>1. DOMAIN Tail(s) = 1..(Len(s) - 1)
  BY Rest
<1>2. ASSUME NEW i \in DOMAIN Tail(s)
      PROVE  /\ Tail(s)[i] = "log" => i < Len(Tail(s)) /\ Tail(s)[i + 1] \in {"log", "led"}
             /\ Tail(s)[i] = "leave" => i < Len(Tail(s)) /\ Tail(s)[i + 1] = "connect"
             /\ Tail(s)[i] = "fini" => i = Len(Tail(s)) \/ Tail(s)[i + 1] = "led"
             /\ Tail(s)[i] \in LastSteps => i = Len(Tail(s))
  <2>1. i + 1 \in DOMAIN s /\ Tail(s)[i] = s[i + 1]
    BY Rest
  <2>2. i + 1 < Len(s) => Tail(s)[i + 1] = s[(i + 1) + 1]
    BY <1>1, Rest
  <2>3. i + 1 = Len(s) <=> i = Len(Tail(s))
    BY <1>1, Rest
  <2>4. i + 1 < Len(s) <=> i < Len(Tail(s))
    BY <1>1, Rest
  <2>5. i < Len(Tail(s)) \/ i = Len(Tail(s))
    BY <1>1, Rest
  <2> QED
    BY <2>1, <2>2, <2>3, <2>4, <2>5 DEF Ordered
<1> QED
  BY <1>2 DEF Ordered

LEMMA RestHas ==
  ASSUME NEW s \in Seq(Steps), s # <<>>, NEW steps
  PROVE  /\ Has(Tail(s), steps) => Has(s, steps)
         /\ Has(s, steps) /\ Head(s) \notin steps => Has(Tail(s), steps)
<1>1. Has(Tail(s), steps) => Has(s, steps)
  BY Rest DEF Has
<1>2. ASSUME Has(s, steps), Head(s) \notin steps PROVE Has(Tail(s), steps)
  <2>1. PICK i \in DOMAIN s : s[i] \in steps
    BY <1>2 DEF Has
  <2>2. i # 1
    BY <1>2, <2>1, Rest
  <2>3. i - 1 \in DOMAIN Tail(s) /\ (i - 1) + 1 = i
    BY <2>1, <2>2, Rest
  <2> QED
    BY <2>1, <2>3, Rest DEF Has
<1> QED
  BY <1>1, <1>2

\* What is left of a list ends as the list does.
LEMMA RestEnds ==
  ASSUME NEW s \in Seq(Steps), s # <<>>, Tail(s) # <<>>
  PROVE  /\ Tail(s)[Len(Tail(s))] = s[Len(s)]
         /\ Len(s) > 1 /\ Head(Tail(s)) = s[2]
<1>1. Len(Tail(s)) \in DOMAIN Tail(s) /\ 1 \in DOMAIN Tail(s)
  BY Rest, HeadTailProperties, EmptySeq
<1>2. Len(Tail(s)) + 1 = Len(s)
  BY Rest
<1> QED
  BY <1>1, <1>2, Rest

\* A step that comes last is all there is once it comes first.
LEMMA LastAlone ==
  ASSUME NEW s \in Seq(Steps), s # <<>>, Ordered(s), Head(s) \in LastSteps
  PROVE  s = <<Head(s)>> /\ Tail(s) = <<>>
<1>1. Len(s) = 1
  BY Rest DEF Ordered
<1>2. Len(Tail(s)) = 0
  BY <1>1, Rest
<1>3. Tail(s) = <<>>
  BY <1>2, Rest, EmptySeq
<1>4. s = <<Head(s)>>
  BY <1>1, Rest
<1> QED
  BY <1>3, <1>4

\* A list of one step has that step.
LEMMA OneOrMore ==
  ASSUME NEW s \in Seq(Steps), s # <<>>
  PROVE  s = <<Head(s)>> \/ Len(s) > 1
<1>1. Len(s) = 1 \/ Len(s) > 1
  BY EmptySeq
<1>2. Len(s) = 1 => s = <<Head(s)>>
  OBVIOUS
<1> QED
  BY <1>1, <1>2

LEMMA OneStep ==
  ASSUME NEW s \in Seq(Steps), s # <<>>, Len(s) > 1 \/ Head(s) # "fini"
  PROVE  s # <<"fini">>
OBVIOUS

\* What comes after the first step.
LEMMA AfterHead ==
  ASSUME NEW s \in Seq(Steps), s # <<>>, Ordered(s)
  PROVE  /\ Head(s) = "fini" => s = <<"fini">> \/ (Len(s) > 1 /\ s[2] = "led")
         /\ Head(s) = "log" => Len(s) > 1 /\ s[2] \in {"log", "led"}
         /\ Head(s) = "leave" => Len(s) > 1 /\ s[2] = "connect"
<1>1. s = <<Head(s)>> => Len(s) = 1
  OBVIOUS
<1>2. s = <<Head(s)>> \/ (Len(s) > 1 /\ Len(s) # 1)
  BY OneOrMore
<1> QED
  BY <1>1, <1>2, Rest DEF Ordered

\* u has the steps of s and then those of t.
Joint(s, t, u) ==
  /\ s \in Seq(Steps) /\ t \in Seq(Steps) /\ u \in Seq(Steps)
  /\ Len(u) = Len(s) + Len(t)
  /\ \A i \in 1..Len(s) : u[i] = s[i]
  /\ \A i \in 1..Len(t) : u[Len(s) + i] = t[i]

LEMMA Joined ==
  ASSUME NEW s, NEW t, NEW u, Joint(s, t, u)
  PROVE  s \o t = u
<1> USE DEF Joint
<1>1. /\ s \o t \in Seq(Steps)
      /\ Len(s \o t) = Len(s) + Len(t)
  BY ConcatProperties
<1>2. ASSUME NEW i \in 1..Len(s) + Len(t) PROVE (s \o t)[i] = u[i]
  <2>1. (s \o t)[i] = IF i <= Len(s) THEN s[i] ELSE t[i - Len(s)]
    BY ConcatProperties
  <2>2. CASE i <= Len(s)
    BY <2>1, <2>2
  <2>3. CASE ~(i <= Len(s))
    <3>1. i - Len(s) \in 1..Len(t) /\ Len(s) + (i - Len(s)) = i
      BY <2>3
    <3> QED
      BY <2>1, <2>3, <3>1
  <2> QED
    BY <2>2, <2>3
<1>3. \A i \in 1..Len(s \o t) : (s \o t)[i] = u[i]
  BY <1>1, <1>2
<1>4. Len(s \o t) = Len(u)
  BY <1>1
<1> QED
  BY <1>1, <1>3, <1>4, SeqEqual

\* The lists that main makes.
LEMMA Lists ==
  /\ Say \o <<>> = <<"log", "led">>
  /\ \A step \in Steps : Say \o <<step>> = <<"log", "led", step>>
  /\ <<"log">> \o Say = <<"log", "log", "led">>
  /\ Say \o <<"fini", "led">> = <<"log", "led", "fini", "led">>
  /\ Say \o <<>> \o <<"leave", "connect">> = <<"log", "led", "leave", "connect">>
  /\ Say \o <<"fini", "led">> \o <<"leave", "connect">>
       = <<"log", "led", "fini", "led", "leave", "connect">>
  /\ Say \o <<>> \o <<"register">> = <<"log", "led", "register">>
  /\ Say \o <<"fini", "led">> \o <<"register">> = <<"log", "led", "fini", "led", "register">>
<1>1. Steps = {"log", "led", "fini", "leave", "connect", "associate", "retry",
               "register", "look", "init", "request"}
  BY DEF Steps
<1>2. Say \o <<>> = <<"log", "led">>
  BY DEF Say
<1>3. Joint(<<"log">>, <<"log", "led">>,
           <<"log", "log", "led">>)
  BY <1>1 DEF Joint
<1>4. Joint(<<"log", "led">>, <<"fini", "led">>,
           <<"log", "led", "fini", "led">>)
  BY <1>1 DEF Joint
<1>5. Joint(<<"log", "led">>, <<"leave", "connect">>,
           <<"log", "led", "leave", "connect">>)
  BY <1>1 DEF Joint
<1>6. Joint(<<"log", "led", "fini", "led">>, <<"leave", "connect">>,
           <<"log", "led", "fini", "led", "leave", "connect">>)
  BY <1>1 DEF Joint
<1>7. Joint(<<"log", "led", "fini", "led">>, <<"register">>,
           <<"log", "led", "fini", "led", "register">>)
  BY <1>1 DEF Joint
<1>8. \A step \in Steps : Joint(<<"log", "led">>, <<step>>, <<"log", "led", step>>)
  BY <1>1 DEF Joint
<1>9. "register" \in Steps
  BY <1>1
<1>10. Say = <<"log", "led">>
  BY DEF Say
<1>11. ASSUME NEW step \in Steps PROVE Say \o <<step>> = <<"log", "led", step>>
  BY <1>8, <1>10, Joined, Zenon
<1>12. <<"log">> \o Say = <<"log", "log", "led">>
  BY <1>3, <1>10, Joined, Zenon
<1>13. Say \o <<"fini", "led">> = <<"log", "led", "fini", "led">>
  BY <1>4, <1>10, Joined, Zenon
<1>14. Say \o <<>> \o <<"leave", "connect">> = <<"log", "led", "leave", "connect">>
  BY <1>2, <1>5, Joined, Zenon
<1>15. Say \o <<"fini", "led">> \o <<"leave", "connect">>
         = <<"log", "led", "fini", "led", "leave", "connect">>
  BY <1>6, <1>13, Joined, Zenon
<1>16. Say \o <<"fini", "led">> \o <<"register">>
         = <<"log", "led", "fini", "led", "register">>
  BY <1>7, <1>13, Joined, Zenon
<1>17. Say \o <<>> \o <<"register">> = <<"log", "led", "register">>
  BY <1>2, <1>8, <1>9, Joined, Zenon
<1> QED
  BY <1>2, <1>11, <1>12, <1>13, <1>14, <1>15, <1>16, <1>17, Zenon

\* A list that begins with a line and comes to a refresh.
Good(s) ==
  /\ Ordered(s)
  /\ Has(s, LightSteps)
  /\ ~Has(s, {"look"})
  /\ s # <<>> /\ Head(s) = "log" /\ s # <<"fini">>

LEMMA GoodSay ==
  /\ Good(<<"log", "led">>) /\ Good(<<"log", "log", "led">>)
  /\ \A step \in {"request", "retry", "init", "register", "fini"} :
       Good(<<"log", "led", step>>)
BY DEF Good, Ordered, Has, LightSteps, LastSteps

LEMMA GoodTeardown ==
  /\ Good(<<"log", "led", "leave", "connect">>)
  /\ Good(<<"log", "led", "fini", "led">>)
  /\ Good(<<"log", "led", "fini", "led", "leave", "connect">>)
  /\ Good(<<"log", "led", "fini", "led", "register">>)
<1>1. Good(<<"log", "led", "leave", "connect">>)
  BY DEF Good, Ordered, Has, LightSteps, LastSteps
<1>2. Good(<<"log", "led", "fini", "led">>)
  BY DEF Good, Ordered, Has, LightSteps, LastSteps
<1>3. Good(<<"log", "led", "fini", "led", "leave", "connect">>)
  BY DEF Good, Ordered, Has, LightSteps, LastSteps
<1>4. Good(<<"log", "led", "fini", "led", "register">>)
  BY DEF Good, Ordered, Has, LightSteps, LastSteps
<1> QED
  BY <1>1, <1>2, <1>3, <1>4

\* The session is torn down in a list that says so.
LEMMA FiniInLists ==
  /\ \A s \in {<<"log", "led", "fini", "led">>,
               <<"log", "led", "fini", "led", "leave", "connect">>,
               <<"log", "led", "fini", "led", "register">>,
               <<"log", "led", "fini">>} : Has(s, {"fini"})
  /\ ~Has(<<"log", "led">>, IdleSteps)
  /\ ~Has(<<"look">>, IdleSteps) /\ Has(<<"look">>, LightSteps)
  /\ Ordered(<<"look">>) /\ Ordered(<<>>) /\ ~Has(<<>>, IdleSteps \cup {"look"})
BY DEF Has, IdleSteps, LastSteps, LightSteps, Ordered

LEMMA ListEnds ==
  /\ \A s \in {<<"log", "led">>, <<"log", "log", "led">>} : s[Len(s)] # "fini"
  /\ \A step \in {"request", "retry", "init", "register"} :
       <<"log", "led", step>>[Len(<<"log", "led", step>>)] # "fini"
  /\ \A s \in {<<"log", "led", "leave", "connect">>,
               <<"log", "led", "fini", "led">>} : s[Len(s)] # "fini"
  /\ \A s \in {<<"log", "led", "fini", "led", "leave", "connect">>,
               <<"log", "led", "fini", "led", "register">>} : s[Len(s)] # "fini"
OBVIOUS

-----------------------------------------------------------------------------
(* The steps of main, by what they do to the list.                           *)

\* Main sees s_connected up only while chiaki's thread is between CONNECTED and
\* QUIT, and no event from an earlier session.
LEMMA SessionInvKept ==
  ASSUME SessionInv, SessionStep
  PROVE  SessionInv'
<1> USE DEF SessionInv, S!ConnectedMeansLive, S!NoStaleEvent
<1>1. CASE S!ConnectedFlag \/ S!QuitFlag
  BY <1>1 DEF S!ConnectedFlag, S!QuitFlag
<1>2. CASE S!ConnectedGive \/ S!QuitGive
  BY <1>2 DEF S!ConnectedGive, S!QuitGive
<1>3. CASE S!TakeEvent
  BY <1>3 DEF S!TakeEvent
<1>4. CASE S!InitFails
  BY <1>4 DEF S!InitFails
<1>5. ASSUME NEW t \in Targets, S!InitStarts(t) PROVE SessionInv'
  BY <1>5 DEF S!InitStarts
<1>6. CASE S!FiniClear \/ S!FiniStop \/ S!FiniStopDead
  BY <1>6 DEF S!FiniClear, S!FiniStop, S!FiniStopDead
<1>7. CASE S!FiniJoin
  BY <1>7 DEF S!FiniJoin
<1>8. CASE UNCHANGED sessionVars
  BY <1>8 DEF sessionVars
<1> QED
  BY <1>1, <1>2, <1>3, <1>4, <1>5, <1>6, <1>7, <1>8 DEF SessionStep

\* A new list, which comes to a refresh.
LEMMA PlanKeeps ==
  ASSUME ListInv, LitInv, Good(todo'), todo'[Len(todo')] # "fini",
         UNCHANGED <<led, fini>>,
         todo = <<>> \/ Head(todo) \notin {"fini", "led"},
         thread' = "none" => thread = "none",
         thread' = "none" \/ InSession' \/ Has(todo', {"fini"}),
         Has(todo', IdleSteps) => ~InSession'
  PROVE  ListInv' /\ LitInv'
<1>1. ListInv'
  BY DEF ListInv, Good, EndsInFini
<1>2. LedLetsGo'
  BY DEF LitInv, LedLetsGo
<1> QED
  BY <1>1, <1>2 DEF LitInv, Good

\* The next step, when the one before is done.
LEMMA PopKeeps ==
  ASSUME ListInv, todo \in Seq(Steps), todo # <<>>, Head(todo) # "fini",
         todo' = Tail(todo), UNCHANGED <<thread, fini, connected, state>>
  PROVE  ListInv'
<1>1. Ordered(todo')
  BY RestOrdered DEF ListInv
<1>2. \A steps : Has(todo', steps) => Has(todo, steps)
  BY RestHas
<1>3. Has(todo, {"fini"}) => Has(todo', {"fini"})
  BY RestHas
<1>4. EndsInFini' => EndsInFini
  BY RestEnds DEF EndsInFini
<1>5. InSession' = InSession /\ Down' = Down
  BY DEF InSession, Down
<1> QED
  BY <1>1, <1>2, <1>3, <1>4, <1>5, Zenon DEF ListInv

\* A step that stands for a session that is over finds none.
LEMMA IdleHead ==
  ASSUME ListInv, todo \in Seq(Steps), todo # <<>>, Head(todo) \in IdleSteps
  PROVE  /\ todo = <<Head(todo)>> /\ Tail(todo) = <<>>
         /\ thread = "none" /\ fini = "idle" /\ ~InSession
<1>1. todo = <<Head(todo)>> /\ Tail(todo) = <<>>
  BY LastAlone DEF ListInv, IdleSteps
<1>2. Has(todo, IdleSteps)
  BY Rest DEF Has
<1>3. ~Has(todo, {"fini"})
  BY <1>1 DEF Has, IdleSteps, LastSteps
<1>4. Head(todo) # "fini"
  BY DEF IdleSteps, LastSteps
<1> QED
  BY <1>1, <1>2, <1>3, <1>4 DEF ListInv

\* A step that comes last is replaced by its list.
LEMMA DoesLast ==
  ASSUME ListInv, todo \in Seq(Steps), NEW step \in LastSteps,
         NEW s \in Seq(Steps), Does(step, s)
  PROVE  /\ todo = <<step>> /\ todo' = s /\ todo # <<>> /\ Head(todo) = step
         /\ fini = "idle"
<1>1. todo = <<step>> /\ Tail(todo) = <<>>
  BY LastAlone DEF ListInv, Does
<1>2. s \o <<>> = s
  BY ConcatEmptySeq
<1>3. step # "fini"
  BY DEF LastSteps
<1> QED
  BY <1>1, <1>2, <1>3 DEF Does, ListInv

\* Main does nothing of this kind.
LEMMA AsideKeeps ==
  ASSUME ListInv, LitInv,
         UNCHANGED <<connected, sem, thread, fini, link, state, todo, led, seen>>
  PROVE  ListInv' /\ LitInv'
BY Zenon DEF ListInv, LitInv, Lit, PatternOf, LedLetsGo, InSession, Down, EndsInFini,
             Has, Ordered

-----------------------------------------------------------------------------
(* The steps of main, one by one.                                            *)

LedTypes == todo \in Seq(Steps) /\ S!TypeOK

\* The lists of the events: whoever is in a session tears it down.
LEMMA EventsKeep ==
  ASSUME LedTypes, SessionInv, ListInv, LitInv,
         WifiChanged \/ Ps5Changed \/ Link \/ StartSession
  PROVE  ListInv' /\ LitInv'
<1> USE DEF LedTypes
<1>1. todo = <<>> /\ UNCHANGED <<thread, fini, connected, led>>
  BY DEF WifiChanged, Ps5Changed, Link, StartSession, Plan, sessionVars
<1>2. ~Has(todo, {"fini"})
  BY <1>1 DEF Has
<1>3. InSession \/ thread = "none"
  BY <1>2 DEF ListInv
<1>4. CASE InSession /\ ~StartSession
  <2>1. todo' \in {<<"log", "led", "fini", "led">>,
                   <<"log", "led", "fini", "led", "leave", "connect">>,
                   <<"log", "led", "fini", "led", "register">>}
    BY <1>4, Lists, Zenon DEF WifiChanged, Ps5Changed, Link, Plan, Teardown
  <2>2. Good(todo') /\ Has(todo', {"fini"})
    BY <2>1, GoodTeardown, FiniInLists, Zenon
  <2>3. todo'[Len(todo')] # "fini"
    BY <2>1, ListEnds, Zenon
  <2>4. ~InSession'
    BY <1>4 DEF WifiChanged, Ps5Changed, Link, Plan, InSession
  <2> QED
    BY <1>1, <2>2, <2>3, <2>4, PlanKeeps
<1>5. CASE ~InSession \/ StartSession
  <2>1. todo' \in {<<"log", "led">>, <<"log", "led", "leave", "connect">>,
                   <<"log", "led", "register">>, <<"log", "led", "init">>}
    <3>1. CASE StartSession
      BY <3>1, Lists, Zenon DEF StartSession, Plan, Steps
    <3>2. CASE ~InSession /\ ~StartSession
      BY <3>2, Lists, Zenon DEF WifiChanged, Ps5Changed, Link, Plan, Teardown
    <3> QED
      BY <1>5, <3>1, <3>2
  <2>2. Good(todo')
    BY <2>1, GoodTeardown, GoodSay, Zenon
  <2>3. todo'[Len(todo')] # "fini"
    BY <2>1, ListEnds, Zenon
  <2>4. ~InSession'
    BY DEF WifiChanged, Ps5Changed, Link, StartSession, Plan, InSession
  <2>5. thread = "none"
    BY <1>3, <1>5 DEF StartSession, InSession
  <2> QED
    BY <1>1, <2>2, <2>3, <2>4, <2>5, PlanKeeps
<1> QED
  BY <1>4, <1>5

\* The steps towards a network, a registration or a session that say how they
\* went.
LEMMA OutcomesKeep ==
  ASSUME LedTypes, SessionInv, ListInv, LitInv,
         \/ ConnectNoSsid /\ Head(todo) # "retry"
         \/ ConnectTry \/ ConnectOk \/ ConnectFails
         \/ Registered \/ RegisterFails \/ SessionFails
  PROVE  ListInv' /\ LitInv'
<1> USE DEF LedTypes
<1> DEFINE Said == {<<"log", "led">>, <<"log", "log", "led">>,
                    <<"log", "led", "request">>, <<"log", "led", "retry">>}
<1>1. ASSUME NEW step \in IdleSteps, NEW s \in Said, Does(step, s),
             UNCHANGED <<led, fini>>, thread' = thread \/ thread' = "none",
             state' \in {state, "starting", "waiting"}
      PROVE  ListInv' /\ LitInv'
  <2>1. s \in Seq(Steps) /\ step \in LastSteps
    <3>1. Said \subseteq Seq(Steps)
      BY DEF Steps
    <3> QED
      BY <1>1, <3>1 DEF IdleSteps
  <2>2. todo' = s /\ todo # <<>> /\ Head(todo) = step
    BY <1>1, <2>1, DoesLast
  <2>3. thread = "none" /\ ~InSession
    BY <1>1, <2>2, IdleHead
  <2>4. Good(todo')
    BY <1>1, <2>2, GoodSay, Zenon
  <2>5. todo'[Len(todo')] # "fini"
    BY <1>1, <2>2, ListEnds, Zenon
  <2>6. ~InSession' /\ thread' = "none"
    BY <1>1, <2>3 DEF InSession
  <2>7. Head(todo) \notin {"fini", "led"}
    BY <2>2 DEF IdleSteps, LastSteps
  <2> QED
    BY <1>1, <2>3, <2>4, <2>5, <2>6, <2>7, PlanKeeps
<1>2. {"connect", "request", "associate", "retry", "register", "init"} \subseteq IdleSteps
  BY DEF IdleSteps, LastSteps
<1>3. /\ Say \in Said /\ Say \o <<"request">> \in Said
      /\ Say \o <<"retry">> \in Said /\ <<"log">> \o Say \in Said
  <2>1. "request" \in Steps /\ "retry" \in Steps
    BY DEF Steps
  <2> QED
    BY <2>1, Lists, Zenon DEF Say
<1> HIDE DEF Said
<1>4. CASE ConnectNoSsid /\ Head(todo) # "retry"
  <2>1. Does("connect", Say) /\ UNCHANGED <<led, fini, thread, state>>
    BY <1>4 DEF ConnectNoSsid, Does, sessionVars
  <2> QED
    BY <1>1, <1>2, <1>3, <2>1
<1>5. CASE ConnectTry
  <2>1. \E step \in IdleSteps : Does(step, Say \o <<"request">>)
    BY <1>2, <1>5 DEF ConnectTry
  <2>2. UNCHANGED <<led, fini, thread, state>>
    BY <1>5 DEF ConnectTry, sessionVars
  <2> QED
    BY <1>1, <1>3, <2>1, <2>2
<1>6. CASE ConnectOk \/ ConnectFails
  <2>1. \E step \in {"request", "associate"} : \E s \in Said : Does(step, s)
    BY <1>3, <1>6 DEF ConnectOk, ConnectFails
  <2>2. UNCHANGED <<led, fini, thread>> /\ state' \in {state, "starting", "waiting"}
    BY <1>6 DEF ConnectOk, ConnectFails, sessionVars
  <2> QED
    BY <1>1, <1>2, <2>1, <2>2
<1>7. CASE Registered \/ RegisterFails
  <2>1. Does("register", Say)
    BY <1>7 DEF Registered, RegisterFails
  <2>2. UNCHANGED <<led, fini, thread>> /\ state' \in {state, "starting", "waiting"}
    BY <1>7 DEF Registered, RegisterFails, sessionVars
  <2> QED
    BY <1>1, <1>2, <1>3, <2>1, <2>2
<1>8. CASE SessionFails
  <2>1. \E s \in Said : Does("init", s)
    BY <1>3, <1>8 DEF SessionFails
  <2>2. UNCHANGED <<led, fini, state>> /\ (thread' = thread \/ thread' = "none")
    BY <1>8 DEF SessionFails, S!InitFails, sessionVars
  <2> QED
    BY <1>1, <1>2, <2>1, <2>2
<1> QED
  BY <1>4, <1>5, <1>6, <1>7, <1>8

\* The flags are cleared, and what comes of it is waited for.
LEMMA BeginsKeep ==
  ASSUME LedTypes, SessionInv, ListInv, LitInv, ConnectBegins
  PROVE  ListInv' /\ LitInv'
<1> USE DEF LedTypes
<1>1. /\ todo' = <<"associate">> /\ fini = "idle"
      /\ todo # <<>> /\ Head(todo) = "request"
  <2>1. <<"associate">> \in Seq(Steps) /\ "request" \in LastSteps
    BY DEF Steps, LastSteps
  <2>2. Does("request", <<"associate">>)
    BY DEF ConnectBegins
  <2> QED
    BY <2>1, <2>2, DoesLast
<1>2. thread = "none" /\ ~InSession
  <2>1. Head(todo) \in IdleSteps
    BY <1>1 DEF IdleSteps, LastSteps
  <2> QED
    BY <1>1, <2>1, IdleHead
<1>3. UNCHANGED <<thread, fini, led, state>>
  BY DEF ConnectBegins, sessionVars
<1>4. ~InSession'
  BY <1>2, <1>3 DEF InSession
<1>5. /\ Ordered(<<"associate">>) /\ Has(<<"associate">>, LightSteps)
      /\ ~Has(<<"associate">>, {"look"})
  BY DEF Ordered, Has, LightSteps, LastSteps
<1>6. ~EndsInFini' /\ todo' # <<"fini">>
  BY <1>1 DEF EndsInFini
<1>7. ListInv'
  BY <1>1, <1>2, <1>3, <1>4, <1>5, <1>6 DEF ListInv
<1>8. LedLetsGo'
  BY <1>1, <1>2, <1>3 DEF LitInv, LedLetsGo
<1> QED
  BY <1>1, <1>5, <1>6, <1>7, <1>8 DEF LitInv

\* A look at s_connected: what it finds stays so until main acts on it.
LEMMA LooksKeep ==
  ASSUME LedTypes, SessionInv, ListInv, LitInv,
         TakeSessionEvent \/ SessionUp \/ SessionDropped
  PROVE  ListInv' /\ LitInv'
<1> USE DEF LedTypes
<1>1. CASE TakeSessionEvent
  <2>1. /\ todo = <<>> /\ todo' = <<"look">> /\ sem = 1
        /\ UNCHANGED <<led, fini, thread, connected, state>>
    BY <1>1 DEF TakeSessionEvent, Plan, S!TakeEvent
  <2>2. thread \notin {"connecting", "connected_cb"}
    BY <2>1 DEF SessionInv, S!NoStaleEvent
  <2>3. /\ Ordered(todo') /\ Has(todo', LightSteps) /\ ~Has(todo', IdleSteps)
    BY <2>1, FiniInLists, Zenon
  <2>4. ~EndsInFini' /\ todo' # <<"fini">>
    BY <2>1 DEF EndsInFini
  <2>5. thread # "none" => InSession'
    BY <2>1 DEF ListInv, Has, InSession
  <2>6. ListInv'
    BY <2>1, <2>2, <2>3, <2>4, <2>5 DEF ListInv
  <2>7. LedLetsGo'
    BY <2>1 DEF LitInv, LedLetsGo
  <2> QED
    BY <2>3, <2>4, <2>6, <2>7 DEF LitInv
<1>2. CASE SessionUp
  <2>1. Say \in Seq(Steps) /\ "look" \in LastSteps
    BY DEF Say, Steps, LastSteps
  <2>2. Does("look", Say)
    BY <1>2 DEF SessionUp
  <2>3. todo' = <<"log", "led">> /\ Head(todo) = "look"
    BY <2>1, <2>2, DoesLast DEF Say
  <2>4. UNCHANGED <<led, fini, thread>> /\ InSession'
    BY <1>2 DEF SessionUp, sessionVars, InSession
  <2>5. Good(todo') /\ ~Has(todo', IdleSteps)
    BY <2>3, GoodSay, FiniInLists, Zenon
  <2>6. todo'[Len(todo')] # "fini"
    BY <2>3
  <2> QED
    BY <2>3, <2>4, <2>5, <2>6, PlanKeeps
<1>3. CASE SessionDropped
  <2>1. Say \o <<"fini">> = <<"log", "led", "fini">> /\ "look" \in LastSteps
    BY Lists DEF Steps, LastSteps
  <2>2. <<"log", "led", "fini">> \in Seq(Steps)
    BY DEF Steps
  <2>3. Does("look", <<"log", "led", "fini">>)
    BY <1>3, <2>1 DEF SessionDropped
  <2>4. todo' = <<"log", "led", "fini">> /\ todo = <<"look">> /\ fini = "idle"
    BY <2>1, <2>2, <2>3, DoesLast
  <2>5. UNCHANGED <<led, fini, thread, connected>> /\ ~InSession' /\ ~connected
    BY <1>3 DEF SessionDropped, sessionVars, InSession
  <2>6. thread \notin {"connecting", "connected_cb"}
    BY <2>4 DEF ListInv, Has
  <2>7. Good(todo') /\ Has(todo', {"fini"})
    BY <2>4, GoodSay, FiniInLists, Zenon
  <2>8. ListInv'
    BY <2>4, <2>5, <2>6, <2>7 DEF ListInv, Good, Down
  <2>9. LedLetsGo'
    BY <2>4, <2>5 DEF LitInv, LedLetsGo
  <2> QED
    BY <2>7, <2>8, <2>9 DEF LitInv, Good
<1> QED
  BY <1>1, <1>2, <1>3

LEMMA LitKept ==
  ASSUME UNCHANGED <<connected, led, seen>>
  PROVE  Lit' = Lit
BY Zenon DEF Lit, PatternOf

\* A refresh shows what is so: a session that main has dropped is not.
LEMMA RefreshKeeps ==
  ASSUME LedTypes, SessionInv, ListInv, LitInv, LedRefresh
  PROVE  ListInv' /\ LitInv'
<1> USE DEF LedTypes
<1>1. /\ todo # <<>> /\ Head(todo) = "led" /\ todo' = Tail(todo)
      /\ UNCHANGED <<thread, fini, connected, state, link, sem>>
      /\ led' = PatternOf(link) /\ seen' = link
  <2>1. Tail(todo) \in Seq(Steps)
    BY HeadTailProperties DEF LedRefresh, Does
  <2>2. <<>> \o Tail(todo) = Tail(todo)
    BY <2>1, ConcatEmptySeq
  <2> QED
    BY <2>2 DEF LedRefresh, Does, sessionVars
<1>2. ListInv'
  BY <1>1, PopKeeps
<1>3. Lit'
  BY <1>1 DEF Lit, PatternOf
<1>4. ~connected => led' # "ps5_connected"
  BY <1>1 DEF PatternOf
<1>5. thread = "none" => ~connected
  BY DEF SessionInv, S!ConnectedMeansLive
<1>6. todo' = <<"fini">> => led' # "ps5_connected"
  <2>1. ASSUME todo' = <<"fini">> PROVE EndsInFini
    <3>1. EndsInFini'
      BY <2>1 DEF EndsInFini
    <3> QED
      BY <1>1, <2>1, <3>1, RestEnds DEF EndsInFini
  <2> QED
    BY <1>4, <2>1 DEF ListInv, Down
<1>7. LedLetsGo'
  BY <1>1, <1>4, <1>5 DEF LedLetsGo
<1> QED
  BY <1>2, <1>3, <1>6, <1>7 DEF LitInv

\* After the line comes a line or a refresh, after leaving a network a connect.
LEMMA PopsKeep ==
  ASSUME LedTypes, SessionInv, ListInv, LitInv,
         todo # <<>>, Head(todo) \in {"log", "leave"}, todo' = Tail(todo),
         UNCHANGED <<sessionVars, state, led>>,
         Head(todo) = "log" => UNCHANGED seen
  PROVE  ListInv' /\ LitInv'
<1> USE DEF LedTypes
<1>1. ListInv'
  <2>1. Head(todo) # "fini"
    OBVIOUS
  <2> QED
    BY <2>1, PopKeeps DEF sessionVars
<1>2. todo' # <<"fini">> /\ (Head(todo) = "leave" => Has(todo', LightSteps))
  <2>1. Len(todo) > 1 /\ todo[2] \in {"log", "led", "connect"}
        /\ (Head(todo) = "leave" => todo[2] = "connect")
    BY AfterHead DEF ListInv
  <2>2. 1 \in DOMAIN Tail(todo) /\ Tail(todo)[1] = todo[2]
    BY <2>1, Rest, HeadTailProperties
  <2>3. Tail(todo) \in Seq(Steps) /\ Tail(todo) # <<>> /\ Head(Tail(todo)) = todo[2]
    BY <2>2, Rest, RestEnds
  <2>4. Tail(todo) # <<"fini">>
    BY <2>1, <2>3, OneStep
  <2> QED
    BY <2>1, <2>2, <2>4 DEF Has, LightSteps
<1>3. Has(todo, LightSteps) => Has(todo', LightSteps)
  <2>1. Head(todo) \notin LightSteps
    BY DEF LightSteps
  <2> QED
    BY <2>1, RestHas
<1>4. LedLetsGo'
  BY DEF LitInv, LedLetsGo, sessionVars
<1>5. CASE Head(todo) = "leave"
  BY <1>1, <1>2, <1>4, <1>5 DEF LitInv
<1>6. CASE Head(todo) = "log"
  <2>1. Lit' = Lit
    BY <1>6, LitKept DEF sessionVars
  <2> QED
    BY <1>1, <1>2, <1>3, <1>4, <2>1 DEF LitInv, sessionVars
<1> QED
  BY <1>5, <1>6

\* Main gives up without a word, which it has said before.
LEMMA SilentKeeps ==
  ASSUME LedTypes, SessionInv, ListInv, LitInv,
         \/ ConnectNoSsid /\ Head(todo) = "retry"
         \/ CannotStart \/ SessionStarts
  PROVE  ListInv' /\ LitInv'
<1> USE DEF LedTypes
<1>1. todo' = <<>> /\ UNCHANGED <<led, fini, link, seen>> /\ fini = "idle"
      /\ thread = "none" /\ ~Has(todo, LightSteps)
      /\ (todo = <<>> \/ Head(todo) # "led")
  <2>1. ASSUME NEW step \in {"retry", "init"}, Does(step, <<>>)
        PROVE  /\ todo' = <<>> /\ fini = "idle" /\ thread = "none"
               /\ ~Has(todo, LightSteps) /\ Head(todo) # "led"
    <3>1. step \in LastSteps /\ step \in IdleSteps /\ step \notin LightSteps
      BY DEF LastSteps, IdleSteps, LightSteps
    <3>2. todo' = <<>> /\ todo = <<step>> /\ Head(todo) = step /\ todo # <<>>
      <4>1. <<>> \in Seq(Steps)
        OBVIOUS
      <4> QED
        BY <2>1, <3>1, <4>1, DoesLast, Zenon
    <3>3. ~Has(todo, LightSteps)
      BY <3>1, <3>2 DEF Has
    <3> QED
      BY <3>1, <3>2, <3>3, IdleHead
  <2>2. CASE ConnectNoSsid /\ Head(todo) = "retry"
    <3>1. Does("retry", <<>>) /\ UNCHANGED <<led, fini, link, seen>>
      BY <2>2 DEF ConnectNoSsid, Does, sessionVars
    <3> QED
      BY <2>1, <3>1
  <2>3. CASE SessionStarts
    <3>1. Does("init", <<>>) /\ UNCHANGED <<led, fini, link, seen>>
      BY <2>3 DEF SessionStarts, S!InitStarts
    <3> QED
      BY <2>1, <3>1
  <2>4. CASE CannotStart
    <3>1. /\ todo = <<>> /\ todo' = <<>> /\ ~InSession
          /\ UNCHANGED <<led, fini, link, seen>>
      BY <2>4 DEF CannotStart, Plan, sessionVars, InSession
    <3> QED
      BY <3>1 DEF ListInv, Has
  <2> QED
    BY <2>2, <2>3, <2>4
<1>2. connected' = FALSE /\ connected = FALSE /\ (thread' = "none" \/ InSession')
  <2>1. connected = FALSE
    BY <1>1 DEF SessionInv, S!ConnectedMeansLive, S!TypeOK
  <2>2. CASE SessionStarts
    BY <2>1, <2>2 DEF SessionStarts, S!InitStarts, InSession
  <2>3. CASE ~SessionStarts
    BY <1>1, <2>1, <2>3 DEF ConnectNoSsid, CannotStart, sessionVars
  <2> QED
    BY <2>2, <2>3
<1>3. ListInv'
  <2>1. ~EndsInFini' /\ Ordered(<<>>) /\ ~Has(<<>>, IdleSteps) /\ ~Has(<<>>, {"look"})
    BY <1>1 DEF EndsInFini, Ordered, Has
  <2> QED
    BY <1>1, <1>2, <2>1 DEF ListInv
<1>4. Lit'
  <2>1. Lit
    BY <1>1 DEF LitInv
  <2>2. Lit' = Lit
    BY <1>1, <1>2, LitKept
  <2> QED
    BY <2>1, <2>2
<1>5. led # "ps5_connected"
  BY <1>1 DEF LitInv, LedLetsGo
<1> QED
  BY <1>1, <1>3, <1>4, <1>5 DEF LitInv, LedLetsGo

\* session_fini: main refreshes the LED after it, or has before.
LEMMA FiniKeeps ==
  ASSUME LedTypes, SessionInv, SessionInv', ListInv, LitInv, SessionFini
  PROVE  ListInv' /\ LitInv'
<1> USE DEF LedTypes
<1>1. todo # <<>> /\ Head(todo) = "fini" /\ UNCHANGED <<led, link, seen, state>>
  BY DEF SessionFini, Does
<1>2. Head(todo) \notin LightSteps /\ Head(todo) \notin IdleSteps /\ Head(todo) # "look"
  BY <1>1 DEF LightSteps, IdleSteps, LastSteps
<1>3. \/ todo = <<"fini">> /\ EndsInFini
      \/ Len(todo) > 1 /\ todo[2] = "led"
  BY <1>1, AfterHead DEF ListInv, EndsInFini
<1>4. Len(todo) > 1 => Has(todo, LightSteps)
  BY <1>3, Rest DEF Has, LightSteps
<1>5. CASE S!FiniClear \/ S!FiniStop \/ S!FiniStopDead
  <2>1. UNCHANGED <<todo, thread, sem>> /\ connected' \in {connected, FALSE}
    BY <1>5 DEF SessionFini, S!FiniClear, S!FiniStop, S!FiniStopDead, S!FiniJoin
  <2>2. Down => Down' /\ UNCHANGED connected
    BY <2>1 DEF Down, S!TypeOK
  <2>3. InSession' = InSession
    BY <1>1, Zenon DEF InSession
  <2>4. ListInv'
    BY <1>1, <2>1, <2>2, <2>3, Zenon DEF ListInv, EndsInFini
  <2>5. LedLetsGo'
    BY <1>1, <2>1 DEF LitInv, LedLetsGo
  <2>6. CASE Len(todo) > 1
    <3>1. todo # <<"fini">>
      BY <1>1, <2>6, OneStep
    <3> QED
      BY <1>4, <2>1, <2>4, <2>5, <2>6, <3>1 DEF LitInv
  <2>7. CASE todo = <<"fini">> /\ EndsInFini
    <3>1. UNCHANGED connected
      BY <2>2, <2>7 DEF ListInv
    <3>2. Lit' = Lit
      BY <1>1, <3>1, LitKept
    <3> QED
      BY <1>1, <2>1, <2>4, <2>5, <2>7, <3>2 DEF LitInv
  <2> QED
    BY <1>3, <2>6, <2>7
<1>6. CASE S!FiniJoin /\ Does("fini", <<>>)
  <2>1. /\ todo' = Tail(todo) /\ thread' = "none" /\ fini' = "idle"
        /\ UNCHANGED <<connected, sem>>
    <3>1. Tail(todo) \in Seq(Steps)
      BY <1>1, HeadTailProperties
    <3>2. <<>> \o Tail(todo) = Tail(todo)
      BY <3>1, ConcatEmptySeq
    <3> QED
      BY <1>6, <3>2 DEF Does, S!FiniJoin
  <2>2. ~connected
    BY <1>6 DEF S!FiniJoin, SessionInv, S!ConnectedMeansLive
  <2>3. Ordered(todo')
    BY <1>1, <2>1, RestOrdered DEF ListInv
  <2>4. Has(todo', IdleSteps) => Has(todo, IdleSteps)
    BY <1>1, <2>1, RestHas
  <2>5. InSession' = InSession
    BY <1>1, Zenon DEF InSession
  <2>6. Down'
    BY <2>1, <2>2 DEF Down
  <2>7. ListInv'
    BY <2>1, <2>3, <2>4, <2>5, <2>6 DEF ListInv
  <2>8. CASE Len(todo) > 1 /\ todo[2] = "led"
    <3>1. Len(todo') = Len(todo) - 1 /\ todo' \in Seq(Steps)
      BY <1>1, <2>1, Rest
    <3>2. todo' # <<>>
      BY <1>1, <2>8, <3>1, Rest
    <3>3. Head(todo') = "led"
      BY <1>1, <2>1, <2>8, <3>2, RestEnds
    <3>4. Has(todo', LightSteps) /\ todo' # <<"fini">>
      BY <3>1, <3>2, <3>3, Rest DEF Has, LightSteps
    <3> QED
      BY <2>7, <3>2, <3>3, <3>4 DEF LitInv, LedLetsGo
  <2>9. CASE todo = <<"fini">>
    <3>1. todo' = <<>>
      BY <2>1, <2>9
    <3>2. Lit' = Lit
      BY <1>1, <2>1, LitKept
    <3> QED
      BY <1>1, <2>7, <2>9, <3>1, <3>2 DEF LitInv, LedLetsGo
  <2> QED
    BY <1>3, <2>8, <2>9
<1> QED
  BY <1>5, <1>6 DEF SessionFini

-----------------------------------------------------------------------------
(* The other steps, and the LED.                                             *)

\* What chiaki's callback changes, main is told, or is tearing down.
LEMMA CallbacksKeep ==
  ASSUME LedTypes, SessionInv, ListInv, LitInv, SessionCallback
  PROVE  ListInv' /\ LitInv'
<1> USE DEF LedTypes
<1>1. UNCHANGED <<todo, state, fini, link, led, seen>>
  BY DEF SessionCallback, S!Chiaki, S!ConnectedFlag, S!ConnectedGive, S!QuitFlag,
         S!QuitGive, mainVars
<1>2. thread # "none" /\ thread' # "none"
  BY DEF SessionCallback, S!Chiaki, S!ConnectedFlag, S!ConnectedGive, S!QuitFlag,
         S!QuitGive
<1>3. thread' \in {"connecting", "connected_cb"}
        => thread \in {"connecting", "connected_cb"}
  BY DEF SessionCallback, S!Chiaki, S!ConnectedFlag, S!ConnectedGive, S!QuitFlag,
         S!QuitGive
<1>4. Down => Down' /\ UNCHANGED connected
  BY DEF SessionCallback, S!Chiaki, S!ConnectedFlag, S!ConnectedGive, S!QuitFlag,
         S!QuitGive, Down, S!TypeOK
<1>5. sem' = 1 \/ thread' \in {"connected_cb", "quit_cb"}
  BY DEF SessionCallback, S!Chiaki, S!ConnectedFlag, S!ConnectedGive, S!QuitFlag,
         S!QuitGive
<1>6. InSession' = InSession
  BY <1>1, Zenon DEF InSession
<1>7. ListInv'
  BY <1>1, <1>2, <1>3, <1>4, <1>6, Zenon DEF ListInv, EndsInFini
<1>8. ASSUME todo = <<"fini">> PROVE Lit' /\ led' # "ps5_connected"
  <2>1. EndsInFini
    BY <1>8 DEF EndsInFini
  <2>2. UNCHANGED connected
    BY <1>4, <2>1 DEF ListInv
  <2>3. Lit' = Lit
    BY <1>1, <2>2, LitKept
  <2> QED
    BY <1>1, <1>8, <2>3 DEF LitInv
<1> QED
  BY <1>1, <1>2, <1>5, <1>7, <1>8 DEF LitInv, LedLetsGo

LEMMA LinkMovesKeeps ==
  ASSUME ListInv, LitInv, LinkMoves
  PROVE  ListInv' /\ LitInv'
<1>1. UNCHANGED <<todo, state, fini, led, seen, connected, thread, sem>>
  BY DEF LinkMoves, sessionVars, mainVars
<1>2. InSession' = InSession /\ Down' = Down
  BY <1>1, Zenon DEF InSession, Down
<1>3. ListInv'
  BY <1>1, <1>2, Zenon DEF ListInv, EndsInFini
<1>4. LedLetsGo'
  BY <1>1 DEF LitInv, LedLetsGo
<1>5. Lit' = Lit
  BY <1>1, LitKept
<1> QED
  BY <1>1, <1>3, <1>4, <1>5 DEF LitInv

\* Lines are logged with the LED left as it is.
LEMMA LinesKeep ==
  ASSUME LedTypes, CopyTypes, TodoTypes, SessionInv, ListInv, LitInv,
         \E w \in Writers : Enter(w) \/ StatusLogf(w)
  PROVE  ListInv' /\ LitInv'
<1>1. CASE Submit("main")
  <2>1. todo # <<>> /\ Head(todo) = "log" /\ todo' = Tail(todo)
    BY <1>1 DEF Submit, Goes, TodoTypes
  <2>2. UNCHANGED <<sessionVars, link, state, led, seen>>
    BY <1>1 DEF Submit
  <2> QED
    BY <2>1, <2>2, PopsKeep
<1>2. CASE ~Submit("main")
  <2>1. UNCHANGED <<sessionVars, link, state, todo, led, seen>>
    BY <1>2 DEF Enter, StatusLogf, Format, SetFlags, CopyFlags, CopyMessage,
                Submit, mainVars, Writers
  <2> QED
    BY <2>1, AsideKeeps DEF sessionVars
<1> QED
  BY <1>1, <1>2

LEMMA LedKept ==
  ASSUME LedTypes, CopyTypes, TodoTypes, SessionInv, SessionInv', ListInv, LitInv,
         [Next]_vars
  PROVE  ListInv' /\ LitInv'
<1>1. CASE \E w \in Writers : Enter(w) \/ StatusLogf(w)
  BY <1>1, LinesKeep
<1>2. CASE WifiChanged \/ Ps5Changed \/ Link \/ StartSession
  BY <1>2, EventsKeep
<1>3. CASE ConnectTry \/ ConnectBegins \/ ConnectOk \/ ConnectFails
  BY <1>3, OutcomesKeep, BeginsKeep
<1>4. CASE Registered \/ RegisterFails \/ SessionFails
  BY <1>4, OutcomesKeep
<1>5. CASE ConnectNoSsid
  BY <1>5, OutcomesKeep, SilentKeeps
<1>6. CASE TakeSessionEvent \/ SessionUp \/ SessionDropped
  BY <1>6, LooksKeep
<1>7. CASE LedRefresh
  BY <1>7, RefreshKeeps
<1>8. CASE Leave
  <2>1. todo # <<>> /\ Head(todo) = "leave" /\ todo' = Tail(todo)
    <3>1. todo # <<>> /\ Head(todo) = "leave" /\ todo' = <<>> \o Tail(todo)
      BY <1>8 DEF Leave, Does
    <3>2. Tail(todo) \in Seq(Steps)
      BY <3>1, HeadTailProperties DEF LedTypes
    <3>3. <<>> \o Tail(todo) = Tail(todo)
      BY <3>2, ConcatEmptySeq
    <3> QED
      BY <3>1, <3>3
  <2>2. UNCHANGED <<sessionVars, state, led>>
    BY <1>8 DEF Leave
  <2> QED
    BY <2>1, <2>2, PopsKeep
<1>9. CASE CannotStart \/ SessionStarts
  BY <1>9, SilentKeeps
<1>10. CASE SessionFini
  BY <1>10, FiniKeeps
<1>11. CASE SessionCallback
  BY <1>11, CallbacksKeep
<1>12. CASE LinkMoves
  BY <1>12, LinkMovesKeeps
<1>13. CASE Host \/ UNCHANGED vars
  <2>1. UNCHANGED <<sessionVars, link, state, todo, led, seen>>
    BY <1>13 DEF Host, Load, InputReport, OpenDevice, Listen, GetReport, Fetched,
                 CloseDevice, beside, mainVars, vars
  <2> QED
    BY <2>1, AsideKeeps DEF sessionVars
<1> QED
  BY <1>1, <1>2, <1>3, <1>4, <1>5, <1>6, <1>7, <1>8, <1>9, <1>10, <1>11, <1>12, <1>13
     DEF Next, Main, Chiaki, MainLogs, ChiakiLogs, Writers

LEMMA LedInvariant == Spec => [](SessionInv /\ ListInv /\ LitInv)
<1> DEFINE Inv == SessionInv /\ ListInv /\ LitInv
<1>1. Init => Inv
  <2> SUFFICES ASSUME Init PROVE Inv
    OBVIOUS
  <2>1. todo = <<"connect">> /\ state = "waiting" /\ thread = "none"
        /\ fini = "idle" /\ connected = FALSE /\ led = "no_wifi"
    BY DEF Init, S!Init
  <2>2. /\ Ordered(<<"connect">>) /\ Has(<<"connect">>, LightSteps)
        /\ ~Has(<<"connect">>, {"look"})
    BY DEF Ordered, Has, LightSteps, LastSteps
  <2>3. ~EndsInFini /\ todo # <<"fini">> /\ ~InSession
    BY <2>1 DEF EndsInFini, InSession
  <2>4. SessionInv
    BY <2>1 DEF SessionInv, S!ConnectedMeansLive, S!NoStaleEvent
  <2>5. ListInv
    BY <2>1, <2>2, <2>3 DEF ListInv
  <2> QED
    BY <2>1, <2>2, <2>3, <2>4, <2>5 DEF LitInv, LedLetsGo
<1>2. AllTypes /\ Inv /\ [Next]_vars => Inv'
  BY StepsOfSession, SessionInvKept, LedKept DEF AllTypes, LedTypes, TodoTypes
<1> QED
  BY <1>1, <1>2, AllTypesHold, PTL DEF Spec

\* The LED of a parked controller shows the session, and the link as main last
\* made or found it: in whatever order main, session.c and chiaki took their
\* turns, main has refreshed the LED since it changed either, or learnt of a
\* change.  What the driver does to the link by itself is not in it: main does not
\* learn of that, and the LED stays.
THEOREM LedKeepsUp == Spec => []LedFollowsMain
<1>1. SessionInv /\ ListInv /\ LitInv => LedFollowsMain
  BY DEF LitInv, LedFollowsMain, Parked, Lit, Has
<1> QED
  BY <1>1, LedInvariant, PTL

\* A session that is torn down is not shown, whichever way main came to tear it
\* down and whatever it waits for next.
THEOREM LedForgetsSession == Spec => []LedLetsGo
<1>1. SessionInv /\ ListInv /\ LitInv => LedLetsGo
  BY DEF LitInv
<1> QED
  BY <1>1, LedInvariant, PTL

=============================================================================
