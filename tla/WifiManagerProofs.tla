------------------------- MODULE WifiManagerProofs -------------------------
(* Theorems about WifiManager, for every set of credentials and every length *)
(* of the event queue.                                                       *)
EXTENDS WifiManager, SequenceTheorems, TLAPS

-----------------------------------------------------------------------------
(* Type correctness.                                                         *)

LEMMA RaiseTypes ==
  ASSUME TypeOK, NEW e \in Events, Raise(e),
         link' \in {"down", "joining", "up"}, leased' \in BOOLEAN
  PROVE  TypeOK'
<1>1. queue' \in Seq(Events)
  BY DEF TypeOK, Raise
<1> QED
  BY <1>1, ZenonT(60) DEF TypeOK, Raise, flagVars, semVars, callVars

LEMMA DriverTypes == TypeOK /\ Driver => TypeOK'
<1> SUFFICES ASSUME TypeOK, Driver PROVE TypeOK'
  OBVIOUS
<1>1. PICK e \in Events : Raise(e)
  BY DEF Driver, Associate, Refuse, Lease, Drop, Events, ConnectResults
<1>2. link' \in {"down", "joining", "up"} /\ leased' \in BOOLEAN
  BY DEF Driver, Associate, Refuse, Lease, Drop, TypeOK
<1> QED
  BY <1>1, <1>2, RaiseTypes

LEMMA HandlerTypes == TypeOK /\ Handler => TypeOK'
<1> SUFFICES ASSUME TypeOK, Handler PROVE TypeOK'
  OBVIOUS
<1> USE DEF TypeOK, flagVars, semVars, driverVars, callVars
<1>1. CASE HandleEvent
  <2>1. Head(queue) \in Events /\ Tail(queue) \in Seq(Events)
    BY <1>1 DEF HandleEvent
  <2> QED
    BY <1>1, <2>1 DEF HandleEvent, Events
<1>2. CASE StoreConnected
  BY <1>2 DEF StoreConnected, StoresConnected
<1>3. CASE StoreIpv4
  BY <1>3 DEF StoreIpv4
<1>4. CASE GiveSem
  BY <1>4 DEF GiveSem
<1> QED
  BY <1>1, <1>2, <1>3, <1>4 DEF Handler

LEMMA ConnectTypes == TypeOK /\ (ConnectBegins \/ Connect) => TypeOK'
<1> SUFFICES ASSUME TypeOK, ConnectBegins \/ Connect PROVE TypeOK'
  OBVIOUS
<1> USE DEF TypeOK, Goes, Moves, Returns, Results, ForceFlags,
            flagVars, semVars, threadVars, driverVars
<1>1. CASE ConnectBegins
  BY <1>1, ZenonT(60) DEF ConnectBegins
<1>2. ASSUME NEW c \in Credentials, Clear(c) PROVE TypeOK'
  BY <1>2 DEF Clear, Begin, ConnectResults, Events
<1>3. CASE RequestAccepted
  BY <1>3 DEF RequestAccepted
<1>4. CASE RequestRefused
  BY <1>4, ZenonT(60) DEF RequestRefused
<1>5. CASE JoinTimeout
  BY <1>5 DEF JoinTimeout
<1>6. CASE TakeConnected
  BY <1>6, ZenonT(60) DEF TakeConnected
<1>7. CASE CheckConnected
  BY <1>7 DEF CheckConnected
<1>8. CASE ConnectFailed
  BY <1>8 DEF ConnectFailed
<1>9. CASE Ipv4Timeout
  BY <1>9 DEF Ipv4Timeout
<1>10. CASE TakeIpv4
  BY <1>10 DEF TakeIpv4
<1> QED
  BY <1>1, <1>2, <1>3, <1>4, <1>5, <1>6, <1>7, <1>8, <1>9, <1>10 DEF Connect

LEMMA DisconnectTypes == TypeOK /\ (DisconnectBegins \/ Disconnect) => TypeOK'
<1> SUFFICES ASSUME TypeOK, DisconnectBegins \/ Disconnect PROVE TypeOK'
  OBVIOUS
<1> USE DEF TypeOK, Goes, Moves, ForceFlags, flagVars, semVars, threadVars, driverVars
<1>1. CASE DisconnectBegins
  BY <1>1 DEF DisconnectBegins
<1>2. CASE NothingToLeave
  BY <1>2 DEF NothingToLeave
<1>3. CASE ResetDisconnected
  BY <1>3 DEF ResetDisconnected
<1>4. CASE LeaveRefused
  BY <1>4 DEF LeaveRefused
<1>5. CASE LeaveAccepted
  <2>1. queue' \in Seq(Events)
    BY <1>5 DEF LeaveAccepted, Events
  <2> QED
    BY <1>5, <2>1, ZenonT(60) DEF LeaveAccepted
<1>6. CASE LeftAlready
  BY <1>6 DEF LeftAlready
<1>7. CASE TakeDisconnected
  BY <1>7 DEF TakeDisconnected
<1>8. CASE LeaveTimeout
  BY <1>8 DEF LeaveTimeout
<1> QED
  BY <1>1, <1>2, <1>3, <1>4, <1>5, <1>6, <1>7, <1>8 DEF Disconnect

\* Every variable of the Wi-Fi manager stays in its range: in particular a
\* connect only ever returns 0, -EACCES or another error.
THEOREM TypeCorrect == Spec => []TypeOK
<1>1. Init => TypeOK
  <2> SUFFICES ASSUME Init PROVE TypeOK
    OBVIOUS
  <2>1. queue \in Seq(Events) /\ heard \subseteq Events
    BY DEF Init
  <2> QED
    BY <2>1, Zenon DEF Init, TypeOK, ConnectResults, Results
<1>2. TypeOK /\ [Next]_vars => TypeOK'
  <2> SUFFICES ASSUME TypeOK, [Next]_vars PROVE TypeOK'
    OBVIOUS
  <2>1. CASE UNCHANGED vars
    BY <2>1 DEF TypeOK, vars, flagVars, semVars, threadVars, driverVars, callVars
  <2>2. CASE Next
    BY <2>2, DriverTypes, HandlerTypes, ConnectTypes, DisconnectTypes DEF Next
  <2> QED
    BY <2>1, <2>2
<1> QED
  BY <1>1, <1>2, PTL DEF Spec

-----------------------------------------------------------------------------
(* What a connect answers.  The flag, the status and the semaphores each     *)
(* stand for an event that counts, and a wait for an address for an          *)
(* association that counts.                                                  *)

Earned ==
  /\ event # "none" => event \in heard
  /\ wifiConnected => "joined" \in heard
  /\ lastStatus = "wrong_password" => "wrong_password" \in heard
  /\ ipv4Sem => "address" \in heard
  /\ pc = "wait_ipv4" => "joined" \in heard

EarnedInv == Earned /\ AnswersEarned

LEMMA EventsKeepEarned == EarnedInv /\ (Driver \/ Handler) => EarnedInv'
<1> SUFFICES ASSUME EarnedInv, Driver \/ Handler PROVE EarnedInv'
  OBVIOUS
<1> USE DEF EarnedInv, Earned, AnswersEarned, flagVars, semVars, driverVars, callVars
<1>1. CASE Driver
  <2>1. PICK e : Raise(e)
    BY <1>1 DEF Driver, Associate, Refuse, Lease, Drop
  <2> QED
    BY <2>1 DEF Raise
<1>2. CASE HandleEvent
  BY <1>2 DEF HandleEvent
<1>3. CASE StoreConnected
  BY <1>3 DEF StoreConnected, StoresConnected
<1>4. CASE StoreIpv4
  BY <1>4 DEF StoreIpv4
<1>5. CASE GiveSem
  BY <1>5 DEF GiveSem
<1> QED
  BY <1>1, <1>2, <1>3, <1>4, <1>5 DEF Handler

LEMMA ConnectKeepsEarned == EarnedInv /\ (ConnectBegins \/ Connect) => EarnedInv'
<1> SUFFICES ASSUME EarnedInv, ConnectBegins \/ Connect PROVE EarnedInv'
  OBVIOUS
<1> USE DEF EarnedInv, Earned, AnswersEarned, Goes, Moves, Returns, ForceFlags,
            flagVars, semVars, threadVars, driverVars
<1>1. CASE ConnectBegins
  BY <1>1 DEF ConnectBegins
<1>2. ASSUME NEW c \in Credentials, Clear(c) PROVE EarnedInv'
  BY <1>2 DEF Clear, Begin
<1>3. CASE RequestAccepted
  BY <1>3 DEF RequestAccepted
<1>4. CASE RequestRefused
  BY <1>4 DEF RequestRefused
<1>5. CASE JoinTimeout
  BY <1>5 DEF JoinTimeout
<1>6. CASE TakeConnected
  BY <1>6 DEF TakeConnected
<1>7. CASE CheckConnected
  BY <1>7 DEF CheckConnected
<1>8. CASE ConnectFailed
  BY <1>8 DEF ConnectFailed
<1>9. CASE Ipv4Timeout
  BY <1>9 DEF Ipv4Timeout
<1>10. CASE TakeIpv4
  BY <1>10 DEF TakeIpv4
<1> QED
  BY <1>1, <1>2, <1>3, <1>4, <1>5, <1>6, <1>7, <1>8, <1>9, <1>10 DEF Connect

LEMMA DisconnectKeepsEarned == EarnedInv /\ (DisconnectBegins \/ Disconnect) => EarnedInv'
<1> SUFFICES ASSUME EarnedInv, DisconnectBegins \/ Disconnect PROVE EarnedInv'
  OBVIOUS
<1> USE DEF EarnedInv, Earned, AnswersEarned, Goes, Moves, ForceFlags,
            flagVars, semVars, threadVars, driverVars
<1>1. CASE DisconnectBegins
  BY <1>1 DEF DisconnectBegins
<1>2. CASE NothingToLeave
  BY <1>2 DEF NothingToLeave
<1>3. CASE ResetDisconnected
  BY <1>3 DEF ResetDisconnected
<1>4. CASE LeaveRefused
  BY <1>4 DEF LeaveRefused
<1>5. CASE LeaveAccepted
  BY <1>5 DEF LeaveAccepted
<1>6. CASE LeftAlready
  BY <1>6 DEF LeftAlready
<1>7. CASE TakeDisconnected
  BY <1>7 DEF TakeDisconnected
<1>8. CASE LeaveTimeout
  BY <1>8 DEF LeaveTimeout
<1> QED
  BY <1>1, <1>2, <1>3, <1>4, <1>5, <1>6, <1>7, <1>8 DEF Disconnect

\* However many events are on their way when a connect begins, what was handled
\* before its reset does not answer it: it returns 0 only over an association and
\* an address, and -EACCES only over a wrong password, that were handled since, be
\* they of this attempt or of an earlier one.
THEOREM NothingLeftAnswers == Spec => []AnswersEarned
<1>1. Init => EarnedInv
  BY DEF Init, EarnedInv, Earned, AnswersEarned
<1>2. EarnedInv /\ [Next]_vars => EarnedInv'
  <2>1. EarnedInv /\ UNCHANGED vars => EarnedInv'
    BY DEF EarnedInv, Earned, AnswersEarned, vars, flagVars, semVars,
           threadVars, driverVars, callVars
  <2> QED
    BY <2>1, EventsKeepEarned, ConnectKeepsEarned, DisconnectKeepsEarned DEF Next
<1>3. EarnedInv => AnswersEarned
  BY DEF EarnedInv
<1> QED
  BY <1>1, <1>2, <1>3, PTL DEF Spec

-----------------------------------------------------------------------------
(* What the flags come to.  The driver raises nothing while it is down, and  *)
(* after an association only the address: so the last event it raised tells  *)
(* the link, whether it is still in the queue, in its handler or in a flag.  *)

Last == queue[Len(queue)]

\* What s_wifi_connected is once the handler that runs has made its store.
ConnectedNext == IF at = "connected" THEN event = "joined" ELSE wifiConnected

\* The driver is down: the event that says so is the last, or handled.
DownIsTold ==
  link = "down" =>
    IF queue = <<>> THEN ~ConnectedNext
                    ELSE Last \in {"wrong_password", "not_joined", "lost"}

\* The latest request was taken, and no newer one has cleared the flags.
Current == accepted /\ pc # "request"

\* The driver is up: its association is the last event, or handled.
JoinIsTold ==
  Current /\ link = "up" /\ ~leased =>
    IF queue = <<>> THEN ConnectedNext ELSE Last = "joined"

\* The interface has an address: that is the last event, or handled, and the
\* association is the one before.
LeaseIsTold ==
  Current /\ link = "up" /\ leased =>
    IF queue = <<>>
      THEN /\ at # "connected" /\ wifiConnected
           /\ IF at = "ipv4" THEN event = "address" ELSE ipv4Acquired
      ELSE /\ Last = "address"
           /\ IF Len(queue) = 1 THEN ConnectedNext
                                ELSE queue[Len(queue) - 1] = "joined"

ToldInv ==
  /\ leased => link = "up"
  /\ pc = "wait_lost" => link = "down"
  /\ DownIsTold
  /\ JoinIsTold
  /\ LeaseIsTold

\* What is raised is the last of the queue, and what was last is before it.
LEMMA Raised ==
  ASSUME queue \in Seq(Events), NEW e \in Events, queue' = Append(queue, e)
  PROVE  /\ queue' # <<>>
         /\ Last' = e
         /\ Len(queue') = 1 <=> queue = <<>>
         /\ queue # <<>> => queue'[Len(queue') - 1] = Last
BY DEF Last

\* Taking the head leaves the last of what is left, or nothing.
LEMMA HeadTaken ==
  ASSUME queue \in Seq(Events), queue # <<>>, queue' = Tail(queue)
  PROVE  /\ queue' = <<>> <=> Len(queue) = 1
         /\ queue' # <<>> => Len(queue') = 1 \/ Len(queue') > 1
         /\ queue' = <<>> => Head(queue) = Last
         /\ queue' # <<>> => Last' = Last
         /\ Len(queue') = 1 => Head(queue) = queue[Len(queue) - 1] /\ Len(queue) = 2
         /\ Len(queue') > 1 => queue'[Len(queue') - 1] = queue[Len(queue) - 1]
<1>1. /\ Len(queue) \in Nat \ {0} /\ Len(queue') = Len(queue) - 1
      /\ queue' \in Seq(Events) /\ Head(queue) = queue[1]
  OBVIOUS
<1>2. \A i \in 1..Len(queue') : queue'[i] = queue[i + 1]
  OBVIOUS
<1>3. queue' = <<>> <=> Len(queue') = 0
  BY <1>1, EmptySeq
<1>4. queue' # <<>> => Last' = Last
  BY <1>1, <1>2, <1>3 DEF Last
<1>5. Len(queue') > 1 => queue'[Len(queue') - 1] = queue[Len(queue) - 1]
  BY <1>1, <1>2
<1>6. queue' # <<>> => Len(queue') = 1 \/ Len(queue') > 1
  BY <1>1, <1>3
<1> QED
  BY <1>1, <1>3, <1>4, <1>5, <1>6 DEF Last

LEMMA DriverTells == TypeOK /\ ToldInv /\ Driver => ToldInv'
<1> SUFFICES ASSUME TypeOK, ToldInv, Driver PROVE ToldInv'
  OBVIOUS
<1>1. ASSUME NEW e \in Events, Raise(e)
      PROVE  /\ queue' # <<>>
             /\ Last' = e
             /\ Len(queue') = 1 <=> queue = <<>>
             /\ queue # <<>> => queue'[Len(queue') - 1] = Last
             /\ ConnectedNext' = ConnectedNext
             /\ Current' = Current
             /\ pc' = pc
  BY <1>1, Raised DEF TypeOK, Raise, ConnectedNext, Current, flagVars, callVars
<1> USE DEF ToldInv, DownIsTold, JoinIsTold, LeaseIsTold, Events, ConnectResults
<1>2. CASE Associate
  BY <1>1, <1>2 DEF Associate
<1>3. CASE Refuse("wrong_password")
  BY <1>1, <1>3 DEF Refuse
<1>4. CASE Refuse("not_joined")
  BY <1>1, <1>4 DEF Refuse
<1>5. CASE Lease
  BY <1>1, <1>5 DEF Lease
<1>6. CASE Drop
  BY <1>1, <1>6 DEF Drop
<1> QED
  BY <1>2, <1>3, <1>4, <1>5, <1>6 DEF Driver

LEMMA HandlerTells == TypeOK /\ ToldInv /\ Handler => ToldInv'
<1> SUFFICES ASSUME TypeOK, ToldInv, Handler PROVE ToldInv'
  OBVIOUS
<1> USE DEF ToldInv, DownIsTold, JoinIsTold, LeaseIsTold, Current, ConnectedNext,
            flagVars, driverVars, callVars
<1>1. CASE HandleEvent
  <2>1. /\ queue # <<>> /\ queue \in Seq(Events) /\ queue' = Tail(queue)
        /\ event' = Head(queue)
        /\ at = "idle" /\ at' = IF event' = "address" THEN "ipv4" ELSE "connected"
        /\ UNCHANGED <<wifiConnected, link, leased, pc, accepted>>
    BY <1>1 DEF HandleEvent, TypeOK
  <2>2. DownIsTold'
    BY <2>1, HeadTaken
  <2>3. JoinIsTold'
    BY <2>1, HeadTaken
  <2>4. ASSUME Current', link' = "up", leased'
        PROVE  LeaseIsTold'
    <3>1. Last = "address" /\ Len(queue) \in Nat
          /\ IF Len(queue) = 1 THEN wifiConnected ELSE queue[Len(queue) - 1] = "joined"
      BY <2>1, <2>4
    <3>2. CASE queue' = <<>>
      <4>1. event' = "address" /\ wifiConnected
        BY <2>1, <3>1, <3>2, HeadTaken
      <4> QED
        BY <2>1, <3>2, <4>1
    <3>3. CASE queue' # <<>> /\ Len(queue') = 1
      <4>1. event' = "joined" /\ Last' = "address"
        BY <2>1, <3>1, <3>3, HeadTaken
      <4> QED
        BY <2>1, <3>3, <4>1
    <3>4. CASE queue' # <<>> /\ Len(queue') # 1
      <4>1. Last' = "address" /\ queue'[Len(queue') - 1] = "joined"
        <5>1. Len(queue') > 1
          BY <2>1, <3>4, HeadTaken, Zenon
        <5> QED
          BY <2>1, <3>1, <3>4, <5>1, HeadTaken
      <4> QED
        BY <2>1, <3>4, <4>1
    <3> QED
      BY <3>2, <3>3, <3>4
  <2> QED
    BY <2>1, <2>2, <2>3, <2>4
<1>2. CASE StoreConnected
  BY <1>2 DEF StoreConnected, StoresConnected, Last
<1>3. CASE StoreIpv4
  BY <1>3 DEF StoreIpv4, Last
<1>4. CASE GiveSem
  BY <1>4 DEF GiveSem, Last
<1> QED
  BY <1>1, <1>2, <1>3, <1>4 DEF Handler

\* A connect clears the flags, and does not count as taken until the driver has
\* started over.
LEMMA ConnectTells == TypeOK /\ ToldInv /\ (ConnectBegins \/ Connect) => ToldInv'
<1> SUFFICES ASSUME ToldInv, ConnectBegins \/ Connect PROVE ToldInv'
  OBVIOUS
<1> USE DEF ToldInv, DownIsTold, JoinIsTold, LeaseIsTold, Current, ConnectedNext, Last
<1> USE DEF Goes, Moves, Returns, ForceFlags, flagVars, threadVars, driverVars
<1>1. CASE ConnectBegins
  BY <1>1 DEF ConnectBegins
<1>2. ASSUME NEW c \in Credentials, Clear(c) PROVE ToldInv'
  BY <1>2 DEF Clear, Begin
<1>3. CASE RequestAccepted
  BY <1>3 DEF RequestAccepted
<1>4. CASE RequestRefused
  BY <1>4 DEF RequestRefused
<1>5. CASE JoinTimeout
  BY <1>5 DEF JoinTimeout
<1>6. CASE TakeConnected
  BY <1>6 DEF TakeConnected
<1>7. CASE CheckConnected
  BY <1>7 DEF CheckConnected
<1>8. CASE ConnectFailed
  BY <1>8 DEF ConnectFailed
<1>9. CASE Ipv4Timeout
  BY <1>9 DEF Ipv4Timeout
<1>10. CASE TakeIpv4
  BY <1>10 DEF TakeIpv4
<1> QED
  BY <1>1, <1>2, <1>3, <1>4, <1>5, <1>6, <1>7, <1>8, <1>9, <1>10 DEF Connect

\* A disconnect that forces the flags does so over a driver that is down.
LEMMA DisconnectTells == TypeOK /\ ToldInv /\ (DisconnectBegins \/ Disconnect) => ToldInv'
<1> SUFFICES ASSUME TypeOK, ToldInv, DisconnectBegins \/ Disconnect PROVE ToldInv'
  OBVIOUS
<1> USE DEF ToldInv, DownIsTold, JoinIsTold, LeaseIsTold, Current, ConnectedNext
<1> USE DEF Goes, Moves, ForceFlags, flagVars, threadVars, driverVars
<1>1. CASE DisconnectBegins
  BY <1>1 DEF DisconnectBegins, Last
<1>2. CASE NothingToLeave
  BY <1>2 DEF NothingToLeave, Last
<1>3. CASE ResetDisconnected
  BY <1>3 DEF ResetDisconnected, Last
<1>4. CASE LeaveRefused
  BY <1>4 DEF LeaveRefused, Last
<1>5. CASE LeaveAccepted
  BY <1>5, Raised DEF LeaveAccepted, TypeOK, Events
<1>6. CASE LeftAlready
  BY <1>6 DEF LeftAlready, Last
<1>7. CASE TakeDisconnected
  BY <1>7 DEF TakeDisconnected, Last
<1>8. CASE LeaveTimeout
  BY <1>8 DEF LeaveTimeout, Last
<1> QED
  BY <1>1, <1>2, <1>3, <1>4, <1>5, <1>6, <1>7, <1>8 DEF Disconnect

\* Once every event is handled the flags tell the link, however late the events
\* came and whichever calls gave up or forced the flags meanwhile.
THEOREM FlagsAreTrue == Spec => []FlagsTellTheLink
<1>1. Init => ToldInv
  BY DEF Init, ToldInv, DownIsTold, JoinIsTold, LeaseIsTold, ConnectedNext, Current
<1>2. TypeOK /\ ToldInv /\ [Next]_vars => ToldInv'
  <2>1. ToldInv /\ UNCHANGED vars => ToldInv'
    BY DEF ToldInv, DownIsTold, JoinIsTold, LeaseIsTold, ConnectedNext, Current, Last,
           vars, flagVars, threadVars, driverVars, callVars
  <2> QED
    BY <2>1, DriverTells, HandlerTells, ConnectTells, DisconnectTells DEF Next
<1>3. ToldInv => FlagsTellTheLink
  BY DEF ToldInv, DownIsTold, LeaseIsTold, ConnectedNext, Current, FlagsTellTheLink,
         Quiet, IsConnected
<1> QED
  BY <1>1, <1>2, <1>3, TypeCorrect, PTL DEF Spec

-----------------------------------------------------------------------------
(* The refinement.  WifiLink lets the link come up only once a connect has   *)
(* been asked for, so before the first nothing may be on its way.            *)

NoRequestYet ==
  /\ link = "down"
  /\ queue = <<>>
  /\ at = "idle"
  /\ ~wifiConnected
  /\ pc \in {"idle", "clear", "leave"}

Untouched == joined = NoNetwork => NoRequestYet

LEMMA UntouchedKept == Untouched /\ [Next]_vars => Untouched'
<1> SUFFICES ASSUME Untouched, [Next]_vars PROVE Untouched'
  OBVIOUS
<1> USE DEF Untouched, NoRequestYet
<1>1. CASE UNCHANGED vars
  BY <1>1 DEF vars, flagVars, semVars, threadVars, driverVars, callVars
<1>2. CASE Driver
  BY <1>2 DEF Driver, Associate, Refuse, Lease, Drop, Raise, callVars
<1>3. CASE Handler
  BY <1>3 DEF Handler, HandleEvent, StoreConnected, StoresConnected, StoreIpv4,
              GiveSem, callVars
<1>4. CASE ConnectBegins
  BY <1>4 DEF ConnectBegins, Moves, Goes, flagVars, threadVars, driverVars
<1>5. ASSUME NEW c \in Credentials, Clear(c) PROVE Untouched'
  BY <1>5, NoNetworkAssumption DEF Clear, Begin
<1>6. CASE DisconnectBegins \/ Disconnect
  BY <1>6 DEF DisconnectBegins, Disconnect, NothingToLeave, ResetDisconnected,
              LeaveRefused, LeaveAccepted, LeftAlready, TakeDisconnected,
              LeaveTimeout, Moves, Goes, flagVars, threadVars, driverVars
<1>7. CASE Connect /\ pc # "clear"
  BY <1>7 DEF Connect, Clear, Begin, RequestAccepted, RequestRefused, JoinTimeout,
              TakeConnected, CheckConnected, ConnectFailed, Ipv4Timeout, TakeIpv4,
              Returns, Moves, Goes
<1> QED
  BY <1>1, <1>2, <1>3, <1>4, <1>5, <1>6, <1>7
     DEF Next, Connect, RequestAccepted, RequestRefused, JoinTimeout, TakeConnected,
         CheckConnected, ConnectFailed, Ipv4Timeout, TakeIpv4, Returns, Moves, Goes

\* The event thread may change what is_connected() says, and nothing else.
LEMMA HandlerSimulated ==
  TypeOK /\ Untouched /\ Handler => W!Driver \/ UNCHANGED W!vars
<1> SUFFICES ASSUME TypeOK, Untouched, Handler PROVE W!Driver \/ UNCHANGED W!vars
  OBVIOUS
<1>1. UNCHANGED <<Call, joined, result>>
  BY DEF Handler, HandleEvent, StoreConnected, StoresConnected, StoreIpv4, GiveSem,
         callVars, Call
<1>2. joined = NoNetwork => UNCHANGED IsConnected
  BY DEF Untouched, NoRequestYet, Handler, HandleEvent, StoreConnected,
         StoresConnected, StoreIpv4, GiveSem, flagVars, IsConnected
<1>3. IsConnected' \in BOOLEAN /\ IsConnected \in BOOLEAN
  BY DEF IsConnected
<1> QED
  BY <1>1, <1>2, <1>3 DEF W!Driver, W!LinkUp, W!LinkDown, W!vars

\* Every step of a call is a step of that call or none at all.
LEMMA ConnectSimulated ==
  Connect => \/ \E c \in Credentials : W!Connect(c)
             \/ \E ret \in W!Results \ {"none"} : W!ConnectReturns(ret)
             \/ UNCHANGED W!vars
<1> SUFFICES ASSUME Connect
             PROVE  \/ \E c \in Credentials : W!Connect(c)
                    \/ \E ret \in W!Results \ {"none"} : W!ConnectReturns(ret)
                    \/ UNCHANGED W!vars
  OBVIOUS
<1> USE DEF Call, IsConnected, Goes, Moves, Returns, ForceFlags, flagVars, W!Results
<1>1. ASSUME NEW c \in Credentials, Clear(c) PROVE W!Connect(c)
  BY <1>1 DEF Clear, Begin, W!Connect
<1>2. CASE RequestAccepted \/ TakeConnected \/ CheckConnected
  BY <1>2 DEF RequestAccepted, TakeConnected, CheckConnected, W!vars
<1>3. CASE RequestRefused \/ JoinTimeout \/ Ipv4Timeout
  <2>1. W!ConnectReturns("failed")
    BY <1>3 DEF RequestRefused, JoinTimeout, Ipv4Timeout, W!ConnectReturns
  <2> QED
    BY <2>1
<1>4. CASE ConnectFailed
  <2>1. W!ConnectReturns("denied") \/ W!ConnectReturns("failed")
    BY <1>4 DEF ConnectFailed, W!ConnectReturns
  <2> QED
    BY <2>1
<1>5. CASE TakeIpv4
  <2>1. W!ConnectReturns("ok")
    BY <1>5 DEF TakeIpv4, W!ConnectReturns
  <2> QED
    BY <2>1
<1> QED
  BY <1>1, <1>2, <1>3, <1>4, <1>5 DEF Connect

LEMMA DisconnectSimulated ==
  Disconnect => W!DisconnectReturns \/ UNCHANGED W!vars
<1> SUFFICES ASSUME Disconnect PROVE W!DisconnectReturns \/ UNCHANGED W!vars
  OBVIOUS
<1> USE DEF Call, IsConnected, Goes, Moves, ForceFlags, flagVars
<1>1. CASE NothingToLeave \/ LeaveRefused \/ TakeDisconnected \/ LeaveTimeout
  <2>1. Call = "disconnect" /\ Call' = "none" /\ UNCHANGED <<joined, result>>
    BY <1>1 DEF NothingToLeave, LeaveRefused, TakeDisconnected, LeaveTimeout
  <2>2. UNCHANGED IsConnected \/ IsConnected' = FALSE
    BY <1>1 DEF NothingToLeave, LeaveRefused, TakeDisconnected, LeaveTimeout
  <2> HIDE DEF Call, IsConnected
  <2> QED
    BY <2>1, <2>2 DEF W!DisconnectReturns
<1>2. CASE ResetDisconnected \/ LeaveAccepted \/ LeftAlready
  BY <1>2 DEF ResetDisconnected, LeaveAccepted, LeftAlready, W!vars
<1> QED
  BY <1>1, <1>2 DEF Disconnect

LEMMA StepSimulated == TypeOK /\ Untouched /\ [Next]_vars => [W!Next]_W!vars
<1> SUFFICES ASSUME TypeOK, Untouched, [Next]_vars PROVE [W!Next]_W!vars
  OBVIOUS
<1>1. CASE UNCHANGED vars
  BY <1>1 DEF vars, flagVars, callVars, W!vars, IsConnected, Call
<1>2. CASE Driver
  BY <1>2 DEF Driver, Associate, Refuse, Lease, Drop, Raise, flagVars, callVars,
              W!vars, IsConnected, Call
<1>3. CASE ConnectBegins
  BY <1>3 DEF ConnectBegins, Moves, Goes, flagVars, W!vars, IsConnected, Call
<1>4. CASE DisconnectBegins
  BY <1>4 DEF DisconnectBegins, Moves, Goes, flagVars, W!Next, W!Disconnect,
              IsConnected, Call
<1> QED
  BY <1>1, <1>2, <1>3, <1>4, HandlerSimulated, ConnectSimulated,
     DisconnectSimulated DEF Next, W!Next

\* wifi_manager.c keeps the promise of its header, for any driver that raises
\* its events in order: AppMain may be built on WifiLink.
THEOREM Implementation == Spec => ImplementsWifiLink
<1>1. Init => Untouched /\ W!Init
  BY DEF Init, Untouched, NoRequestYet, W!Init, IsConnected, Call
<1> QED
  BY <1>1, TypeCorrect, UntouchedKept, StepSimulated, PTL
     DEF Spec, ImplementsWifiLink, W!Spec
=============================================================================
