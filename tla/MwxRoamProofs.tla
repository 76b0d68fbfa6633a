---------------------------- MODULE MwxRoamProofs ----------------------------
(***************************************************************************)
(* Proofs about MwxRoam for any number of arguments and references and for *)
(* everything that may happen in it: the argument of a switch has one      *)
(* holder, and data is held back only by a station that is about to leave. *)
(***************************************************************************)
EXTENDS MwxRoam, SequenceTheorems, TLAPS

----------------------------------------------------------------------------
(* The inductive invariant.                                                *)

Tasks == {"newstate", "bgscan_done"}
Queues == {<<>>, <<"newstate">>, <<"bgscan_done">>,
           <<"newstate", "bgscan_done">>, <<"bgscan_done", "newstate">>}

StateInv ==
  /\ icState \in States /\ request \in Requests /\ entering \in Requests \cup {None}
  /\ resetting \in {"no", "stop", "init"}
  /\ nsq \in Queues
  /\ fw \in {"idle", "scan", "done"}

FlagInv ==
  /\ bgscan \in BOOLEAN /\ cacheOnly \in BOOLEAN /\ mgmtOnly \in BOOLEAN
  /\ timer \in BOOLEAN /\ timed \in BOOLEAN /\ asked \in BOOLEAN
  /\ scanning \in BOOLEAN /\ drvBgscan \in BOOLEAN /\ scanTask \in BOOLEAN
  /\ callback \in BOOLEAN /\ onAir \in BOOLEAN /\ lost \in BOOLEAN

RefInv == refs \in 0..MaxRefs

ArgInv ==
  /\ live \subseteq SwitchArgs
  /\ scArg \in SwitchArgs \cup {None} /\ unrefArg \in SwitchArgs \cup {None}
  /\ ArgHasOneHolder

\* Somebody is about to change the state, and with it to end what is held back.
Leaving == Contains(nsq, "newstate") \/ entering # None \/ resetting = "stop"

\* A background scan has ended in another access point: mwx_bgscan_done_task is
\* queued or the callback installed, and no other scan is on that could end it.
Roaming ==
  /\ bgscan /\ fw = "idle" /\ ~scanTask
  /\ callback \/ Contains(nsq, "bgscan_done")

HeldInv == mgmtOnly /\ ~lost => icState = "RUN" /\ (Leaving \/ Roaming)

\* While a scan that may end in another access point waits to be evaluated, the
\* firmware does not scan.
ScanInv == RoamScan /\ scanTask /\ ~lost => fw = "idle"

RoamInv == StateInv /\ FlagInv /\ RefInv /\ ArgInv /\ ScanInv /\ HeldInv

----------------------------------------------------------------------------
(* The queue of mwxns.                                                     *)

LEMMA ContainsShort ==
  ASSUME NEW t
  PROVE  /\ ~Contains(<<>>, t)
         /\ \A a : Contains(<<a>>, t) <=> t = a
         /\ \A a, b : Contains(<<a, b>>, t) <=> t = a \/ t = b
<1>1. ~Contains(<<>>, t)
  BY DEF Contains
<1>2. ASSUME NEW a PROVE Contains(<<a>>, t) <=> t = a
  <2>1. Len(<<a>>) = 1 /\ <<a>>[1] = a
    OBVIOUS
  <2> QED BY <2>1 DEF Contains
<1>3. ASSUME NEW a, NEW b PROVE Contains(<<a, b>>, t) <=> t = a \/ t = b
  <2>1. Len(<<a, b>>) = 2 /\ <<a, b>>[1] = a /\ <<a, b>>[2] = b
    OBVIOUS
  <2>2. \A i : i \in 1..2 <=> i = 1 \/ i = 2
    OBVIOUS
  <2> QED BY <2>1, <2>2 DEF Contains
<1> QED BY <1>1, <1>2, <1>3

LEMMA ShortSequences ==
  ASSUME NEW a, NEW b
  PROVE  /\ Append(<<>>, a) = <<a>> /\ Append(<<a>>, b) = <<a, b>>
         /\ Head(<<a>>) = a /\ Head(<<a, b>>) = a
         /\ Tail(<<a>>) = <<>> /\ Tail(<<a, b>>) = <<b>>
<1>1. Append(<<>>, a) = <<a>>
  OBVIOUS
<1>2. Append(<<a>>, b) = <<a, b>>
  <2> DEFINE r == Append(<<a>>, b)
             S == {a, b}
  <2>1. <<a>> \in Seq(S) /\ Len(<<a>>) = 1 /\ <<a>>[1] = a
    OBVIOUS
  <2>2. r \in Seq(S) /\ Len(r) = 2 /\ r[1] = a /\ r[2] = b
    BY <2>1, AppendProperties
  <2>3. <<a, b>> \in Seq(S) /\ Len(<<a, b>>) = 2 /\ <<a, b>>[1] = a /\ <<a, b>>[2] = b
    OBVIOUS
  <2> HIDE DEF r, S
  <2>4. \A i \in 1..2 : i = 1 \/ i = 2
    OBVIOUS
  <2>5. \A i \in 1..Len(r) : r[i] = <<a, b>>[i]
    BY <2>2, <2>3, <2>4
  <2>6. r = <<a, b>>
    BY <2>2, <2>3, <2>5, SeqEqual
  <2> QED BY <2>6 DEF r
<1>3. Head(<<a>>) = a /\ Head(<<a, b>>) = a
  OBVIOUS
<1>4. Tail(<<a>>) = <<>>
  OBVIOUS
<1>5. Tail(<<a, b>>) = <<b>>
  OBVIOUS
<1> QED BY <1>1, <1>2, <1>3, <1>4, <1>5

\* task_add queues the task and keeps the others.
LEMMA AddKeeps ==
  ASSUME NEW q \in Queues, NEW t \in Tasks, NEW r,
         r = IF Contains(q, t) THEN q ELSE Append(q, t)
  PROVE  r \in Queues /\ Contains(r, t) /\ \A u : Contains(q, u) => Contains(r, u)
<1>1. CASE Contains(q, t)
  BY <1>1
<1>2. CASE q = <<>>
  <2>1. r = <<t>>
    BY <1>2, ContainsShort, ShortSequences
  <2> QED BY <1>2, <2>1, ContainsShort DEF Queues, Tasks
<1>3. ASSUME NEW a \in Tasks, q = <<a>>, ~Contains(q, t)
      PROVE  r \in Queues /\ Contains(r, t) /\ \A u : Contains(q, u) => Contains(r, u)
  <2>1. r = <<a, t>> /\ a # t
    BY <1>3, ContainsShort, ShortSequences
  <2>2. r \in Queues
    <3>1. CASE a = "newstate"
      BY <2>1, <3>1 DEF Queues, Tasks
    <3>2. CASE a = "bgscan_done"
      BY <2>1, <3>2 DEF Queues, Tasks
    <3> QED BY <1>3, <3>1, <3>2 DEF Tasks
  <2>3. \A u : (Contains(q, u) <=> u = a) /\ (Contains(r, u) <=> u = a \/ u = t)
    <3>1. \A u : Contains(<<a, t>>, u) <=> u = a \/ u = t
      BY ContainsShort
    <3>2. \A u : Contains(<<a>>, u) <=> u = a
      BY ContainsShort
    <3> QED BY <1>3, <2>1, <3>1, <3>2
  <2> QED BY <2>2, <2>3
<1>4. CASE q = <<"newstate", "bgscan_done">> \/ q = <<"bgscan_done", "newstate">>
  <2>1. Contains(q, t)
    BY <1>4, ContainsShort DEF Tasks
  <2> QED BY <2>1
<1> QED BY <1>1, <1>2, <1>3, <1>4 DEF Queues, Tasks

\* The thread takes the first task, the others stay.
LEMMA TailKeeps ==
  ASSUME NEW q \in Queues, q # <<>>
  PROVE  Tail(q) \in Queues /\ \A u : Contains(q, u) /\ u # Head(q) => Contains(Tail(q), u)
<1>1. ASSUME NEW a, q = <<a>>
      PROVE  Tail(q) \in Queues /\ \A u : Contains(q, u) /\ u # Head(q) => Contains(Tail(q), u)
  <2>1. Tail(q) = <<>> /\ Head(q) = a
    BY <1>1, ShortSequences
  <2> QED BY <1>1, <2>1, ContainsShort DEF Queues
<1>2. ASSUME NEW a, NEW b \in Tasks, q = <<a, b>>
      PROVE  Tail(q) \in Queues /\ \A u : Contains(q, u) /\ u # Head(q) => Contains(Tail(q), u)
  <2>1. Tail(q) = <<b>> /\ Head(q) = a
    BY <1>2, ShortSequences
  <2>2. Tail(q) \in Queues
    BY <1>2, <2>1 DEF Queues, Tasks
  <2>3. \A u : (Contains(Tail(q), u) <=> u = b) /\ (Contains(q, u) <=> u = a \/ u = b)
    <3>1. \A u : Contains(<<a, b>>, u) <=> u = a \/ u = b
      BY ContainsShort
    <3>2. \A u : Contains(<<b>>, u) <=> u = b
      BY ContainsShort
    <3> QED BY <1>2, <2>1, <3>1, <3>2
  <2> QED BY <2>1, <2>2, <2>3
<1> QED BY <1>1, <1>2 DEF Queues, Tasks

LEMMA ShortQueues ==
  ASSUME NEW q \in Queues
  PROVE  /\ IsInjective(q) /\ ToSet(q) \subseteq Tasks
         /\ \A t : Contains(q, t) => q # <<>>
<1> USE DEF Queues, Tasks
<1>1. \A t : Contains(q, t) => q # <<>>
  BY ContainsShort
<1>2. CASE q = <<>>
  BY <1>1, <1>2 DEF IsInjective, ToSet
<1>3. CASE q = <<"newstate">> \/ q = <<"bgscan_done">>
  <2>1. DOMAIN q = {1} /\ q[1] \in Tasks
    BY <1>3
  <2> QED BY <1>1, <2>1 DEF IsInjective, ToSet
<1>4. CASE q = <<"newstate", "bgscan_done">> \/ q = <<"bgscan_done", "newstate">>
  <2>1. DOMAIN q = {1, 2} /\ q[1] \in Tasks /\ q[2] \in Tasks /\ q[1] # q[2]
    BY <1>4
  <2> QED BY <1>1, <2>1 DEF IsInjective, ToSet
<1> QED BY <1>2, <1>3, <1>4

LEMMA InvImpliesTypeOK == StateInv /\ FlagInv /\ RefInv /\ ArgInv => TypeOK
<1> SUFFICES ASSUME StateInv, FlagInv, RefInv, ArgInv PROVE TypeOK
  OBVIOUS
<1>1. /\ {bgscan, cacheOnly, mgmtOnly, timer, timed, asked} \subseteq BOOLEAN
      /\ {scanning, drvBgscan, scanTask, callback, onAir, lost} \subseteq BOOLEAN
  BY Zenon DEF FlagInv
<1>2. IsInjective(nsq) /\ ToSet(nsq) \subseteq Tasks
  BY ShortQueues DEF StateInv
<1> QED BY <1>1, <1>2 DEF StateInv, RefInv, ArgInv, TypeOK, Tasks

\* What mwx_newstate does to the request and the queue.
LEMMA NewStateKeeps ==
  ASSUME StateInv, NEW s \in States, NEW a \in {"none", "auth", "deauth"}, NewState(s, a)
  PROVE  /\ request' \in Requests /\ nsq' \in Queues
         /\ s \in {"SCAN", "AUTH"} => Contains(nsq', "newstate")
         /\ \A u : Contains(nsq, u) => Contains(nsq', u)
<1>1. CASE UNCHANGED <<request, nsq>> /\ s \notin {"SCAN", "AUTH"}
  BY <1>1 DEF StateInv
<1>2. CASE request' = Req(s, a) /\ AddTask("newstate")
  <2>1. request' \in Requests
    BY <1>2 DEF Req, Requests
  <2>2. nsq \in Queues /\ "newstate" \in Tasks
        /\ nsq' = IF Contains(nsq, "newstate") THEN nsq ELSE Append(nsq, "newstate")
    BY <1>2 DEF AddTask, StateInv, Tasks
  <2> QED BY <2>1, <2>2, AddKeeps
<1> QED BY <1>1, <1>2 DEF NewState

\* What joining an access point does to them, and to what it frees and forgets.
LEMMA JoinKeeps ==
  ASSUME StateInv, NEW force \in BOOLEAN, JoinBss(force)
  PROVE  /\ request' \in Requests /\ nsq' \in Queues /\ Contains(nsq', "newstate")
         /\ \A u : Contains(nsq, u) => Contains(nsq', u)
         /\ live' = live \ {unrefArg} /\ unrefArg' = None
         /\ callback' = FALSE /\ timer' = FALSE /\ bgscan' = FALSE
<1>1. \E a \in {"none", "auth", "deauth"} : NewState("AUTH", a)
  BY DEF JoinBss
<1>2. /\ request' \in Requests /\ nsq' \in Queues /\ Contains(nsq', "newstate")
      /\ \A u : Contains(nsq, u) => Contains(nsq', u)
  BY <1>1, NewStateKeeps DEF States
<1> QED BY <1>2 DEF JoinBss

LEMMA InitRoam == Init => RoamInv
<1> SUFFICES ASSUME Init PROVE RoamInv
  OBVIOUS
<1>1. request \in Requests /\ icState \in States
  BY DEF Init, Req, Requests, States
<1>2. 1 \in 0..MaxRefs
  BY RefsAssumption
<1>3. StateInv
  BY <1>1 DEF Init, StateInv, Queues
<1>4. FlagInv
  BY Zenon DEF Init, FlagInv
<1>5. RefInv
  BY <1>2 DEF Init, RefInv
<1>6. ArgInv
  BY DEF Init, ArgInv, ArgHasOneHolder
<1>7. ScanInv /\ HeldInv
  BY DEF Init, ScanInv, HeldInv, RoamScan
<1> QED BY <1>3, <1>4, <1>5, <1>6, <1>7 DEF RoamInv

----------------------------------------------------------------------------
(* Types.                                                                  *)

LEMMA FlagTypes ==
  ASSUME FlagInv, [Next]_vars
  PROVE  FlagInv'
<1> USE DEF FlagInv, ns, flags, drv, node
<1>1. CASE ReceiveWeak
  BY ZenonT(40), <1>1 DEF ReceiveWeak
<1>2. CASE ReceiveStrong
  BY ZenonT(40), <1>2 DEF ReceiveStrong
<1>3. CASE RecvDeauth
  BY ZenonT(40), <1>3 DEF RecvDeauth
<1>4. CASE SendData
  BY ZenonT(40), <1>4 DEF SendData, Sent, Taken, Refused
<1>5. CASE TxDone
  BY ZenonT(40), <1>5 DEF TxDone
<1>6. CASE ReleaseNode
  BY ZenonT(40), <1>6 DEF ReleaseNode, SwitchBss, JoinBss
<1>7. CASE BgscanTimeout
  BY ZenonT(40), <1>7 DEF BgscanTimeout, DriverScans, NoDriverScan
<1>8. CASE UserScan
  BY ZenonT(40), <1>8 DEF UserScan, DriverScans, NoDriverScan
<1>9. CASE FirmwareScanned
  BY ZenonT(40), <1>9 DEF FirmwareScanned
<1>10. CASE ScanEvent
  BY ZenonT(40), <1>10 DEF ScanEvent
<1>11. CASE EndScan
  BY ZenonT(40), <1>11 DEF EndScan, JoinBss
<1>12. CASE EndBgscan
  BY ZenonT(40), <1>12 DEF EndBgscan
<1>13. CASE EndRoamScan
  BY ZenonT(40), <1>13 DEF EndRoamScan, Sent, Taken, Refused
<1>14. CASE BgscanDoneTask
  BY ZenonT(40), <1>14 DEF BgscanDoneTask
<1>15. CASE BeginNewState
  BY ZenonT(40), <1>15 DEF BeginNewState
<1>16. CASE EnterScan
  BY ZenonT(40), <1>16 DEF EnterScan, SendRequest, Taken, Refused
<1>17. CASE EnterAuth
  BY ZenonT(40), <1>17 DEF EnterAuth, SendRequest, Taken, Refused
<1>18. CASE EnterRun
  BY ZenonT(40), <1>18 DEF EnterRun, CancelScan
<1>19. CASE StopBegin
  BY ZenonT(40), <1>19 DEF StopBegin
<1>20. CASE StopEnd
  BY ZenonT(40), <1>20 DEF StopEnd
<1>21. CASE Start
  BY ZenonT(40), <1>21 DEF Start
<1>22. CASE Associated
  BY ZenonT(40), <1>22 DEF Associated, Sent, Taken, Refused
<1>23. CASE MgtTimeout
  BY ZenonT(40), <1>23 DEF MgtTimeout
<1>24. CASE UserJoin
  BY ZenonT(40), <1>24 DEF UserJoin, JoinBss
<1>25. CASE UserLeaves
  BY ZenonT(40), <1>25 DEF UserLeaves, Sent, Taken, Refused
<1>26. CASE UNCHANGED vars
  BY ZenonT(40), <1>26 DEF vars
<1> HIDE DEF FlagInv, ns, flags, drv, node
<1> QED BY <1>1, <1>2, <1>3, <1>4, <1>5, <1>6, <1>7, <1>8, <1>9, <1>10, <1>11, <1>12, <1>13, <1>14, <1>15, <1>16, <1>17, <1>18, <1>19, <1>20, <1>21, <1>22, <1>23, <1>24, <1>25, <1>26
     DEF Next, MwxNs, Systq, Frames, User, Firmware

LEMMA RefTypes ==
  ASSUME RefInv, [Next]_vars
  PROVE  RefInv'
<1> USE DEF RefInv, ns, flags, drv, node
<1>1. CASE SendData \/ EndRoamScan \/ Associated \/ UserLeaves
  BY <1>1, RefsAssumption DEF SendData, EndRoamScan, Associated, UserLeaves, Sent, Taken, Refused
<1>2. CASE EnterScan \/ EnterAuth
  <2>1. Taken \/ Refused \/ refs' = refs
    BY <1>2, Zenon DEF EnterScan, EnterAuth, SendRequest
  <2> QED BY <2>1, RefsAssumption DEF Taken, Refused
<1>3. CASE ReleaseNode \/ EndScan \/ UserJoin
  <2>1. refs' = 0 \/ refs' = refs
    BY <1>3, Zenon DEF ReleaseNode, SwitchBss, EndScan, UserJoin
  <2> QED BY <2>1, RefsAssumption
<1>4. CASE ReceiveWeak \/ ReceiveStrong \/ RecvDeauth \/ TxDone \/ MgtTimeout
  BY <1>4 DEF ReceiveWeak, ReceiveStrong, RecvDeauth, TxDone, MgtTimeout
<1>5. CASE BgscanTimeout \/ UserScan \/ FirmwareScanned \/ ScanEvent \/ EndBgscan
  BY <1>5 DEF BgscanTimeout, UserScan, FirmwareScanned, ScanEvent, EndBgscan
<1>6. CASE BgscanDoneTask \/ BeginNewState \/ EnterRun \/ StopBegin \/ StopEnd \/ Start
  BY <1>6 DEF BgscanDoneTask, BeginNewState, EnterRun, StopBegin, StopEnd, Start
<1>7. CASE UNCHANGED vars
  BY <1>7 DEF vars
<1> HIDE DEF RefInv, ns, flags, drv, node
<1> QED BY <1>1, <1>2, <1>3, <1>4, <1>5, <1>6, <1>7
     DEF Next, MwxNs, Systq, Frames, User, Firmware

LEMMA StateTypes ==
  ASSUME StateInv, [Next]_vars
  PROVE  StateInv'
<1> USE DEF StateInv, ns, flags, drv, node
<1>1. CASE ReceiveWeak \/ ReceiveStrong \/ SendData \/ TxDone
  BY <1>1 DEF ReceiveWeak, ReceiveStrong, SendData, TxDone
<1>2. CASE BgscanTimeout \/ UserScan
  BY <1>2 DEF BgscanTimeout, UserScan, DriverScans, NoDriverScan
<1>3. CASE FirmwareScanned \/ ScanEvent \/ EndBgscan
  BY <1>3 DEF FirmwareScanned, ScanEvent, EndBgscan
<1>4. CASE RecvDeauth
  <2>1. request' \in Requests /\ nsq' \in Queues
    BY <1>4, NewStateKeeps DEF RecvDeauth, States
  <2> QED BY <1>4, <2>1 DEF RecvDeauth
<1>5. CASE MgtTimeout
  <2>1. request' \in Requests /\ nsq' \in Queues
    BY <1>5, NewStateKeeps DEF MgtTimeout, States
  <2> QED BY <1>5, <2>1 DEF MgtTimeout
<1>6. CASE Associated
  <2>1. request' \in Requests /\ nsq' \in Queues
    BY <1>6, NewStateKeeps DEF Associated, States
  <2> QED BY <1>6, <2>1 DEF Associated
<1>7. CASE UserLeaves
  <2>1. request' \in Requests /\ nsq' \in Queues
    BY <1>7, NewStateKeeps DEF UserLeaves, States
  <2> QED BY <1>7, <2>1 DEF UserLeaves
<1>8. CASE Start
  <2>1. request' \in Requests /\ nsq' \in Queues
    BY <1>8, NewStateKeeps DEF Start, States
  <2> QED BY <1>8, <2>1 DEF Start
<1>9. CASE UserJoin
  <2>1. request' \in Requests /\ nsq' \in Queues
    BY <1>9, JoinKeeps DEF UserJoin
  <2> QED BY <1>9, <2>1 DEF UserJoin
<1>10. CASE ReleaseNode
  <2>1. request' \in Requests /\ nsq' \in Queues
    <3>1. JoinBss(FALSE) => request' \in Requests /\ nsq' \in Queues
      BY JoinKeeps
    <3>2. NewState("SCAN", "none") => request' \in Requests /\ nsq' \in Queues
      BY NewStateKeeps DEF States
    <3> QED BY <1>10, <3>1, <3>2 DEF ReleaseNode, SwitchBss
  <2> QED BY <1>10, <2>1 DEF ReleaseNode, SwitchBss
<1>11. CASE EndScan
  <2>1. request' \in Requests /\ nsq' \in Queues
    <3>1. JoinBss(FALSE) => request' \in Requests /\ nsq' \in Queues
      BY JoinKeeps
    <3>2. NewState("SCAN", "none") => request' \in Requests /\ nsq' \in Queues
      BY NewStateKeeps DEF States
    <3> QED BY <1>11, <3>1, <3>2 DEF EndScan
  <2> QED BY <1>11, <2>1 DEF EndScan
<1>12. CASE EndRoamScan
  <2>1. nsq' \in Queues
    BY <1>12, AddKeeps DEF EndRoamScan, AddTask, Tasks
  <2> QED BY <1>12, <2>1 DEF EndRoamScan
<1>13. CASE BgscanDoneTask
  <2>1. nsq' \in Queues
    BY <1>13, TailKeeps DEF BgscanDoneTask
  <2> QED BY <1>13, <2>1 DEF BgscanDoneTask
<1>14. CASE BeginNewState
  <2>1. nsq' \in Queues
    BY <1>14, TailKeeps DEF BeginNewState
  <2> QED BY <1>14, <2>1 DEF BeginNewState
<1>15. CASE EnterScan \/ EnterAuth
  BY <1>15 DEF EnterScan, EnterAuth, States
<1>16. CASE EnterRun
  BY <1>16 DEF EnterRun, CancelScan, States
<1>17. CASE StopBegin
  BY <1>17 DEF StopBegin, Queues
<1>18. CASE StopEnd
  BY <1>18 DEF StopEnd, Req, Requests, States
<1>19. CASE UNCHANGED vars
  BY <1>19 DEF vars
<1> HIDE DEF StateInv, ns, flags, drv, node
<1> QED BY <1>1, <1>2, <1>3, <1>4, <1>5, <1>6, <1>7, <1>8, <1>9, <1>10, <1>11, <1>12, <1>13, <1>14, <1>15, <1>16, <1>17, <1>18, <1>19
     DEF Next, MwxNs, Systq, Frames, User, Firmware

----------------------------------------------------------------------------
(* The argument of a switch.                                               *)

LEMMA StepArg ==
  ASSUME ArgInv, [Next]_vars
  PROVE  ArgInv'
<1> USE DEF ArgInv, ArgHasOneHolder, ns, flags, drv, node
<1>1. CASE ReceiveWeak \/ ReceiveStrong \/ RecvDeauth \/ SendData \/ TxDone \/ Associated
           \/ MgtTimeout \/ UserLeaves
  BY <1>1 DEF ReceiveWeak, ReceiveStrong, RecvDeauth, SendData, TxDone, Associated, MgtTimeout,
            UserLeaves
<1>2. CASE BgscanTimeout \/ UserScan \/ FirmwareScanned \/ ScanEvent \/ EndBgscan
  BY <1>2 DEF BgscanTimeout, UserScan, FirmwareScanned, ScanEvent, EndBgscan
<1>3. CASE BeginNewState \/ EnterAuth \/ EnterRun \/ StopEnd
  BY <1>3 DEF BeginNewState, EnterAuth, EnterRun, StopEnd
<1>4. CASE ReleaseNode \/ EndScan \/ UserJoin
  <2>1. /\ scArg' = scArg
        /\ \/ live' = live \ {unrefArg} /\ unrefArg' = None
           \/ live' = live /\ unrefArg' = unrefArg
    BY <1>4, Zenon DEF ReleaseNode, SwitchBss, EndScan, UserJoin, JoinBss
  <2> QED BY <2>1
<1>5. CASE EnterScan \/ Start
  BY <1>5 DEF EnterScan, Start
<1>6. CASE EndRoamScan
  BY <1>6, NoneAssumption DEF EndRoamScan
<1>7. CASE BgscanDoneTask
  BY <1>7 DEF BgscanDoneTask
<1>8. CASE StopBegin
  BY <1>8 DEF StopBegin
<1>9. CASE UNCHANGED vars
  BY <1>9 DEF vars
<1> HIDE DEF ArgInv, ArgHasOneHolder, ns, flags, drv, node
<1> QED BY <1>1, <1>2, <1>3, <1>4, <1>5, <1>6, <1>7, <1>8, <1>9
     DEF Next, MwxNs, Systq, Frames, User, Firmware

LEMMA StepTypes ==
  ASSUME StateInv, FlagInv, RefInv, ArgInv, [Next]_vars
  PROVE  StateInv' /\ FlagInv' /\ RefInv' /\ ArgInv'
BY StateTypes, FlagTypes, RefTypes, StepArg

LEMMA TypeInvariant == Spec => [](StateInv /\ FlagInv /\ RefInv /\ ArgInv)
<1>1. Init => StateInv /\ FlagInv /\ RefInv /\ ArgInv
  BY InitRoam DEF RoamInv
<1>2. StateInv /\ FlagInv /\ RefInv /\ ArgInv /\ [Next]_vars
        => (StateInv /\ FlagInv /\ RefInv /\ ArgInv)'
  BY StepTypes
<1> QED BY <1>1, <1>2, PTL DEF Spec

\* Every variable keeps its type, and a task is queued once.
THEOREM RoamTypeCorrect == Spec => []TypeOK
<1>1. StateInv /\ FlagInv /\ RefInv /\ ArgInv => TypeOK
  BY InvImpliesTypeOK
<1> QED BY <1>1, TypeInvariant, PTL

\* Whoever frees the argument of a switch, the pointers of the softc and of ic_bss stay
\* apart and never point at freed memory.
THEOREM ArgumentHasOneHolder == Spec => []ArgHasOneHolder
<1>1. ArgInv => ArgHasOneHolder
  BY DEF ArgInv
<1> QED BY <1>1, TypeInvariant, PTL

----------------------------------------------------------------------------
(* What data is held back for.                                             *)

\* A scan that may end in another access point begins only when none is waiting to be
\* evaluated, and is evaluated after the firmware has ended it.
LEMMA StepScan ==
  ASSUME ScanInv, [Next]_vars
  PROVE  ScanInv'
<1> USE DEF ScanInv, RoamScan, ns, flags, drv, node
<1>1. CASE ReceiveWeak \/ ReceiveStrong \/ RecvDeauth
  BY <1>1, Zenon DEF ReceiveWeak, ReceiveStrong, RecvDeauth
<1>2. CASE SendData \/ TxDone \/ Associated \/ MgtTimeout \/ UserLeaves
  BY <1>2, Zenon DEF SendData, TxDone, Associated, MgtTimeout, UserLeaves
<1>3. CASE BgscanDoneTask \/ BeginNewState
  BY <1>3, Zenon DEF BgscanDoneTask, BeginNewState
<1>4. CASE ReleaseNode
  BY <1>4, Zenon DEF ReleaseNode, SwitchBss, JoinBss
<1>5. CASE BgscanTimeout
  BY <1>5, Zenon DEF BgscanTimeout
<1>6. CASE UserScan
  BY <1>6, Zenon DEF UserScan
<1>7. CASE FirmwareScanned \/ ScanEvent
  BY <1>7, Zenon DEF FirmwareScanned, ScanEvent
<1>8. CASE EndScan \/ EndBgscan \/ EndRoamScan \/ StopBegin
  BY <1>8, Zenon DEF EndScan, EndBgscan, EndRoamScan, StopBegin
<1>9. CASE EnterScan \/ EnterAuth \/ StopEnd
  BY <1>9, Zenon DEF EnterScan, EnterAuth, StopEnd
<1>10. CASE EnterRun
  BY <1>10, Zenon DEF EnterRun
<1>11. CASE Start
  BY <1>11, Zenon DEF Start
<1>12. CASE UserJoin
  BY <1>12, Zenon DEF UserJoin, JoinBss
<1>13. CASE UNCHANGED vars
  BY <1>13, Zenon DEF vars
<1> HIDE DEF ScanInv, RoamScan, ns, flags, drv, node
<1> QED BY <1>1, <1>2, <1>3, <1>4, <1>5, <1>6, <1>7, <1>8, <1>9, <1>10, <1>11, <1>12, <1>13
     DEF Next, MwxNs, Systq, Frames, User, Firmware

\* What is going on when data is held back goes on.
LEMMA LeavingStays ==
  ASSUME Leaving, \A u : Contains(nsq, u) => Contains(nsq', u), UNCHANGED <<entering, resetting>>
  PROVE  Leaving'
BY Zenon DEF Leaving

LEMMA HeldStays ==
  ASSUME HeldInv, \A u : Contains(nsq, u) => Contains(nsq', u),
         UNCHANGED <<icState, entering, resetting, mgmtOnly, lost, bgscan, fw, scanTask, callback>>
  PROVE  HeldInv'
BY LeavingStays, Zenon DEF HeldInv, Roaming

\* Whatever stops a switch brings the station out of RUN or sends data again.
LEMMA StepHeld ==
  ASSUME StateInv, ScanInv, HeldInv, [Next]_vars
  PROVE  HeldInv'
<1> USE DEF ns, flags, drv, node
<1>1. CASE ReceiveWeak \/ ReceiveStrong \/ SendData \/ TxDone
  BY <1>1, HeldStays, Zenon DEF ReceiveWeak, ReceiveStrong, SendData, TxDone
<1>2. CASE RecvDeauth
  <2>1. \A u : Contains(nsq, u) => Contains(nsq', u)
    BY <1>2, NewStateKeeps DEF RecvDeauth, States
  <2> QED BY <1>2, <2>1, HeldStays, Zenon DEF RecvDeauth
<1>3. CASE Associated
  <2>1. \A u : Contains(nsq, u) => Contains(nsq', u)
    BY <1>3, NewStateKeeps DEF Associated, States
  <2> QED BY <1>3, <2>1, HeldStays, Zenon DEF Associated
<1>4. CASE MgtTimeout
  <2>1. \A u : Contains(nsq, u) => Contains(nsq', u)
    BY <1>4, NewStateKeeps DEF MgtTimeout, States
  <2> QED BY <1>4, <2>1, HeldStays, Zenon DEF MgtTimeout
<1>5. CASE UserLeaves
  <2>1. \A u : Contains(nsq, u) => Contains(nsq', u)
    BY <1>5, NewStateKeeps DEF UserLeaves, States
  <2> QED BY <1>5, <2>1, HeldStays, Zenon DEF UserLeaves
<1>6. CASE ReleaseNode
  <2>1. CASE mgmtOnly' = FALSE
    BY <2>1, Zenon DEF HeldInv
  <2>2. CASE ~bgscan /\ UNCHANGED <<icState, entering, resetting, nsq, mgmtOnly, lost>>
    BY <2>2, Zenon DEF HeldInv, Leaving, Roaming
  <2> QED BY <1>6, <2>1, <2>2, Zenon DEF ReleaseNode, SwitchBss
<1>7. CASE BgscanTimeout
  <2>1. /\ UNCHANGED <<icState, entering, resetting, nsq, mgmtOnly, lost, scanTask, callback>>
        /\ bgscan => UNCHANGED <<bgscan, fw>>
    BY <1>7, Zenon DEF BgscanTimeout
  <2> QED BY <2>1, Zenon DEF HeldInv, Leaving, Roaming
<1>8. CASE UserScan
  <2>1. ~bgscan /\ UNCHANGED <<icState, entering, resetting, nsq, mgmtOnly, lost>>
    BY <1>8, Zenon DEF UserScan
  <2> QED BY <2>1, Zenon DEF HeldInv, Leaving, Roaming
<1>9. CASE FirmwareScanned \/ ScanEvent
  <2>1. fw # "idle"
    BY <1>9 DEF FirmwareScanned, ScanEvent
  <2>2. UNCHANGED <<icState, entering, resetting, nsq, mgmtOnly>>
    BY <1>9, Zenon DEF FirmwareScanned, ScanEvent
  <2>3. lost => lost'
    <3>1. FirmwareScanned => UNCHANGED lost
      BY Zenon DEF FirmwareScanned
    <3>2. ScanEvent => UNCHANGED lost \/ lost' = TRUE
      BY Zenon DEF ScanEvent
    <3> QED BY <1>9, <3>1, <3>2, Zenon
  <2> QED BY <2>1, <2>2, <2>3, Zenon DEF HeldInv, Leaving, Roaming
<1>10. CASE EndScan
  <2>1. scanTask /\ UNCHANGED <<icState, entering, resetting, mgmtOnly, lost>>
    BY <1>10, Zenon DEF EndScan
  <2>2. \A u : Contains(nsq, u) => Contains(nsq', u)
    <3>1. JoinBss(FALSE) => \A u : Contains(nsq, u) => Contains(nsq', u)
      BY JoinKeeps
    <3>2. NewState("SCAN", "none") => \A u : Contains(nsq, u) => Contains(nsq', u)
      BY NewStateKeeps DEF States
    <3> QED BY <1>10, <3>1, <3>2, Zenon DEF EndScan
  <2> QED BY <2>1, <2>2, LeavingStays, Zenon DEF HeldInv, Roaming
<1>11. CASE EndBgscan
  <2>1. scanTask /\ UNCHANGED <<icState, entering, resetting, nsq, mgmtOnly, lost>>
    BY <1>11, Zenon DEF EndBgscan
  <2> QED BY <2>1, Zenon DEF HeldInv, Leaving, Roaming
<1>12. CASE EndRoamScan
  <2>1. Contains(nsq', "bgscan_done")
    BY <1>12, AddKeeps DEF EndRoamScan, AddTask, StateInv, Tasks
  <2>2. /\ scanTask /\ RoamScan /\ scanTask' = FALSE
        /\ UNCHANGED <<icState, bgscan, fw, lost>>
    BY <1>12, Zenon DEF EndRoamScan
  <2> QED BY <2>1, <2>2, Zenon DEF ScanInv, RoamScan, HeldInv, Roaming
<1>13. CASE BgscanDoneTask
  <2>1. /\ UNCHANGED <<icState, entering, resetting, mgmtOnly, lost, bgscan, fw, scanTask>>
        /\ icState = "RUN" /\ bgscan => callback'
    BY <1>13, Zenon DEF BgscanDoneTask
  <2>2. Contains(nsq, "newstate") => Contains(nsq', "newstate")
    BY <1>13, TailKeeps DEF BgscanDoneTask, StateInv
  <2> QED BY <2>1, <2>2, Zenon DEF HeldInv, Leaving, Roaming
<1>14. CASE BeginNewState
  <2>1. UNCHANGED <<icState, mgmtOnly, lost>> /\ (icState = "RUN" => entering' = request)
    BY <1>14, Zenon DEF BeginNewState
  <2>2. request # None
    BY NoneAssumption DEF StateInv
  <2> QED BY <2>1, <2>2, Zenon DEF HeldInv, Leaving
<1>15. CASE EnterScan \/ EnterAuth \/ EnterRun \/ StopEnd
  BY <1>15, Zenon DEF EnterScan, EnterAuth, EnterRun, StopEnd, HeldInv
<1>16. CASE StopBegin
  BY <1>16, Zenon DEF StopBegin, HeldInv, Leaving
<1>17. CASE Start
  <2>1. Contains(nsq', "newstate")
    BY <1>17, NewStateKeeps DEF Start, States
  <2> QED BY <1>17, <2>1, Zenon DEF Start, HeldInv, Leaving
<1>18. CASE UserJoin
  <2>1. Contains(nsq', "newstate")
    BY <1>18, JoinKeeps DEF UserJoin
  <2> QED BY <1>18, <2>1, Zenon DEF UserJoin, HeldInv, Leaving
<1>19. CASE UNCHANGED vars
  BY <1>19, HeldStays, Zenon DEF vars
<1> HIDE DEF ns, flags, drv, node
<1> QED BY <1>1, <1>2, <1>3, <1>4, <1>5, <1>6, <1>7, <1>8, <1>9, <1>10, <1>11, <1>12, <1>13, <1>14, <1>15, <1>16, <1>17, <1>18, <1>19
     DEF Next, MwxNs, Systq, Frames, User, Firmware

\* Data is held back only by a station that is about to leave its access point,
\* unless the end of a scan was not heard.
THEOREM DataIsHeldBackOnlyToLeave == Spec => []HeldBackOnlyToLeave
<1>1. Init => RoamInv
  BY InitRoam
<1>2. RoamInv /\ [Next]_vars => RoamInv'
  BY StepTypes, StepScan, StepHeld DEF RoamInv
<1>3. RoamInv => HeldBackOnlyToLeave
  <2> SUFFICES ASSUME RoamInv, mgmtOnly, ~lost
               PROVE  /\ icState = "RUN"
                      /\ callback \/ entering # None \/ resetting = "stop" \/ nsq # <<>>
    BY Zenon DEF HeldBackOnlyToLeave
  <2>1. \A t : Contains(nsq, t) => nsq # <<>>
    BY ShortQueues DEF RoamInv, StateInv
  <2> QED BY <2>1, Zenon DEF RoamInv, HeldInv, Leaving, Roaming
<1> QED BY <1>1, <1>2, <1>3, PTL DEF Spec
==============================================================================
