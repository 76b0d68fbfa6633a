---------------------------- MODULE MwxStateProofs ----------------------------
(***************************************************************************)
(* Proofs about MwxState for any number of threads, any bound on the scan  *)
(* events on their way, and whatever events happen in a run.               *)
(***************************************************************************)
EXTENDS MwxState, SequenceTheorems, TLAPS

----------------------------------------------------------------------------
(* The inductive invariant.                                                *)

Queues == {<<>>, <<"newstate">>, <<"reset">>, <<"newstate", "reset">>, <<"reset", "newstate">>}

StateInv ==
  /\ icState \in States /\ nsState \in States /\ nstate \in States
  /\ nsArg \in Args /\ arg \in Args
  /\ dones \in 0..MaxDone
  /\ nsq \in Queues

PcInv ==
  /\ pc \in [Threads -> {"idle", "init", "stop", "newstate", "send", "sent"}]
  /\ \A c \in Ctl : pc[c] \in {"idle", "init", "stop"}

FlagInv ==
  /\ mgt \in BOOLEAN /\ up \in BOOLEAN /\ running \in BOOLEAN /\ scanning \in BOOLEAN
  /\ fwScan \in BOOLEAN /\ scanTask \in BOOLEAN /\ ending \in BOOLEAN
  /\ resetting \in BOOLEAN /\ inReset \in BOOLEAN
  /\ dropped \in BOOLEAN /\ crossed \in BOOLEAN

TypeInv == StateInv /\ PcInv /\ FlagInv

\* A request waits to be read.
Pending == "newstate" \in ToSet(nsq)
ResetQueued == "reset" \in ToSet(nsq)

\* mwxns is in mwx_stop or mwx_init only for mwx_reset_task.
ResetPc == pc[Worker] \in {"stop", "init"} => inReset

\* A mwx_stop for disable that nothing has crossed: the interface is down and stopped,
\* and neither mwxns nor another thread starts or stops it.
StopInv ==
  \A c \in Ctl : pc[c] = "stop" =>
    /\ ~up /\ ~running /\ pc[Worker] \notin {"stop", "init"}
    /\ \A d \in Ctl : d # c => pc[d] = "idle"

\* While the interface runs, mwx_newstate_task enters the last request or another
\* task is queued, and a reset that starts the interface again cannot lose the scan
\* that another thread has requested for it.
WorkerInv ==
  running =>
    /\ pc[Worker] \in {"stop", "init"} => Pending
    /\ pc[Worker] = "newstate" => Pending \/ (nstate = nsState /\ arg = nsArg)
    /\ pc[Worker] \in {"send", "sent"} => Pending \/ nsState = "SCAN"

ServedInv ==
  running /\ pc[Worker] = "idle" /\ ~Pending
  => \/ nsState = icState \/ resetting
     \/ icState = "RUN" /\ nsState = "AUTH" /\ nsArg = "auth"

----------------------------------------------------------------------------
(* The queue of mwxns.                                                     *)

LEMMA ShortSequences ==
  ASSUME NEW a, NEW b
  PROVE  /\ ToSet(<<>>) = {} /\ ToSet(<<a>>) = {a} /\ ToSet(<<a, b>>) = {a, b}
         /\ Append(<<>>, a) = <<a>> /\ Append(<<a>>, b) = <<a, b>>
         /\ Head(<<a>>) = a /\ Head(<<a, b>>) = a
         /\ Tail(<<a>>) = <<>> /\ Tail(<<a, b>>) = <<b>>
<1>1. ToSet(<<>>) = {}
  <2>1. DOMAIN <<>> = {}
    OBVIOUS
  <2> QED BY <2>1 DEF ToSet
<1>2. ToSet(<<a>>) = {a}
  <2>1. DOMAIN <<a>> = {1} /\ <<a>>[1] = a
    OBVIOUS
  <2> QED BY <2>1 DEF ToSet
<1>3. ToSet(<<a, b>>) = {a, b}
  <2>1. DOMAIN <<a, b>> = {1, 2} /\ <<a, b>>[1] = a /\ <<a, b>>[2] = b
    OBVIOUS
  <2> QED BY <2>1 DEF ToSet
<1>4. Append(<<>>, a) = <<a>>
  OBVIOUS
<1>5. Append(<<a>>, b) = <<a, b>>
  <2> DEFINE r == Append(<<a>>, b)
             S == {a, b}
  <2>1. <<a>> \in Seq(S) /\ Len(<<a>>) = 1 /\ <<a>>[1] = a
    OBVIOUS
  <2>2. r \in Seq(S) /\ Len(r) = 2 /\ r[1] = a /\ r[2] = b
    BY <2>1, AppendProperties
  <2>3. <<a, b>> \in Seq(S) /\ Len(<<a, b>>) = 2 /\ <<a, b>>[1] = a /\ <<a, b>>[2] = b
    OBVIOUS
  <2> HIDE DEF r, S
  <2>4. \A i \in 1..2 : i = 1 \/ i = 2
    OBVIOUS
  <2>5. \A i \in 1..Len(r) : r[i] = <<a, b>>[i]
    BY <2>2, <2>3, <2>4
  <2>6. r = <<a, b>>
    BY <2>2, <2>3, <2>5, SeqEqual
  <2> QED BY <2>6 DEF r
<1>6. Head(<<a>>) = a /\ Head(<<a, b>>) = a
  OBVIOUS
<1>7. Tail(<<a>>) = <<>>
  OBVIOUS
<1>8. Tail(<<a, b>>) = <<b>>
  OBVIOUS
<1> QED BY <1>1, <1>2, <1>3, <1>4, <1>5, <1>6, <1>7, <1>8

\* task_add queues the task and keeps the others.
LEMMA AddKeeps ==
  ASSUME NEW q \in Queues, NEW t \in Tasks
  PROVE  Add(q, t) \in Queues /\ ToSet(Add(q, t)) = ToSet(q) \cup {t}
<1>1. CASE t \in ToSet(q)
  BY <1>1 DEF Add
<1>2. CASE q = <<>>
  <2>1. Add(q, t) = <<t>>
    BY <1>2, ShortSequences DEF Add
  <2>2. <<t>> \in Queues
    BY DEF Queues, Tasks
  <2>3. ToSet(<<t>>) = {t} /\ ToSet(<<>>) = {}
    BY ShortSequences
  <2> QED BY <1>2, <2>1, <2>2, <2>3
<1>3. ASSUME NEW a \in Tasks, q = <<a>>, t \notin ToSet(q)
      PROVE  Add(q, t) \in Queues /\ ToSet(Add(q, t)) = ToSet(q) \cup {t}
  <2>1. ToSet(q) = {a}
    BY <1>3, ShortSequences
  <2>2. Add(q, t) = <<a, t>> /\ a # t
    BY <1>3, <2>1, ShortSequences DEF Add
  <2>3. ToSet(<<a, t>>) = {a, t}
    BY ShortSequences
  <2>4. <<a, t>> \in Queues
    <3>1. CASE a = "newstate"
      BY <2>2, <3>1 DEF Queues, Tasks
    <3>2. CASE a = "reset"
      BY <2>2, <3>2 DEF Queues, Tasks
    <3> QED BY <3>1, <3>2 DEF Tasks
  <2> QED BY <2>1, <2>2, <2>3, <2>4
<1>4. CASE q = <<"newstate", "reset">> \/ q = <<"reset", "newstate">>
  <2>1. ToSet(q) = {"newstate", "reset"}
    <3>1. \A a, b : ToSet(<<a, b>>) = {a, b}
      BY ShortSequences
    <3> QED BY <1>4, <3>1
  <2>2. t \in ToSet(q)
    BY <2>1 DEF Tasks
  <2> QED BY <1>1, <2>2
<1> QED BY <1>1, <1>2, <1>3, <1>4 DEF Queues, Tasks

\* The thread takes the first task, the other stays.
LEMMA TailKeeps ==
  ASSUME NEW q \in Queues, q # <<>>
  PROVE  /\ Tail(q) \in Queues
         /\ ToSet(Tail(q)) \subseteq ToSet(q)
         /\ \A t \in ToSet(q) : t # Head(q) => t \in ToSet(Tail(q))
         /\ Head(q) \in ToSet(q) /\ Head(q) \notin ToSet(Tail(q))
<1>1. ASSUME NEW a, q = <<a>>
      PROVE  /\ Tail(q) \in Queues /\ ToSet(Tail(q)) \subseteq ToSet(q)
             /\ \A t \in ToSet(q) : t # Head(q) => t \in ToSet(Tail(q))
             /\ Head(q) \in ToSet(q) /\ Head(q) \notin ToSet(Tail(q))
  <2>1. Tail(q) = <<>> /\ Head(q) = a /\ ToSet(q) = {a} /\ ToSet(Tail(q)) = {}
    BY <1>1, ShortSequences
  <2> QED BY <2>1 DEF Queues
<1>2. ASSUME NEW a, NEW b \in Tasks, a # b, q = <<a, b>>
      PROVE  /\ Tail(q) \in Queues /\ ToSet(Tail(q)) \subseteq ToSet(q)
             /\ \A t \in ToSet(q) : t # Head(q) => t \in ToSet(Tail(q))
             /\ Head(q) \in ToSet(q) /\ Head(q) \notin ToSet(Tail(q))
  <2>1. Tail(q) = <<b>> /\ Head(q) = a /\ ToSet(q) = {a, b}
    BY <1>2, ShortSequences
  <2>2. ToSet(Tail(q)) = {b}
    BY <2>1, ShortSequences
  <2>3. <<b>> \in Queues
    BY DEF Queues, Tasks
  <2> QED BY <1>2, <2>1, <2>2, <2>3
<1> QED BY <1>1, <1>2 DEF Queues, Tasks

\* The first task is queued no more, the other stays queued.
LEMMA TakesOne ==
  ASSUME StateInv, nsq # <<>>, nsq' = Tail(nsq)
  PROVE  /\ nsq' \in Queues
         /\ Head(nsq) = "newstate" /\ ResetQueued => ResetQueued'
         /\ ResetQueued' => ResetQueued
         /\ Head(nsq) = "reset" => ResetQueued /\ ~ResetQueued'
<1>1. "newstate" # "reset"
  OBVIOUS
<1>2. nsq \in Queues
  BY DEF StateInv
<1>3. /\ Tail(nsq) \in Queues
      /\ ToSet(Tail(nsq)) \subseteq ToSet(nsq)
      /\ \A t \in ToSet(nsq) : t # Head(nsq) => t \in ToSet(Tail(nsq))
      /\ Head(nsq) \in ToSet(nsq) /\ Head(nsq) \notin ToSet(Tail(nsq))
  BY <1>2, TailKeeps
<1> QED BY <1>1, <1>3 DEF ResetQueued

\* mwx_newstate: a request that is not what was requested last is queued.
LEMMA RequestKeeps ==
  ASSUME StateInv, NEW s \in States, NEW a \in Args, Request(s, a)
  PROVE  /\ nsq' \in Queues /\ nsState' \in States /\ nsArg' \in Args
         /\ Pending => Pending'
         /\ ResetQueued' <=> ResetQueued
         /\ UNCHANGED request \/ Pending'
         /\ s = "SCAN" => Pending'
<1>1. nsq \in Queues /\ "newstate" \in Tasks
  BY DEF StateInv, Tasks
<1>2. CASE nsq' = nsq /\ UNCHANGED request /\ s # "SCAN"
  BY <1>1, <1>2 DEF StateInv, request, Pending, ResetQueued
<1>3. CASE nsState' = s /\ nsArg' = a /\ nsq' = Add(nsq, "newstate")
  <2>1. nsq' \in Queues /\ ToSet(nsq') = ToSet(nsq) \cup {"newstate"}
    BY <1>1, <1>3, AddKeeps
  <2>2. Pending' /\ (ResetQueued' <=> ResetQueued)
    BY <2>1 DEF Pending, ResetQueued
  <2> QED BY <1>3, <2>1, <2>2
<1> QED BY <1>2, <1>3 DEF Request, RequestOn

\* mwx_reset: what is queued stays, and unless there is a reset already one is queued.
LEMMA ResetKeeps ==
  ASSUME StateInv, Reset
  PROVE  /\ nsq' \in Queues /\ resetting' = TRUE
         /\ Pending => Pending'
         /\ ResetQueued => ResetQueued'
         /\ ~resetting => ResetQueued'
         /\ resetting => nsq' = nsq
<1>1. nsq \in Queues /\ "reset" \in Tasks
  BY DEF StateInv, Tasks
<1>2. CASE resetting /\ nsq' = nsq
  BY <1>1, <1>2, Zenon DEF Reset, Pending, ResetQueued
<1>3. CASE ~resetting /\ nsq' = Add(nsq, "reset")
  <2>1. nsq' \in Queues /\ ToSet(nsq') = ToSet(nsq) \cup {"reset"}
    BY <1>1, <1>3, AddKeeps
  <2>2. ResetQueued' /\ (Pending => Pending')
    BY <2>1 DEF Pending, ResetQueued
  <2> QED BY <1>3, <2>1, <2>2, Zenon DEF Reset
<1> QED BY <1>2, <1>3, Zenon DEF Reset

LEMMA InitState == Init => TypeInv
<1> SUFFICES ASSUME Init PROVE TypeInv
  OBVIOUS
<1>1. StateInv
  BY DoneAssumption DEF Init, StateInv, States, Args, Queues
<1>2. PcInv
  BY DEF Init, PcInv, Threads
<1>3. FlagInv
  BY Zenon DEF Init, FlagInv
<1> QED BY <1>1, <1>2, <1>3 DEF TypeInv

----------------------------------------------------------------------------
(* Types.                                                                  *)

LEMMA EnterTypes ==
  ASSUME StateInv, FlagInv, NEW s \in States, NEW a, EnterState(s, a)
  PROVE  /\ icState' \in States
         /\ mgt' \in BOOLEAN
         /\ icState' = s \/ (icState' = "RUN" /\ s = "AUTH" /\ a = "auth")
<1>1. icState' \in States /\ (icState' = s \/ (icState' = "RUN" /\ s = "AUTH" /\ a = "auth"))
  BY DEF EnterState, States
<1>2. mgt \in BOOLEAN
  BY DEF FlagInv
<1>3. mgt' \in BOOLEAN
  <2>1. CASE s = "INIT"
    <3>1. mgt' = (mgt /\ icState = "INIT")
      BY <2>1 DEF EnterState
    <3> QED BY <1>2, <3>1, Zenon
  <2>2. CASE s = "SCAN"
    <3>1. UNCHANGED mgt \/ SendMgmt
      BY <2>2 DEF EnterState
    <3> QED BY <1>2, <3>1, Zenon DEF SendMgmt
  <2>3. CASE s = "AUTH" \/ s = "ASSOC"
    <3>1. UNCHANGED mgt \/ SendMgmt
      BY <2>3 DEF EnterState
    <3> QED BY <1>2, <3>1, Zenon DEF SendMgmt
  <2>4. CASE s = "RUN"
    <3>1. mgt' = (mgt /\ icState \notin {"SCAN", "ASSOC"})
      BY <2>4 DEF EnterState
    <3> QED BY <1>2, <3>1, Zenon
  <2> QED BY <2>1, <2>2, <2>3, <2>4 DEF States
<1> QED BY <1>1, <1>3

LEMMA FlagTypes ==
  ASSUME StateInv, FlagInv, [Next]_vars
  PROVE  FlagInv'
<1> USE DEF FlagInv, request, iface, flags, scan, events, local, history
<1>1. ASSUME NEW c \in Ctl, Enable(c) \/ Disable(c) PROVE FlagInv'
  <2>1. CASE Enable(c)
    <3>1. crossed' = (crossed \/ \E d \in Ctl : pc[d] = "stop")
      BY <2>1, Zenon DEF Enable
    <3>2. crossed' \in BOOLEAN
      BY <3>1
    <3> QED BY <2>1, <3>2, Zenon DEF Enable
  <2>2. CASE Disable(c)
    BY <2>2, Zenon DEF Disable, StopBegin
  <2> QED BY <1>1, <2>1, <2>2
<1>2. ASSUME NEW t \in Threads, StopEnd(t) PROVE FlagInv'
  <2>1. mgt' \in BOOLEAN
    BY <1>2, EnterTypes DEF StopEnd, States
  <2> QED BY <1>2, <2>1, Zenon DEF StopEnd, LeaveInit
<1>3. ASSUME NEW t \in Threads, InitEnd(t) \/ InitFails(t) PROVE FlagInv'
  <2>1. CASE InitEnd(t)
    BY <2>1, Zenon DEF InitEnd, LeaveInit
  <2>2. CASE InitFails(t)
    BY <2>2, Zenon DEF InitFails, LeaveInit
  <2> QED BY <1>3, <2>1, <2>2
<1>4. CASE ResetTask
  BY <1>4, Zenon DEF ResetTask, StopBegin
<1>5. CASE NewstateTask
  BY <1>5, Zenon DEF NewstateTask
<1>6. CASE ScanBegin
  BY <1>6, Zenon DEF ScanBegin
<1>7. CASE ScanSend
  BY <1>7, Zenon DEF ScanSend
<1>8. CASE ScanFails
  BY <1>8, Zenon DEF ScanFails, Reset, LeaveNewstate
<1>9. CASE ScanEnd
  BY <1>9, Zenon DEF ScanEnd, SendMgmt, LeaveNewstate
<1>10. CASE StateEnd
  <2>1. mgt' \in BOOLEAN
    BY <1>10, EnterTypes DEF StateEnd, StateInv
  <2> QED BY <1>10, <2>1, Zenon DEF StateEnd, LeaveNewstate, CancelScan
<1>11. CASE AuthFails
  BY <1>11, Zenon DEF AuthFails, Reset, LeaveNewstate
<1>12. CASE EndScanTask
  BY <1>12, Zenon DEF EndScanTask
<1>13. CASE EndScanFound
  BY <1>13, Zenon DEF EndScanFound
<1>14. CASE EndScanLost
  BY <1>14, Zenon DEF EndScanLost
<1>15. CASE FwScanDone
  BY <1>15, Zenon DEF FwScanDone
<1>16. CASE Trouble
  BY <1>16, Zenon DEF Trouble, Reset
<1>17. CASE ScanEvent
  BY <1>17, Zenon DEF ScanEvent, CancelScan
<1>18. CASE AuthResponse
  BY <1>18, Zenon DEF AuthResponse
<1>19. CASE AssocResponse
  BY <1>19, Zenon DEF AssocResponse
<1>20. CASE ApLeaves
  BY <1>20, Zenon DEF ApLeaves
<1>21. CASE Watchdog
  BY <1>21, Zenon DEF Watchdog
<1>22. CASE Rescan
  BY <1>22, Zenon DEF Rescan
<1>23. CASE Rejoin
  BY <1>23, Zenon DEF Rejoin
<1>24. CASE UNCHANGED vars
  BY <1>24, Zenon DEF vars
<1> HIDE DEF FlagInv, request, iface, flags, scan, events, local, history
<1> QED BY <1>1, <1>2, <1>3, <1>4, <1>5, <1>6, <1>7, <1>8, <1>9, <1>10, <1>11, <1>12, <1>13, <1>14, <1>15, <1>16, <1>17, <1>18, <1>19, <1>20, <1>21, <1>22, <1>23, <1>24
     DEF Next, WorkerStep, SystqStep, InitStop, Threads

LEMMA PcTypes ==
  ASSUME PcInv, [Next]_vars
  PROVE  PcInv'
<1> USE WorkerAssumption
<1> USE DEF PcInv, Goto, Threads
<1>1. ASSUME NEW c \in Ctl, Enable(c) \/ Disable(c) PROVE PcInv'
  BY <1>1 DEF Enable, Disable, StopBegin
<1>2. ASSUME NEW t \in Threads, StopEnd(t) \/ InitEnd(t) \/ InitFails(t) PROVE PcInv'
  BY <1>2 DEF StopEnd, InitEnd, InitFails, LeaveInit
<1>3. CASE ResetTask \/ NewstateTask \/ ScanBegin \/ ScanSend
  BY <1>3 DEF ResetTask, StopBegin, NewstateTask, ScanBegin, ScanSend
<1>4. CASE ScanFails \/ ScanEnd \/ StateEnd \/ AuthFails
  BY <1>4 DEF ScanFails, ScanEnd, StateEnd, AuthFails, LeaveNewstate
<1>5. CASE EndScanTask \/ EndScanFound \/ EndScanLost \/ FwScanDone \/ Trouble \/ ScanEvent
  BY <1>5 DEF EndScanTask, EndScanFound, EndScanLost, FwScanDone, Trouble, ScanEvent
<1>6. CASE AuthResponse \/ AssocResponse \/ ApLeaves \/ Watchdog \/ Rescan \/ Rejoin
  BY <1>6 DEF AuthResponse, AssocResponse, ApLeaves, Watchdog, Rescan, Rejoin
<1>7. CASE UNCHANGED vars
  BY <1>7 DEF vars
<1> HIDE DEF PcInv, Goto
<1> QED BY <1>1, <1>2, <1>3, <1>4, <1>5, <1>6, <1>7
     DEF Next, WorkerStep, SystqStep, InitStop

LEMMA StateTypes ==
  ASSUME StateInv, [Next]_vars
  PROVE  StateInv'
<1> USE DEF StateInv, request, iface, flags, scan, events, local, history
<1>1. ASSUME NEW c \in Ctl, Enable(c) \/ Disable(c) PROVE StateInv'
  BY <1>1 DEF Enable, Disable, StopBegin, Queues
<1>2. ASSUME NEW t \in Threads, StopEnd(t) PROVE StateInv'
  <2>1. icState' \in States /\ nsState' \in States
    BY <1>2 DEF StopEnd, EnterState, States
  <2> QED BY <1>2, <2>1 DEF StopEnd, LeaveInit
<1>3. ASSUME NEW t \in Threads, InitEnd(t) PROVE StateInv'
  <2>1. nsq' \in Queues /\ nsState' \in States /\ nsArg' \in Args
    BY <1>3, RequestKeeps DEF InitEnd, States, Args
  <2> QED BY <1>3, <2>1 DEF InitEnd
<1>4. ASSUME NEW t \in Threads, InitFails(t) PROVE StateInv'
  BY <1>4 DEF InitFails
<1>5. CASE ResetTask
  <2>1. nsq' \in Queues
    BY <1>5, TakesOne DEF ResetTask, StopBegin, Queues
  <2> QED BY <1>5, <2>1 DEF ResetTask, StopBegin
<1>6. CASE NewstateTask
  <2>1. nsq' \in Queues
    BY <1>6, TakesOne DEF NewstateTask
  <2> QED BY <1>6, <2>1 DEF NewstateTask
<1>7. CASE ScanBegin \/ ScanSend \/ EndScanTask
  BY <1>7 DEF ScanBegin, ScanSend, EndScanTask
<1>8. CASE ScanFails \/ AuthFails \/ Trouble
  <2>1. nsq' \in Queues
    BY <1>8, ResetKeeps DEF ScanFails, AuthFails, Trouble
  <2> QED BY <1>8, <2>1 DEF ScanFails, AuthFails, Trouble, LeaveNewstate, States, Args
<1>9. CASE ScanEnd
  BY <1>9 DEF ScanEnd, LeaveNewstate, States, Args
<1>10. CASE StateEnd
  <2>1. icState' \in States
    BY <1>10 DEF StateEnd, EnterState, States
  <2> QED BY <1>10, <2>1 DEF StateEnd, LeaveNewstate, States, Args
<1>11. CASE FwScanDone \/ ScanEvent
  BY <1>11, DoneAssumption DEF FwScanDone, ScanEvent
<1>12. CASE EndScanFound
  <2>1. nsq' \in Queues /\ nsState' \in States /\ nsArg' \in Args
    BY <1>12, RequestKeeps DEF EndScanFound, States, Args
  <2> QED BY <1>12, <2>1 DEF EndScanFound
<1>13. CASE AuthResponse
  <2>1. nsq' \in Queues /\ nsState' \in States /\ nsArg' \in Args
    BY <1>13, RequestKeeps DEF AuthResponse, States, Args
  <2> QED BY <1>13, <2>1 DEF AuthResponse
<1>14. CASE AssocResponse
  <2>1. nsq' \in Queues /\ nsState' \in States /\ nsArg' \in Args
    BY <1>14, RequestKeeps DEF AssocResponse, States, Args
  <2> QED BY <1>14, <2>1 DEF AssocResponse
<1>15. CASE ApLeaves
  <2>1. nsq' \in Queues /\ nsState' \in States /\ nsArg' \in Args
    BY <1>15, RequestKeeps DEF ApLeaves, States, Args
  <2> QED BY <1>15, <2>1 DEF ApLeaves
<1>16. CASE Watchdog
  <2>1. nsq' \in Queues /\ nsState' \in States /\ nsArg' \in Args
    BY <1>16, RequestKeeps DEF Watchdog, States, Args
  <2> QED BY <1>16, <2>1 DEF Watchdog
<1>17. CASE Rescan
  <2>1. nsq' \in Queues /\ nsState' \in States /\ nsArg' \in Args
    BY <1>17, RequestKeeps DEF Rescan, States, Args
  <2> QED BY <1>17, <2>1 DEF Rescan
<1>18. CASE Rejoin
  <2>1. nsq' \in Queues /\ nsState' \in States /\ nsArg' \in Args
    BY <1>18, RequestKeeps DEF Rejoin, States, Args
  <2> QED BY <1>18, <2>1 DEF Rejoin
<1>19. CASE EndScanLost
  <2>1. nsq' \in Queues /\ nsState' \in States /\ nsArg' \in Args
    <3>1. Request("SCAN", "none") => nsq' \in Queues /\ nsState' \in States /\ nsArg' \in Args
      BY RequestKeeps DEF States, Args
    <3>2. UNCHANGED <<request, nsq>> => nsq' \in Queues /\ nsState' \in States /\ nsArg' \in Args
      OBVIOUS
    <3> QED BY <1>19, <3>1, <3>2 DEF EndScanLost
  <2> QED BY <1>19, <2>1 DEF EndScanLost
<1>20. CASE UNCHANGED vars
  BY <1>20 DEF vars
<1> HIDE DEF StateInv, request, iface, flags, scan, events, local, history
<1> QED BY <1>1, <1>2, <1>3, <1>4, <1>5, <1>6, <1>7, <1>8, <1>9, <1>10, <1>11, <1>12, <1>13, <1>14, <1>15, <1>16, <1>17, <1>18, <1>19, <1>20
     DEF Next, WorkerStep, SystqStep, InitStop, Threads

LEMMA TypeInvariant == Spec => []TypeInv
<1>1. Init => TypeInv
  BY InitState
<1>2. TypeInv /\ [Next]_vars => TypeInv'
  BY StateTypes, PcTypes, FlagTypes DEF TypeInv
<1> QED BY <1>1, <1>2, PTL DEF Spec

\* Every variable keeps its type, and a task is queued once.
THEOREM StateTypeCorrect == Spec => []TypeOK
<1>1. TypeInv => TypeOK
  <2> SUFFICES ASSUME TypeInv PROVE TypeOK
    OBVIOUS
  <2>1. /\ {mgt, up, running, scanning, fwScan, scanTask, ending, resetting, inReset}
             \subseteq BOOLEAN
        /\ dropped \in BOOLEAN /\ crossed \in BOOLEAN
    BY Zenon DEF TypeInv, FlagInv
  <2> QED BY <2>1 DEF TypeInv, StateInv, PcInv, TypeOK, Queues
<1> QED BY <1>1, TypeInvariant, PTL

----------------------------------------------------------------------------
(* Resets.                                                                 *)

\* A step that leaves sc_resetting and the reset alone.
LEMMA ResetStays ==
  ASSUME ResetIsComing, ResetPc, UNCHANGED <<resetting, inReset, dropped>>,
         ResetQueued' <=> ResetQueued,
         pc'[Worker] \in {"stop", "init"} => pc[Worker] \in {"stop", "init"}
  PROVE  ResetIsComing' /\ ResetPc'
BY Zenon DEF ResetIsComing, ResetPc, ResetQueued

\* mwx_reset_task takes a reset from the queue and runs until it clears sc_resetting;
\* a disable takes one that was queued, and then there is no other.
LEMMA StepReset ==
  ASSUME TypeInv, ResetIsComing, ResetPc, [Next]_vars
  PROVE  ResetIsComing' /\ ResetPc'
<1> USE DEF Goto
<1>t. /\ pc \in [Threads -> {"idle", "init", "stop", "newstate", "send", "sent"}]
      /\ \A c \in Ctl : c # Worker /\ c \in Threads
      /\ Worker \in Threads /\ StateInv /\ FlagInv
  BY WorkerAssumption DEF TypeInv, PcInv, Threads
<1>e. ToSet(<<>>) = {}
  BY ShortSequences
<1> USE DEF request, iface, flags, scan, events, local, history
<1>1. ASSUME NEW c \in Ctl, Enable(c) PROVE ResetIsComing' /\ ResetPc'
  <2>1. UNCHANGED <<resetting, nsq, inReset, dropped>>
    BY <1>1, Zenon DEF Enable
  <2>2. pc'[Worker] = pc[Worker]
    BY <1>1, <1>t DEF Enable
  <2> QED BY <2>1, <2>2, ResetStays, Zenon DEF ResetQueued
<1>2. ASSUME NEW c \in Ctl, InitFails(c) \/ StopEnd(c) PROVE ResetIsComing' /\ ResetPc'
  <2>1. UNCHANGED <<resetting, nsq, inReset, dropped>>
    BY <1>2, <1>t, Zenon DEF InitFails, StopEnd, LeaveInit
  <2>2. pc'[Worker] = pc[Worker]
    BY <1>2, <1>t DEF InitFails, StopEnd, LeaveInit
  <2> QED BY <2>1, <2>2, ResetStays, Zenon DEF ResetQueued
<1>3. ASSUME NEW c \in Ctl, InitEnd(c) PROVE ResetIsComing' /\ ResetPc'
  <2>1. UNCHANGED <<resetting, inReset, dropped>>
    BY <1>3, <1>t, Zenon DEF InitEnd, LeaveInit
  <2>2. pc'[Worker] = pc[Worker]
    BY <1>3, <1>t DEF InitEnd, LeaveInit
  <2>3. ResetQueued' <=> ResetQueued
    BY <1>3, <1>t, RequestKeeps DEF InitEnd, States, Args
  <2> QED BY <2>1, <2>2, <2>3, ResetStays, Zenon
<1>4. ASSUME NEW c \in Ctl, Disable(c) PROVE ResetIsComing' /\ ResetPc'
  <2>1. pc'[Worker] = pc[Worker] /\ UNCHANGED <<resetting, inReset>>
    BY <1>4, <1>t DEF Disable, StopBegin
  <2>2. CASE running
    <3>1. nsq' = <<>> /\ (dropped' <=> dropped \/ ResetQueued)
      BY <1>4, <1>t, <2>2, Zenon DEF Disable, StopBegin, ResetQueued
    <3>2. ~ResetQueued'
      BY <1>e, <3>1 DEF ResetQueued
    <3> QED BY <2>1, <3>1, <3>2, Zenon DEF ResetIsComing, ResetPc, ResetQueued
  <2>3. CASE ~running
    <3>1. UNCHANGED <<nsq, dropped>>
      BY <1>4, <2>3, Zenon DEF Disable
    <3> QED BY <2>1, <3>1, ResetStays, Zenon DEF ResetQueued
  <2> QED BY <2>2, <2>3
<1>5. CASE StopEnd(Worker)
  <2>1. pc[Worker] = "stop" /\ UNCHANGED <<nsq, dropped>>
    BY <1>5, Zenon DEF StopEnd
  <2>2. inReset /\ ~ResetQueued /\ ~dropped
    BY <2>1, Zenon DEF ResetPc, ResetIsComing, ResetQueued
  <2>3. CASE up
    <3>1. UNCHANGED <<resetting, inReset>> /\ pc[Worker] \in {"stop", "init"}
      BY <1>5, <2>1, <2>3, Zenon DEF StopEnd
    <3> QED BY <2>1, <3>1, ResetStays, Zenon DEF ResetQueued
  <2>4. CASE ~up
    <3>1. pc'[Worker] = "idle" /\ inReset' = FALSE /\ resetting' = FALSE
      BY <1>5, <1>t, <2>4 DEF StopEnd, LeaveInit
    <3>2. pc'[Worker] \notin {"stop", "init"}
      BY <3>1
    <3> QED BY <2>1, <2>2, <3>1, <3>2, Zenon DEF ResetIsComing, ResetPc, ResetQueued
  <2> QED BY <2>3, <2>4
<1>6. CASE InitEnd(Worker) \/ InitFails(Worker)
  <2>1. pc[Worker] = "init" /\ UNCHANGED dropped
    BY <1>6, Zenon DEF InitEnd, InitFails
  <2>2. inReset /\ ~ResetQueued /\ ~dropped
    BY <2>1, Zenon DEF ResetPc, ResetIsComing, ResetQueued
  <2>3. pc'[Worker] = "idle" /\ inReset' = FALSE /\ resetting' = FALSE
    BY <1>6, <1>t DEF InitEnd, InitFails, LeaveInit
  <2>4. ResetQueued' <=> ResetQueued
    <3>1. InitEnd(Worker) => (ResetQueued' <=> ResetQueued)
      BY <1>t, RequestKeeps DEF InitEnd, States, Args
    <3>2. InitFails(Worker) => (ResetQueued' <=> ResetQueued)
      BY Zenon DEF InitFails, ResetQueued
    <3> QED BY <1>6, <3>1, <3>2
  <2>5. pc'[Worker] \notin {"stop", "init"}
    BY <2>3
  <2> QED BY <2>1, <2>2, <2>3, <2>4, <2>5, Zenon DEF ResetIsComing, ResetPc, ResetQueued
<1>7. CASE ResetTask
  <2>1. nsq # <<>> /\ Head(nsq) = "reset" /\ nsq \in Queues
    BY <1>7, <1>t DEF ResetTask, StateInv
  <2>2. ResetQueued
    BY <2>1, TailKeeps DEF ResetQueued
  <2>3. resetting /\ ~inReset /\ ~dropped
    BY <2>2, Zenon DEF ResetIsComing, ResetQueued
  <2>4. ~ResetQueued'
    <3>1. CASE running
      <4>1. nsq' = <<>>
        BY <1>7, <3>1, Zenon DEF ResetTask, StopBegin
      <4> QED BY <1>e, <4>1 DEF ResetQueued
    <3>2. CASE ~running
      <4>1. nsq' = Tail(nsq)
        BY <1>7, <3>2, Zenon DEF ResetTask
      <4> QED BY <1>t, <2>1, <4>1, TakesOne
    <3> QED BY <3>1, <3>2
  <2>5. ~dropped'
    <3>1. CASE running
      BY <1>7, <2>3, <3>1, Zenon DEF ResetTask, StopBegin
    <3>2. CASE ~running
      BY <1>7, <2>3, <3>2, Zenon DEF ResetTask
    <3> QED BY <3>1, <3>2
  <2>6. \/ inReset' = TRUE /\ resetting' = resetting
        \/ resetting' = FALSE /\ UNCHANGED <<inReset, pc>>
    BY <1>7, Zenon DEF ResetTask
  <2>7. pc[Worker] = "idle"
    BY <1>7 DEF ResetTask
  <2>8. pc[Worker] \notin {"stop", "init"}
    BY <2>7
  <2>9. CASE inReset' = TRUE /\ resetting' = resetting
    <3>1. inReset' /\ resetting'
      BY <2>3, <2>9
    <3> QED BY <2>4, <2>5, <3>1, Zenon DEF ResetIsComing, ResetPc, ResetQueued
  <2>10. CASE resetting' = FALSE /\ UNCHANGED <<inReset, pc>>
    <3>1. ~resetting' /\ ~inReset' /\ pc'[Worker] \notin {"stop", "init"}
      BY <2>3, <2>8, <2>10
    <3> QED BY <2>4, <2>5, <3>1, Zenon DEF ResetIsComing, ResetPc, ResetQueued
  <2> QED BY <2>6, <2>9, <2>10
<1>8. CASE NewstateTask
  <2>1. UNCHANGED <<resetting, inReset, dropped>>
    BY <1>8, Zenon DEF NewstateTask
  <2>2. ResetQueued' <=> ResetQueued
    BY <1>8, <1>t, TakesOne DEF NewstateTask
  <2>3. pc'[Worker] \in {"stop", "init"} => pc[Worker] \in {"stop", "init"}
    BY <1>8, <1>t DEF NewstateTask
  <2> QED BY <2>1, <2>2, <2>3, ResetStays, Zenon
<1>9. CASE ScanFails \/ AuthFails \/ Trouble
  <2>1. inReset' = inReset /\ dropped' = dropped /\ Reset
    BY <1>9, Zenon DEF ScanFails, AuthFails, Trouble, LeaveNewstate
  <2>2. pc'[Worker] \in {"stop", "init"} => pc[Worker] \in {"stop", "init"}
    BY <1>9, <1>t DEF ScanFails, AuthFails, Trouble, LeaveNewstate
  <2>3. resetting' = TRUE /\ (~resetting => ResetQueued') /\ (resetting => nsq' = nsq)
    BY <1>t, <2>1, ResetKeeps
  <2> QED BY <2>1, <2>2, <2>3, Zenon DEF ResetIsComing, ResetPc, ResetQueued
<1>10. CASE ScanBegin \/ ScanSend \/ EndScanTask \/ FwScanDone \/ ScanEvent
  <2>1. UNCHANGED <<resetting, nsq, inReset, dropped>>
    BY <1>10, Zenon DEF ScanBegin, ScanSend, EndScanTask, FwScanDone, ScanEvent
  <2>2. pc'[Worker] \in {"stop", "init"} => pc[Worker] \in {"stop", "init"}
    BY <1>10, <1>t DEF ScanBegin, ScanSend, EndScanTask, FwScanDone, ScanEvent
  <2> QED BY <2>1, <2>2, ResetStays, Zenon DEF ResetQueued
<1>11. CASE ScanEnd \/ StateEnd
  <2>1. UNCHANGED <<resetting, nsq, inReset, dropped>>
    BY <1>11, Zenon DEF ScanEnd, StateEnd, LeaveNewstate
  <2>2. pc'[Worker] \in {"stop", "init"} => pc[Worker] \in {"stop", "init"}
    BY <1>11, <1>t DEF ScanEnd, StateEnd, LeaveNewstate
  <2> QED BY <2>1, <2>2, ResetStays, Zenon DEF ResetQueued
<1>12. CASE EndScanFound
  <2>1. UNCHANGED <<resetting, inReset, dropped, pc>>
    BY <1>12, Zenon DEF EndScanFound
  <2>2. ResetQueued' <=> ResetQueued
    BY <1>12, <1>t, RequestKeeps DEF EndScanFound, States, Args
  <2> QED BY <2>1, <2>2, ResetStays, Zenon
<1>13. CASE AuthResponse
  <2>1. UNCHANGED <<resetting, inReset, dropped, pc>>
    BY <1>13, Zenon DEF AuthResponse
  <2>2. ResetQueued' <=> ResetQueued
    BY <1>13, <1>t, RequestKeeps DEF AuthResponse, States, Args
  <2> QED BY <2>1, <2>2, ResetStays, Zenon
<1>14. CASE AssocResponse
  <2>1. UNCHANGED <<resetting, inReset, dropped, pc>>
    BY <1>14, Zenon DEF AssocResponse
  <2>2. ResetQueued' <=> ResetQueued
    BY <1>14, <1>t, RequestKeeps DEF AssocResponse, States, Args
  <2> QED BY <2>1, <2>2, ResetStays, Zenon
<1>15. CASE ApLeaves
  <2>1. UNCHANGED <<resetting, inReset, dropped, pc>>
    BY <1>15, Zenon DEF ApLeaves
  <2>2. ResetQueued' <=> ResetQueued
    BY <1>15, <1>t, RequestKeeps DEF ApLeaves, States, Args
  <2> QED BY <2>1, <2>2, ResetStays, Zenon
<1>16. CASE Watchdog
  <2>1. UNCHANGED <<resetting, inReset, dropped, pc>>
    BY <1>16, Zenon DEF Watchdog
  <2>2. ResetQueued' <=> ResetQueued
    BY <1>16, <1>t, RequestKeeps DEF Watchdog, States, Args
  <2> QED BY <2>1, <2>2, ResetStays, Zenon
<1>17. CASE Rescan
  <2>1. UNCHANGED <<resetting, inReset, dropped, pc>>
    BY <1>17, Zenon DEF Rescan
  <2>2. ResetQueued' <=> ResetQueued
    BY <1>17, <1>t, RequestKeeps DEF Rescan, States, Args
  <2> QED BY <2>1, <2>2, ResetStays, Zenon
<1>18. CASE Rejoin
  <2>1. UNCHANGED <<resetting, inReset, dropped, pc>>
    BY <1>18, Zenon DEF Rejoin
  <2>2. ResetQueued' <=> ResetQueued
    BY <1>18, <1>t, RequestKeeps DEF Rejoin, States, Args
  <2> QED BY <2>1, <2>2, ResetStays, Zenon
<1>19. CASE EndScanLost
  <2>1. UNCHANGED <<resetting, inReset, dropped, pc>>
    BY <1>19, Zenon DEF EndScanLost
  <2>2. Request("SCAN", "none") \/ nsq' = nsq
    BY <1>19, Zenon DEF EndScanLost
  <2>3. Request("SCAN", "none") => (ResetQueued' <=> ResetQueued)
    BY <1>t, RequestKeeps DEF States, Args
  <2>4. nsq' = nsq => (ResetQueued' <=> ResetQueued)
    BY Zenon DEF ResetQueued
  <2> QED BY <2>1, <2>2, <2>3, <2>4, ResetStays, Zenon
<1>20. CASE UNCHANGED vars
  <2>1. UNCHANGED <<resetting, nsq, inReset, dropped, pc>>
    BY <1>20, Zenon DEF vars
  <2> QED BY <2>1, ResetStays, Zenon DEF ResetQueued
<1> HIDE DEF Goto, request, iface, flags, scan, events, local, history
<1> QED BY <1>1, <1>2, <1>3, <1>4, <1>5, <1>6, <1>7, <1>8, <1>9, <1>10, <1>11, <1>12, <1>13, <1>14, <1>15, <1>16, <1>17, <1>18, <1>19, <1>20
     DEF Next, WorkerStep, SystqStep, InitStop

\* Whatever fails and whoever disables, enables and resets the interface: sc_resetting
\* says that one reset is queued or running, until a disable deletes a queued one; that
\* is the only loss, and it is for ever.
THEOREM ResetsAreComing == Spec => []ResetIsComing
<1>1. Init => ResetIsComing /\ ResetPc
  <2> SUFFICES ASSUME Init PROVE ResetIsComing /\ ResetPc
    OBVIOUS
  <2>1. pc[Worker] = "idle"
    BY DEF Init, Threads
  <2>2. "reset" \notin ToSet(nsq)
    BY ShortSequences DEF Init
  <2>3. resetting = FALSE /\ inReset = FALSE /\ dropped = FALSE
    BY Zenon DEF Init
  <2>4. pc[Worker] \notin {"stop", "init"}
    BY <2>1
  <2> QED BY <2>2, <2>3, <2>4, Zenon DEF ResetIsComing, ResetPc
<1>2. TypeInv /\ ResetIsComing /\ ResetPc /\ [Next]_vars => ResetIsComing' /\ ResetPc'
  BY StepReset
<1> QED BY <1>1, <1>2, TypeInvariant, PTL DEF Spec

----------------------------------------------------------------------------
(* Requests.                                                               *)

Serves == StopInv /\ WorkerInv /\ ServedInv
ServeInv == crossed \/ Serves

\* A step that neither starts nor stops the interface.
LEMMA StopStays ==
  ASSUME StopInv, UNCHANGED <<up, running>>, \A d \in Ctl : pc'[d] = pc[d],
         pc'[Worker] \in {"stop", "init"} => pc[Worker] \in {"stop", "init"}
  PROVE  StopInv'
BY Zenon DEF StopInv

\* What is requested and entered stays as it is, or waits to be read.
LEMMA ServeStays ==
  ASSUME Serves, UNCHANGED <<icState, up, running, pc, nstate, arg>>,
         UNCHANGED request \/ Pending', Pending => Pending', resetting => resetting'
  PROVE  Serves'
<1>1. WorkerInv'
  <2>1. CASE Pending'
    BY <2>1, Zenon DEF Serves, WorkerInv
  <2>2. CASE UNCHANGED request /\ ~Pending
    BY <2>2, Zenon DEF Serves, WorkerInv, request
  <2> QED BY <2>1, <2>2, Zenon
<1>2. ServedInv'
  BY Zenon DEF Serves, ServedInv, request
<1>3. StopInv'
  BY StopStays, Zenon DEF Serves
<1> QED BY <1>1, <1>2, <1>3 DEF Serves

\* A request that waits to be read is all that is needed.
LEMMA PendingServes ==
  ASSUME Pending', StopInv'
  PROVE  Serves'
BY Zenon DEF Serves, WorkerInv, ServedInv

\* So is an interface that does not run.
LEMMA StoppedServes ==
  ASSUME ~running', StopInv'
  PROVE  Serves'
BY Zenon DEF Serves, WorkerInv, ServedInv

\* The worker has ended a task and is idle.
LEMMA IdleServes ==
  ASSUME StopInv', pc'[Worker] = "idle",
         nsState' = icState' \/ resetting' = TRUE
           \/ (icState' = "RUN" /\ nsState' = "AUTH" /\ nsArg' = "auth")
           \/ running' = FALSE \/ Pending'
  PROVE  Serves'
<1>1. ServedInv'
  BY Zenon DEF ServedInv
<1>2. WorkerInv'
  BY Zenon DEF WorkerInv
<1> QED BY <1>1, <1>2 DEF Serves

\* Only disable and enable can cross a mwx_stop, and nothing undoes it.
LEMMA StepCrossed ==
  ASSUME crossed, [Next]_vars
  PROVE  crossed'
<1> USE DEF history
<1>1. ASSUME NEW c \in Ctl, Enable(c) \/ Disable(c) PROVE crossed'
  BY <1>1, Zenon DEF Enable, Disable, StopBegin
<1>2. ASSUME NEW t \in Threads, StopEnd(t) \/ InitEnd(t) \/ InitFails(t) PROVE crossed'
  BY <1>2, Zenon DEF StopEnd, InitEnd, InitFails
<1>3. CASE ResetTask
  BY <1>3, WorkerAssumption, Zenon DEF ResetTask, StopBegin
<1>4. CASE NewstateTask \/ ScanBegin \/ ScanSend \/ ScanFails \/ ScanEnd
  BY <1>4, Zenon DEF NewstateTask, ScanBegin, ScanSend, ScanFails, ScanEnd
<1>5. CASE StateEnd \/ AuthFails \/ EndScanTask \/ EndScanFound \/ EndScanLost
  BY <1>5, Zenon DEF StateEnd, AuthFails, EndScanTask, EndScanFound, EndScanLost
<1>6. CASE FwScanDone \/ Trouble \/ ScanEvent \/ AuthResponse \/ AssocResponse
  BY <1>6, Zenon DEF FwScanDone, Trouble, ScanEvent, AuthResponse, AssocResponse
<1>7. CASE ApLeaves \/ Watchdog \/ Rescan \/ Rejoin \/ UNCHANGED vars
  BY <1>7, Zenon DEF ApLeaves, Watchdog, Rescan, Rejoin, vars
<1> QED BY <1>1, <1>2, <1>3, <1>4, <1>5, <1>6, <1>7
     DEF Next, WorkerStep, SystqStep, InitStop, Threads

\* What was requested last is entered, or a reset comes.
LEMMA StepServe ==
  ASSUME TypeInv, ServeInv, [Next]_vars
  PROVE  ServeInv'
<1> SUFFICES ASSUME ~crossed' PROVE Serves'
  BY DEF ServeInv
<1>s. Serves /\ ~crossed
  BY StepCrossed DEF ServeInv
<1> USE DEF Goto
<1>t. /\ pc \in [Threads -> {"idle", "init", "stop", "newstate", "send", "sent"}]
      /\ \A c \in Ctl : c # Worker /\ c \in Threads
      /\ Worker \in Threads /\ StateInv /\ StopInv
  BY <1>s, WorkerAssumption DEF TypeInv, PcInv, Serves, Threads
\* Nobody is in mwx_stop for disable while another thread is in mwx_init or mwx_stop.
<1>n. ASSUME NEW t \in Threads, pc[t] = "init" \/ (pc[t] = "stop" /\ t = Worker)
      PROVE  \A d \in Ctl : pc[d] # "stop"
  <2> SUFFICES ASSUME NEW d \in Ctl, pc[d] = "stop" PROVE FALSE
    OBVIOUS
  <2>1. d # t /\ pc[Worker] \notin {"stop", "init"} /\ \A e \in Ctl : e # d => pc[e] = "idle"
    BY <1>n, <1>t DEF StopInv
  <2>2. CASE t = Worker
    BY <1>n, <2>1, <2>2
  <2>3. CASE t # Worker
    BY <1>n, <2>1, <2>3 DEF Threads
  <2> QED BY <2>2, <2>3
<1> USE DEF request, iface, flags, scan, events, local
<1>1. ASSUME NEW c \in Ctl, Enable(c) PROVE Serves'
  <2>1. \A d \in Ctl : pc[d] # "stop"
    BY <1>1, Zenon DEF Enable
  <2>2. pc'[Worker] = pc[Worker] /\ \A d \in Ctl : pc'[d] # "stop"
    BY <1>1, <1>t, <2>1 DEF Enable
  <2>3. UNCHANGED <<icState, running, nsq, nstate, arg, nsState, nsArg, resetting>>
    BY <1>1, Zenon DEF Enable
  <2>4. WorkerInv' /\ ServedInv'
    BY <1>s, <2>2, <2>3, Zenon DEF Serves, WorkerInv, ServedInv, Pending
  <2>5. StopInv'
    BY <2>2, Zenon DEF StopInv
  <2> QED BY <2>4, <2>5 DEF Serves
<1>2. ASSUME NEW c \in Ctl, Disable(c) PROVE Serves'
  <2>1. CASE running
    <3>1. StopBegin(c) /\ up' = FALSE
      BY <1>2, <2>1, Zenon DEF Disable
    <3>2. \A u \in Threads : u # c => pc[u] = "idle"
      BY <1>t, <3>1, Zenon DEF StopBegin
    <3>3. running' = FALSE /\ pc' = [pc EXCEPT ![c] = "stop"]
      BY <3>1 DEF StopBegin
    <3>4. pc'[Worker] = "idle" /\ \A d \in Ctl : pc'[d] = "stop" => d = c
      BY <1>t, <3>2, <3>3
    <3>5. \A d \in Ctl : d # c => pc'[d] = "idle"
      BY <1>t, <3>2, <3>3
    <3>6. StopInv'
      BY <3>1, <3>3, <3>4, <3>5 DEF StopInv
    <3> QED BY <3>3, <3>6, StoppedServes
  <2>2. CASE ~running
    <3>1. up' = FALSE /\ UNCHANGED <<running, pc>>
      BY <1>2, <2>2, Zenon DEF Disable
    <3>2. StopInv'
      BY <1>t, <3>1, Zenon DEF StopInv
    <3> QED BY <2>2, <3>1, <3>2, StoppedServes
  <2> QED BY <2>1, <2>2
<1>3. ASSUME NEW c \in Ctl, InitFails(c) PROVE Serves'
  <2>1. \A d \in Ctl : pc[d] # "stop"
    BY <1>3, <1>n, <1>t DEF InitFails
  <2>2. pc'[Worker] = pc[Worker] /\ \A d \in Ctl : pc'[d] # "stop"
    BY <1>3, <1>t, <2>1 DEF InitFails, LeaveInit
  <2>3. UNCHANGED <<icState, running, nsq, nstate, arg, nsState, nsArg, resetting>>
    BY <1>3, <1>t, Zenon DEF InitFails, LeaveInit
  <2>4. WorkerInv' /\ ServedInv'
    BY <1>s, <2>2, <2>3, Zenon DEF Serves, WorkerInv, ServedInv, Pending
  <2>5. StopInv'
    BY <2>2, Zenon DEF StopInv
  <2> QED BY <2>4, <2>5 DEF Serves
<1>4. ASSUME NEW c \in Ctl, StopEnd(c) PROVE Serves'
  <2>1. ~running /\ \A d \in Ctl : d # c => pc[d] = "idle"
    BY <1>4, <1>t DEF StopEnd, StopInv
  <2>2. running' = running /\ pc' = [pc EXCEPT ![c] = "idle"]
    BY <1>4, <1>t DEF StopEnd, LeaveInit
  <2>3. \A d \in Ctl : pc'[d] = "idle"
    BY <1>t, <2>1, <2>2
  <2>4. StopInv'
    BY <2>3 DEF StopInv
  <2> QED BY <2>1, <2>2, <2>4, StoppedServes
<1>5. ASSUME NEW t \in Threads, InitEnd(t) PROVE Serves'
  <2>1. \A d \in Ctl : pc[d] # "stop"
    BY <1>5, <1>n DEF InitEnd
  <2>2. \A d \in Ctl : pc'[d] # "stop"
    BY <1>5, <1>t, <2>1 DEF InitEnd, LeaveInit
  <2>3. Pending'
    BY <1>5, <1>t, RequestKeeps DEF InitEnd, States, Args
  <2>4. StopInv'
    BY <2>2 DEF StopInv
  <2> QED BY <2>3, <2>4, PendingServes
<1>6. CASE InitFails(Worker)
  <2>1. pc'[Worker] = "idle" /\ pc[Worker] = "init" /\ \A d \in Ctl : pc'[d] = pc[d]
    BY <1>6, <1>t DEF InitFails, LeaveInit
  <2>2. UNCHANGED <<up, running, nsq>>
    BY <1>6, Zenon DEF InitFails
  <2>3. running' = FALSE \/ Pending'
    BY <1>s, <2>1, <2>2, Zenon DEF Serves, WorkerInv, Pending, TypeInv, FlagInv
  <2>4. StopInv'
    BY <1>t, <2>1, <2>2, StopStays
  <2> QED BY <2>1, <2>3, <2>4, IdleServes
<1>7. CASE StopEnd(Worker)
  <2>1. pc'[Worker] \in {"idle", "init"} /\ pc[Worker] = "stop" /\ \A d \in Ctl : pc'[d] = pc[d]
    BY <1>7, <1>t DEF StopEnd, LeaveInit
  <2>2. icState' = "INIT" /\ nsState' = "INIT"
    BY <1>7 DEF StopEnd, EnterState
  <2>3. UNCHANGED <<up, running, nsq>>
    BY <1>7, Zenon DEF StopEnd
  <2>4. StopInv'
    BY <1>t, <2>1, <2>3, StopStays
  <2>5. CASE pc'[Worker] = "idle"
    BY <2>2, <2>4, <2>5, IdleServes
  <2>6. CASE pc'[Worker] = "init"
    <3>1. running => Pending
      BY <1>s, <2>1, Zenon DEF Serves, WorkerInv
    <3>2. WorkerInv' /\ ServedInv'
      BY <2>3, <2>6, <3>1, Zenon DEF WorkerInv, ServedInv, Pending
    <3> QED BY <2>4, <3>2 DEF Serves
  <2> QED BY <2>1, <2>5, <2>6
<1>8. CASE ResetTask
  <2>1. CASE running
    <3>1. (\A d \in Ctl : pc'[d] = pc[d]) /\ running' = FALSE
      BY <1>8, <1>t, <2>1 DEF ResetTask, StopBegin
    <3>2. \A d \in Ctl : pc[d] # "stop"
      BY <1>t, <2>1, Zenon DEF StopInv
    <3>3. StopInv'
      BY <3>1, <3>2, Zenon DEF StopInv
    <3> QED BY <3>1, <3>3, StoppedServes
  <2>2. CASE ~running
    <3>1. UNCHANGED <<up, running>> /\ \A d \in Ctl : pc'[d] = pc[d]
      BY <1>8, <1>t, <2>2 DEF ResetTask
    <3>2. pc[Worker] = "idle" /\ (~up => pc'[Worker] = "idle")
      BY <1>8, <1>t, <2>2 DEF ResetTask
    <3>3. ~up => pc'[Worker] \notin {"stop", "init"}
      BY <3>2
    <3>4. StopInv'
      BY <1>t, <3>1, <3>3, Zenon DEF StopInv
    <3>5. ~running'
      BY <2>2, <3>1
    <3> QED BY <3>4, <3>5, StoppedServes
  <2> QED BY <2>1, <2>2
\* The steps of mwx_newstate_task leave the interface as it is.
<1>w. CASE NewstateTask \/ ScanBegin \/ ScanSend \/ ScanFails \/ AuthFails \/ ScanEnd \/ StateEnd
  <2>1. (\A d \in Ctl : pc'[d] = pc[d]) /\ pc'[Worker] \in {"idle", "newstate", "send", "sent"}
    BY <1>w, <1>t DEF NewstateTask, ScanBegin, ScanSend, ScanFails, AuthFails, ScanEnd, StateEnd, LeaveNewstate
  <2>2. UNCHANGED <<up, running>>
    BY <1>w, Zenon DEF NewstateTask, ScanBegin, ScanSend, ScanFails, AuthFails, ScanEnd, StateEnd
  <2>3. pc'[Worker] \notin {"stop", "init"}
    BY <2>1
  <2>4. StopInv'
    BY <1>t, <2>1, <2>2, <2>3, StopStays
  <2>5. CASE NewstateTask
    <3>1. CASE pc'[Worker] = "idle" /\ nsState' = icState'
      BY <2>4, <3>1, IdleServes
    <3>2. CASE pc'[Worker] = "newstate" /\ nstate' = nsState' /\ arg' = nsArg'
      <4>1. WorkerInv' /\ ServedInv'
        BY <3>2, Zenon DEF WorkerInv, ServedInv
      <4> QED BY <2>4, <4>1 DEF Serves
    <3> QED BY <1>t, <2>5, <3>1, <3>2 DEF NewstateTask
  <2>6. CASE ScanBegin
    <3>1. pc'[Worker] = "send" /\ pc[Worker] = "newstate"
      BY <1>t, <2>6 DEF ScanBegin
    <3>2. nstate = "SCAN" /\ UNCHANGED <<nsState, nsq>>
      BY <2>6, Zenon DEF ScanBegin
    <3>3. WorkerInv' /\ ServedInv'
      BY <1>s, <2>2, <3>1, <3>2, Zenon DEF Serves, WorkerInv, ServedInv, Pending
    <3> QED BY <2>4, <3>3 DEF Serves
  <2>7. CASE ScanSend
    <3>1. pc'[Worker] = "sent" /\ pc[Worker] = "send"
      BY <1>t, <2>7 DEF ScanSend
    <3>2. UNCHANGED <<nsState, nsq>>
      BY <2>7, Zenon DEF ScanSend
    <3>3. WorkerInv' /\ ServedInv'
      BY <1>s, <2>2, <3>1, <3>2, Zenon DEF Serves, WorkerInv, ServedInv, Pending
    <3> QED BY <2>4, <3>3 DEF Serves
  <2>8. CASE ScanFails \/ AuthFails
    <3>1. pc'[Worker] = "idle"
      BY <1>t, <2>8 DEF ScanFails, AuthFails, LeaveNewstate
    <3>2. resetting' = TRUE
      BY <2>8, Zenon DEF ScanFails, AuthFails, Reset
    <3> QED BY <2>4, <3>1, <3>2, IdleServes
  <2>9. CASE ScanEnd
    <3>1. pc'[Worker] = "idle" /\ pc[Worker] = "sent"
      BY <1>t, <2>9 DEF ScanEnd, LeaveNewstate
    <3>2. icState' = "SCAN" /\ UNCHANGED <<nsState, nsq>>
      BY <2>9, Zenon DEF ScanEnd
    <3>3. nsState' = icState' \/ Pending' \/ running' = FALSE
      BY <1>s, <2>2, <3>1, <3>2, Zenon DEF Serves, WorkerInv, Pending, TypeInv, FlagInv
    <3> QED BY <2>4, <3>1, <3>3, IdleServes
  <2>10. CASE StateEnd
    <3>1. pc'[Worker] = "idle" /\ pc[Worker] = "newstate"
      BY <1>t, <2>10 DEF StateEnd, LeaveNewstate
    <3>2. icState' = nstate \/ (icState' = "RUN" /\ nstate = "AUTH" /\ arg = "auth")
      BY <2>10 DEF StateEnd, EnterState
    <3>3. UNCHANGED <<nsState, nsArg, nsq>>
      BY <2>10, Zenon DEF StateEnd
    <3>4. Pending \/ (nstate = nsState /\ arg = nsArg) \/ running = FALSE
      BY <1>s, <3>1, Zenon DEF Serves, WorkerInv, TypeInv, FlagInv
    <3>5. \/ nsState' = icState' \/ Pending' \/ running' = FALSE
          \/ icState' = "RUN" /\ nsState' = "AUTH" /\ nsArg' = "auth"
      BY <2>2, <3>2, <3>3, <3>4, Zenon DEF Pending
    <3> QED BY <2>4, <3>1, <3>5, IdleServes
  <2> QED BY <1>w, <2>5, <2>6, <2>7, <2>8, <2>9, <2>10
<1>13. CASE Trouble
  <2>1. UNCHANGED <<icState, up, running, pc, nstate, arg, request>>
    BY <1>13, Zenon DEF Trouble
  <2>2. (Pending => Pending') /\ resetting' = TRUE
    BY <1>13, <1>t, ResetKeeps DEF Trouble
  <2> QED BY <1>s, <2>1, <2>2, ServeStays, Zenon
<1>14. CASE EndScanTask \/ FwScanDone \/ ScanEvent \/ UNCHANGED vars
  <2>1. UNCHANGED <<icState, up, running, pc, nstate, arg, resetting, request, nsq>>
    BY <1>14, Zenon DEF EndScanTask, FwScanDone, ScanEvent, vars
  <2>2. Pending => Pending'
    BY <2>1, Zenon DEF Pending
  <2> QED BY <1>s, <2>1, <2>2, ServeStays, Zenon
<1>15. CASE EndScanLost
  <2>1. UNCHANGED <<icState, up, running, pc, nstate, arg, resetting>>
    BY <1>15, <1>t, Zenon DEF EndScanLost
  <2>2. Request("SCAN", "none") \/ UNCHANGED <<request, nsq>>
    BY <1>15, <1>t, Zenon DEF EndScanLost
  <2>3. Request("SCAN", "none") => (UNCHANGED request \/ Pending') /\ (Pending => Pending')
    BY <1>t, RequestKeeps DEF States, Args
  <2>4. UNCHANGED nsq => (Pending => Pending')
    BY Zenon DEF Pending
  <2> QED BY <2>1, <2>2, <2>3, <2>4, <1>s, ServeStays, Zenon
<1>16. CASE EndScanFound
  <2>1. UNCHANGED <<icState, up, running, pc, nstate, arg, resetting>>
    BY <1>16, <1>t, Zenon DEF EndScanFound
  <2>2. (UNCHANGED request \/ Pending') /\ (Pending => Pending')
    BY <1>16, <1>t, RequestKeeps DEF EndScanFound, States, Args
  <2> QED BY <2>1, <2>2, <1>s, ServeStays, Zenon
<1>17. CASE AuthResponse
  <2>1. UNCHANGED <<icState, up, running, pc, nstate, arg, resetting>>
    BY <1>17, <1>t, Zenon DEF AuthResponse
  <2>2. (UNCHANGED request \/ Pending') /\ (Pending => Pending')
    BY <1>17, <1>t, RequestKeeps DEF AuthResponse, States, Args
  <2> QED BY <2>1, <2>2, <1>s, ServeStays, Zenon
<1>18. CASE AssocResponse
  <2>1. UNCHANGED <<icState, up, running, pc, nstate, arg, resetting>>
    BY <1>18, <1>t, Zenon DEF AssocResponse
  <2>2. (UNCHANGED request \/ Pending') /\ (Pending => Pending')
    BY <1>18, <1>t, RequestKeeps DEF AssocResponse, States, Args
  <2> QED BY <2>1, <2>2, <1>s, ServeStays, Zenon
<1>19. CASE ApLeaves
  <2>1. UNCHANGED <<icState, up, running, pc, nstate, arg, resetting>>
    BY <1>19, <1>t, Zenon DEF ApLeaves
  <2>2. (UNCHANGED request \/ Pending') /\ (Pending => Pending')
    BY <1>19, <1>t, RequestKeeps DEF ApLeaves, States, Args
  <2> QED BY <2>1, <2>2, <1>s, ServeStays, Zenon
<1>20. CASE Watchdog
  <2>1. UNCHANGED <<icState, up, running, pc, nstate, arg, resetting>>
    BY <1>20, <1>t, Zenon DEF Watchdog
  <2>2. (UNCHANGED request \/ Pending') /\ (Pending => Pending')
    BY <1>20, <1>t, RequestKeeps DEF Watchdog, States, Args
  <2> QED BY <2>1, <2>2, <1>s, ServeStays, Zenon
<1>21. CASE Rescan
  <2>1. UNCHANGED <<icState, up, running, pc, nstate, arg, resetting>>
    BY <1>21, <1>t, Zenon DEF Rescan
  <2>2. (UNCHANGED request \/ Pending') /\ (Pending => Pending')
    BY <1>21, <1>t, RequestKeeps DEF Rescan, States, Args
  <2> QED BY <2>1, <2>2, <1>s, ServeStays, Zenon
<1>22. CASE Rejoin
  <2>1. UNCHANGED <<icState, up, running, pc, nstate, arg, resetting>>
    BY <1>22, <1>t, Zenon DEF Rejoin
  <2>2. (UNCHANGED request \/ Pending') /\ (Pending => Pending')
    BY <1>22, <1>t, RequestKeeps DEF Rejoin, States, Args
  <2> QED BY <2>1, <2>2, <1>s, ServeStays, Zenon
<1> HIDE DEF Goto, request, iface, flags, scan, events, local, history
<1> QED BY <1>1, <1>2, <1>3, <1>4, <1>5, <1>6, <1>7, <1>8, <1>w, <1>13, <1>14, <1>15, <1>16, <1>17, <1>18, <1>19, <1>20, <1>21, <1>22
     DEF Next, WorkerStep, SystqStep, InitStop, Threads

\* When mwx_newstate_task has nothing more to do, the station is in the state that was
\* requested last, or a reset comes, whatever fails, and however the interface is enabled,
\* disabled and reset: unless a disable ran mwx_stop while something else was under way.
THEOREM RequestedStatesAreEntered == Spec => []RequestsAreServed
<1>1. Init => ServeInv
  <2> SUFFICES ASSUME Init PROVE ServeInv
    OBVIOUS
  <2>1. \A c \in Ctl : pc[c] = "idle"
    BY DEF Init, Threads
  <2>2. running = FALSE
    BY Zenon DEF Init
  <2>3. StopInv
    BY <2>1 DEF StopInv
  <2> QED BY <2>2, <2>3, Zenon DEF ServeInv, Serves, WorkerInv, ServedInv
<1>2. TypeInv /\ ServeInv /\ [Next]_vars => ServeInv'
  BY StepServe
<1>3. ServeInv => RequestsAreServed
  BY Zenon DEF ServeInv, Serves, ServedInv, RequestsAreServed, Pending
<1> QED BY <1>1, <1>2, <1>3, TypeInvariant, PTL DEF Spec
===============================================================================
