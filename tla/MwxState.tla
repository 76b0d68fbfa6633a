------------------------------ MODULE MwxState ------------------------------
(***************************************************************************)
(* The life of the interface: enable, disable, reset and the 802.11 state  *)
(* machine of a station, as MtkMwx.cpp drives it.  net80211 and the user   *)
(* request a state with mwx_newstate; mwx_newstate_task, on the thread     *)
(* mwxns, sends the firmware what the state needs and then enters it with  *)
(* ieee80211_newstate; scans run in the firmware, end with an event, and   *)
(* are evaluated by mwx_end_scan_task on the thread systq; mwx_reset_task  *)
(* stops and restarts the device, also on mwxns; enable and disable run on *)
(* the thread of whoever calls them.                                       *)
(*                                                                         *)
(* A task runs in steps, cut where it sends a command to the firmware:     *)
(* there it may sleep, for three seconds if the answer does not come, and  *)
(* everything else goes on.  Handlers of events, frames and timers do not  *)
(* wait and are one step.  The queues are those of TaskService.            *)
(*                                                                         *)
(* Station mode; background scans (MWX_FLAG_BGSCAN) are not started here.  *)
(* The firmware and the access points are external.                        *)
(***************************************************************************)
EXTENDS Naturals, Sequences, SequencesExt

CONSTANTS
  Ctl,       \* the threads that enable and disable the interface
  Worker,    \* the thread mwxns
  Events,    \* what may happen in a run, see below
  MaxDone    \* bound: scan events that are on their way at one time

\* disable:  the interface is disabled by a thread of Ctl
\* user:     the user asks for another network or none
\* trouble:  the firmware crashes, or does not answer a command
\* nomem:    there is no memory for a command
\* early:    a scan ends before mwx_scan has returned
AllEvents == {"disable", "user", "trouble", "nomem", "early"}

ASSUME WorkerAssumption == Worker \notin Ctl
ASSUME EventsAssumption == Events \subseteq AllEvents
ASSUME DoneAssumption == MaxDone \in Nat \ {0}

VARIABLES
  icState,    \* ic_state
  nsState,    \* sc_ns_state, the state that was requested last
  nsArg,      \* sc_ns_arg: "none" (-1), "auth" or "deauth"
  mgt,        \* ic_mgt_timer # 0
  up,         \* IFF_UP
  running,    \* IFF_RUNNING
  scanning,   \* MWX_FLAG_SCANNING
  resetting,  \* sc_resetting
  nsq,        \* what is queued on sc_nswq
  scanTask,   \* sc_scan_task is queued on systq
  ending,     \* systq is running mwx_end_scan_task
  fwScan,     \* the firmware is scanning
  dones,      \* the number of scan events that are on their way
  pc,         \* where each thread is
  inReset,    \* mwxns is running mwx_reset_task
  nstate,     \* the local nstate of mwx_newstate_task
  arg,        \* its local arg
  dropped,    \* history: a mwx_stop has deleted a reset that was still to come
  crossed     \* history: a mwx_stop for disable has met a task or a mwx_init

request == <<nsState, nsArg>>
iface == <<icState, mgt>>
flags == <<up, running>>
scan == <<scanning, fwScan>>
events == <<dones, scanTask, ending>>
local == <<inReset, nstate, arg>>
history == <<dropped, crossed>>
vars == <<request, iface, flags, scan, events, resetting, nsq, pc, local, history>>

Threads == Ctl \cup {Worker}
States == {"INIT", "SCAN", "AUTH", "ASSOC", "RUN"}
Args == {"none", "auth", "deauth"}
Tasks == {"newstate", "reset"}

Init ==
  /\ icState = "INIT" /\ mgt = FALSE
  /\ nsState = "INIT" /\ nsArg = "none"
  /\ up = FALSE /\ running = FALSE
  /\ scanning = FALSE /\ fwScan = FALSE
  /\ dones = 0 /\ scanTask = FALSE /\ ending = FALSE
  /\ resetting = FALSE
  /\ nsq = <<>>
  /\ pc = [t \in Threads |-> "idle"]
  /\ inReset = FALSE /\ nstate = "INIT" /\ arg = "none"
  /\ dropped = FALSE /\ crossed = FALSE

----------------------------------------------------------------------------
(* What the actions are made of                                            *)

\* Mutant: queues a task again.
AddTwice(q, task) == Append(q, task)

\* Mutant: looks at the queue, not at the task.
AddIfEmpty(q, task) == IF q = <<>> THEN <<task>> ELSE q

\* task_add: a task that is queued already is not queued again.
Add(q, task) == IF task \in ToSet(q) THEN q ELSE Append(q, task)

\* mwx_newstate, on the queue q
RequestOn(q, s, a) ==
  IF nsState = s /\ s \notin {"SCAN", "AUTH"}
  THEN nsq' = q /\ UNCHANGED request
  ELSE nsState' = s /\ nsArg' = a /\ nsq' = Add(q, "newstate")

Request(s, a) == RequestOn(nsq, s, a)

\* mwx_reset: nothing if there is one already.
Reset ==
  /\ resetting' = TRUE
  /\ nsq' = IF resetting THEN nsq ELSE Add(nsq, "reset")

\* ieee80211_send_mgmt starts the management timer if it gets the frame out.
SendMgmt ==
  \/ mgt' = TRUE
  \/ "nomem" \in Events /\ UNCHANGED mgt

\* ieee80211_newstate: what entering s from icState does to the state and the timer.
EnterState(s, a) ==
  /\ icState' = IF icState = "RUN" /\ s = "AUTH" /\ a = "auth" THEN "RUN" ELSE s
  /\ CASE s = "INIT" -> mgt' = (mgt /\ icState = "INIT")
       [] s = "SCAN" -> UNCHANGED mgt \/ SendMgmt            \* probe request
       [] s = "AUTH" -> IF \/ icState = "SCAN"
                           \/ icState \in {"AUTH", "ASSOC", "RUN"} /\ a = "auth"
                           \/ icState = "RUN" /\ a = "deauth"
                        THEN SendMgmt ELSE UNCHANGED mgt
       [] s = "ASSOC" -> IF icState \in {"AUTH", "RUN"}
                         THEN SendMgmt ELSE UNCHANGED mgt
       [] s = "RUN" -> mgt' = (mgt /\ icState \notin {"SCAN", "ASSOC"})

\* mt7921_mcu_hw_scan_cancel
CancelScan == fwScan' = FALSE /\ scanning' = FALSE

Goto(t, where) == pc' = [pc EXCEPT ![t] = where]

----------------------------------------------------------------------------
(* mwx_init and mwx_stop, on the thread t                                  *)

\* mwx_stop up to the commands that take the device out of operation.  Only a
\* scan that the driver knows of is cancelled, and the flag goes even if there
\* is no memory for that.
StopBegin(t) ==
  /\ nsq' = <<>>
  /\ scanTask' = FALSE
  /\ running' = FALSE
  /\ scanning' = FALSE
  /\ \/ fwScan' = (fwScan /\ ~scanning)
     \/ "nomem" \in Events /\ UNCHANGED fwScan
  /\ Goto(t, "stop")
  /\ dropped' = (dropped \/ (t # Worker /\ "reset" \in ToSet(nsq)))
  /\ crossed' = (crossed \/ (t # Worker /\ \E u \in Threads \ {t} : pc[u] # "idle"))
  /\ UNCHANGED <<request, iface, dones, ending>>

\* Mutant: sc_resetting is not cleared.
LeaveInitKeepsResetting(t) ==
  /\ Goto(t, "idle")
  /\ IF t = Worker THEN inReset' = FALSE ELSE UNCHANGED inReset
  /\ UNCHANGED resetting

\* After mwx_init, mwx_reset_task clears sc_resetting.
LeaveInit(t) ==
  /\ Goto(t, "idle")
  /\ IF t = Worker
     THEN inReset' = FALSE /\ resetting' = FALSE
     ELSE UNCHANGED <<inReset, resetting>>

\* The device is off: mwx_stop ends in state INIT.  In mwx_reset_task,
\* mwx_init follows if the interface is still up.
StopEnd(t) ==
  /\ pc[t] = "stop"
  /\ EnterState("INIT", "none")
  /\ nsState' = "INIT"
  /\ IF t = Worker /\ up
     THEN Goto(t, "init") /\ UNCHANGED <<resetting, inReset>>
     ELSE LeaveInit(t)
  /\ UNCHANGED <<nsArg, flags, scan, events, nsq, nstate, arg, history>>

\* Mutant: the scan is left to the user.
InitEndWithoutScan(t) ==
  /\ pc[t] = "init"
  /\ running' = TRUE
  /\ LeaveInit(t)
  /\ UNCHANGED <<request, iface, up, scan, events, nsq, nstate, arg, history>>

\* All commands of mwx_init were obeyed: IFF_RUNNING, ieee80211_begin_scan.
InitEnd(t) ==
  /\ pc[t] = "init"
  /\ running' = TRUE
  /\ Request("SCAN", "none")
  /\ LeaveInit(t)
  /\ UNCHANGED <<iface, up, scan, events, nstate, arg, history>>

\* A command of mwx_init failed: the error goes to the caller, nothing is
\* undone.
InitFails(t) ==
  /\ pc[t] = "init"
  /\ Events \cap {"trouble", "nomem"} # {}
  /\ LeaveInit(t)
  /\ UNCHANGED <<request, iface, flags, scan, events, nsq, nstate, arg, history>>

----------------------------------------------------------------------------
(* MtkMwx::enable and MtkMwx::disable                                      *)

Enable(c) ==
  /\ pc[c] = "idle"
  /\ ~up
  /\ up' = TRUE
  /\ Goto(c, "init")
  /\ crossed' = (crossed \/ \E d \in Ctl : pc[d] = "stop")
  /\ UNCHANGED <<request, iface, running, scan, events, resetting, nsq, local, dropped>>

Disable(c) ==
  /\ "disable" \in Events
  /\ pc[c] = "idle"
  /\ up
  /\ up' = FALSE
  /\ IF running
     THEN StopBegin(c)
     ELSE UNCHANGED <<request, iface, running, scan, events, nsq, pc, history>>
  /\ UNCHANGED <<resetting, local>>

----------------------------------------------------------------------------
(* The tasks of sc_nswq                                                    *)

\* mwx_reset_task up to its first command
ResetTask ==
  /\ pc[Worker] = "idle"
  /\ nsq # <<>> /\ Head(nsq) = "reset"
  /\ IF running
     THEN /\ StopBegin(Worker) /\ inReset' = TRUE
          /\ UNCHANGED <<up, resetting>>
     ELSE /\ nsq' = Tail(nsq)
          /\ IF up THEN Goto(Worker, "init") /\ inReset' = TRUE /\ UNCHANGED resetting
                   ELSE resetting' = FALSE /\ UNCHANGED <<pc, inReset>>
          /\ UNCHANGED <<request, iface, flags, scan, events, history>>
  /\ UNCHANGED <<nstate, arg>>

\* mwx_newstate_task reads the request.  A scan that is requested during a
\* scan is not started.
NewstateTask ==
  /\ pc[Worker] = "idle"
  /\ nsq # <<>> /\ Head(nsq) = "newstate"
  /\ nsq' = Tail(nsq)
  /\ IF icState = "SCAN" /\ nsState = "SCAN" /\ scanning
     THEN UNCHANGED <<pc, nstate, arg>>
     ELSE Goto(Worker, "newstate") /\ nstate' = nsState /\ arg' = nsArg
  /\ UNCHANGED <<request, iface, flags, scan, events, resetting, inReset, history>>

\* mwx_newstate_task is over: its locals are gone.
LeaveNewstate ==
  /\ Goto(Worker, "idle")
  /\ nstate' = "INIT" /\ arg' = "none"
  /\ UNCHANGED inReset

\* mt7921_mcu_hw_scan, before the command
ScanBegin ==
  /\ pc[Worker] = "newstate" /\ nstate = "SCAN"
  /\ scanning' = TRUE
  /\ Goto(Worker, "send")
  /\ UNCHANGED <<request, iface, flags, fwScan, events, resetting, nsq, local, history>>

\* The firmware has MCU_CE_CMD_START_HW_SCAN.
ScanSend ==
  /\ pc[Worker] = "send"
  /\ fwScan' = TRUE
  /\ Goto(Worker, "sent")
  /\ UNCHANGED <<request, iface, flags, scanning, events, resetting, nsq, local, history>>

\* Mutant: no reset.
ScanFailsSilently ==
  /\ pc[Worker] = "send"
  /\ "nomem" \in Events
  /\ scanning' = FALSE
  /\ LeaveNewstate
  /\ UNCHANGED <<request, iface, flags, fwScan, events, resetting, nsq, history>>

\* The command could not be sent.
ScanFails ==
  /\ pc[Worker] = "send"
  /\ "nomem" \in Events
  /\ scanning' = FALSE
  /\ Reset
  /\ LeaveNewstate
  /\ UNCHANGED <<request, iface, flags, fwScan, events, history>>

\* The rest of mwx_scan, which enters SCAN by itself, so that for
\* ieee80211_newstate it is a step from SCAN to SCAN.
ScanEnd ==
  /\ pc[Worker] = "sent"
  /\ scanning' = TRUE
  /\ icState' = "SCAN"
  /\ UNCHANGED mgt \/ SendMgmt
  /\ LeaveNewstate
  /\ UNCHANGED <<request, flags, fwScan, events, resetting, nsq, history>>

\* The commands for any other state, then the state.  A scan that is still
\* going on is cancelled on the way to RUN.
StateEnd ==
  /\ pc[Worker] = "newstate" /\ nstate # "SCAN"
  /\ EnterState(nstate, arg)
  /\ IF nstate = "RUN"
     THEN CancelScan \/ ("nomem" \in Events /\ UNCHANGED scan)
     ELSE UNCHANGED scan
  /\ LeaveNewstate
  /\ UNCHANGED <<request, flags, events, resetting, nsq, history>>

\* mt7921_set_channel fails.
AuthFails ==
  /\ pc[Worker] = "newstate" /\ nstate = "AUTH"
  /\ Events \cap {"trouble", "nomem"} # {}
  /\ Reset
  /\ LeaveNewstate
  /\ UNCHANGED <<request, iface, flags, scan, events, history>>

----------------------------------------------------------------------------
(* The firmware                                                            *)

\* A scan ends.
FwScanDone ==
  /\ fwScan
  /\ dones < MaxDone
  /\ pc[Worker] = "sent" => "early" \in Events
  /\ fwScan' = FALSE
  /\ dones' = dones + 1
  /\ UNCHANGED <<request, iface, flags, scanning, scanTask, ending, resetting,
                 nsq, pc, local, history>>

\* A command that somebody waits for is not answered in three seconds, or the
\* firmware reports a core dump.
Trouble ==
  /\ "trouble" \in Events
  /\ up
  /\ Reset
  /\ UNCHANGED <<request, iface, flags, scan, events, pc, local, history>>

----------------------------------------------------------------------------
(* mt7921_mcu_scan_event and mwx_end_scan_task                             *)

\* Whichever scan the event belongs to, the current one is cancelled and its
\* results are asked for.
ScanEvent ==
  /\ dones > 0
  /\ dones' = dones - 1
  /\ \/ CancelScan /\ scanTask' = TRUE
     \/ "nomem" \in Events /\ UNCHANGED <<scan, scanTask>>
  /\ UNCHANGED <<request, iface, flags, ending, resetting, nsq, pc, local, history>>

EndScanTask ==
  /\ scanTask /\ ~ending
  /\ scanTask' = FALSE
  /\ ending' = TRUE
  /\ UNCHANGED <<request, iface, flags, scan, dones, resetting, nsq, pc, local, history>>

\* ieee80211_end_scan has found an access point: ieee80211_node_join_bss.
EndScanFound ==
  /\ ending
  /\ ending' = FALSE
  /\ Request("AUTH", IF icState = "AUTH" THEN "auth" ELSE "none")
  /\ UNCHANGED <<iface, flags, scan, dones, scanTask, resetting, pc, local, history>>

\* It has found none: the next scan, unless the station is in RUN.
EndScanLost ==
  /\ ending
  /\ ending' = FALSE
  /\ IF icState = "RUN" THEN UNCHANGED <<request, nsq>> ELSE Request("SCAN", "none")
  /\ UNCHANGED <<iface, flags, scan, dones, scanTask, resetting, pc, local, history>>

----------------------------------------------------------------------------
(* Frames from the access point, timers, the user                          *)

\* ieee80211_auth_open, with success, or with an error and another access
\* point to try (ieee80211_try_another_bss)
AuthResponse ==
  /\ running
  /\ icState = "AUTH"
  /\ Request("ASSOC", "none") \/ Request("AUTH", "auth")
  /\ UNCHANGED <<iface, flags, scan, events, resetting, pc, local, history>>

\* ieee80211_recv_assoc_resp, with success
AssocResponse ==
  /\ running
  /\ icState = "ASSOC"
  /\ Request("RUN", "none")
  /\ UNCHANGED <<iface, flags, scan, events, resetting, pc, local, history>>

\* ieee80211_recv_deauth, ieee80211_recv_disassoc; while scanning,
\* ieee80211_input drops both.
ApLeaves ==
  /\ running
  /\ icState \in {"AUTH", "ASSOC", "RUN"}
  /\ Request("AUTH", "deauth") \/ Request("ASSOC", "none")
  /\ UNCHANGED <<iface, flags, scan, events, resetting, pc, local, history>>

\* ieee80211_watchdog when the management timer expires: in AUTH it may try
\* the same access point again, otherwise it scans.
Watchdog ==
  /\ up
  /\ mgt
  /\ mgt' = FALSE
  /\ Request("SCAN", "none") \/ (icState = "AUTH" /\ Request("AUTH", "auth"))
  /\ UNCHANGED <<icState, flags, scan, events, resetting, pc, local, history>>

\* sDISASSOCIATE, and net80211 when a key handshake fails: scan again.
Rescan ==
  /\ "user" \in Events
  /\ Request("SCAN", "none")
  /\ UNCHANGED <<iface, flags, scan, events, resetting, pc, local, history>>

\* associateSSID with an access point at hand: join it, clearScanningFlags.
Rejoin ==
  /\ "user" \in Events
  /\ icState \in {"ASSOC", "RUN"}
  /\ Request("AUTH", "deauth")
  /\ scanning' = FALSE
  /\ UNCHANGED <<iface, flags, fwScan, events, resetting, pc, local, history>>

----------------------------------------------------------------------------
InitStop(t) == StopEnd(t) \/ InitEnd(t) \/ InitFails(t)

WorkerStep ==
  \/ InitStop(Worker) \/ ResetTask \/ NewstateTask
  \/ ScanBegin \/ ScanSend \/ ScanFails \/ ScanEnd \/ StateEnd \/ AuthFails

SystqStep == EndScanTask \/ EndScanFound \/ EndScanLost

Next ==
  \/ \E c \in Ctl : Enable(c) \/ Disable(c) \/ InitStop(c)
  \/ WorkerStep \/ SystqStep
  \/ FwScanDone \/ Trouble \/ ScanEvent
  \/ AuthResponse \/ AssocResponse \/ ApLeaves \/ Watchdog \/ Rescan \/ Rejoin

Spec == Init /\ [][Next]_vars

(***************************************************************************)
(* Fairness: the threads run, events are delivered, the watchdog timer is  *)
(* periodic, and the firmware ends every scan it has begun.  Nothing is    *)
(* assumed of the user, the access points and of trouble.                  *)
(***************************************************************************)
Fairness ==
  /\ \A c \in Ctl : WF_vars(InitStop(c))
  /\ WF_vars(WorkerStep) /\ WF_vars(SystqStep)
  /\ WF_vars(FwScanDone) /\ WF_vars(ScanEvent) /\ WF_vars(Watchdog)

FairSpec == Spec /\ Fairness

----------------------------------------------------------------------------
(* Properties                                                              *)

TypeOK ==
  /\ icState \in States /\ nsState \in States /\ nstate \in States
  /\ nsArg \in Args /\ arg \in Args
  /\ {mgt, up, running, scanning, fwScan, scanTask, ending, resetting, inReset}
       \subseteq BOOLEAN
  /\ dropped \in BOOLEAN /\ crossed \in BOOLEAN
  /\ dones \in 0..MaxDone
  /\ nsq \in {<<>>, <<"newstate">>, <<"reset">>,
              <<"newstate", "reset">>, <<"reset", "newstate">>}
  /\ pc \in [Threads -> {"idle", "init", "stop", "newstate", "send", "sent"}]
  /\ \A c \in Ctl : pc[c] \in {"idle", "init", "stop"}

\* A requested state is on its way or was reached: with nothing queued and
\* nothing running, ic_state is what sc_ns_state says, or a reset comes, or a join
\* was tried again too late: a station that is in RUN by then stays there.  The
\* exception is a disable that runs mwx_stop while a task of mwxns, which nothing
\* waits for, or a mwx_init of another thread is under way.
RequestsAreServed ==
  ( /\ running /\ pc[Worker] = "idle" /\ "newstate" \notin ToSet(nsq)
    /\ \A t \in Threads : pc[t] # "stop" )
  => \/ nsState = icState \/ resetting
     \/ icState = "RUN" /\ nsState = "AUTH" /\ nsArg = "auth"
     \/ crossed

\* sc_resetting says that a reset is queued or running, one at a time, until a
\* disable deletes one that is queued.  From then on it says so for ever, and no
\* reset comes.
ResetIsComing ==
  /\ resetting <=> "reset" \in ToSet(nsq) \/ inReset \/ dropped
  /\ ~("reset" \in ToSet(nsq) /\ inReset)
  /\ dropped => "reset" \notin ToSet(nsq) /\ ~inReset

\* An interface that is enabled leaves INIT, or is disabled again: what a
\* disable has left behind does not keep the next enable from scanning.
EnableScans == up ~> icState # "INIT" \/ ~up

\* Every reset ends, but for one that a disable has deleted.
ResetEnds == resetting ~> ~resetting \/ dropped
=============================================================================
