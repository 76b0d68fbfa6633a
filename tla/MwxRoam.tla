------------------------------- MODULE MwxRoam -------------------------------
(***************************************************************************)
(* Background scans and roaming of a station.  A frame from a weak access  *)
(* point starts a timer, the timer a scan; mwx_end_scan_task evaluates the *)
(* scan on systq, deauthenticates from the old access point, holds data    *)
(* back (IEEE80211_F_TX_MGMT_ONLY) and leaves an argument for              *)
(* mwx_bgscan_done_task, on mwxns, which installs ieee80211_node_switch_bss*)
(* as the callback of ic_bss: the function that gives the last reference   *)
(* of the node back calls it.  The user's scans and joins, deauthentication*)
(* by the access point and a reset come in between.                        *)
(*                                                                         *)
(* Handlers, timers and the tasks of scans are one step; a mwx_newstate_   *)
(* task and a reset are two, around the commands they wait for.  The state *)
(* AUTH stands for AUTH and ASSOC, and the exchange with the access point  *)
(* is one step of it.  The firmware and access points are external.        *)
(***************************************************************************)
EXTENDS Naturals, Sequences, SequencesExt

CONSTANTS
  SwitchArgs,   \* memory for a struct ieee80211_node_switch_bss_arg
  Events,       \* what may happen in a run, see below
  MaxRefs,      \* bound: ni_refcnt is counted up to it (frames only add to it)
  None

\* user:    the user scans, joins and leaves networks
\* reset:   the device is reset
\* deauth:  the access point deauthenticates the station
\* nomem:   no memory for a command, a frame or an argument
AllEvents == {"user", "reset", "deauth", "nomem"}

States == {"INIT", "SCAN", "AUTH", "RUN"}
Requests == [state : States, arg : {"none", "auth", "deauth"}]

ASSUME EventsAssumption == Events \subseteq AllEvents
ASSUME RefsAssumption == MaxRefs \in Nat \ {0}
ASSUME NoneAssumption == None \notin SwitchArgs /\ None \notin Requests

VARIABLES
  icState,     \* ic_state
  request,     \* sc_ns_state and sc_ns_arg: the state requested last
  nsq,         \* what is queued on sc_nswq
  entering,    \* the request that mwx_newstate_task is entering, or None
  resetting,   \* mwx_reset_task: "no", in mwx_"stop" or in mwx_"init"
  bgscan,      \* IEEE80211_F_BGSCAN
  cacheOnly,   \* IEEE80211_F_DISABLE_BG_AUTO_CONNECT: the user's scan, no roaming
  mgmtOnly,    \* IEEE80211_F_TX_MGMT_ONLY: no data frames are sent
  timer,       \* ic_bgscan_timeout is pending
  timed,       \* ic_mgt_timer # 0
  asked,       \* the access point has an authentication frame to answer, and the
               \* station did not leave AUTH in between
  scanning,    \* MWX_FLAG_SCANNING
  drvBgscan,   \* MWX_FLAG_BGSCAN
  fw,          \* the firmware: "idle", "scan", or "done" with the event on its way
  scanTask,    \* sc_scan_task is queued on systq
  scArg,       \* sc_bgscan_arg
  unrefArg,    \* ic_bss->ni_unref_arg
  live,        \* the arguments that are allocated
  callback,    \* ic_bss->ni_unref_cb is set
  refs,        \* ic_bss->ni_refcnt, between two frames
  onAir,       \* frames that were given to the device are not finished
  lost         \* history: the end of a background scan was not heard, for lack of
               \* memory or because RUN was entered during it

ns == <<icState, request, nsq, entering, resetting, timed, asked>>
flags == <<bgscan, cacheOnly, mgmtOnly, timer>>
drv == <<scanning, drvBgscan, fw, scanTask, lost>>
node == <<scArg, unrefArg, live, callback, refs, onAir>>
vars == <<ns, flags, drv, node>>

Req(s, a) == [state |-> s, arg |-> a]

\* mwx_init has begun the first scan.
Init ==
  /\ icState = "SCAN" /\ request = Req("SCAN", "none")
  /\ nsq = <<>> /\ entering = None /\ resetting = "no" /\ timed = FALSE
  /\ asked = FALSE
  /\ bgscan = FALSE /\ cacheOnly = FALSE /\ mgmtOnly = FALSE /\ timer = FALSE
  /\ scanning = TRUE /\ drvBgscan = FALSE /\ fw = "scan" /\ scanTask = FALSE
  /\ lost = FALSE
  /\ scArg = None /\ unrefArg = None /\ live = {}
  /\ callback = FALSE /\ refs = 1 /\ onAir = FALSE

----------------------------------------------------------------------------
(* What the actions are made of                                            *)

\* Mutant: does not look whether the task is queued.
AddTaskAgain(task) == nsq' = Append(nsq, task)

\* task_add
AddTask(task) == nsq' = IF Contains(nsq, task) THEN nsq ELSE Append(nsq, task)

\* mwx_newstate
NewState(s, a) ==
  IF request.state = s /\ s \notin {"SCAN", "AUTH"}
  THEN UNCHANGED <<request, nsq>>
  ELSE request' = Req(s, a) /\ AddTask("newstate")

\* The thread mwxns may take the next task.
Idle == entering = None /\ resetting = "no"

\* A scan that may end in another access point.
RoamScan == bgscan /\ icState = "RUN" /\ ~cacheOnly

\* A frame that the device takes keeps its reference to ic_bss, one that mwx_tx
\* refuses gives it back.
Taken == refs' = (IF refs < MaxRefs THEN refs + 1 ELSE refs) /\ onAir' = TRUE
Refused == "nomem" \in Events /\ UNCHANGED <<refs, onAir>>
Sent == Taken \/ Refused

\* mt7921_mcu_hw_scan_cancel
CancelScan ==
  \/ fw' = "idle" /\ scanning' = FALSE /\ drvBgscan' = FALSE
  \/ "nomem" \in Events /\ UNCHANGED <<fw, scanning, drvBgscan>>

\* ieee80211_send_mgmt of a frame that is to be answered: the timer is started unless
\* there is no memory for the frame, whether or not mwx_tx refuses it.
SendRequest(answer, otherwise) ==
  \/ Taken /\ timed' = TRUE /\ asked' \in {answer, otherwise}
  \/ Refused /\ timed' \in {timed, TRUE} /\ asked' = otherwise

\* ieee80211_node_join_bss.  ieee80211_node_copy frees the argument and copies the
\* callback and the count of the chosen node, to which nothing refers.
JoinBss(force) ==
  /\ live' = live \ {unrefArg} /\ unrefArg' = None
  /\ callback' = FALSE
  /\ timer' = FALSE /\ bgscan' = FALSE
  /\ NewState("AUTH", IF force \/ RoamScan THEN "deauth"
                      ELSE IF icState = "AUTH" THEN "auth" ELSE "none")

\* ieee80211_node_switch_bss, called when the last reference is given back.
SwitchBss ==
  /\ UNCHANGED <<icState, entering, resetting, asked, timed, cacheOnly, drv, scArg, onAir>>
  /\ \/ /\ bgscan                                \* both nodes are in the table
        /\ mgmtOnly' = FALSE
        /\ JoinBss(FALSE)
        /\ refs' = 0
     \/ /\ bgscan                                \* one has gone
        /\ mgmtOnly' = FALSE /\ bgscan' = FALSE
        /\ NewState("SCAN", "none")
        /\ live' = live \ {unrefArg} /\ unrefArg' = None /\ callback' = FALSE
        /\ UNCHANGED <<timer, refs>>
     \/ /\ ~bgscan
        /\ live' = live \ {unrefArg} /\ unrefArg' = None /\ callback' = FALSE
        /\ UNCHANGED <<request, nsq, bgscan, mgmtOnly, timer, refs>>

----------------------------------------------------------------------------
(* The work loop: frames, timers and events                                *)

\* A frame is received in RUN and starts or stops the timer (ieee80211_inputm).
ReceiveWeak ==
  /\ icState = "RUN" /\ ~timer /\ ~bgscan
  /\ timer' = TRUE
  /\ UNCHANGED <<ns, bgscan, cacheOnly, mgmtOnly, drv, node>>

ReceiveStrong ==
  /\ icState = "RUN" /\ timer
  /\ timer' = FALSE
  /\ UNCHANGED <<ns, bgscan, cacheOnly, mgmtOnly, drv, node>>

\* ieee80211_release_node, after any received frame: the reference that
\* ieee80211_find_rxnode took is given back, and if it was the last one the
\* callback is called.
ReleaseNode == refs = 0 /\ callback /\ SwitchBss

\* ieee80211_recv_deauth
RecvDeauth ==
  /\ "deauth" \in Events /\ icState \in {"AUTH", "RUN"} /\ ~RoamScan
  /\ NewState("AUTH", "deauth")
  /\ UNCHANGED <<icState, entering, resetting, asked, timed, flags, drv, node>>

\* A data frame; none is sent while roaming (mwx_start).
SendData ==
  /\ icState = "RUN" /\ ~mgmtOnly
  /\ Sent
  /\ UNCHANGED <<ns, flags, drv, scArg, unrefArg, live, callback>>

\* mwx_mac_tx_free and mwx_txwi_put free the frames.  Nothing gives the
\* references of the frames back.
TxDone ==
  /\ onAir /\ onAir' = FALSE
  /\ UNCHANGED <<ns, flags, drv, scArg, unrefArg, live, callback, refs>>

\* mwx_bgscan succeeds; while a scan is going on it has nothing to do.
DriverScans ==
  IF scanning THEN UNCHANGED <<scanning, drvBgscan, fw>>
  ELSE scanning' = TRUE /\ drvBgscan' = TRUE /\ fw' = "scan"

\* mwx_bgscan fails
NoDriverScan ==
  /\ "nomem" \in Events /\ ~scanning
  /\ scanning' = FALSE /\ drvBgscan' = FALSE /\ UNCHANGED fw

\* ieee80211_bgscan_timeout, ieee80211_begin_bgscan.  The timer takes half a second
\* or more: an event or task of a scan that has ended does not outlast it.
BgscanTimeout ==
  /\ timer /\ timer' = FALSE
  /\ fw # "done" /\ ~scanTask
  /\ \/ /\ icState # "RUN" \/ timed
        /\ UNCHANGED <<bgscan, cacheOnly, scanning, drvBgscan, fw>>
     \/ /\ icState = "RUN" /\ ~timed /\ bgscan
        /\ cacheOnly' = FALSE
        /\ UNCHANGED <<bgscan, scanning, drvBgscan, fw>>
     \/ /\ icState = "RUN" /\ ~timed /\ ~bgscan
        /\ \/ DriverScans /\ bgscan' = TRUE /\ cacheOnly' = FALSE
           \/ NoDriverScan /\ UNCHANGED <<bgscan, cacheOnly>>
  /\ UNCHANGED <<ns, mgmtOnly, scanTask, lost, node>>

\* The user asks what there is (sSCAN, ieee80211_begin_cache_bgscan).
UserScan ==
  /\ "user" \in Events /\ icState = "RUN" /\ ~bgscan /\ ~timed
  /\ cacheOnly' = TRUE
  /\ \/ DriverScans /\ bgscan' = TRUE
     \/ NoDriverScan /\ UNCHANGED bgscan
  /\ UNCHANGED <<ns, mgmtOnly, timer, scanTask, lost, node>>

\* The firmware ends a scan (external).
FirmwareScanned ==
  /\ fw = "scan" /\ fw' = "done"
  /\ UNCHANGED <<ns, flags, scanning, drvBgscan, scanTask, lost, node>>

\* Mutant: the event of a background scan starts no task.
ScanEventOfScanOnly ==
  /\ fw = "done" /\ fw' = "idle"
  /\ scanning' = FALSE /\ drvBgscan' = FALSE
  /\ scanTask' = (scanTask \/ ~drvBgscan)
  /\ UNCHANGED <<ns, flags, lost, node>>

\* mt7921_mcu_scan_event
ScanEvent ==
  /\ fw = "done" /\ fw' = "idle"
  /\ \/ scanning' = FALSE /\ drvBgscan' = FALSE /\ scanTask' = TRUE /\ UNCHANGED lost
     \/ "nomem" \in Events /\ lost' = TRUE /\ UNCHANGED <<scanning, drvBgscan, scanTask>>
  /\ UNCHANGED <<ns, flags, node>>

----------------------------------------------------------------------------
(* systq: mwx_end_scan_task, ieee80211_end_scan                            *)

\* No background scan: a network is joined, or the scan goes on.
EndScan ==
  /\ scanTask /\ scanTask' = FALSE
  /\ ~(bgscan /\ icState = "RUN")
  /\ \/ JoinBss(FALSE) /\ refs' = 0
     \/ /\ IF icState # "RUN" THEN NewState("SCAN", "none") ELSE UNCHANGED <<request, nsq>>
        /\ UNCHANGED <<bgscan, timer, unrefArg, live, callback, refs>>
  /\ UNCHANGED <<icState, entering, resetting, asked, timed, cacheOnly, mgmtOnly,
                 scanning, drvBgscan, fw, lost, scArg, onAir>>

\* A background scan that does not end in another access point: it was the
\* user's, it found the same one or none, or there is no memory.
EndBgscan ==
  /\ scanTask /\ scanTask' = FALSE
  /\ bgscan /\ icState = "RUN"
  /\ bgscan' = FALSE /\ cacheOnly' = FALSE
  /\ UNCHANGED <<ns, mgmtOnly, timer, scanning, drvBgscan, fw, lost, node>>

\* Mutant: holds data back before it knows whether it can leave.
EndRoamScanHoldsFirst ==
  /\ scanTask /\ scanTask' = FALSE
  /\ RoamScan
  /\ mgmtOnly' = TRUE
  /\ \/ \E a \in SwitchArgs \ live :
          /\ Sent
          /\ live' = (live \ {scArg}) \cup {a} /\ scArg' = a
          /\ AddTask("bgscan_done")
          /\ UNCHANGED bgscan
     \/ "nomem" \in Events /\ bgscan' = FALSE /\ UNCHANGED <<nsq, live, scArg, refs, onAir>>
  /\ UNCHANGED <<icState, request, entering, resetting, asked, timed, cacheOnly, timer, scanning,
                 drvBgscan, fw, lost, unrefArg, callback>>

\* A better access point: deauthenticate, hold data back, mwx_bgscan_done.
EndRoamScan ==
  /\ scanTask /\ scanTask' = FALSE
  /\ RoamScan
  /\ \E a \in SwitchArgs \ live :
       /\ Sent
       /\ mgmtOnly' = TRUE
       /\ live' = (live \ {scArg}) \cup {a} /\ scArg' = a
  /\ AddTask("bgscan_done")
  /\ UNCHANGED <<icState, request, entering, resetting, asked, timed, bgscan, cacheOnly, timer,
                 scanning, drvBgscan, fw, lost, unrefArg, callback>>

----------------------------------------------------------------------------
(* The thread mwxns                                                        *)

\* Mutant: the softc keeps the argument that it has handed over.
BgscanDoneTaskKeepsArg ==
  /\ Idle /\ nsq # <<>> /\ Head(nsq) = "bgscan_done" /\ nsq' = Tail(nsq)
  /\ IF RoamScan THEN unrefArg' = scArg /\ callback' = TRUE /\ UNCHANGED <<scArg, live>>
     ELSE live' = live \ {scArg} /\ scArg' = None /\ UNCHANGED <<unrefArg, callback>>
  /\ UNCHANGED <<icState, request, entering, resetting, asked, timed, flags, drv, refs, onAir>>

\* mwx_bgscan_done_task: installs the callback, if the station is still roaming.
BgscanDoneTask ==
  /\ Idle /\ nsq # <<>> /\ Head(nsq) = "bgscan_done" /\ nsq' = Tail(nsq)
  /\ IF icState = "RUN" /\ bgscan
     THEN unrefArg' = scArg /\ callback' = TRUE /\ UNCHANGED live
     ELSE live' = live \ {scArg} /\ UNCHANGED <<unrefArg, callback>>
  /\ scArg' = None
  /\ UNCHANGED <<icState, request, entering, resetting, asked, timed, flags, drv, refs, onAir>>

\* mwx_newstate_task takes the request ...
BeginNewState ==
  /\ Idle /\ nsq # <<>> /\ Head(nsq) = "newstate" /\ nsq' = Tail(nsq)
  /\ entering' = IF icState = "SCAN" /\ request.state = "SCAN" /\ scanning
                 THEN None ELSE request
  /\ UNCHANGED <<icState, request, resetting, asked, timed, flags, drv, node>>

\* ... and enters SCAN: mwx_scan cancels a background scan, starts another and
\* cleans ic_bss up; the callback stays where it is.
EnterScan ==
  /\ entering # None /\ entering.state = "SCAN" /\ entering' = None
  /\ icState' = "SCAN" /\ mgmtOnly' = FALSE
  /\ scanning' = TRUE /\ drvBgscan' = FALSE /\ fw' = "scan"
  /\ live' = live \ {unrefArg} /\ unrefArg' = None
  /\ \/ SendRequest(FALSE, FALSE)                        \* a probe request
     \/ asked' = FALSE /\ UNCHANGED <<refs, onAir, timed>>
  /\ UNCHANGED <<request, nsq, resetting, bgscan, cacheOnly, timer, scanTask, lost,
                 scArg, callback>>

\* AUTH: an authentication frame is sent when the station comes from SCAN, when it
\* tries again, and when it was deauthenticated in RUN.  Trying again comes too late
\* for a station that is in RUN by now: it answers as if it were asked, and stays.
EnterAuth ==
  LET retry == icState \in {"AUTH", "RUN"} /\ entering.arg = "auth" IN
  /\ entering # None /\ entering.state = "AUTH" /\ entering' = None
  /\ icState' = IF icState = "RUN" /\ retry THEN "RUN" ELSE "AUTH"
  /\ mgmtOnly' = FALSE
  /\ timer' = (timer /\ icState # "RUN")
  /\ IF retry \/ icState = "SCAN" \/ (icState = "RUN" /\ entering.arg = "deauth")
     THEN SendRequest(icState' = "AUTH", asked)
     ELSE UNCHANGED <<timed, asked, refs, onAir>>
  /\ UNCHANGED <<request, nsq, resetting, bgscan, cacheOnly, drv, scArg, unrefArg,
                 live, callback>>

\* RUN: scans are cancelled.
EnterRun ==
  /\ entering # None /\ entering.state = "RUN" /\ entering' = None
  /\ icState' = "RUN" /\ mgmtOnly' = FALSE
  /\ timed' = (timed /\ icState \notin {"SCAN", "AUTH"})
  /\ asked' = FALSE
  /\ CancelScan /\ lost' = (lost \/ bgscan \/ scanning')
  /\ UNCHANGED <<request, nsq, resetting, bgscan, cacheOnly, timer, scanTask, node>>

\* mwx_stop, called by mwx_reset_task: the tasks are deleted, the argument is
\* freed, a scan is cancelled ...
StopBegin ==
  /\ "reset" \in Events /\ Idle /\ resetting' = "stop"
  /\ nsq' = <<>> /\ scanTask' = FALSE
  /\ live' = live \ {scArg} /\ scArg' = None
  /\ IF scanning
     THEN /\ scanning' = FALSE
          /\ \/ fw' = "idle" /\ drvBgscan' = FALSE
             \/ "nomem" \in Events /\ UNCHANGED <<fw, drvBgscan>>
     ELSE UNCHANGED <<scanning, fw, drvBgscan>>
  /\ UNCHANGED <<icState, request, entering, asked, timed, flags, lost, unrefArg, callback, refs, onAir>>

\* ... and, when the device has been taken out of operation, INIT is entered.
StopEnd ==
  /\ resetting = "stop" /\ resetting' = "init"
  /\ icState' = "INIT" /\ request' = Req("INIT", "none") /\ mgmtOnly' = FALSE
  /\ timer' = FALSE /\ timed' = FALSE /\ asked' = FALSE
  /\ UNCHANGED <<nsq, entering, bgscan, cacheOnly, drv, node>>

\* The end of mwx_init: ieee80211_begin_scan, on a firmware that was started anew.
Start ==
  /\ resetting = "init" /\ resetting' = "no"
  /\ fw' = "idle"
  /\ live' = live \ {unrefArg} /\ unrefArg' = None
  /\ NewState("SCAN", "none")
  /\ UNCHANGED <<icState, entering, asked, timed, flags, scanning, drvBgscan, scanTask, lost, scArg,
                 callback, refs, onAir>>

----------------------------------------------------------------------------
(* The access point and the user                                           *)

\* The access point has answered: the station is associated.
Associated ==
  /\ icState = "AUTH" /\ asked /\ asked' = FALSE
  /\ NewState("RUN", "none")
  /\ Sent
  /\ UNCHANGED <<icState, entering, resetting, timed, flags, drv, scArg, unrefArg, live, callback>>

\* ieee80211_watchdog: no answer
MgtTimeout ==
  /\ timed /\ timed' = FALSE
  /\ NewState("SCAN", "none")
  /\ UNCHANGED <<icState, entering, resetting, asked, flags, drv, node>>

\* joinSSID in RUN, for a network that is known: a deauthentication frame, the
\* new network, and MtkMwx::clearScanningFlags.
UserJoin ==
  /\ "user" \in Events /\ icState = "RUN"
  /\ JoinBss(TRUE)
  /\ refs' = 0 /\ onAir' \in {onAir, TRUE}
  /\ scanning' = FALSE /\ drvBgscan' = FALSE
  /\ UNCHANGED <<icState, entering, resetting, asked, timed, cacheOnly, mgmtOnly, fw, scanTask, lost, scArg>>

\* sDISASSOCIATE, and joinSSID for a network that is not known
UserLeaves ==
  /\ "user" \in Events /\ icState = "RUN"
  /\ NewState("SCAN", "none")
  /\ Sent
  /\ UNCHANGED <<icState, entering, resetting, asked, timed, flags, drv, scArg, unrefArg, live, callback>>

----------------------------------------------------------------------------
MwxNs == BeginNewState \/ EnterScan \/ EnterAuth \/ EnterRun \/ BgscanDoneTask \/ StopEnd \/ Start
Systq == EndScan \/ EndBgscan \/ EndRoamScan
Frames == ReceiveWeak \/ ReceiveStrong \/ RecvDeauth \/ SendData
User == UserScan \/ UserJoin \/ UserLeaves
Firmware == FirmwareScanned \/ ScanEvent

Next ==
  \/ MwxNs \/ Systq \/ Frames \/ User \/ Firmware \/ StopBegin
  \/ ReleaseNode \/ TxDone \/ BgscanTimeout \/ Associated \/ MgtTimeout

Spec == Init /\ [][Next]_vars

\* The threads run, frames come in, the device ends what it was given, and
\* timers go off.
FairSpec ==
  /\ Spec
  /\ WF_vars(MwxNs) /\ WF_vars(Systq) /\ WF_vars(Firmware)
  /\ WF_vars(ReleaseNode) /\ WF_vars(TxDone) /\ WF_vars(BgscanTimeout)

(***************************************************************************)
(* Properties                                                              *)
(***************************************************************************)
\* Every variable keeps its type; a task is queued once (task_add).
TypeOK ==
  /\ icState \in States /\ request \in Requests /\ entering \in Requests \cup {None}
  /\ resetting \in {"no", "stop", "init"}
  /\ IsInjective(nsq) /\ ToSet(nsq) \subseteq {"newstate", "bgscan_done"}
  /\ {bgscan, cacheOnly, mgmtOnly, timer, timed, asked} \subseteq BOOLEAN
  /\ {scanning, drvBgscan, scanTask, callback, onAir, lost} \subseteq BOOLEAN
  /\ fw \in {"idle", "scan", "done"}
  /\ live \subseteq SwitchArgs
  /\ {scArg, unrefArg} \subseteq SwitchArgs \cup {None}
  /\ refs \in 0..MaxRefs

\* The argument of a switch has one holder, which never points at freed memory,
\* whoever frees it: the next scan, mwx_stop, the task, or the node that is cleaned up
\* or copied over.
ArgHasOneHolder ==
  /\ {scArg, unrefArg} \ {None} \subseteq live
  /\ scArg # None => scArg # unrefArg

\* Data frames are held back only by a station that is about to leave its access
\* point: something is queued, running or installed that ends it
\* (IEEE80211_F_TX_MGMT_ONLY, ieee80211_end_scan), unless a scan whose end was not
\* heard was evaluated with the next.
HeldBackOnlyToLeave ==
  mgmtOnly /\ ~lost
           => /\ icState = "RUN"
              /\ \/ callback \/ entering # None \/ resetting = "stop"
                 \/ nsq # <<>>

\* A scan in RUN is evaluated (ieee80211_begin_bgscan: "Driver calls
\* ieee80211_end_scan() when done", ieee80211.c:134), and then another may begin or the
\* callback that leaves the access point is installed, unless its end was not heard.
BgscanEnds ==
  (icState = "RUN" /\ bgscan) ~> (icState # "RUN" \/ ~bgscan \/ callback \/ lost)

\* "a callback which will switch us to the new AP once all dispatched frames have been
\* processed by hardware" (ieee80211_node.c:1560): it is called, or the station leaves
\* another way or sends data again.
RoamEnds ==
  (icState = "RUN" /\ callback /\ mgmtOnly /\ ~onAir)
    ~> ~(icState = "RUN" /\ callback /\ mgmtOnly)

=============================================================================
