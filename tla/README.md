# SimpleMtkWlan in TLA+

SimpleMtkWlan is a macOS driver for MediaTek MT7921 wireless adapters: OpenBSD's
`mwx` driver (`SimpleMtkWlan/hal_mwx/MtkMwx.cpp`) and OpenBSD's 802.11 layer
(`mtk80211/openbsd/net80211`) on top of a compatibility layer that maps OpenBSD's
kernel services to IOKit.  This directory holds TLA+ modules of its concurrent
core, the TLC configurations that check them and proofs that TLAPS checks.

Paths below are relative to `src/`; a bare line number is one of `MtkMwx.cpp`.

## 1. Who runs when

All modules rest on these facts about the execution contexts.

| context | what it runs |
|---|---|
| the driver's IOWorkLoop | `mwx_intr` (`compat.cpp` makes it an interrupt event source of the work loop): `mwx_dma_tx_done`, the TX-free events, the receive rings, `mwx_mcu_rx_event`; frames reach net80211 and its supplicant from here; the timeouts (`ic_bgscan_timeout`) |
| the thread `mwxns` (queue `sc_nswq`, one thread) | `mwx_newstate_task`, `mwx_reset_task`, `mwx_setkey_task`, `mwx_bgscan_done_task` |
| the thread `systq` (one thread) | `mwx_end_scan_task` (`sc_scan_task`) |
| the watchdog's own work loop | `ieee80211_watchdog`, once a second |
| whoever calls | `MtkMwx::enable`, `MtkMwx::disable`, the user client's requests, power management |

`splnet()` and `splx()` do nothing in this port (`net80211/timeout.c:40-43`).  In
OpenBSD they keep the interrupt handler out of a section; here nothing does.
`tsleep_nsec` is the kernel's `msleep` with a lock of its own that `wakeupOn` does not
take (`include/HAL/MtkHalService.cpp:59-83`): a wakeup that comes before the sleep is lost.  A task runs
without a lock, and `task_del` does not wait for a task that is running.

## 2. Inventory

| component | state | operations | interacts through | hard | correct when | status |
|---|---|---|---|---|---|---|
| transmit rings (2473-2760, 2947-3100) | `mq_prod`, `mq_cons`, `mq_data`, descriptors, `CPU_IDX`, `DMA_IDX`, `mq_wakeme` | enqueue, cleanup, reset, wait for room | registers shared with the device, `wakeup` | sender, cleanup and device move three indices of one ring without a lock | indices never overtake each other, the assertion at 2609 holds, every buffer is freed once and only after the device has read it, the ring drains | partly: `MwxTxRing` |
| task queues (`sys/_task.cpp`) | list of tasks, `TASK_ONQUEUE`, `tq_state`, `tq_running` | `taskq_create`, `task_add`, `task_del`, the worker | the lock `tq_mtx`; the caller names the queue | tests outside the lock, wakeups after it, callers that name the wrong queue | FIFO, nothing lost, no sleep over work | partly: `TaskQ` |
| commands and answers (2947-3260) | `sc_mcu_seq`, `sc_mcu_wait[16]` | send, wait, answer, time out | command ring, `mwx_mcu_rx_event`, `wakeup`, `mwx_reset` | late, lost and early answers, numbers used again | an answer reaches its own command, every command ends | `MwxMcu` |
| interface and scanning (900-1310, 1900-2030, 4390-4470, 6490-6530) | `ic_state`, `sc_ns_state`, `sc_flags`, `sc_resetting`, `if_flags`, what is queued | enable, disable, reset, request a state, enter it, scan, end a scan | all threads above | each request is served by another thread later; several stop and start the device | requests are served, resets come and end, an enabled interface scans | partly: `MwxState` |
| data transmit path (1020-1060, 1455-1520, 2110-2230, 2619-2665, 5796-5838) | pool of TXWIs `sc_txwi`, `mt_busy`, `mt_mbuf`, the data ring, node references | `mwx_start`, `mwx_tx`, cleanup of the ring, TX-free event, reset | interface queue, device and firmware | descriptor, TXWI and frame are released at different times, in different orders; error paths keep a TXWI or a reference | no TXWI is given out twice, the device reads no freed frame, what was sent is freed | partly: `MwxTx` (references: `MwxRoam`) |
| receive rings (2410-2470, 2763-2920) | slots, `mq_prod`, `mq_cons`, `CPU_IDX` | fill, dequeue, hand up, reset | device, `mbuf` allocation | a refill that fails, a frame in several buffers, `DMA_IDX` moves meanwhile | frames go up whole and in order, no buffer has two owners, the ring does not starve | `MwxRxRing` |
| keys (1400-1457, 6250-6380; `ieee80211_pae_input.c`) | supplicant state of a node, the ring `sc_setkey_arg`, flags of `struct mwx_node`, port and link | the messages of the handshakes, `mwx_set_key`, `mwx_delete_key`, the task | `sc_nswq`, commands, net80211, access point | requests point at keys that change meanwhile; the ring is full or outlives `mwx_stop`; frames are lost and repeated | the firmware gets the keys of the last handshake, once; the link is up only with keys; a handshake ends | partly: `MwxKeys` (a station with WPA2) |
| background scan, roaming (1185-1230, 1290-1400, 4390-4470; `ieee80211_node.c` 1440-1740) | `MWX_FLAG_BGSCAN`, `IEEE80211_F_BGSCAN`, `F_TX_MGMT_ONLY`, `sc_bgscan_arg`, `ni_unref_cb` and its argument, `ni_refcnt` | begin, end, evaluate, switch, give up | three threads, firmware, user client | flags and the argument pass between threads while scans, joins and resets go on | the argument has one owner, data is held back only to leave, scans end | `MwxRoam` |
| firmware loading | patch semaphore, ring `FWDL` | the steps of `mwx_preinit` | command ring | a step fails | the semaphore is given back | not modelled |
| attach and detach (1800-1970, 6460-6480) | queues, rings, interrupt | `mwx_attach`, `detach` | everything | `taskq_init` again; queues that outlive the softc | nothing runs on freed memory | not modelled |
| power management (`pm.cpp`), timeouts (`CTimeout.cpp`) | thread calls, event sources | sleep, wake; add, delete, free | work loop, command gate | freed while running | no call after free | not modelled |
| IOKit controller, user client | interface state, scan results | IOKit and `ioctl` entry points | HAL | called from any thread | as interface | partly: `MwxState`, `MwxRoam` |
| net80211, ciphers, `compat.cpp`, mbufs, queues | 802.11 state of a station | frame input and output, scanning, keys | `mwx_newstate` | the driver serves requests asynchronously | a station joins in order | the state machine of a station, in `MwxState`; the supplicant, in `MwxKeys`; background scans, in `MwxRoam` |
| block ack | reorder buffers of `ieee80211_input.c` | ADDBA, DELBA, the gap timer | timeouts | | | not modelled: the driver advertises neither QoS nor HT (`#if NOTYET`, 1861-1865, 1879-1884), so no agreement is made |
| device bring-up, registers, EEPROM | hardware | register sequences | | meaning is in the hardware | | not modelled |

`PROJECT.json` lists every component with its files and all hazards at their lines.

## 3. The modules and the code

### `RingIndex`: the slots of a ring

`Slots` and `Succ` are the indices and `(idx + 1) % q->mq_count` of every ring; `Dist` and
`Span` are the distances and stretches that the properties and proofs measure them with.
`MwxTxRing`, `MwxTx` and `MwxRxRing` extend it; `RingLemmas` has what is proved about it, and
about sequences as sets, for the proofs of all three.

### `MwxTxRing`: a transmit ring

Variables are the fields of `struct mwx_queue` (`prod` is `mq_prod`, `mdMbuf[i]` is
`mq_data[i].md_mbuf`, ...), the two registers, the device's own position, and the
program counters and locals of the threads in `mwx_mcu_send_mbuf` (with
`mwx_dma_tx_enqueue`) and `mwx_dma_tx_cleanup`.

| code | actions |
|---|---|
| `mwx_mcu_alloc_msg`, entering `mwx_mcu_send_mbuf` | `AllocMsg` |
| `mwx_dma_tx_enqueue` | `BeginEnqueue` (read `mq_prod`, load the slot's map), then `LoadFails`, `RingFull` or `RingHasRoom` (count the free slots), `FillDesc` per descriptor with the assertion, `PublishProd`, `Kick` |
| the EBUSY loop of `mwx_mcu_send_mbuf` | `GoToSleep`, `SleepTimeout` |
| `mwx_dma_tx_cleanup` | `BeginCleanup`, `CleanSlot` per slot, `EndCleanup` with the wakeup |
| `mwx_queue_reset` | `QueueReset` |
| the device (external) | `DeviceFetch` |

Steps end where another thread or the device may read what was written.  A buffer is
a model value; a descriptor is the buffer it points to and the LAST bit.  Any number of threads
send and clean up, and one thread may do both (`mwx_mcu_send_firmware`).

`map[i]` says whose buffer is loaded in `md_map` of slot i.  `mwx_dma_tx_enqueue` loads one map, that of
the first slot, but moves `md` on with `idx` (2610): from the third segment on, the addresses come from the map of the next
slot, and that was loaded for another buffer, or never.  `FillDesc` does the same, and what such a descriptor points at
is `None`, unknown.

`raced` is a history variable: two senders were between the reading of `mq_prod` and the doorbell, or two
cleanups between the reading and the writing of `mq_cons`, at a time.  The code does not prevent that, and nothing holds
after it, so each safety property says `raced \/ ...`.

`MwxTxFifo` is what a ring promises: posted frames are fetched in order, once, and
released in order, once, afterwards.  The refinement mapping ends `MwxTxRing`: posted are the
frames whose first slot lies between `DMA_IDX` and `CPU_IDX`, fetched those between the cleanup and `DMA_IDX`.

### `TaskQ`: the task queues

The TAILQ is modelled link by link, because `task_add` and `task_del` are told the
queue and do not know it: `next`, `prev` and `tail` are `tqh_first`/`tqe_next`,
`tqe_prev` and `tqh_last`.  `creator` is the thread in `taskq_create_thread`, `worker`
the one in `taskq_thread`, `pc`/`call` are the callers.  Sections under `tq_mtx` are
single steps; the test of `TASK_ONQUEUE` before the lock and the wakeup after it are
steps of their own.  `TaskService` is the abstract promise (a FIFO per queue, each task
pending at most once); the mapping stands at the end of `TaskQ`: the pending tasks of a
queue are the longest sequence of tasks that follows the links from its head (`Worklist`).
`MCTaskQ` names the driver's tasks and callers.

### `MwxMcu`: commands and answers

`slot` is `sc_mcu_wait`, `seqNo` is `sc_mcu_seq & 0x0f`, `fw` is the set of commands the
firmware has taken, which it answers in any order.  `LoadSeq`/`StoreSeq` are the unlocked increment, `ClaimSlot`,
`Post`, `PostFails` and `BuildFails` are `mwx_mcu_send_mbuf`, `Sleep`, `Timeout` and
`TakeAnswer` the two wait functions, `RxEvent` is `mwx_mcu_rx_event`.  The firmware may
drop an answer (`NoAnswer`) or be as late as it likes.  The history variable `reused` has the numbers
that were given out while somebody else, or the firmware, had them.

### `MwxState`: the interface

`nsq` is `sc_nswq`, `scanTask`/`ending` the only task of `systq`, `pc` the position of
`mwxns` and of the threads that enable and disable.  Tasks are cut at commands to the
firmware, where they sleep up to three seconds.  `Request` is `mwx_newstate`,
`EnterState` is what `ieee80211_newstate` does to `ic_state` and the management timer,
`StopBegin`/`StopEnd`, `InitEnd`/`InitFails` are `mwx_stop` and `mwx_init`, `Reset` is
`mwx_reset`; each remaining action is the handler its comment names.  `Events` switches
on what may happen in a run: disable, user requests, firmware trouble, lack of memory,
and a scan event before `mwx_scan` has returned.  Two history variables say which overlaps of enable,
disable and the tasks have happened: `dropped`, a `mwx_stop` for disable has deleted a queued reset (951);
`crossed`, it ran beside a task of `mwxns` or a `mwx_init` of another thread.

### `MwxTx`: the data transmit path

| code | actions |
|---|---|
| `mwx_start`, `mwx_tx` | `TakeFrame`, `NoTxwi` |
| `mwx_txwi_get` | `GetFirst`, `Unlink`: the look at the list and the removal are two steps |
| `mwx_txwi_enqueue` | `LoadFails`, `Load` |
| `mwx_dma_txwi_enqueue` | `TakeSlot` (reads `mq_prod`), `RingFull`, `Fill` with the assertion, `Publish`, `Kick` |
| `mwx_dma_tx_cleanup` on the data ring | `BeginCleanup`, `CleanSlot`, `EndCleanup` |
| `mwx_mac_tx_free`, `mwx_txwi_put` | `BeginCleanup` with an event, `EventIsLost`, `FreeNext` per TXWI |
| `mwx_dma_reset` | `DmaReset` |
| the device and its firmware (external) | `DeviceFetch`, `FirmwareReports` |

`free`, `busy` and `mtMbuf` are `mt_freelist`, `mt_busy` and `mt_mbuf`; the ring is that of
`MwxTxRing` with one descriptor per frame.  The difference from the command ring is who frees: the
cleanup gives back the descriptor only, the event the TXWI and the frame, in any order
and any number at a time.  `stuck` and `leaked` are history variables: what the code is known
to lose, so that `OnlyFailuresLeak` can say that it loses nothing else.  Any number of threads send.  `clash`, the
third history variable, says that two of them took the same TXWI, between `LIST_FIRST` and `LIST_REMOVE`, or were both
between `TakeSlot` and `Kick`; as in `MwxTxRing`, the properties say what holds until then.

### `MwxRxRing`: a receive ring

| code | actions |
|---|---|
| `mwx_dma_rx_dequeue` | `BeginDequeue`, `DequeueSlot`, `EndDequeue` (reads `DMA_IDX` again; the assertion) |
| `mwx_queue_fill` | `FillSlot`, `FillFails`, `EndFill` |
| `mwx_dma_rx_process` | `Process` per frame, `EndProcess` |
| `mwx_dma_reset` for this ring | `Reset`, then a fill |
| the device (external) | `DeviceWrite` |

`content` tells what the device wrote to a buffer: the number of the frame, which part of it,
and whether it is the last.  `m0` is the chain under construction, `ml` the list of frames.

### `MwxKeys`: keys and handshakes

The supplicant of `ieee80211_pae_input.c` (`RecvMsg1`, `RecvMsg3`, `RecvGroupMsg1`), the ring
of requests that `mwx_set_key` fills (`ring`, `Room`, `Taken`), `mwx_setkey_task`
(`BeginSetKeyTask`, `SendSetKey`, `SetKeyFails`, `SetKeyDone`, `EndSetKeyTask`), which shares its
thread with `mwx_newstate_task` (`NewStateTask`), and `mwx_stop` (`Stop`).  A request points at a
key of the node or of `ic_nw_keys`: `Install` reads the key when the request is served.
`PassesInput` is what `ieee80211_inputm` lets through: with protection on, only what the
hardware has decrypted.  The access point is external: it repeats an unanswered message with a higher
replay counter, gives up with a deauthentication, and rekeys when it likes.
Nonces and keys are numbers, a PTK is the pair of the nonces it comes from.  Three history variables:
`given` are the PTKs the firmware was given, `stopped` says that requests from before a `mwx_stop` may be in the
ring, `failed` that a key was not set since the last authentication, which takes the pairwise key back.

### `MwxRoam`: background scans and the switch to another access point

| code | actions |
|---|---|
| `ieee80211_inputm`: the signal of a frame | `ReceiveWeak`, `ReceiveStrong` |
| `ieee80211_bgscan_timeout`, `ieee80211_begin_bgscan`, `mwx_bgscan` | `BgscanTimeout` |
| `ieee80211_begin_cache_bgscan` (`sSCAN`) | `UserScan` |
| `mt7921_mcu_scan_event` | `ScanEvent` |
| `mwx_end_scan_task`, `ieee80211_end_scan` | `EndScan`, `EndBgscan`, `EndRoamScan` |
| `mwx_bgscan_done_task` | `BgscanDoneTask` |
| `ieee80211_release_node`, `ieee80211_node_switch_bss` | `ReleaseNode` with `SwitchBss` |
| `ieee80211_node_join_bss`, `ieee80211_node_copy` | `JoinBss` |
| `mwx_newstate_task` | `BeginNewState`, `EnterScan`, `EnterAuth`, `EnterRun` |
| `mwx_reset_task` | `StopBegin`, `StopEnd`, `Start` |
| `mwx_start`, `mwx_tx`, `mwx_mac_tx_free`, seen from the node | `SendData`, `TxDone` |
| access point, watchdog, user | `Associated`, `RecvDeauth`, `MgtTimeout`, `UserJoin`, `UserLeaves` |

The argument of the switch is memory that three variables may point at (`scArg` is
`sc_bgscan_arg`, `unrefArg` is `ni_unref_arg`; `live` says whether it is still allocated), filled
by one thread, handed on by another and freed by a third.

### How the modules meet

A task of `MwxState`, `MwxKeys` or `MwxRoam` is one that `TaskQ` runs, each of its cuts is
a command of `MwxMcu`, and each command is a frame of `MwxTxRing`.  The upper modules use the
queue at the level of `TaskService` (`Add`, `Queued`, `AddTask`), `MwxMcu` the ring at the
level of `MwxTxFifo`; the refinement runs are what justifies that.  The three upper modules
share `mwx_newstate`, `mwx_newstate_task` and `mwx_stop`: `MwxState` has the whole state machine, with enable, disable and overlapping resets;
`MwxRoam` has AUTH for AUTH and ASSOC, and adds background scans; `MwxKeys` has the part that
starts and ends a handshake.  `MwxTx` frees frames as `TxDone` of `MwxRoam` does: without the reference of the node.

## 4. The runs

| run | checks | shows |
|---|---|---|
| `TxRing` | `TypeOK KassertHolds IndicesOrdered DeviceSeesLiveFrames MbufsConserved`; `FifoRefined FramesAreReleased BusySenderGetsOut` | two senders and two cleanups, until two of them overlap: the ring is a FIFO, the free-slot test is enough although `mq_cons` moves meanwhile, no buffer leaks or is freed under the device, it drains, and a sender who found it full gets out |
| `TaskQ` | `TypeOK NoSleepOverWork`; `ServiceRefined TasksAreServiced` | the linked list is the FIFO service, no wakeup is lost, each task is served |
| `WrongQueue` | `TasksAreServiced` violated | `mwx_stop` deletes `sc_scan_task` from a queue it is not on; a task is never run |
| `Mcu` | `McuTypeOK AnswerIsMine`; `EveryCommandEnds` | with two senders and answers as late as the firmware likes: no answer is taken for another's, unless its number was given out while in use, and every command ends |
| `State` | `TypeOK RequestsAreServed ResetIsComing`; `ResetEnds` | with enables and disables, a user, failing commands and memory: requested states are entered or a reset comes, a reset asked for comes, and resets end; the exceptions are `crossed` and `dropped` |
| `EnableDisable` | `EnableScans` | enabling and disabling in every state of a join, with tasks that complete late: an enabled interface ends up scanning |
| `Tx` | `TypeOK PoolIsUnused DeviceReadsLiveFrames OnlyFailuresLeak` | two senders, until they take the same TXWI or slot: a TXWI is given out again only when nothing uses it, what the device may read is allocated, and only failed sends, lost events and resets lose TXWIs and frames |
| `TxDrains` | `SentFramesAreFreed` | a frame given to the device is freed and its TXWI returns, or one of these losses has met it |
| `RxRing` | `TypeOK BuffersHaveOneOwner FramesAreWholeAndInOrder`; `ReceivedGoesUp StarvedOnlyByFailedFill` | frames go up whole and in order while the device writes on; a buffer has one owner; only a failed refill starves the device |
| `Keys` | `TypeOK LinkNeedsPairwiseKey KeysSettle`; `PtkGivenOnceUnlessStopped HandshakeEnds` | under loss, repetition, rekeys, deauthentication, failed commands and stops: the link is up only with a pairwise key unless one could not be set, the firmware ends up with the keys of the last handshake, none is installed twice without a stop, and a handshake ends |
| `Roam` | `TypeOK ArgHasOneHolder HeldBackOnlyToLeave`; `BgscanEnds` | the argument of the switch is never used after it was freed, data is held back only by a station on its way out, a background scan whose end is heard ends |
| `RoamStops` | `RoamEnds` violated | no reference of a transmitted frame is given back: the switch never happens and the station holds its data back for ever |

The two violations are findings; `PROJECT.json` quotes the comment each one contradicts.
Every property of a passing run has a mutant of a modelled definition that breaks it (the
definitions marked `Mutant`).

### Exceptions in properties

Some properties name what the code does not guarantee, so that the rest can be checked:

- All properties of `MwxTxRing` but `TypeOK`: two senders or two cleanups in one ring (`raced`).  `BusySenderGetsOut` also
  excepts a sender that others keep out, who take the slots as they come free.
- All properties of `MwxTx` but `TypeOK`: two senders with one TXWI or one slot (`clash`).
- `AnswerIsMine`: a command whose number was given out while it was in use (`reused`), from then on.
- `ResetIsComing`, `ResetEnds`: a queued reset that a `mwx_stop` deleted (`dropped`).  `ResetIsComing` then says that
  none comes any more.
- `RequestsAreServed`: a `mwx_stop` for disable that ran beside a task or another thread's `mwx_init` (`crossed`).
- `OnlyFailuresLeak`, `SentFramesAreFreed`: `mwx_tx` that fails after `mwx_txwi_get`, an
  event that `m_pullup` cannot make contiguous, and a reset.
- `StarvedOnlyByFailedFill`, `BuffersHaveOneOwner`: a refill that runs out of memory.
- `KeysSettle`, `HandshakeEnds`, `LinkNeedsPairwiseKey`: a set-key command that failed since the station
  authenticated (`failed`), whose result nobody looks at.
- `PtkGivenOnceUnlessStopped`, `LinkNeedsPairwiseKey`: requests that a `mwx_stop` left in the ring (`stopped`).
- `BgscanEnds`, `HeldBackOnlyToLeave`: a scan whose end was not heard (`lost`).
- `RequestsAreServed` too: a join tried again too late, by a station that is in RUN by then (`ieee80211_proto.c:1611`).

### Bounds, and why they are enough

- `MwxTxRing`: `Count = 4` (256 in the driver for commands, 16 for firmware),
  two senders and two cleanups, one of which is a sender's own, two buffers, up to `MaxSegs = 3` segments, that is one or two
  descriptors per frame, the second with a stale map.
  Indices wrap in every position, the ring fills exactly and by one frame too many, and
  frames of both sizes meet.  The run stops at the first race (`CONSTRAINT UntilRaced`): each property holds in
  every state after it by its exception, the liveness ones because `raced` stays, so nothing is lost.  `BeginCleanup` reads
  `mq_cons` and `DMA_IDX` in one step.  The inductive invariant is proved for every `Count` and any threads.
- `TaskQ`: three tasks on one queue give removal at the head, in the middle and at the
  end; two callers give every race between test, lock and wakeup.  `NThreads = 1` is the
  value of both queues.  `WrongQueue` has both queues.
- `MwxMcu`: two callers, two commands at a time, `MaxPending = 2` unanswered, and `SeqCount = 3` for 16, so that numbers
  wrap and skip 0 after two commands and meet owners of every age.
- `MwxState`: `MaxDone = 2` scan events on their way, the current scan's and one of a scan
  that was cancelled.  One thread enables and disables, on the assumption that IOKit makes these calls one at a time.
- `MwxTx`: `Count = 3` (256 in the driver), three TXWIs (509: 512 less the reserved ones) and
  four frames, two senders, so that the ring is full before the pool is empty, the pool is empty before
  the frames are, and both recover.  `MaxEvents = 1` event on its way: a second would only wait behind
  it.  `TxDrains` has two TXWIs and two events, small enough for liveness.  Both stop at the first clash (`UntilClash`),
  after which every property but `TypeOK` holds by its exception.
- `MwxRxRing`: `Count = 4`, frames of up to two buffers, five buffers: one more than the ring
  holds, for those on their way up.  `MaxFrames = 4` numbers tell apart all frames that can be in
  the ring.
- `MwxKeys`: `RingSize = 4` holds three requests (seven in the driver), so that it is
  full after the keys of one handshake and of one rekey; two handshakes, two group keys, two
  transmissions of each message and two frames on their way each way: every message can be lost,
  repeated, late and answered twice, in the first handshake and in a rekey.
- `MwxRoam`: two arguments (one in the softc, one at the node) and `MaxRefs = 1`: the count is
  never taken down but by `node_copy`, so that it is enough to tell zero from more.

### Deadlock

It is checked in `TxRing`, `TaskQ`, `WrongQueue`, `Mcu`, `State` and `EnableDisable`.  The others say
`CHECK_DEADLOCK FALSE`, because the system may stop: in `Tx` and `TxDrains` when all frames have leaked, in
`RxRing` when all buffers have, in `Keys` when the handshakes of the run are used up, and in
`Roam` and `RoamStops` where a station waits for frames or users, which nothing obliges to come.

### Fairness, and why the code justifies it

- A thread that is not asleep runs (`WF` of the steps of a sender, a cleanup, a worker, a
  task): these are kernel threads, and no step spins on another's variable.
- A timed sleep ends (100 ms at 3074, three seconds at 3246): part of the same `WF`.
- The device fetches what is posted, and an interrupt follows a completion: `WF` of
  `DeviceFetch`, `Clean`, `Interrupt` and the handler of `MwxRxRing`.  Without it no ring would ever drain.
- The device finishes a frame it has begun to write, if it has buffers: `WF` of `DeviceWrite` inside a frame.
- The firmware reports every TXWI it has taken in the end: `SF` for each, because an
  event on its way holds the next one back only for a while.
- The firmware ends a scan it has begun, and events are delivered: `WF` of `FwScanDone`
  and `ScanEvent`.  The watchdog is a periodic timer: `WF` of `Watchdog`.
- The access point of `MwxKeys` times out (`ApTimeout`): a handshake that nobody answers ends with its
  deauthentication.  The code has no timer of its own (`ieee80211_input.c:2848`).
- In `MwxRoam` frames come in (`ReleaseNode`) and the timer of background scans goes off.  It takes half
  a second or more, and is taken to outlast the event and the task of a scan that has ended.
- Nothing is assumed of a caller that has not begun, the user, what access points begin, the
  firmware's answers, or of failures.

## 5. What is proved

TLAPS checks the theorems below for every value of the constants that satisfies the named
`ASSUME`s of the modules and what the table says.  Every invariant and every action property
that a run checks is stated by one, and so are the two refinements.

| module | theorems | states | assumes |
|---|---|---|---|
| `MwxTxRingProofs` | `TypeCorrect` | `TypeOK` | |
| | `KassertNeverFires`, `IndicesInOrder`, `NoMbufIsLost` | `KassertHolds`, `IndicesOrdered`, `MbufsConserved` | |
| | `FetchedFramesAreLive`, `RingRefinesFifo` | `DeviceSeesLiveFrames`, `FifoRefined` | `~IdxPerDesc` |
| `MwxMcuKeysProofs` | `McuTypeCorrect` | `McuTypeOK` | |
| | `AnswersAreMine` | `AnswerIsMine` | |
| | `KeysTypeCorrect`, `LinkHasPairwiseKey`, `KeysSettleInFirmware`, `PtkIsGivenOnce` | `TypeOK`, `LinkNeedsPairwiseKey`, `KeysSettle`, `PtkGivenOnceUnlessStopped` | |
| `TaskQProofs` | `ListsStayLinked`, `TaskTypeCorrect`, `WakeupsAreNotLost` | the links of the lists, `TypeOK`, `NoSleepOverWork` | calls name the task's queue |
| | `QueuesRefineService` | `ServiceRefined` | the same |
| `MwxTxProofs` | `TxTypeCorrect`, `PoolStaysUnused`, `DeviceReadsOnlyLiveFrames`, `LossesAreFailures` | `TypeOK`, `PoolIsUnused`, `DeviceReadsLiveFrames`, `OnlyFailuresLeak` | |
| `MwxRxRingProofs` | `RxTypeCorrect`, `EachBufferHasOneOwner` | `TypeOK`, `BuffersHaveOneOwner` | |
| | `FramesGoUpWholeAndInOrder` | `FramesAreWholeAndInOrder` | `~IdxPerDesc` |
| `MwxRoamProofs` | `RoamTypeCorrect`, `ArgumentHasOneHolder`, `DataIsHeldBackOnlyToLeave` | `TypeOK`, `ArgHasOneHolder`, `HeldBackOnlyToLeave` | |
| `MwxStateProofs` | `StateTypeCorrect` | `TypeOK` | |
| | `ResetsAreComing`, `RequestedStatesAreEntered` | `ResetIsComing`, `RequestsAreServed` | |

Senders, cleanups, callers and threads that enable or disable are any sets: no theorem assumes that there is one of each.
Where the code breaks a property by an overlap, the property itself says which (section 4).
The two assumptions left are needed: without either, TLC finds the property violated (`WrongQueue`; section 6), except
that `TypeOK` of `TaskQ` may hold, where the argument goes through the lists.  They are assumptions of the theorem, not of
the module, so that one module serves the runs that show the violation too.

### The arguments

**`MwxTxRing`.**  `KassertHolds` is not inductive: that index and `mq_cons` do not meet depends on how many
descriptors are still to be written, and on `mq_cons` not passing the device.  `RingInv` is
`TypeOK`, the three orders of `IndicesOrdered` and `NoPanic`, with one sender and one cleanup at a time in the ring
(`OneEach`), the sender at `mq_prod` and with the map of that slot (`LoadedAtProd`).  A step keeps it unless it is
the one that sets `raced` (`StepRing`), and `raced` stays.  The invariant measures every index as a distance from `mq_cons`; the
lemmas about `Dist` in `RingLemmas` say how a distance changes when an index takes one step, when `mq_cons`
moves forward, and when an index wraps.  A sender's step adds one to its distance and takes one
from the descriptors to write; the others stay below the next index; the end of a cleanup
shifts every distance by the same amount, which only makes room.  On top, `MbufInv` places every
allocated buffer in one sender's hand or one slot between the cleanup and `mq_prod`, and
`FrameInv` says that the descriptors from the device to `mq_prod` are written and form frames (`Framed`, and `Open` for the one
that is being written), each with a buffer at its first slot, which the first descriptor points into: a cleanup up to `DMA_IDX`
frees no frame that is half read.  Where a later descriptor points it does not say.

`RingRefinesFifo` adds `OrderInv`: a slot after one that is not the last of its frame begins none
(`FramesFollowLasts`, and `FillIsComplete` while one is written), `DMA_IDX` is at the beginning of the frame the
device reads (`NotReportedYet`), and what a write of `CPU_IDX` posts is one frame (`KickPostsOne`).  The
mapping chooses the list of first slots of a stretch in ring order.  That there is such a list
is shown by taking the shortest stretch without one; that there is only one, by the least place at which two
differ.  So a frame put at the end of a stretch is the last of the sequence, one that begins
it is the first, and slots that hold nothing do not count (`FrameAtEnd`, `FrameAtBegin`, `FramesKept`): the steps
`Kick`, `DeviceFetch` and `CleanSlot` are `Post`, `Fetch` and `Reclaim`, and every other step but the reset is a
stutter.  `Post` needs room for one more, which is there because a stretch holds no more frames than slots.

**`MwxMcu`.**  An answer is the caller's own because, when it takes a number, nothing in the slot, in the firmware
or with another caller has that number (`NumberIsFresh`), unless the step puts the number into `reused`.  Number 0, which two
callers can both get past the second increment, needs no case of its own: its answer is dropped.

**`MwxKeys`.**  `KeysInv` is the conjunction of five invariants, none of which is enough alone.

- `TypeInv`: `TypeOK`, and that the access point's replay counter is bounded by the handshakes it has begun
  (`Counted`), which is what keeps the counters of frames and supplicant within `MaxReplay`.
- `ApInv`, `GroupFrames`: the access point's key, phase by phase; no group key goes out in clear.
- `StationInv`: which keys the station has in which state.  Its core is that a station that has taken message 3 has a
  group key and expects protected frames, and that `ieee80211_newstate` below ASSOC forgets them together.
- `QueueInv`: requests in the ring are on their way to be served, the task that serves them is ahead of
  `mwx_newstate_task` once the station has been below ASSOC, so that none outlives a join: all requests of a
  station that is associated point at keys that are there.  This is what `mwx_stop` breaks.
- `PairInv`, `FirstInv`, `GroupInv`: the last request that counts as a pairwise key is `Pairwise` itself and no
  request behind it points at a cleared key, or it was served and the firmware has the supplicant's key;
  while the firmware has no pairwise key, the first request is the pairwise one, so that the group key's answer
  cannot bring the link up before; each group key that firmware and supplicant disagree on is requested.

Of these, `LinkNeedsPairwiseKey` follows from `FirstInv` in the step that brings the link up (`SetKeyDone`,
`RecvGroupMsg1`), and `KeysSettle` from `PairInv` and `GroupInv` when the ring is empty.

That no pairwise key is given twice (`PtkIsGivenOnce`) does not follow: `KeysInv` does not say which handshake a
key is from.  `OnceAlways` adds four invariants.

- `OrderInv`: messages stay in the order of their handshakes.  Every key that was given or accepted is older than any
  message 1 that can still come (`OldInv`); the messages on their way are sorted, and none protected with a key of its
  own handshake (`DownInv`); the messages 2 are of handshakes no later than the frames that come (`UpOrder`); the key the
  supplicant has accepted is the access point's latest (`LatestInv`), so that the two never differ by a handshake.
- `HwPairInv`: the key in the firmware was given to it.
- `FreshInv`: the key a handshake is about is new to the firmware, or it is the one in use: then protection
  is on, and the access point does not protect the message 3 of a handshake with the key of that handshake, so
  that it is not accepted.  The second case spares the proof an argument about what a `mwx_stop` leaves in a full
  ring; TLC finds no state in it.
- `OnceInv`: at most one request of a pairwise key is still to be served, with a key that is new, and none while the
  supplicant expects a message 3: by the time that it takes another message 1, in a frame protected with the key
  in the firmware, the last request has been served.

**`TaskQ`.**  No list is followed from end to end, which would need an induction over its length.  `ListsAreLinked` says of
each cell that what it points at is on the same list and points back, and that exactly one
cell of a list, the one `tqh_last` names, points at nothing: insertion at the tail and removal anywhere
preserve that.  It needs `CallsMatch(home)`: the queue in a call is the one the task belongs to, the rule that
`WrongQueue` breaks.  The refinement (`QueuesRefineService`) does speak of whole lists: a sequence is the list
of a queue when each member is where the cell before it points and the last points at nothing.  The
invariant carries that there is one (`AppendToList` and `RemoveFromList` say that an insertion or a removal
of the code makes the list one longer at its end or takes one task out of it), and the least position
at which two such sequences differ shows that there is only one (`ChainIsPrefix`), so that
the mapping's `Worklist` is it (`ListIsWorklist`).  `TasksAssumption`, a finite number of tasks, keeps lists finite.

**`MwxTx`.**  The invariant is `Types /\ (clash \/ Inv)`.  `Types` holds after a clash too: a thread has the TXWI or the
frame that its next step uses, whoever else has it.  `Inv` has three parts: `IndexInv`, the indices as above and one sender
in `mwx_dma_txwi_enqueue`; `TxwiInv`, for every TXWI exactly one place (pool, hand of one sender, ring, firmware, event on
its way, lost), and a sender between `LIST_FIRST` and `LIST_REMOVE` finds its TXWI still in the pool; `FrameInv`, for every frame
exactly one owner.  `Split` divides each place into what one sender has and what the others have, so that a
step of one leaves the others' part alone (`OthersStay`).  A TXWI
that is reported is in the firmware's hand no more, so whatever order events come in, none is put
in the pool twice.

**`MwxRxRing`.**  `OwnInv`: which slots hold a buffer follows from the indices (`SlotInv`), and each buffer
is in one slot, in one chain, or forgotten (`OwnerInv`).  `FrameInv`: seen from the first full slot, what
the device wrote are the parts of one frame after the other (`PartsInv`), `DMA_IDX` is at the beginning of
one (`StartsFrame`), and the chains on their way up continue this sequence backwards (`ChainsInv`).

**`MwxRoam`.**  `ArgHasOneHolder` is inductive with the types.  `HeldBackOnlyToLeave` is not: a callback or a
queued `mwx_bgscan_done_task` ends in a switch only if the scan's flag is still set then, and another scan
would clear it.  `Roaming` in `HeldInv` says that no scan is on meanwhile, and `ScanInv` why:
one that may end in another access point is evaluated after the firmware has ended it and
before another begins.

**`MwxState`.**  `ResetIsComing` is inductive with the types: only `mwx_reset_task` and a `mwx_stop` for disable take a
reset from the queue, and the second sets `dropped`, after which `sc_resetting` lets no other in.  `RequestsAreServed`
needs `StopInv` (a `mwx_stop` that nothing has crossed is alone, and the interface stays down under it) and `WorkerInv`:
`mwx_newstate_task` is entering what was requested last, or it is queued again, and while a reset restarts the
interface, the scan that another thread's `mwx_init` has requested is still queued.

### Only model-checked

All liveness and ENABLED: no prover for them is available.

## 6. What is left out, and what that hides

Of the modelled parts:

- `QueueReset`, `DmaReset` and `Reset` happen only while nobody is inside the ring.
  `mwx_dma_reset` does not wait for that.
- A device that advances `DMA_IDX` inside a frame (`IdxPerDesc = TRUE`) violates
  `DeviceSeesLiveFrames` of the transmit ring, where the buffer hangs on the frame's first slot, and
  `FramesAreWholeAndInOrder` of the receive ring.  The runs use the behaviour the driver relies on.
- The list operations of `MwxTx` are single steps: a list that two senders, or a sender and the handler, tear is not seen.
- What happens after two senders or two cleanups have met in a ring, or two senders on a TXWI, is not checked but for
  types.
- `MwxKeys` reads a key in one step; the task may copy one while message 3 of the next
  handshake rewrites it (6282).  It has a usable RSN IE, no IGTK and no WPA1.
- `MwxRoam` does not say which access point is chosen, and takes the exchange of authentication and association as one step.
- `taskq_destroy` is not modelled: `mwx_attach` calls it on a path that no `goto fail` behind
  `taskq_create` reaches, and `detach` does not call it at all.
- Command contents, frame formats, rates, ciphers, channels and the register sequences that
  start the device are data or hardware.
- Monitor mode, `mwx_media_change`, access point and ad hoc modes are left out.

What the modules show of the code, beside the two runs that keep a violation (each was seen
with TLC under the changed constants or property named):

- After two senders, or two cleanups (`mwx_mcu_send_firmware` and the interrupt handler), have been in a ring together,
  `NoPanic` fails: the assertion at 2609 fires.  Of two cleanups, one may store an older `mq_cons` over a newer one.
  `splnet()` was to prevent that.
- A message of three or four segments is given to the device with a second descriptor from an unloaded map (2610).
  `DeviceSeesLiveFrames` with `desc[s].buf \in live` for every `s` fails with `MaxSegs = 3`, and holds with `MaxSegs = 2`.
- A sender that found the ring full may be overtaken by another for ever (3068-3076).
- Two callers of `MwxMcu` may take the same sequence number (2968), a late answer meets the number's next owner, and two that read
  15 at once may both use number 0, whose answer `mwx_mcu_rx_event` drops: the command times out and the device is reset.
  Without `reused`, `AnswerIsMine` is violated.
- Two senders may take the same TXWI (2143-2148) or the same slot (2632-2671): without `clash`, `PoolIsUnused` is violated.
- An answer that comes between the kick and the sleep wakes nobody: the command times out
  although it was answered, and the device is reset (3246).
- A `mwx_newstate_task` that waits for a command while `mwx_stop` runs enters its state
  afterwards (1301): 945 says "let any stale tasks finish up", but nothing waits for them.
- The event of a cancelled scan is not told from the current one's (4445).  If it comes before
  `mwx_scan` sets `MWX_FLAG_SCANNING` for the second time (1199), the flag stays set without a
  scan, and a station in SCAN never scans again.
- A request for AUTH may replace the management timer's request to scan (1232,
  `ieee80211_proto.c:1598`): the station is in AUTH with neither a frame sent nor a timer.
- A disable while a reset runs leaves the interface running: `mwx_reset_task` restarts it (2019, 6525).  So that a
  disabled interface is stopped is no property here.
- `mwx_stop`, run for a disable, deletes a queued reset task (951) and leaves `sc_resetting` set, after which `mwx_reset`
  (1997) does nothing for ever: `ResetIsComing` without `dropped` is violated.  `RequestsAreServed` without `crossed` is too.
- The first message of a group handshake brings the link up at once
  (`ieee80211_pae_input.c:983`): right after message 4 the firmware may not have the
  group key yet, although 6346 defers the link until both keys are there.
- `mwx_stop` deletes the setkey task (949) and leaves its requests: the next task serves them too, and
  a new pairwise key may be installed twice, against `ieee80211_pae_input.c:559`.
- Such a request may point at a group key that was cleared meanwhile.  Its flag `IEEE80211_KEY_GROUP` is cleared too, so
  that 6346 takes it for the pairwise key and sets its flag: the link comes up while the firmware has no pairwise key.
  (`LinkNeedsPairwiseKey` without `~stopped`: `RingSize = 5`, `MaxTx = 1`, `MaxGtk = 3`, events `grouprekey` and `stop`.)
- The same without a stop, after a set-key command that failed (`LinkNeedsPairwiseKey` without `~failed`: `RingSize = 3`,
  `MaxRounds = 3`, `MaxGtk = 3`, `MaxDown = 3`, events `failset`, `deauth`, `rekey` and `grouprekey`.)
- If `mwx_stop` leaves the ring full, no key can be set any more: `mwx_set_key` returns `ENOSPC` (1414) before it adds
  the task (1422) that would empty the ring, and every handshake ends in SCAN.
- `IEEE80211_F_BGSCAN` stays set when RUN is entered during a background scan (1292), or when the
  event of its end finds no memory (4446): no background scan begins any more
  (`ieee80211.c:113`).
- `mwx_scan` (1206) frees the argument of the switch and leaves `ni_unref_cb` set.
- An argument leaks when a second evaluation or a stale `mwx_bgscan_done_task` overwrites
  `ni_unref_arg`; `ArgHasOneHolder` only says that a freed one is not reached.

### Not modelled

Attach and detach (`taskq_init` again, queues that outlive the softc), power management and its
thread calls (`pm.cpp:34`), the free of a `CTimeout` that runs, the packet that `outputPacket`
frees and then enqueues (`SimpleMtkWlan.cpp:617`), the answers that nobody waits for (3230), and firmware
loading are within reach of a model and are planned.  Block ack is dead code in this driver
(`#if NOTYET`, 1861-1865, 1879-1884).  Register sequences, EEPROM, DMA set-up
and the power handover mean something only with the hardware.  Ciphers are data.  The largest file,
`include/FwBinary.cpp`, is a firmware image: two thirds of the lines of the repository.

## 7. Plan

Done: rings, queues, commands, the interface, the data path, the receive rings, keys and roaming; proofs of
their invariants and action properties, and of the refinements of `TaskService` and `MwxTxFifo`.

| order | module | about | run and bounds |
|---|---|---|---|
| 1 | `McuRing` | `MwxMcu` on `MwxTxRing`: the interrupt handler's own scan-cancel command (4445) and a full command ring (3069) | ring of 4, 2 callers |
| 2 | `LifeCycle` | attach, detach, `taskq_init` again, power management, timeouts | 2 attaches |
| 3 | `Firmware` | patch semaphore, the steps of `mwx_preinit` | every step may fail |

Abstract specifications worth stating: the pool as a bag of free TXWIs (`MwxTx`), a set of
keys per node (`MwxKeys`), a single association (`MwxRoam`).
