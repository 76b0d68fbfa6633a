------------------------------- MODULE MwxTx -------------------------------
(***************************************************************************)
(* The transmit data path of SimpleMtkWlan/hal_mwx/MtkMwx.cpp: mwx_start   *)
(* takes a frame, mwx_tx gives it a TXWI from the pool (mwx_txwi_get,      *)
(* mwx_txwi_enqueue) and one descriptor of the data ring                   *)
(* (mwx_dma_txwi_enqueue).  mwx_dma_tx_cleanup gives the descriptor back   *)
(* when the device has fetched it, but the TXWI and the frame only when    *)
(* the firmware's TX free event names the TXWI (mwx_mac_tx_free).          *)
(*                                                                         *)
(* Senders are the threads that call if_start, any number of them at a     *)
(* time: nothing keeps two apart.  The interrupt handler is one thread.    *)
(* Steps are cut between the accesses to what the others may touch; a LIST *)
(* macro is one step.  The device and its firmware are external: they      *)
(* fetch what is posted, keep the TXWI and its frame, and report each TXWI *)
(* once, any number of them in one event.                                  *)
(***************************************************************************)
EXTENDS RingIndex, Sequences, FiniteSets, SequencesExt

CONSTANTS
  Txwis,      \* the TXWIs of the pool, from MT_PACKET_ID_FIRST on
  Senders,    \* the threads that run mwx_start
  Mbufs,      \* the frames that exist at one time
  Faults,     \* what may fail: "load", "pullup", "reset"
  MaxEvents,  \* bound: TX free events that are on their way
  None        \* no TXWI, no mbuf

ASSUME TxwisAssumption == IsFiniteSet(Txwis)
ASSUME FaultsAssumption == Faults \subseteq {"load", "pullup", "reset"}
ASSUME EventsAssumption == MaxEvents \in Nat \ {0}
ASSUME NoneAssumption == None \notin Txwis \cup Mbufs

VARIABLES
  free,     \* mt_freelist
  busy,     \* mt_busy
  mtMbuf,   \* mt_mbuf
  prod,     \* mq_prod
  cons,     \* mq_cons
  desc,     \* the TXWI that mq_desc[i].buf0 is the address of; md_txwi, which
            \* is set with it, is never used
  cpuIdx,   \* register MT_DMA_CPU_IDX
  dmaIdx,   \* register MT_DMA_DMA_IDX: the next descriptor the device fetches
  fw,       \* the TXWIs the device has fetched and not reported
  events,   \* TX free events on their way: the TXWIs each names
  live,     \* the mbufs that are allocated
  pc,       \* where each sender is
  mbuf,     \* its frame
  mt,       \* its TXWI
  idx,      \* its local idx in mwx_dma_txwi_enqueue
  ipc,      \* where the interrupt handler is
  cidx,     \* its local idx in mwx_dma_tx_cleanup
  last,     \* its local last
  ids,      \* what is left of the event it has in hand
  clash,    \* history: two senders took the same TXWI from the pool, or were
            \* in mwx_dma_txwi_enqueue together
  stuck,    \* history: the TXWIs that no event will name
  leaked    \* history: the mbufs that were forgotten without a TXWI

pool == <<free, busy, mtMbuf>>
ring == <<prod, cons, desc, cpuIdx>>
device == <<dmaIdx, fw, events>>
sender == <<pc, mbuf, mt, idx>>
intr == <<ipc, cidx, last, ids>>
losses == <<stuck, leaked>>
history == <<clash, losses>>
vars == <<pool, ring, device, live, sender, intr, history>>

\* mwx_dma_free_slots
FreeSlots == (Count - 1 + cons - prod) % Count

Init ==
  /\ free = SetToSeq(Txwis)
  /\ busy = [t \in Txwis |-> FALSE]
  /\ mtMbuf = [t \in Txwis |-> None]
  /\ prod = 0 /\ cons = 0 /\ cpuIdx = 0 /\ dmaIdx = 0
  /\ desc = [s \in Slots |-> None]
  /\ fw = {} /\ events = <<>>
  /\ live = {}
  /\ pc = [p \in Senders |-> "idle"]
  /\ mbuf = [p \in Senders |-> None]
  /\ mt = [p \in Senders |-> None]
  /\ idx = [p \in Senders |-> 0]
  /\ ipc = "idle" /\ cidx = 0 /\ last = 0 /\ ids = <<>>
  /\ clash = FALSE /\ stuck = {} /\ leaked = {}

----------------------------------------------------------------------------
(* The senders: mwx_start and the mwx_tx it calls.                         *)

Goto(p, where) == pc' = [pc EXCEPT ![p] = where]

\* The sender is through with its frame, one way or another.
Leave(p) ==
  /\ Goto(p, "idle")
  /\ mbuf' = [mbuf EXCEPT ![p] = None]
  /\ mt' = [mt EXCEPT ![p] = None]
  /\ idx' = [idx EXCEPT ![p] = 0]

\* mwx_start has a frame to send.  Which buffer it is in makes no difference.
TakeFrame(p) ==
  /\ pc[p] = "idle"
  /\ Mbufs # live
  /\ mbuf' = [mbuf EXCEPT ![p] = CHOOSE m \in Mbufs : m \notin live]
  /\ live' = live \cup {mbuf'[p]}
  /\ Goto(p, "get")
  /\ UNCHANGED <<pool, ring, device, mt, idx, intr, history>>

\* The pool is empty: mwx_tx returns ENOBUFS, and mwx_start goes on to the next
\* frame without freeing this one.
NoTxwi(p) ==
  /\ pc[p] = "get"
  /\ free = <<>>
  /\ leaked' = leaked \cup {mbuf[p]}
  /\ Leave(p)
  /\ UNCHANGED <<pool, ring, device, live, intr, clash, stuck>>

\* mwx_txwi_get: LIST_FIRST, which another sender may have read and not yet
\* removed,
GetFirst(p) ==
  /\ pc[p] = "get"
  /\ free # <<>>
  /\ mt' = [mt EXCEPT ![p] = Head(free)]
  /\ Goto(p, "remove")
  /\ clash' = (clash \/ \E q \in Senders : pc[q] = "remove" /\ mt[q] = Head(free))
  /\ UNCHANGED <<pool, ring, device, live, mbuf, idx, intr, losses>>

\* then LIST_REMOVE and mt_busy = 1.
Unlink(p) ==
  /\ pc[p] = "remove"
  /\ free' = RemoveFirst(free, mt[p])
  /\ busy' = [busy EXCEPT ![mt[p]] = TRUE]
  /\ Goto(p, "load")
  /\ UNCHANGED <<mtMbuf, ring, device, live, mbuf, mt, idx, intr, history>>

\* mwx_txwi_enqueue cannot load the map, with or without m_defrag: mwx_tx
\* returns, and nobody gives back the TXWI or frees the frame.
LoadFails(p) ==
  /\ pc[p] = "load"
  /\ "load" \in Faults
  /\ stuck' = stuck \cup {mt[p]}
  /\ leaked' = leaked \cup {mbuf[p]}
  /\ Leave(p)
  /\ UNCHANGED <<pool, ring, device, live, intr, clash>>

\* mwx_txwi_enqueue: the TXWI describes the frame and owns it.
Load(p) ==
  /\ pc[p] = "load"
  /\ mtMbuf' = [mtMbuf EXCEPT ![mt[p]] = mbuf[p]]
  /\ Goto(p, "slot")
  /\ UNCHANGED <<free, busy, ring, device, live, mbuf, mt, idx, intr, history>>

\* mwx_dma_txwi_enqueue begins: idx = q->mq_prod.
Enqueueing(p) == pc[p] \in {"fill", "publish", "kick"}

TakeSlot(p) ==
  /\ pc[p] = "slot"
  /\ idx' = [idx EXCEPT ![p] = prod]
  /\ Goto(p, "fill")
  /\ clash' = (clash \/ \E q \in Senders : Enqueueing(q))
  /\ UNCHANGED <<pool, ring, device, live, mbuf, mt, intr, losses>>

\* No descriptor, EBUSY; the TXWI keeps its frame.
RingFull(p) ==
  /\ pc[p] = "fill"
  /\ 1 > FreeSlots
  /\ stuck' = stuck \cup {mt[p]}
  /\ Leave(p)
  /\ UNCHANGED <<pool, ring, device, live, intr, clash, leaked>>

\* It writes the descriptor, up to and with the KASSERT on the next index.
Fill(p) ==
  /\ pc[p] = "fill"
  /\ 1 <= FreeSlots
  /\ desc' = [desc EXCEPT ![idx[p]] = mt[p]]
  /\ idx' = [idx EXCEPT ![p] = Succ(idx[p])]
  /\ Goto(p, IF Succ(idx[p]) = cons THEN "panic" ELSE "publish")
  /\ UNCHANGED <<pool, prod, cons, cpuIdx, device, live, mbuf, mt, intr, history>>

\* q->mq_prod = idx
Publish(p) ==
  /\ pc[p] = "publish"
  /\ prod' = idx[p]
  /\ Goto(p, "kick")
  /\ UNCHANGED <<pool, cons, desc, cpuIdx, device, live, mbuf, mt, idx,
                 intr, history>>

\* Mutant: CPU_IDX is not written.
KickWithoutDoorbell(p) ==
  /\ pc[p] = "kick"
  /\ Leave(p)
  /\ UNCHANGED <<pool, ring, device, live, intr, history>>

\* Mutant: the sender frees the frame it has handed over.
KickFreesFrame(p) ==
  /\ pc[p] = "kick"
  /\ cpuIdx' = prod
  /\ live' = live \ {mbuf[p]}
  /\ Leave(p)
  /\ UNCHANGED <<pool, prod, cons, desc, device, intr, history>>

\* mwx_write(CPU_IDX, q->mq_prod)
Kick(p) ==
  /\ pc[p] = "kick"
  /\ cpuIdx' = prod
  /\ Leave(p)
  /\ UNCHANGED <<pool, prod, cons, desc, device, live, intr, history>>

Tx(p) ==
  \/ NoTxwi(p) \/ GetFirst(p) \/ Unlink(p) \/ LoadFails(p) \/ Load(p)
  \/ TakeSlot(p) \/ RingFull(p) \/ Fill(p) \/ Publish(p) \/ Kick(p)

----------------------------------------------------------------------------
(* The device and its firmware.                                            *)

DeviceFetch ==
  /\ dmaIdx # cpuIdx
  /\ fw' = fw \cup ({desc[dmaIdx]} \ {None})
  /\ dmaIdx' = Succ(dmaIdx)
  /\ UNCHANGED <<pool, ring, events, live, sender, intr, history>>

\* The frames of these TXWIs were sent, or given up.
FirmwareReports ==
  /\ Len(events) < MaxEvents
  /\ \E done \in SUBSET fw \ {{}} :
       /\ fw' = fw \ done
       /\ \E list \in SetToSeqs(done) : events' = Append(events, list)
  /\ UNCHANGED <<pool, ring, dmaIdx, live, sender, intr, history>>

----------------------------------------------------------------------------
(* The interrupt handler.                                                  *)

\* mwx_dma_tx_cleanup begins, for a TX done interrupt or for an event.
BeginCleanup ==
  /\ ipc = "idle"
  /\ \/ cons # dmaIdx /\ UNCHANGED <<ids, events>>
     \/ /\ events # <<>>
        /\ ids' = Head(events)
        /\ events' = Tail(events)
  /\ cidx' = cons /\ last' = dmaIdx
  /\ ipc' = "clean"
  /\ UNCHANGED <<pool, ring, dmaIdx, fw, live, sender, history>>

\* Mutant: the TXWI goes back with its descriptor.
CleanSlotPutsTxwi ==
  LET t == desc[cidx] IN
  /\ ipc = "clean" /\ cidx # last
  /\ IF t # None
     THEN /\ live' = live \ {mtMbuf[t]}
          /\ mtMbuf' = [mtMbuf EXCEPT ![t] = None]
          /\ busy' = [busy EXCEPT ![t] = FALSE]
          /\ free' = <<t>> \o free
     ELSE UNCHANGED <<pool, live>>
  /\ desc' = [desc EXCEPT ![cidx] = None]
  /\ cidx' = Succ(cidx)
  /\ last' = IF Succ(cidx) = last THEN dmaIdx ELSE last
  /\ UNCHANGED <<prod, cons, cpuIdx, device, sender, ipc, ids, history>>

\* One turn of the loop: the descriptor is cleared, the TXWI is not released.
CleanSlot ==
  /\ ipc = "clean" /\ cidx # last
  /\ desc' = [desc EXCEPT ![cidx] = None]
  /\ cidx' = Succ(cidx)
  /\ last' = IF Succ(cidx) = last THEN dmaIdx ELSE last
  /\ UNCHANGED <<pool, prod, cons, cpuIdx, device, live, sender, ipc, ids, history>>

\* q->mq_cons = idx.
StoreCons ==
  /\ ipc = "clean" /\ cidx = last
  /\ cons' = cidx
  /\ cidx' = 0 /\ last' = 0
  /\ UNCHANGED <<pool, prod, desc, cpuIdx, device, live, sender>>

\* mwx_mac_tx_free then looks at its event, if that is why it cleaned up.
EndCleanup ==
  /\ StoreCons
  /\ ipc' = IF ids = <<>> THEN "idle" ELSE "free"
  /\ UNCHANGED <<ids, history>>

\* m_pullup fails: the event is gone.
EventIsLost ==
  /\ StoreCons
  /\ ids # <<>> /\ "pullup" \in Faults
  /\ stuck' = stuck \cup ToSet(ids)
  /\ ids' = <<>>
  /\ ipc' = "idle"
  /\ UNCHANGED <<clash, leaked>>

\* mwx_txwi_put: the frame is freed and the TXWI is the first of the list.
Put(t) ==
  /\ live' = live \ {mtMbuf[t]}
  /\ mtMbuf' = [mtMbuf EXCEPT ![t] = None]
  /\ busy' = [busy EXCEPT ![t] = FALSE]
  /\ free' = <<t>> \o free

\* Mutant: only the first TXWI of an event is released.
FreeFirstOnly ==
  /\ ipc = "free"
  /\ IF busy[Head(ids)] THEN Put(Head(ids)) ELSE UNCHANGED <<pool, live>>
  /\ ids' = <<>>
  /\ ipc' = "idle"
  /\ UNCHANGED <<ring, device, sender, cidx, last, history>>

\* The next TXWI of the event; one that is not busy is skipped.
FreeNext ==
  /\ ipc = "free"
  /\ IF busy[Head(ids)] THEN Put(Head(ids)) ELSE UNCHANGED <<pool, live>>
  /\ ids' = Tail(ids)
  /\ ipc' = IF Len(ids) = 1 THEN "idle" ELSE "free"
  /\ UNCHANGED <<ring, device, sender, cidx, last, history>>

Interrupt ==
  BeginCleanup \/ CleanSlot \/ EndCleanup \/ EventIsLost \/ FreeNext

----------------------------------------------------------------------------
(* mwx_dma_reset: the data ring starts again, and so do the receive rings  *)
(* the events come by.  The buffers of the ring's slots are freed, but a   *)
(* TXWI's frame is not one of them, and no TXWI goes back to the pool.     *)
(* Senders and the interrupt handler are taken to be out of the way, which *)
(* mwx_dma_reset does not see to (see the README).                         *)

Outstanding == {t \in Txwis : busy[t]}

DmaReset ==
  /\ "reset" \in Faults
  /\ ipc = "idle" /\ \A p \in Senders : pc[p] = "idle"
  /\ prod' = 0 /\ cons' = 0 /\ cpuIdx' = 0 /\ dmaIdx' = 0
  /\ desc' = [s \in Slots |-> None]
  /\ fw' = {} /\ events' = <<>>
  /\ stuck' = Outstanding
  /\ UNCHANGED <<pool, live, sender, intr, clash, leaked>>

Next ==
  \/ \E p \in Senders : TakeFrame(p) \/ Tx(p)
  \/ DeviceFetch
  \/ FirmwareReports
  \/ Interrupt
  \/ DmaReset

Spec == Init /\ [][Next]_vars

(***************************************************************************)
(* Fairness.  A sender finishes what it began, the device fetches what is  *)
(* posted, the firmware reports every TXWI in the end (strongly fair: that *)
(* an event is on its way holds it back only for a while), and what they   *)
(* do raises an interrupt, whose handler runs to its end.  That there are  *)
(* frames to send is not assumed.                                          *)
(***************************************************************************)
FirmwareReportsOne(t) == t \in fw /\ FirmwareReports /\ t \notin fw'

Fairness ==
  /\ \A p \in Senders : WF_vars(Tx(p))
  /\ WF_vars(DeviceFetch)
  /\ \A t \in Txwis : SF_vars(FirmwareReportsOne(t))
  /\ WF_vars(Interrupt)

FairSpec == Spec /\ Fairness

----------------------------------------------------------------------------
(* Properties.                                                             *)

TypeOK ==
  /\ free \in Seq(Txwis)
  /\ busy \in [Txwis -> BOOLEAN]
  /\ mtMbuf \in [Txwis -> Mbufs \cup {None}]
  /\ prod \in Slots /\ cons \in Slots /\ cpuIdx \in Slots /\ dmaIdx \in Slots
  /\ desc \in [Slots -> Txwis \cup {None}]
  /\ fw \subseteq Txwis /\ events \in Seq(Seq(Txwis))
  /\ live \subseteq Mbufs
  /\ pc \in [Senders -> {"idle", "get", "remove", "load", "slot", "fill",
                         "publish", "kick", "panic"}]
  /\ mbuf \in [Senders -> Mbufs \cup {None}]
  /\ mt \in [Senders -> Txwis \cup {None}]
  /\ idx \in [Senders -> Slots]
  /\ ipc \in {"idle", "clean", "free"}
  /\ cidx \in Slots /\ last \in Slots /\ ids \in Seq(Txwis)
  /\ clash \in BOOLEAN /\ stuck \subseteq Txwis /\ leaked \subseteq Mbufs

\* The TXWIs in a sender's hand, in the ring and not yet fetched, and named by
\* an event that was not read to its end.
InHand == {mt[p] : p \in {q \in Senders : pc[q] \in {"load", "slot", "fill"}}}
Posted ==
  {desc[s] : s \in Span(dmaIdx, prod)}
    \cup {mt[p] : p \in {q \in Senders : pc[q] = "publish"}}
Reported == ToSet(ids) \cup UNION {ToSet(events[i]) : i \in DOMAIN events}

\* Until two senders clash, a TXWI is not handed out again while anything still
\* uses it: what is in the pool is there once, has no frame, and is neither
\* posted, nor with the firmware, nor named by an event on its way, although the
\* descriptor comes back before the event and events name TXWIs in any order.
PoolIsUnused ==
  \/ clash
  \/ /\ IsInjective(free)
     /\ \A t \in ToSet(free) :
          /\ ~busy[t] /\ mtMbuf[t] = None
          /\ t \notin InHand \cup Posted \cup fw \cup Reported

\* Until two senders clash, what the device may read is there: every TXWI that
\* is posted or with the firmware has a frame of its own, and the frame is
\* allocated.
DeviceReadsLiveFrames ==
  \/ clash
  \/ /\ None \notin Posted
     /\ \A t \in Posted \cup fw :
          /\ mtMbuf[t] \in live
          /\ \A u \in Txwis : mtMbuf[u] = mtMbuf[t] => u = t

\* Nothing is lost but where the code is known to lose it: a TXWI is in the
\* pool, in one place on its way around, or stuck after a failed mwx_tx, a lost
\* event or a reset; an mbuf is in a sender's hand, owned by a TXWI, or leaked
\* by a failed mwx_tx.  Two senders that clash lose more.
OnlyFailuresLeak ==
  \/ clash
  \/ /\ Outstanding = InHand \cup Posted \cup fw \cup Reported \cup stuck
     /\ ToSet(free) = Txwis \ Outstanding
     /\ live = leaked
               \cup {mbuf[p] : p \in {q \in Senders : pc[q] \in {"get", "remove", "load"}}}
               \cup ({mtMbuf[t] : t \in Txwis} \ {None})

\* A frame that the device was given is freed in the end, with its TXWI, or the
\* TXWI is stuck because the event was lost or the device was reset, or two
\* senders clashed.
SentFramesAreFreed ==
  \A t \in Txwis : busy[t] ~> ~busy[t] \/ t \in stuck \/ clash

\* The runs follow the senders up to the first clash: what the properties say
\* ends there, and a clash stays.
UntilClash == ~clash

=============================================================================
