----------------------------- MODULE MwxTxRing -----------------------------
(***************************************************************************)
(* A transmit descriptor ring of SimpleMtkWlan/hal_mwx/MtkMwx.cpp: the     *)
(* producers in mwx_mcu_send_mbuf / mwx_dma_tx_enqueue, the device that    *)
(* fetches descriptors, and mwx_dma_tx_cleanup, which the interrupt        *)
(* handler (and, for the firmware ring, mwx_mcu_send_firmware) runs.       *)
(* splnet() is a stub in this port (net80211/timeout.c), so nothing        *)
(* excludes these from each other.  Steps are cut between the accesses to  *)
(* what another thread or the device may touch at that time.               *)
(*                                                                         *)
(* The device is external.  It fetches descriptors from its own position   *)
(* devIdx up to CPU_IDX, and writes DMA_IDX back once it has fetched the   *)
(* last descriptor of a frame, or, if IdxPerDesc, after every descriptor.  *)
(***************************************************************************)
EXTENDS RingIndex, FiniteSets, Sequences

CONSTANTS
  Producers,   \* the threads that enqueue on this ring
  Cleaners,    \* the threads that run mwx_dma_tx_cleanup on it
  Mbufs,       \* the messages that exist at one time
  MaxSegs,     \* MT_MAX_SCATTER: a loaded DMA map has 1..MaxSegs segments
  IdxPerDesc,  \* does the device report DMA_IDX in the middle of a frame?
  None         \* no mbuf

ASSUME SegsAssumption == MaxSegs \in Nat \ {0}
ASSUME DeviceAssumption == IdxPerDesc \in BOOLEAN
ASSUME NoneAssumption == None \notin Mbufs

VARIABLES
  prod,     \* mq_prod
  cons,     \* mq_cons
  mdMbuf,   \* mq_data[i].md_mbuf
  map,      \* mq_data[i].md_map: the producer whose mbuf was loaded into it
            \* last, while it enqueues; None: the addresses of an old load
  desc,     \* mq_desc[i]: the mbuf it points into (None: no known one), whether
            \* it is the last of its frame, and DMA_DONE
  cpuIdx,   \* register MT_DMA_CPU_IDX
  dmaIdx,   \* register MT_DMA_DMA_IDX
  devIdx,   \* the next descriptor the device fetches
  wakeme,   \* mq_wakeme
  live,     \* the mbufs that are allocated
  pc,       \* where each producer is in mwx_mcu_send_mbuf
  mbuf,     \* the mbuf it is sending
  idx,      \* its local idx in mwx_dma_tx_enqueue
  segs,     \* the segments of its map it has still to write
  cpc,      \* where each cleaner is in mwx_dma_tx_cleanup
  cidx,     \* its local idx
  last,     \* its local last
  raced     \* history: two producers, or two cleaners, were in the ring at once

ring == <<prod, cons, mdMbuf, map, desc, cpuIdx, wakeme>>
device == <<dmaIdx, devIdx>>
producer == <<pc, mbuf, idx, segs>>
cleaner == <<cpc, cidx, last>>
vars == <<ring, device, live, producer, cleaner, raced>>

Descs == [buf : Mbufs \cup {None}, last : BOOLEAN, done : BOOLEAN]

\* MT_DMA_CTL_DMA_DONE, buf0 = 0
Done == [buf |-> None, last |-> FALSE, done |-> TRUE]

\* mwx_dma_free_slots: all operands are below Count, so nothing wraps before
\* the final remainder.
FreeSlots == (Count - 1 + cons - prod) % Count

\* The descriptors a map of n segments takes: two segments each.
DescsOfRoundedDown(n) == n \div 2
DescsOf(n) == (n + 1) \div 2

----------------------------------------------------------------------------
(* The states the ring is in after mwx_queue_alloc.                        *)

EmptyRing ==
  /\ prod = 0 /\ cons = 0
  /\ mdMbuf = [s \in Slots |-> None]
  /\ map = [s \in Slots |-> None]
  /\ desc = [s \in Slots |-> Done]
  /\ cpuIdx = 0 /\ dmaIdx = 0 /\ devIdx = 0

Init ==
  /\ EmptyRing
  /\ wakeme = FALSE
  /\ live = {}
  /\ pc = [p \in Producers |-> "idle"]
  /\ mbuf = [p \in Producers |-> None]
  /\ idx = [p \in Producers |-> 0]
  /\ segs = [p \in Producers |-> 0]
  /\ cpc = [c \in Cleaners |-> "idle"]
  /\ cidx = [c \in Cleaners |-> 0]
  /\ last = [c \in Cleaners |-> 0]
  /\ raced = FALSE

----------------------------------------------------------------------------
(* The producers: mwx_mcu_send_mbuf and the mwx_dma_tx_enqueue it calls.   *)

\* mwx_mcu_alloc_msg: the caller has a message to send, and is not in the
\* cleanup that mwx_mcu_send_firmware calls between two messages.
AllocMsg(p) ==
  /\ pc[p] = "idle"
  /\ p \in Cleaners => cpc[p] = "idle"
  /\ \E m \in Mbufs \ live :
       /\ live' = live \cup {m}
       /\ mbuf' = [mbuf EXCEPT ![p] = m]
  /\ pc' = [pc EXCEPT ![p] = "enqueue"]
  /\ UNCHANGED <<ring, device, idx, segs, cleaner, raced>>

\* p is between its reading of mq_prod and the doorbell.
Enqueueing(p) == pc[p] \in {"load", "fill", "kick"}

\* mwx_dma_tx_enqueue: idx = q->mq_prod, and the map of that slot is loaded.
BeginEnqueue(p) ==
  /\ pc[p] = "enqueue"
  /\ idx' = [idx EXCEPT ![p] = prod]
  /\ map' = [map EXCEPT ![prod] = p]
  /\ pc' = [pc EXCEPT ![p] = "load"]
  /\ raced' = (raced \/ \E q \in Producers \ {p} : Enqueueing(q))
  /\ UNCHANGED <<prod, cons, mdMbuf, desc, cpuIdx, wakeme, device, live, mbuf,
                 segs, cleaner>>

\* The maps when p's load is over: what it left behind is stale.
MapsWithout(p) == [s \in Slots |-> IF map[s] = p THEN None ELSE map[s]]

\* The map cannot be loaded, with or without m_defrag: the caller frees m.
LoadFails(p) ==
  /\ pc[p] = "load"
  /\ map' = MapsWithout(p)
  /\ live' = live \ {mbuf[p]}
  /\ mbuf' = [mbuf EXCEPT ![p] = None]
  /\ pc' = [pc EXCEPT ![p] = "idle"]
  /\ UNCHANGED <<prod, cons, mdMbuf, desc, cpuIdx, wakeme, device, idx, segs,
                 cleaner, raced>>

\* Too few descriptors: mwx_dma_tx_enqueue unloads the map, returns EBUSY.
RingFull(p) ==
  /\ pc[p] = "load"
  /\ \E n \in 1..MaxSegs : DescsOf(n) > FreeSlots
  /\ map' = MapsWithout(p)
  /\ pc' = [pc EXCEPT ![p] = "busy"]
  /\ UNCHANGED <<prod, cons, mdMbuf, desc, cpuIdx, wakeme, device, live, mbuf,
                 idx, segs, cleaner, raced>>

\* Enough descriptors: the first one keeps the mbuf for the cleanup.
RingHasRoom(p) ==
  /\ pc[p] = "load"
  /\ \E n \in 1..MaxSegs :
       /\ DescsOf(n) <= FreeSlots
       /\ segs' = [segs EXCEPT ![p] = n]
  /\ mdMbuf' = [mdMbuf EXCEPT ![idx[p]] = mbuf[p]]
  /\ pc' = [pc EXCEPT ![p] = "fill"]
  /\ UNCHANGED <<prod, cons, map, desc, cpuIdx, wakeme, device, live, mbuf, idx,
                 cleaner, raced>>

\* One turn of the loop over the segments, up to and with the KASSERT that
\* the next index has not met mq_cons.  The loop moves md on with idx: from the
\* third segment on, addresses are read from the map of the next slot, which was
\* not loaded for this mbuf.
FillDesc(p) ==
  /\ pc[p] = "fill"
  /\ segs[p] > 0
  /\ desc' = [desc EXCEPT ![idx[p]] =
                [buf |-> IF map[idx[p]] = p THEN mbuf[p] ELSE None,
                 last |-> segs[p] <= 2,
                 done |-> FALSE]]
  /\ idx' = [idx EXCEPT ![p] = Succ(idx[p])]
  /\ segs' = [segs EXCEPT ![p] = IF segs[p] <= 2 THEN 0 ELSE segs[p] - 2]
  /\ pc' = [pc EXCEPT ![p] = IF Succ(idx[p]) = cons THEN "panic" ELSE "fill"]
  /\ UNCHANGED <<prod, cons, mdMbuf, map, cpuIdx, wakeme, device, live, mbuf,
                 cleaner, raced>>

\* q->mq_prod = idx, after the last turn of the loop.
PublishProd(p) ==
  /\ pc[p] = "fill"
  /\ segs[p] = 0
  /\ prod' = idx[p]
  /\ pc' = [pc EXCEPT ![p] = "kick"]
  /\ UNCHANGED <<cons, mdMbuf, map, desc, cpuIdx, wakeme, device, live, mbuf, idx,
                 segs, cleaner, raced>>

\* Mutant: CPU_IDX is not written.
KickWithoutDoorbell(p) ==
  /\ pc[p] = "kick"
  /\ pc' = [pc EXCEPT ![p] = "idle"]
  /\ mbuf' = [mbuf EXCEPT ![p] = None]
  /\ map' = MapsWithout(p)
  /\ UNCHANGED <<prod, cons, mdMbuf, desc, cpuIdx, wakeme, device, live, idx, segs,
                 cleaner, raced>>

\* mwx_write(CPU_IDX, q->mq_prod): the device owns the frame from here on.
Kick(p) ==
  /\ pc[p] = "kick"
  /\ cpuIdx' = prod
  /\ map' = MapsWithout(p)
  /\ pc' = [pc EXCEPT ![p] = "idle"]
  /\ mbuf' = [mbuf EXCEPT ![p] = None]
  /\ UNCHANGED <<prod, cons, mdMbuf, desc, wakeme, device, live, idx, segs,
                 cleaner, raced>>

\* q->mq_wakeme = 1, then the sender sleeps.
GoToSleep(p) ==
  /\ pc[p] = "busy"
  /\ wakeme' = TRUE
  /\ pc' = [pc EXCEPT ![p] = "sleep"]
  /\ UNCHANGED <<prod, cons, mdMbuf, map, desc, cpuIdx, device, live, mbuf, idx,
                 segs, cleaner, raced>>

\* Mutant: tsleep with INFSLP.
SleepWithoutTimeout(p) == FALSE /\ UNCHANGED vars

\* The 100 ms of tsleep_nsec are over: try again.
SleepTimeout(p) ==
  /\ pc[p] = "sleep"
  /\ pc' = [pc EXCEPT ![p] = "enqueue"]
  /\ UNCHANGED <<ring, device, live, mbuf, idx, segs, cleaner, raced>>

Produce(p) ==
  \/ AllocMsg(p) \/ BeginEnqueue(p) \/ LoadFails(p) \/ RingFull(p)
  \/ RingHasRoom(p) \/ FillDesc(p) \/ PublishProd(p) \/ Kick(p)
  \/ GoToSleep(p) \/ SleepTimeout(p)

----------------------------------------------------------------------------
(* The device.                                                             *)

\* It fetches the next descriptor and, at the end of a frame, reports it.
DeviceFetch ==
  /\ devIdx # cpuIdx
  /\ devIdx' = Succ(devIdx)
  /\ dmaIdx' = IF desc[devIdx].last \/ IdxPerDesc THEN devIdx' ELSE dmaIdx
  /\ UNCHANGED <<ring, live, producer, cleaner, raced>>

----------------------------------------------------------------------------
(* mwx_dma_tx_cleanup.                                                     *)

\* Mutant: CPU_IDX for DMA_IDX.
BeginCleanupAtCpuIdx(c) ==
  /\ cpc[c] = "idle"
  /\ c \in Producers => pc[c] = "idle"
  /\ cons # cpuIdx
  /\ cidx' = [cidx EXCEPT ![c] = cons]
  /\ last' = [last EXCEPT ![c] = cpuIdx]
  /\ cpc' = [cpc EXCEPT ![c] = "clean"]
  /\ raced' = (raced \/ \E d \in Cleaners \ {c} : cpc[d] = "clean")
  /\ UNCHANGED <<ring, device, live, producer>>

\* Read mq_cons and DMA_IDX; return at once if there is nothing to do.
BeginCleanup(c) ==
  /\ cpc[c] = "idle"
  /\ c \in Producers => pc[c] = "idle"
  /\ cons # dmaIdx
  /\ cidx' = [cidx EXCEPT ![c] = cons]
  /\ last' = [last EXCEPT ![c] = dmaIdx]
  /\ cpc' = [cpc EXCEPT ![c] = "clean"]
  /\ raced' = (raced \/ \E d \in Cleaners \ {c} : cpc[d] = "clean")
  /\ UNCHANGED <<ring, device, live, producer>>

\* Mutant: md_mbuf is not reset.
CleanSlotKeepsPointer(c) ==
  /\ cpc[c] = "clean"
  /\ cidx[c] # last[c]
  /\ live' = live \ {mdMbuf[cidx[c]]}
  /\ desc' = [desc EXCEPT ![cidx[c]] = Done]
  /\ cidx' = [cidx EXCEPT ![c] = Succ(cidx[c])]
  /\ last' = [last EXCEPT ![c] = IF Succ(cidx[c]) = last[c] THEN dmaIdx ELSE @]
  /\ UNCHANGED <<prod, cons, mdMbuf, map, cpuIdx, wakeme, device, producer, cpc,
                 raced>>

\* Mutant: CPU_IDX for DMA_IDX when it looks again.
CleanSlotReadsCpuIdx(c) ==
  /\ cpc[c] = "clean"
  /\ cidx[c] # last[c]
  /\ live' = live \ {mdMbuf[cidx[c]]}
  /\ mdMbuf' = [mdMbuf EXCEPT ![cidx[c]] = None]
  /\ desc' = [desc EXCEPT ![cidx[c]] = Done]
  /\ cidx' = [cidx EXCEPT ![c] = Succ(cidx[c])]
  /\ last' = [last EXCEPT ![c] = IF Succ(cidx[c]) = last[c] THEN cpuIdx ELSE @]
  /\ UNCHANGED <<prod, cons, map, cpuIdx, wakeme, device, producer, cpc, raced>>

\* One turn of the loop: release the slot's mbuf, clear the descriptor, and
\* look at DMA_IDX again when the end seen so far is reached.
CleanSlot(c) ==
  /\ cpc[c] = "clean"
  /\ cidx[c] # last[c]
  /\ live' = live \ {mdMbuf[cidx[c]]}
  /\ mdMbuf' = [mdMbuf EXCEPT ![cidx[c]] = None]
  /\ desc' = [desc EXCEPT ![cidx[c]] = Done]
  /\ cidx' = [cidx EXCEPT ![c] = Succ(cidx[c])]
  /\ last' = [last EXCEPT ![c] = IF Succ(cidx[c]) = last[c] THEN dmaIdx ELSE @]
  /\ UNCHANGED <<prod, cons, map, cpuIdx, wakeme, device, producer, cpc, raced>>

\* mq_cons = idx, and wake up the senders that found the ring full.  A sender
\* that sets mq_wakeme between the two is like one that comes too late: it waits
\* for its timeout.
EndCleanup(c) ==
  /\ cpc[c] = "clean"
  /\ cidx[c] = last[c]
  /\ cons' = cidx[c]
  /\ wakeme' = FALSE
  /\ pc' = [p \in Producers |->
              IF wakeme /\ pc[p] = "sleep" THEN "enqueue" ELSE pc[p]]
  /\ cpc' = [cpc EXCEPT ![c] = "idle"]
  /\ UNCHANGED <<prod, mdMbuf, map, desc, cpuIdx, device, live, mbuf, idx, segs,
                 cidx, last, raced>>

Clean(c) == BeginCleanup(c) \/ CleanSlot(c) \/ EndCleanup(c)

----------------------------------------------------------------------------
(* mwx_queue_reset, from mwx_dma_reset: DMA is disabled, the thread that   *)
(* initialises the hardware is the only one that sends, and no cleanup is  *)
(* running (mwx_dma_reset waits for neither; see the README).              *)

\* Mutant: CPU_IDX is not written.
QueueResetKeepsCpuIdx ==
  /\ \A p \in Producers : pc[p] = "idle"
  /\ \A c \in Cleaners : cpc[c] = "idle"
  /\ prod' = 0 /\ cons' = 0 /\ dmaIdx' = 0 /\ devIdx' = 0
  /\ desc' = [s \in Slots |-> Done]
  /\ live' = live \ {mdMbuf[s] : s \in Slots}
  /\ mdMbuf' = [s \in Slots |-> None]
  /\ UNCHANGED <<map, cpuIdx, wakeme, producer, cleaner, raced>>

QueueReset ==
  /\ \A p \in Producers : pc[p] = "idle"
  /\ \A c \in Cleaners : cpc[c] = "idle"
  /\ prod' = 0 /\ cons' = 0 /\ cpuIdx' = 0 /\ dmaIdx' = 0 /\ devIdx' = 0
  /\ desc' = [s \in Slots |-> Done]
  /\ live' = live \ {mdMbuf[s] : s \in Slots}
  /\ mdMbuf' = [s \in Slots |-> None]
  /\ UNCHANGED <<map, wakeme, producer, cleaner, raced>>

Next ==
  \/ \E p \in Producers : Produce(p)
  \/ \E c \in Cleaners : Clean(c)
  \/ DeviceFetch
  \/ QueueReset

Spec == Init /\ [][Next]_vars

(***************************************************************************)
(* Fairness.  A thread that has something to do and is not asleep is       *)
(* eventually run, the msleep timer of a sleeper goes off, the device      *)
(* keeps fetching what is posted, and every completion raises an           *)
(* interrupt, whose handler runs mwx_dma_tx_done.  That a caller sends     *)
(* anything, and that the ring is reset, is not assumed.                   *)
(***************************************************************************)
Fairness ==
  /\ \A p \in Producers :
       WF_vars(BeginEnqueue(p) \/ LoadFails(p) \/ RingFull(p) \/ RingHasRoom(p)
               \/ FillDesc(p) \/ PublishProd(p) \/ Kick(p) \/ GoToSleep(p)
               \/ SleepTimeout(p))
  /\ \A c \in Cleaners : WF_vars(Clean(c))
  /\ WF_vars(DeviceFetch)

FairSpec == Spec /\ Fairness

----------------------------------------------------------------------------
(* Properties.                                                             *)

TypeOK ==
  /\ prod \in Slots /\ cons \in Slots
  /\ cpuIdx \in Slots /\ dmaIdx \in Slots /\ devIdx \in Slots
  /\ mdMbuf \in [Slots -> Mbufs \cup {None}]
  /\ map \in [Slots -> Producers \cup {None}]
  /\ desc \in [Slots -> Descs]
  /\ wakeme \in BOOLEAN
  /\ live \subseteq Mbufs
  /\ pc \in [Producers ->
       {"idle", "enqueue", "load", "fill", "kick", "busy", "sleep", "panic"}]
  /\ mbuf \in [Producers -> Mbufs \cup {None}]
  /\ idx \in [Producers -> Slots]
  /\ segs \in [Producers -> 0..MaxSegs]
  /\ cpc \in [Cleaners -> {"idle", "clean"}]
  /\ cidx \in [Cleaners -> Slots]
  /\ last \in [Cleaners -> Slots]
  /\ raced \in BOOLEAN

(* The code keeps neither two producers nor two cleaners out of one ring,  *)
(* and nothing holds once that has happened: the safety properties say     *)
(* what holds until then, whichever threads come and go.                   *)

\* Bound of the run: behaviours are followed up to the first race.
UntilRaced == ~raced

\* KASSERT(idx != q->mq_cons) of mwx_dma_tx_enqueue never fires, although
\* mq_cons moves under the producer's feet and free slots were counted before.
NoPanic == \A p \in Producers : pc[p] # "panic"
KassertHolds == raced \/ NoPanic

\* The indices never overtake each other: seen from mq_cons, DMA_IDX, the
\* device, CPU_IDX, mq_prod and the index a producer is filling come in this
\* order, and so do the local variables of a cleanup in progress.
DeviceOrder ==
  /\ Dist(cons, dmaIdx) <= Dist(cons, devIdx)
  /\ Dist(cons, devIdx) <= Dist(cons, cpuIdx)
  /\ Dist(cons, cpuIdx) <= Dist(cons, prod)

FillOrder ==
  \A p \in Producers : pc[p] = "fill" =>
    /\ Dist(cons, prod) <= Dist(cons, idx[p])
    /\ Dist(cons, idx[p]) + DescsOf(segs[p]) <= Count - 1

CleanOrder ==
  \A c \in Cleaners : cpc[c] = "clean" =>
    /\ Dist(cons, cidx[c]) <= Dist(cons, last[c])
    /\ Dist(cons, last[c]) <= Dist(cons, dmaIdx)

IndicesOrdered == raced \/ (DeviceOrder /\ FillOrder /\ CleanOrder)

\* Slots t and s are of one frame, and t is not behind s.
SameFrame(t, s) ==
  /\ Dist(cons, t) <= Dist(cons, s)
  /\ \A u \in Slots :
       Dist(cons, t) <= Dist(cons, u) /\ Dist(cons, u) < Dist(cons, s)
         => ~desc[u].last

\* The device never fetches a cleared descriptor, nor one of a frame that has
\* been freed, and the first descriptor of a frame points into its mbuf.
DeviceSeesLiveFrames ==
  raced \/ \A s \in Span(devIdx, cpuIdx) :
    /\ ~desc[s].done
    /\ \E t \in Slots : SameFrame(t, s) /\ mdMbuf[t] \in live
    /\ mdMbuf[s] # None => desc[s].buf = mdMbuf[s]

\* The mbufs the producers have in hand and have not put into the ring.
Hands == {"enqueue", "load", "busy", "sleep"}
InHand == {mbuf[p] : p \in {q \in Producers : pc[q] \in Hands}}

\* Every allocated mbuf is in the hands of one producer or in one slot of the
\* ring, and a slot never keeps an mbuf that was freed: nothing leaks and
\* nothing is freed twice.
EachMbufOnce ==
  /\ live = InHand \cup ({mdMbuf[s] : s \in Slots} \ {None})
  /\ \A s, t \in Slots : mdMbuf[s] = mdMbuf[t] /\ mdMbuf[s] # None => s = t
  /\ \A s \in Slots : mdMbuf[s] \notin InHand
  /\ \A p, q \in Producers :
       pc[p] \in Hands /\ pc[q] \in Hands /\ mbuf[p] = mbuf[q] => p = q
MbufsConserved == raced \/ EachMbufOnce

\* The slots from a up to, not including, b whose md_mbuf is set: the first
\* slots of the frames there.
HeadsIn(md, a, b) == {s \in Span(a, b) : md[s] # None}

\* The same in ring order.
HeadsInOrder(md, a, b) ==
  CHOOSE h \in [1..Cardinality(HeadsIn(md, a, b)) -> HeadsIn(md, a, b)] :
    \A i, j \in DOMAIN h : i < j => Dist(a, h[i]) < Dist(a, h[j])

\* The frames whose first slot lies from a up to, not including, b.
FramesIn(md, a, b) ==
  LET h == HeadsInOrder(md, a, b) IN [i \in DOMAIN h |-> md[h[i]]]

\* Where the cleanup is, or will start.
CleanPos ==
  IF \E c \in Cleaners : cpc[c] = "clean"
  THEN cidx[CHOOSE c \in Cleaners : cpc[c] = "clean"]
  ELSE cons

\* A frame is posted by the CPU_IDX write, fetched when DMA_IDX passes its first
\* slot, and released when the cleanup clears that slot.
Fifo == INSTANCE MwxTxFifo WITH
          Frame <- Mbufs,
          Capacity <- Count - 1,
          posted <- FramesIn(mdMbuf, dmaIdx, cpuIdx),
          fetched <- FramesIn(mdMbuf, CleanPos, dmaIdx)

\* The descriptor ring is a FIFO: no frame is fetched out of order, twice or
\* never posted, and none is released before it was fetched.
FifoRefined == Fifo!FifoInit /\ [][Fifo!FifoNext \/ raced']_Fifo!vars

\* A frame that was put into the ring is released in the end: the ring drains.
InRing(m) == \E s \in Slots : mdMbuf[s] = m
FramesAreReleased == \A m \in Mbufs : InRing(m) ~> ~InRing(m) \/ raced

\* A sender that found the ring full gets its message out: nobody sleeps and
\* retries for ever, but while others take the slots that come free.
BusySenderGetsOut ==
  \A p \in Producers :
    pc[p] = "busy" ~>
      pc[p] = "idle" \/ raced \/ \E q \in Producers \ {p} : Enqueueing(q)

=============================================================================
