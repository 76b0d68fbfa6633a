----------------------------- MODULE MwxRxRing -----------------------------
(***************************************************************************)
(* A receive descriptor ring of SimpleMtkWlan/hal_mwx/MtkMwx.cpp.  The     *)
(* interrupt handler runs mwx_dma_rx_done: mwx_dma_rx_dequeue takes the    *)
(* filled buffers out and chains those of one frame, mwx_queue_fill posts  *)
(* new ones, mwx_dma_rx_process hands the frames on.  mwx_dma_reset        *)
(* empties the ring and fills it again.  One thread at a time runs these   *)
(* (the handler is taken to be out of the way during a reset, which        *)
(* mwx_dma_reset does not see to); the device runs alongside.              *)
(*                                                                         *)
(* The device is external.  It writes frames of one or more buffers, from  *)
(* its own position devIdx up to CPU_IDX, and writes DMA_IDX at the end of *)
(* a frame or, if IdxPerDesc, after every buffer.                          *)
(***************************************************************************)
EXTENDS RingIndex, Sequences, FiniteSets, SequencesExt

CONSTANTS
  Mbufs,       \* the receive buffers that exist at one time
  MaxBufs,     \* a frame is in 1..MaxBufs buffers
  MaxFrames,   \* frames are told apart by their number modulo this
  IdxPerDesc,  \* does the device report DMA_IDX in the middle of a frame?
  Faults,      \* what may happen: "nomem", "reset"
  None         \* no mbuf

ASSUME BufsAssumption == MaxBufs \in Nat \ {0}
ASSUME FramesAssumption == MaxFrames \in Nat /\ MaxFrames >= Count
ASSUME DeviceAssumption == IdxPerDesc \in BOOLEAN
ASSUME FaultsAssumption == Faults \subseteq {"nomem", "reset"}
ASSUME NoneAssumption == None \notin Mbufs

VARIABLES
  prod,    \* mq_prod
  cons,    \* mq_cons
  mdMbuf,  \* mq_data[i].md_mbuf
  buf0,    \* mq_desc[i].buf0: the buffer it is the address of
  isLast,  \* MT_DMA_CTL_LAST_SEC0 of mq_desc[i].ctrl
  cpuIdx,  \* register MT_DMA_CPU_IDX
  dmaIdx,  \* register MT_DMA_DMA_IDX
  devIdx,  \* the next descriptor the device writes
  frame,   \* the number of the frame it writes
  part,    \* the buffers of this frame that it has written
  content, \* what it wrote to a buffer: frame, part, and whether it ends there
  live,    \* the mbufs that are allocated and not yet handed on
  pc,      \* where the driver is
  idx,     \* the local idx of mwx_dma_rx_dequeue or mwx_queue_fill
  last,    \* the local last
  m0,      \* the chain that is being put together
  ml,      \* the frames that are dequeued and not yet handed on
  failed,  \* the result of the last mwx_queue_fill, which nobody looks at
  leaked   \* history: the mbufs whose slot was filled again

ring == <<prod, cons, mdMbuf, buf0, cpuIdx>>
device == <<dmaIdx, devIdx, frame, part, content>>
driver == <<pc, idx, last, m0, ml, failed>>
vars == <<ring, isLast, device, live, driver, leaked>>

Parts == [frame : 0..(MaxFrames - 1), part : 1..MaxBufs, end : BOOLEAN]


\* mwx_queue_fill fills up to the slot before mq_cons.
FillsEverySlot == cons
FillEnd == (Count + cons - 1) % Count

\* What was in these mbufs is gone.
Forget(mbufs) == [m \in Mbufs |-> IF m \in mbufs THEN None ELSE content[m]]

\* mwx_queue_alloc and mwx_queue_reset leave the ring empty; then it is filled.
StartFilling ==
  /\ pc' = "fill" /\ idx' = 0 /\ last' = Count - 1

Init ==
  /\ prod = 0 /\ cons = 0 /\ cpuIdx = 0 /\ dmaIdx = 0 /\ devIdx = 0
  /\ mdMbuf = [s \in Slots |-> None]
  /\ buf0 = [s \in Slots |-> None]
  /\ isLast = [s \in Slots |-> FALSE]
  /\ frame = 0 /\ part = 0
  /\ content = [m \in Mbufs |-> None]
  /\ live = {} /\ leaked = {}
  /\ pc = "fill" /\ idx = 0 /\ last = Count - 1
  /\ m0 = <<>> /\ ml = <<>> /\ failed = FALSE

----------------------------------------------------------------------------
(* The device.                                                             *)

\* It writes one buffer, the last of a frame or not.
DeviceWrite ==
  /\ devIdx # cpuIdx
  /\ \E end \in BOOLEAN :
       /\ part + 1 = MaxBufs => end
       /\ content' = [content EXCEPT ![buf0[devIdx]] =
                        [frame |-> frame, part |-> part + 1, end |-> end]]
       /\ isLast' = [isLast EXCEPT ![devIdx] = end]
       /\ part' = IF end THEN 0 ELSE part + 1
       /\ frame' = IF end THEN (frame + 1) % MaxFrames ELSE frame
       /\ dmaIdx' = IF end \/ IdxPerDesc THEN Succ(devIdx) ELSE dmaIdx
  /\ devIdx' = Succ(devIdx)
  /\ UNCHANGED <<ring, live, driver, leaked>>

----------------------------------------------------------------------------
(* mwx_dma_rx_dequeue.                                                     *)

\* An interrupt: read mq_cons and DMA_IDX.  If they are equal there is nothing
\* to take, and mwx_dma_rx_done returns without a refill.
BeginDequeue ==
  /\ pc = "idle"
  /\ cons # dmaIdx
  /\ idx' = cons /\ last' = dmaIdx
  /\ pc' = "dequeue"
  /\ UNCHANGED <<ring, isLast, device, live, m0, ml, failed, leaked>>

\* Mutant: the slot keeps its pointer.
DequeueKeepsPointer ==
  /\ pc = "dequeue" /\ idx # last
  /\ LET chain == Append(m0, mdMbuf[idx]) IN
     IF isLast[idx] THEN ml' = Append(ml, chain) /\ m0' = <<>>
                    ELSE m0' = chain /\ UNCHANGED ml
  /\ idx' = Succ(idx)
  /\ last' = IF Succ(idx) = last THEN dmaIdx ELSE last
  /\ UNCHANGED <<ring, isLast, device, live, pc, failed, leaked>>

\* Mutant: every buffer is taken for a frame.
DequeueIgnoresLast ==
  /\ pc = "dequeue" /\ idx # last
  /\ ml' = Append(ml, <<mdMbuf[idx]>>)
  /\ mdMbuf' = [mdMbuf EXCEPT ![idx] = None]
  /\ idx' = Succ(idx)
  /\ last' = IF Succ(idx) = last THEN dmaIdx ELSE last
  /\ UNCHANGED <<prod, cons, buf0, cpuIdx, isLast, device, live, pc, m0, failed,
                 leaked>>

\* One turn of the loop: the slot's mbuf goes to the end of the chain, and the
\* chain to the list if this is its last buffer.  mbuf_setlen needs an mbuf.
DequeueSlot ==
  /\ pc = "dequeue" /\ idx # last
  /\ LET chain == Append(m0, mdMbuf[idx]) IN
     IF isLast[idx] THEN ml' = Append(ml, chain) /\ m0' = <<>>
                    ELSE m0' = chain /\ UNCHANGED ml
  /\ mdMbuf' = [mdMbuf EXCEPT ![idx] = None]
  /\ idx' = Succ(idx)
  /\ last' = IF Succ(idx) = last THEN dmaIdx ELSE last
  /\ pc' = IF mdMbuf[idx] = None THEN "panic" ELSE "dequeue"
  /\ UNCHANGED <<prod, cons, buf0, cpuIdx, isLast, device, live, failed, leaked>>

\* The KASSERT that there is no half of a frame, then q->mq_cons = idx.
EndDequeue ==
  /\ pc = "dequeue" /\ idx = last
  /\ IF m0 # <<>>
     THEN pc' = "panic" /\ UNCHANGED <<cons, idx, last>>
     ELSE /\ cons' = idx
          /\ pc' = "fill" /\ idx' = prod /\ last' = FillEnd'
  /\ UNCHANGED <<prod, mdMbuf, buf0, cpuIdx, isLast, device, live, m0, ml, failed,
                 leaked>>

----------------------------------------------------------------------------
(* mwx_queue_fill.                                                         *)

\* mwx_buf_fill: the next slot gets a buffer, whatever is in it.  Which one
\* makes no difference.
FillSlot ==
  /\ pc = "fill" /\ idx # last
  /\ live # Mbufs
  /\ LET m == CHOOSE n \in Mbufs : n \notin live IN
     /\ live' = live \cup {m}
     /\ mdMbuf' = [mdMbuf EXCEPT ![idx] = m]
     /\ buf0' = [buf0 EXCEPT ![idx] = m]
  /\ isLast' = [isLast EXCEPT ![idx] = TRUE]
  /\ leaked' = leaked \cup ({mdMbuf[idx]} \ {None})
  /\ idx' = Succ(idx)
  /\ UNCHANGED <<prod, cons, cpuIdx, device, pc, last, m0, ml, failed>>

\* No memory, or the map cannot be loaded: it returns without storing mq_prod
\* or CPU_IDX, although slots may have been filled.
FillFails ==
  /\ pc = "fill" /\ idx # last
  /\ "nomem" \in Faults \/ live = Mbufs
  /\ failed' = TRUE
  /\ pc' = "process"
  /\ idx' = 0 /\ last' = 0
  /\ UNCHANGED <<ring, isLast, device, live, m0, ml, leaked>>

\* Mutant: mq_prod is stored, CPU_IDX is not written.
EndFillWithoutDoorbell ==
  /\ pc = "fill" /\ idx = last
  /\ prod' = idx
  /\ failed' = FALSE
  /\ pc' = "process"
  /\ idx' = 0 /\ last' = 0
  /\ UNCHANGED <<cons, mdMbuf, buf0, cpuIdx, isLast, device, live, m0, ml, leaked>>

\* q->mq_prod = idx; mwx_write(CPU_IDX, q->mq_prod)
EndFill ==
  /\ pc = "fill" /\ idx = last
  /\ prod' = idx /\ cpuIdx' = idx
  /\ failed' = FALSE
  /\ pc' = "process"
  /\ idx' = 0 /\ last' = 0
  /\ UNCHANGED <<cons, mdMbuf, buf0, isLast, device, live, m0, ml, leaked>>

----------------------------------------------------------------------------
(* mwx_dma_rx_process: every frame goes to whoever it is for, and its      *)
(* mbufs with it.                                                          *)

Process ==
  /\ pc = "process" /\ ml # <<>>
  /\ live' = live \ ToSet(Head(ml))
  /\ content' = Forget(ToSet(Head(ml)))
  /\ ml' = Tail(ml)
  /\ UNCHANGED <<ring, isLast, dmaIdx, devIdx, frame, part, pc, idx, last, m0,
                 failed, leaked>>

EndProcess ==
  /\ pc = "process" /\ ml = <<>>
  /\ pc' = "idle"
  /\ UNCHANGED <<ring, isLast, device, live, idx, last, m0, ml, failed, leaked>>

----------------------------------------------------------------------------
(* mwx_dma_reset, for this ring: DMA is disabled.                          *)

\* mwx_queue_reset, then mwx_queue_fill.
Reset ==
  /\ "reset" \in Faults
  /\ pc = "idle"
  /\ prod' = 0 /\ cons' = 0 /\ cpuIdx' = 0 /\ dmaIdx' = 0 /\ devIdx' = 0
  /\ part' = 0
  /\ buf0' = [s \in Slots |-> None]
  /\ isLast' = [s \in Slots |-> FALSE]
  /\ live' = live \ {mdMbuf[s] : s \in Slots}
  /\ content' = Forget({mdMbuf[s] : s \in Slots})
  /\ mdMbuf' = [s \in Slots |-> None]
  /\ StartFilling
  /\ UNCHANGED <<frame, m0, ml, failed, leaked>>

Dequeue == BeginDequeue \/ DequeueSlot \/ EndDequeue
Fill == FillSlot \/ FillFails \/ EndFill
Next == DeviceWrite \/ Dequeue \/ Fill \/ Process \/ EndProcess \/ Reset

Spec == Init /\ [][Next]_vars

(***************************************************************************)
(* Fairness.  Every DMA_IDX update raises an interrupt, the handler runs   *)
(* to its end, and the device finishes a frame that it has begun if it has *)
(* the buffers.  That frames arrive is not assumed.                        *)
(***************************************************************************)
Fairness ==
  /\ WF_vars(Dequeue \/ Fill \/ Process \/ EndProcess)
  /\ WF_vars(DeviceWrite /\ part # 0)

FairSpec == Spec /\ Fairness

----------------------------------------------------------------------------
(* Properties.                                                             *)

TypeOK ==
  /\ prod \in Slots /\ cons \in Slots
  /\ cpuIdx \in Slots /\ dmaIdx \in Slots /\ devIdx \in Slots
  /\ mdMbuf \in [Slots -> Mbufs \cup {None}]
  /\ buf0 \in [Slots -> Mbufs \cup {None}]
  /\ isLast \in [Slots -> BOOLEAN]
  /\ frame \in 0..(MaxFrames - 1) /\ part \in 0..(MaxBufs - 1)
  /\ content \in [Mbufs -> Parts \cup {None}]
  /\ live \subseteq Mbufs /\ leaked \subseteq Mbufs
  /\ pc \in {"idle", "dequeue", "fill", "process", "panic"}
  /\ idx \in Slots /\ last \in Slots
  /\ m0 \in Seq(Mbufs) /\ ml \in Seq(Seq(Mbufs))
  /\ failed \in BOOLEAN

Dequeued == ToSet(m0) \cup UNION {ToSet(ml[i]) : i \in DOMAIN ml}
InSlots == {mdMbuf[s] : s \in Slots} \ {None}

\* The device writes into buffers that are its own: what is posted is in its
\* slot and allocated, no two slots post one buffer, and none is on its way up.
\* It holds although a refill that fails leaves slots filled and not posted,
\* and the next one fills them again.
DeviceOwnsPosted ==
  /\ \A s \in Span(devIdx, cpuIdx) :
       /\ buf0[s] = mdMbuf[s]
       /\ buf0[s] \in live \ (Dequeued \cup leaked)
  /\ \A s, t \in Slots : mdMbuf[s] = mdMbuf[t] /\ mdMbuf[s] # None => s = t

\* Every allocated mbuf is in one slot or on its way up, but for those that a
\* failed refill left in slots and the next one overwrote: a refill that follows
\* one that worked, or a reset, finds the slots it fills empty.
OnlyFailedFillsLeak ==
  /\ pc = "fill" /\ ~failed => \A s \in Span(idx, last) : mdMbuf[s] = None
  /\ live = InSlots \cup Dequeued \cup leaked
  /\ InSlots \cap Dequeued = {}

\* A buffer is the device's, a slot's or on its way up, one at a time, and nothing but
\* a refill after a failed one forgets it (mwx_queue_fill, mwx_queue_reset).
BuffersHaveOneOwner == DeviceOwnsPosted /\ OnlyFailedFillsLeak

\* Frames go up whole and in the order in which they were received, although
\* DMA_IDX moves while the loop runs: no slot is taken that has no mbuf, the
\* KASSERT of mwx_dma_rx_dequeue that no half of a frame is left never fires, a
\* chain in the list has the parts of one frame from the first to the last, and
\* the next chain is the next frame.
FramesAreWholeAndInOrder ==
  /\ pc # "panic"
  /\ \A i \in DOMAIN ml : \A j \in DOMAIN ml[i] :
       content[ml[i][j]] = [frame |-> content[ml[i][1]].frame, part |-> j,
                            end |-> j = Len(ml[i])]
  /\ \A i \in 1..(Len(ml) - 1) :
       content[ml[i + 1][1]].frame = (content[ml[i][1]].frame + 1) % MaxFrames

\* What was received goes up: an interrupt for it is served, the loop that looks
\* at DMA_IDX again and again ends, and so does the refill, or a reset comes
\* first.
ReceivedGoesUp == cons # dmaIdx ~> pc = "process"

\* A device that has run out of buffers gets new ones, unless the last refill
\* failed: then nothing tries again but a reset.
StarvedOnlyByFailedFill ==
  devIdx = cpuIdx ~> devIdx # cpuIdx \/ failed

=============================================================================
