-------------------------- MODULE MwxRxRingProofs --------------------------
(***************************************************************************)
(* Proofs about MwxRxRing for a ring of any size and frames in any number  *)
(* of buffers, with refills that fail and resets at any time the model     *)
(* has them.  Types and ownership are proved for both behaviours of the    *)
(* device, that frames go up whole and in order for one that reports       *)
(* DMA_IDX at the end of a frame.                                          *)
(***************************************************************************)
EXTENDS MwxRxRing, RingLemmas

----------------------------------------------------------------------------
(* The inductive invariant, in four parts: the indices, what the slots     *)
(* hold, who owns each buffer, and what the device wrote.                  *)

Pos(s) == Dist(cons, s)

Dequeuing == pc \in {"dequeue", "panic"}

\* The first slot whose buffer has not been taken out.
FirstFull == IF Dequeuing THEN idx ELSE cons

\* Seen from mq_cons, the loop of mwx_dma_rx_dequeue, DMA_IDX, the device,
\* CPU_IDX and the loop of mwx_queue_fill are in this order, and a refill ends at
\* the slot before mq_cons.
IndexInv ==
  /\ prod = cpuIdx
  /\ Pos(dmaIdx) <= Pos(devIdx) /\ Pos(devIdx) <= Pos(cpuIdx)
  /\ Dequeuing => Pos(idx) <= Pos(last) /\ Pos(last) <= Pos(dmaIdx)
  /\ pc = "fill" => Pos(prod) <= Pos(idx) /\ Pos(last) = Count - 1

\* Where the posted slots end, with those the loop of mwx_queue_fill has filled.
FilledTo == IF pc = "fill" THEN idx ELSE cpuIdx

\* What is posted, or about to be, is there; what was taken out, the slot before
\* mq_cons and, unless a refill has failed, everything that is not posted is empty.
SlotInv ==
  /\ \A s \in Slots : Pos(FirstFull) <= Pos(s) /\ Pos(s) < Pos(FilledTo)
       => mdMbuf[s] # None /\ buf0[s] = mdMbuf[s]
  /\ \A s \in Slots : Pos(s) < Pos(FirstFull) \/ Pos(s) = Count - 1
       => mdMbuf[s] = None
  /\ ~failed => \A s \in Slots : Pos(FilledTo) <= Pos(s) => mdMbuf[s] = None

\* Between two interrupts nothing is on its way up, and half a frame is only in
\* the hands of mwx_dma_rx_dequeue.
HandsInv ==
  /\ ~Dequeuing => m0 = <<>>
  /\ pc = "idle" => ml = <<>>

\* Every allocated buffer has one owner.
OwnerInv ==
  /\ \A s, t \in Slots : mdMbuf[s] = mdMbuf[t] /\ mdMbuf[s] # None => s = t
  /\ IsInjective(m0) /\ Apart(ml) /\ ToSet(m0) \cap Elements(ml) = {}
  /\ live = InSlots \cup Dequeued \cup leaked
  /\ InSlots \cap Dequeued = {} /\ leaked \cap (InSlots \cup Dequeued) = {}

\* The part of a frame that is in a slot, or that the device writes next.
At(s) == IF s = devIdx THEN [frame |-> frame, part |-> part + 1]
         ELSE [frame |-> content[mdMbuf[s]].frame, part |-> content[mdMbuf[s]].part]

\* What the device wrote and nobody took out are the parts of frames, one after
\* the other.
PartsInv ==
  \A s \in Slots : Pos(FirstFull) <= Pos(s) /\ Pos(s) < Pos(devIdx) =>
    /\ content[mdMbuf[s]] \in Parts
    /\ isLast[s] = content[mdMbuf[s]].end
    /\ At(Succ(s)) =
         IF isLast[s] THEN [frame |-> (At(s).frame + 1) % MaxFrames, part |-> 1]
                      ELSE [frame |-> At(s).frame, part |-> At(s).part + 1]

\* DMA_IDX, and the driver's copy of it, are at the beginning of a frame.
StartsFrame ==
  /\ At(dmaIdx).part = 1
  /\ Dequeuing => At(last).part = 1
  /\ pc # "panic"

\* What a buffer contains: c is content or its next value.
Begins(c, chain, f) ==
  \A j \in DOMAIN chain : c[chain[j]] = [frame |-> f, part |-> j, end |-> FALSE]

Whole(c, chain) ==
  /\ chain # <<>>
  /\ \A j \in DOMAIN chain :
       c[chain[j]] = [frame |-> c[chain[1]].frame, part |-> j, end |-> j = Len(chain)]

InOrder(c, chains) ==
  /\ \A i \in DOMAIN chains : Whole(c, chains[i])
  /\ \A i \in 1..(Len(chains) - 1) :
       c[chains[i + 1][1]].frame = (c[chains[i][1]].frame + 1) % MaxFrames

\* f is the frame after the last of the list, if it has one.
Follows(c, chains, f) ==
  chains # <<>> => f = (c[chains[Len(chains)][1]].frame + 1) % MaxFrames

\* The chains of the list are whole frames, one after the other, the chain that
\* is put together is the beginning of the next, and the ring goes on from there.
ChainsInv ==
  /\ InOrder(content, ml)
  /\ Follows(content, ml, At(FirstFull).frame)
  /\ Begins(content, m0, At(FirstFull).frame)
  /\ At(FirstFull).part = Len(m0) + 1

OwnInv == TypeOK /\ IndexInv /\ SlotInv /\ HandsInv /\ OwnerInv
FrameInv == PartsInv /\ StartsFrame /\ ChainsInv

----------------------------------------------------------------------------
(* Positions.                                                              *)

\* Positions are distances from mq_cons: below Count, one per slot, and one
\* more for the next slot but for the last.
LEMMA Positions ==
  ASSUME TypeOK
  PROVE  /\ cons \in Slots /\ prod \in Slots /\ cpuIdx \in Slots
         /\ dmaIdx \in Slots /\ devIdx \in Slots
         /\ idx \in Slots /\ last \in Slots /\ FirstFull \in Slots /\ FilledTo \in Slots
         /\ \A s \in Slots : Pos(s) \in 0..(Count - 1)
         /\ \A s, t \in Slots : Pos(s) = Pos(t) => s = t
         /\ \A s \in Slots : Succ(s) \in Slots
         /\ \A s \in Slots : Pos(s) < Count - 1 => Pos(Succ(s)) = Pos(s) + 1
         /\ Pos(cons) = 0
<1>1. /\ cons \in Slots /\ prod \in Slots /\ cpuIdx \in Slots
      /\ dmaIdx \in Slots /\ devIdx \in Slots
      /\ idx \in Slots /\ last \in Slots /\ FirstFull \in Slots /\ FilledTo \in Slots
  BY DEF TypeOK, FirstFull, FilledTo
<1>2. \A s \in Slots : Pos(s) \in 0..(Count - 1) /\ (Pos(s) = 0 <=> s = cons)
  BY <1>1, DistRange DEF Pos
<1>3. \A s, t \in Slots : Pos(s) = Pos(t) => s = t
  BY <1>1, DistInjective DEF Pos
<1>4. \A s \in Slots : Pos(s) < Count - 1 => Pos(Succ(s)) = Pos(s) + 1
  BY <1>1, DistNotFarthest, DistSucc DEF Pos
<1> QED BY <1>1, <1>2, <1>3, <1>4, SuccInSlots

\* Where mq_cons stays, so do the positions.
LEMMA SamePositions ==
  ASSUME UNCHANGED cons
  PROVE  \A s : Dist(cons', s) = Pos(s)
BY DEF Pos

\* The slot at which a refill ends is the farthest from mq_cons.
LEMMA SlotBefore ==
  ASSUME NEW c \in Slots, NEW e, e = (Count + c - 1) % Count
  PROVE  e \in Slots /\ Dist(c, e) = Count - 1
<1>1. c \in 0..(Count - 1)
  BY DEF Slots
<1>2. e = IF c = 0 THEN Count - 1 ELSE c - 1
  BY <1>1, CountAssumption
<1>3. e \in Slots
  BY <1>1, <1>2, CountAssumption DEF Slots
<1>4. Dist(c, e) = IF e >= c THEN e - c ELSE e - c + Count
  BY <1>3, DistValue
<1> QED BY <1>1, <1>2, <1>3, <1>4, CountAssumption

\* The end of mwx_dma_rx_dequeue moves mq_cons forward to idx: what lies ahead of
\* it comes nearer, what lies behind is now at the far end.
LEMMA MovedPositions ==
  ASSUME TypeOK, cons' = idx
  PROVE  /\ \A s \in Slots : Pos(idx) <= Pos(s) => Dist(cons', s) = Pos(s) - Pos(idx)
         /\ \A s \in Slots : Pos(s) < Pos(idx)
              => Dist(cons', s) = Count - (Pos(idx) - Pos(s))
BY Positions, DistRebase, DistWrap DEF Pos

----------------------------------------------------------------------------
(* The indices.                                                            *)

LEMMA InitIndex == Init => IndexInv
<1> SUFFICES ASSUME Init PROVE IndexInv
  OBVIOUS
<1>1. 0 \in Slots /\ cons = 0
  BY CountAssumption DEF Init, Slots
<1>2. Pos(0) = 0 /\ Pos(Count - 1) = Count - 1
  <2>1. Count - 1 \in Slots
    BY CountAssumption DEF Slots
  <2> QED BY <1>1, <2>1, DistValue, CountAssumption DEF Pos
<1> QED BY <1>1, <1>2 DEF Init, IndexInv, Dequeuing

LEMMA StepIndex ==
  ASSUME TypeOK, IndexInv, TypeOK', [Next]_vars
  PROVE  IndexInv'
<1>1. /\ cons \in Slots /\ prod \in Slots /\ cpuIdx \in Slots
      /\ dmaIdx \in Slots /\ devIdx \in Slots
      /\ idx \in Slots /\ last \in Slots /\ FirstFull \in Slots /\ FilledTo \in Slots
      /\ \A s \in Slots : Pos(s) \in 0..(Count - 1)
      /\ \A s, t \in Slots : Pos(s) = Pos(t) => s = t
      /\ \A s \in Slots : Succ(s) \in Slots
      /\ \A s \in Slots : Pos(s) < Count - 1 => Pos(Succ(s)) = Pos(s) + 1
      /\ Pos(cons) = 0
  BY Positions
<1>2. /\ prod = cpuIdx
      /\ Pos(dmaIdx) <= Pos(devIdx) /\ Pos(devIdx) <= Pos(cpuIdx)
      /\ Dequeuing => Pos(idx) <= Pos(last) /\ Pos(last) <= Pos(dmaIdx)
      /\ pc = "fill" => Pos(prod) <= Pos(idx) /\ Pos(last) = Count - 1
  BY DEF IndexInv
<1>3. ASSUME UNCHANGED cons,
             prod' = cpuIdx',
             Pos(dmaIdx') <= Pos(devIdx'), Pos(devIdx') <= Pos(cpuIdx'),
             Dequeuing' => Pos(idx') <= Pos(last') /\ Pos(last') <= Pos(dmaIdx'),
             pc' = "fill" => Pos(prod') <= Pos(idx') /\ Pos(last') = Count - 1
      PROVE  IndexInv'
  BY <1>3, SamePositions DEF IndexInv, Pos
<1>4. CASE DeviceWrite
  <2>1. /\ UNCHANGED <<cons, prod, cpuIdx, pc, idx, last>>
        /\ devIdx # cpuIdx /\ devIdx' = Succ(devIdx)
        /\ dmaIdx' = Succ(devIdx) \/ dmaIdx' = dmaIdx
    BY <1>4 DEF DeviceWrite, ring, driver
  <2>2. Pos(Succ(devIdx)) = Pos(devIdx) + 1 /\ Pos(Succ(devIdx)) <= Pos(cpuIdx)
    <3>1. Pos(devIdx) # Pos(cpuIdx)
      BY <1>1, <2>1
    <3>2. Pos(devIdx) < Pos(cpuIdx) /\ Pos(devIdx) < Count - 1
      BY <1>1, <1>2, <3>1, CountAssumption
    <3> QED BY <1>1, <3>2
  <2>3. Pos(dmaIdx') <= Pos(devIdx') /\ Pos(dmaIdx) <= Pos(dmaIdx')
    BY <1>1, <1>2, <2>1, <2>2
  <2>4. Dequeuing' = Dequeuing
    BY <2>1 DEF Dequeuing
  <2>5. Dequeuing => Pos(idx) <= Pos(last) /\ Pos(last) <= Pos(dmaIdx')
    <3>1. dmaIdx' \in Slots
      BY <1>1, <2>1
    <3> QED BY <1>1, <1>2, <2>3, <3>1
  <2> QED BY <1>2, <1>3, <2>1, <2>2, <2>3, <2>4, <2>5
<1>5. CASE BeginDequeue
  <2>1. /\ UNCHANGED <<cons, prod, cpuIdx, dmaIdx, devIdx>>
        /\ pc' = "dequeue" /\ idx' = cons /\ last' = dmaIdx
    BY <1>5 DEF BeginDequeue, ring, device
  <2>2. Pos(idx') <= Pos(last') /\ Pos(last') <= Pos(dmaIdx')
    BY <1>1, <2>1
  <2> QED BY <1>2, <1>3, <2>1, <2>2
<1>6. CASE DequeueSlot
  <2>1. /\ UNCHANGED <<cons, prod, cpuIdx, dmaIdx, devIdx>>
        /\ Dequeuing /\ pc' # "fill" /\ idx # last /\ idx' = Succ(idx)
        /\ last' = IF Succ(idx) = last THEN dmaIdx ELSE last
    BY <1>6 DEF DequeueSlot, device, Dequeuing
  <2>2. Pos(Succ(idx)) <= Pos(last)
    <3>1. Pos(idx) # Pos(last)
      BY <1>1, <2>1
    <3>2. Pos(idx) < Pos(last) /\ Pos(idx) < Count - 1
      BY <1>1, <1>2, <2>1, <3>1, CountAssumption
    <3> QED BY <1>1, <3>2
  <2>3. Pos(idx') <= Pos(last') /\ Pos(last') <= Pos(dmaIdx')
    BY <1>1, <1>2, <2>1, <2>2
  <2> QED BY <1>2, <1>3, <2>1, <2>3
<1>7. CASE EndDequeue
  <2>1. /\ UNCHANGED <<prod, cpuIdx, dmaIdx, devIdx>> /\ Dequeuing /\ idx = last
    BY <1>7 DEF EndDequeue, device, Dequeuing
  <2>2. CASE m0 # <<>>
    <3>1. UNCHANGED <<cons, idx, last>> /\ pc' = "panic"
      BY <1>7, <2>2 DEF EndDequeue
    <3> QED BY <1>2, <1>3, <2>1, <3>1
  <2>3. CASE m0 = <<>>
    <3>1. cons' = idx /\ pc' = "fill" /\ idx' = prod /\ last' = FillEnd'
      BY <1>7, <2>3 DEF EndDequeue
    <3> DEFINE New(s) == Dist(cons', s)
    <3>2. \A s \in Slots : Pos(idx) <= Pos(s) => New(s) = Pos(s) - Pos(idx)
      BY <3>1, MovedPositions
    <3>3. New(last') = Count - 1
      <4>1. cons' \in Slots
        BY <1>1, <3>1
      <4>2. Dist(cons', FillEnd') = Count - 1
        BY <4>1, SlotBefore DEF FillEnd
      <4> QED BY <3>1, <4>2
    <3> HIDE DEF New
    <3>4. Pos(idx) <= Pos(dmaIdx) /\ Pos(idx) <= Pos(devIdx) /\ Pos(idx) <= Pos(cpuIdx)
      BY <1>1, <1>2, <2>1
    <3>5. New(dmaIdx) <= New(devIdx) /\ New(devIdx) <= New(cpuIdx) /\ New(prod) <= New(prod)
      BY <1>1, <1>2, <3>2, <3>4
    <3> QED BY <1>2, <2>1, <3>1, <3>3, <3>5 DEF IndexInv, Pos, New, Dequeuing
  <2> QED BY <2>2, <2>3
<1>8. CASE FillSlot
  <2>1. /\ UNCHANGED <<cons, prod, cpuIdx, dmaIdx, devIdx, pc, last>>
        /\ pc = "fill" /\ idx # last /\ idx' = Succ(idx)
    BY <1>8 DEF FillSlot, device
  <2>2. Pos(Succ(idx)) = Pos(idx) + 1
    <3>1. Pos(idx) # Pos(last)
      BY <1>1, <2>1
    <3> QED BY <1>1, <1>2, <2>1, <3>1, CountAssumption
  <2>3. Pos(prod) <= Pos(Succ(idx)) /\ ~Dequeuing'
    BY <1>1, <1>2, <2>1, <2>2 DEF Dequeuing
  <2> QED BY <1>2, <1>3, <2>1, <2>3
<1>9. CASE EndFill
  <2>1. /\ UNCHANGED <<cons, dmaIdx, devIdx>> /\ pc = "fill" /\ pc' = "process"
        /\ prod' = idx /\ cpuIdx' = idx
    BY <1>9 DEF EndFill, device
  <2>2. Pos(devIdx) <= Pos(idx) /\ ~Dequeuing'
    BY <1>1, <1>2, <2>1 DEF Dequeuing
  <2> QED BY <1>2, <1>3, <2>1, <2>2
<1>10. CASE FillFails \/ Process \/ EndProcess
  <2>1. /\ UNCHANGED <<cons, prod, cpuIdx, dmaIdx, devIdx>>
        /\ pc' \in {"process", "idle"}
    BY <1>10 DEF FillFails, Process, EndProcess, ring, device
  <2>2. ~Dequeuing' /\ pc' # "fill"
    BY <2>1 DEF Dequeuing
  <2> QED BY <1>2, <1>3, <2>1, <2>2
<1>11. CASE Reset
  <2>1. /\ prod' = 0 /\ cons' = 0 /\ cpuIdx' = 0 /\ dmaIdx' = 0 /\ devIdx' = 0
        /\ pc' = "fill" /\ idx' = 0 /\ last' = Count - 1
    BY <1>11 DEF Reset, StartFilling
  <2>2. 0 \in Slots /\ Count - 1 \in Slots
    BY CountAssumption DEF Slots
  <2>3. Dist(0, 0) = 0 /\ Dist(0, Count - 1) = Count - 1
    BY <2>2, DistValue, CountAssumption
  <2> QED BY <2>1, <2>3 DEF IndexInv, Pos, Dequeuing
<1>12. CASE UNCHANGED vars
  <2>1. UNCHANGED <<cons, prod, cpuIdx, dmaIdx, devIdx, pc, idx, last>>
    BY <1>12 DEF vars, ring, device, driver
  <2> QED BY <1>2, <1>3, <2>1 DEF Dequeuing
<1> QED
  BY <1>4, <1>5, <1>6, <1>7, <1>8, <1>9, <1>10, <1>11, <1>12
     DEF Next, Dequeue, Fill

----------------------------------------------------------------------------
(* What the slots hold.                                                    *)

\* In which order the slots come that SlotInv speaks of.
LEMMA SlotOrder ==
  ASSUME TypeOK, IndexInv
  PROVE  /\ Pos(FirstFull) <= Pos(dmaIdx) /\ Pos(dmaIdx) <= Pos(devIdx)
         /\ Pos(devIdx) <= Pos(cpuIdx) /\ Pos(cpuIdx) <= Pos(FilledTo)
BY Positions DEF IndexInv, FirstFull, FilledTo, Dequeuing

LEMMA InitSlots == Init => SlotInv /\ HandsInv
<1> SUFFICES ASSUME Init PROVE SlotInv /\ HandsInv
  OBVIOUS
<1>1. 0 \in Slots /\ Dist(0, 0) = 0 /\ \A s \in Slots : ~(Dist(0, s) < 0)
  BY DistRange, CountAssumption DEF Slots
<1>2. FirstFull = 0 /\ FilledTo = 0 /\ cons = 0
  BY DEF Init, FirstFull, FilledTo, Dequeuing
<1> QED BY <1>1, <1>2 DEF Init, SlotInv, HandsInv, Dequeuing, Pos

\* A step that leaves slots and the ends of what they hold alone.
LEMMA SameSlotInv ==
  ASSUME SlotInv, UNCHANGED <<cons, mdMbuf, buf0, failed>>,
         FirstFull' = FirstFull, FilledTo' = FilledTo
  PROVE  SlotInv'
BY DEF SlotInv, Pos

LEMMA StepSlots ==
  ASSUME TypeOK, IndexInv, SlotInv, TypeOK', [Next]_vars
  PROVE  SlotInv'
<1>1. /\ cons \in Slots /\ prod \in Slots /\ cpuIdx \in Slots
      /\ dmaIdx \in Slots /\ devIdx \in Slots
      /\ idx \in Slots /\ last \in Slots
      /\ FirstFull \in Slots /\ FilledTo \in Slots
      /\ \A s \in Slots : Pos(s) \in 0..(Count - 1)
      /\ \A s, t \in Slots : Pos(s) = Pos(t) => s = t
      /\ \A s \in Slots : Succ(s) \in Slots
      /\ \A s \in Slots : Pos(s) < Count - 1 => Pos(Succ(s)) = Pos(s) + 1
      /\ Pos(cons) = 0
  BY Positions
<1>2. /\ prod = cpuIdx
      /\ Dequeuing => Pos(idx) <= Pos(last) /\ Pos(last) <= Pos(dmaIdx)
      /\ pc = "fill" => Pos(prod) <= Pos(idx) /\ Pos(last) = Count - 1
      /\ Pos(FirstFull) <= Pos(dmaIdx) /\ Pos(dmaIdx) <= Pos(devIdx)
      /\ Pos(devIdx) <= Pos(cpuIdx) /\ Pos(cpuIdx) <= Pos(FilledTo)
  BY SlotOrder DEF IndexInv
<1>3. /\ \A s \in Slots : Pos(FirstFull) <= Pos(s) /\ Pos(s) < Pos(FilledTo)
           => mdMbuf[s] # None /\ buf0[s] = mdMbuf[s]
      /\ \A s \in Slots : Pos(s) < Pos(FirstFull) \/ Pos(s) = Count - 1
           => mdMbuf[s] = None
      /\ ~failed => \A s \in Slots : Pos(FilledTo) <= Pos(s) => mdMbuf[s] = None
  BY DEF SlotInv
<1>4. ASSUME UNCHANGED cons,
             \A s \in Slots : Pos(FirstFull') <= Pos(s) /\ Pos(s) < Pos(FilledTo')
               => mdMbuf'[s] # None /\ buf0'[s] = mdMbuf'[s],
             \A s \in Slots : Pos(s) < Pos(FirstFull') \/ Pos(s) = Count - 1
               => mdMbuf'[s] = None,
             ~failed' => \A s \in Slots : Pos(FilledTo') <= Pos(s) => mdMbuf'[s] = None
      PROVE  SlotInv'
  BY <1>4, SamePositions DEF SlotInv, Pos
<1>5. CASE DeviceWrite \/ Process \/ EndProcess \/ BeginDequeue \/ UNCHANGED vars
  <2>1. /\ UNCHANGED <<cons, mdMbuf, buf0, failed, cpuIdx>>
        /\ \/ UNCHANGED <<pc, idx>>
           \/ pc = "process" /\ pc' = "idle"
           \/ pc = "idle" /\ pc' = "dequeue" /\ idx' = cons
    BY <1>5 DEF DeviceWrite, Process, EndProcess, BeginDequeue, vars, ring, driver
  <2>2. FirstFull' = FirstFull /\ FilledTo' = FilledTo
    BY <2>1 DEF FirstFull, FilledTo, Dequeuing
  <2> QED BY <2>1, <2>2, SameSlotInv
<1>6. CASE DequeueSlot
  <2>1. /\ UNCHANGED <<cons, buf0, failed, cpuIdx>>
        /\ pc = "dequeue" /\ pc' \in {"dequeue", "panic"}
        /\ idx # last /\ idx' = Succ(idx)
        /\ \A s \in Slots : mdMbuf'[s] = IF s = idx THEN None ELSE mdMbuf[s]
    BY <1>6 DEF DequeueSlot, TypeOK
  <2>2. FirstFull = idx /\ FirstFull' = Succ(idx) /\ FilledTo' = FilledTo
    BY <2>1 DEF FirstFull, FilledTo, Dequeuing
  <2>3. Pos(Succ(idx)) = Pos(idx) + 1
    <3>1. Pos(idx) # Pos(last)
      BY <1>1, <2>1
    <3> QED BY <1>1, <1>2, <2>1, <3>1, CountAssumption DEF Dequeuing
  <2>4. \A s \in Slots : Pos(s) < Pos(Succ(idx)) => Pos(s) < Pos(idx) \/ s = idx
    <3> SUFFICES ASSUME NEW s \in Slots, Pos(s) < Pos(Succ(idx)), ~(Pos(s) < Pos(idx))
                 PROVE  s = idx
      OBVIOUS
    <3>1. Pos(s) = Pos(idx)
      BY <1>1, <2>3
    <3> QED BY <1>1, <3>1
  <2>5. \A s \in Slots : Pos(Succ(idx)) <= Pos(s) => Pos(idx) <= Pos(s) /\ s # idx
    BY <1>1, <2>3
  <2>6. \A s \in Slots : Pos(Succ(idx)) <= Pos(s) /\ Pos(s) < Pos(FilledTo)
           => mdMbuf'[s] # None /\ buf0'[s] = mdMbuf'[s]
    BY <1>3, <2>1, <2>2, <2>5
  <2>7. \A s \in Slots : Pos(s) < Pos(Succ(idx)) \/ Pos(s) = Count - 1
           => mdMbuf'[s] = None
    BY <1>3, <2>1, <2>2, <2>4
  <2> QED BY <1>3, <1>4, <2>1, <2>2, <2>6, <2>7
<1>7. CASE EndDequeue
  <2>1. /\ UNCHANGED <<mdMbuf, buf0, failed, cpuIdx, prod>> /\ Dequeuing
        /\ pc # "fill" /\ idx = last
    BY <1>7 DEF EndDequeue, Dequeuing
  <2>2. CASE m0 # <<>>
    <3>1. UNCHANGED <<cons, idx>> /\ pc' = "panic"
      BY <1>7, <2>2 DEF EndDequeue
    <3>2. FirstFull' = FirstFull /\ FilledTo' = FilledTo
      BY <2>1, <3>1 DEF FirstFull, FilledTo, Dequeuing
    <3> QED BY <2>1, <3>1, <3>2, SameSlotInv
  <2>3. CASE m0 = <<>>
    <3>1. cons' = idx /\ pc' = "fill" /\ idx' = prod
      BY <1>7, <2>3 DEF EndDequeue
    <3>2. FirstFull = idx /\ FirstFull' = cons' /\ FilledTo = cpuIdx /\ FilledTo' = cpuIdx
      BY <1>2, <2>1, <3>1 DEF FirstFull, FilledTo, Dequeuing
    <3> DEFINE New(s) == Dist(cons', s)
    <3>3. /\ \A s \in Slots : Pos(idx) <= Pos(s) => New(s) = Pos(s) - Pos(idx)
          /\ \A s \in Slots : Pos(s) < Pos(idx) => New(s) = Count - (Pos(idx) - Pos(s))
      BY <3>1, MovedPositions
    <3>4. New(cons') = 0 /\ \A s \in Slots : New(s) \in 0..(Count - 1)
      BY <1>1, <3>1, DistRange
    <3> HIDE DEF New
    <3>5. New(cpuIdx) = Pos(cpuIdx) - Pos(idx) /\ Pos(idx) <= Pos(cpuIdx)
      BY <1>1, <1>2, <3>2, <3>3
    <3>6. \A s \in Slots : New(s) < New(cpuIdx) => Pos(idx) <= Pos(s) /\ Pos(s) < Pos(cpuIdx)
      BY <1>1, <3>3, <3>5, CountAssumption
    <3>7. \A s \in Slots : New(s) = Count - 1 => Pos(s) < Pos(idx) \/ Pos(s) = Count - 1
      BY <1>1, <3>3, CountAssumption
    <3>8. \A s \in Slots : New(cpuIdx) <= New(s) => Pos(s) < Pos(idx) \/ Pos(cpuIdx) <= Pos(s)
      BY <1>1, <3>3, <3>5, CountAssumption
    <3>9. \A s \in Slots : ~(New(s) < New(cons'))
      BY <3>4
    <3>10. /\ \A s \in Slots : New(cons') <= New(s) /\ New(s) < New(cpuIdx)
                => mdMbuf'[s] # None /\ buf0'[s] = mdMbuf'[s]
           /\ \A s \in Slots : New(s) < New(cons') \/ New(s) = Count - 1
                => mdMbuf'[s] = None
           /\ ~failed' => \A s \in Slots : New(cpuIdx) <= New(s) => mdMbuf'[s] = None
      BY <1>3, <2>1, <3>2, <3>6, <3>7, <3>8, <3>9
    <3> QED BY <3>2, <3>10 DEF SlotInv, Pos, New
  <2> QED BY <2>2, <2>3
<1>8. CASE FillSlot
  <2> DEFINE m == CHOOSE n \in Mbufs : n \notin live
  <2>1. /\ UNCHANGED <<cons, failed, cpuIdx, pc>> /\ pc = "fill"
        /\ idx # last /\ idx' = Succ(idx) /\ live # Mbufs
        /\ \A s \in Slots : /\ mdMbuf'[s] = IF s = idx THEN m ELSE mdMbuf[s]
                            /\ buf0'[s] = IF s = idx THEN m ELSE buf0[s]
    BY <1>8 DEF FillSlot, TypeOK
  <2>2. m # None
    <3>1. \E n \in Mbufs : n \notin live
      BY <2>1 DEF TypeOK
    <3> QED BY <3>1, NoneAssumption
  <2> HIDE DEF m
  <2>3. FirstFull' = FirstFull /\ FilledTo = idx /\ FilledTo' = Succ(idx)
    BY <2>1 DEF FirstFull, FilledTo, Dequeuing
  <2>4. Pos(idx) < Count - 1 /\ Pos(Succ(idx)) = Pos(idx) + 1
    <3>1. Pos(idx) # Pos(last)
      BY <1>1, <2>1
    <3> QED BY <1>1, <1>2, <2>1, <3>1, CountAssumption
  <2>5. \A s \in Slots : Pos(s) < Pos(Succ(idx)) => Pos(s) < Pos(idx) \/ s = idx
    <3> SUFFICES ASSUME NEW s \in Slots, Pos(s) < Pos(Succ(idx)), ~(Pos(s) < Pos(idx))
                 PROVE  s = idx
      OBVIOUS
    <3>1. Pos(s) = Pos(idx)
      BY <1>1, <2>4
    <3> QED BY <1>1, <3>1
  <2>6. \A s \in Slots : Pos(Succ(idx)) <= Pos(s) => Pos(idx) <= Pos(s) /\ s # idx
    BY <1>1, <2>4
  <2>7. \A s \in Slots : Pos(s) < Pos(FirstFull) \/ Pos(s) = Count - 1 => s # idx
    BY <1>1, <1>2, <2>3, <2>4
  <2>8. \A s \in Slots : Pos(FirstFull) <= Pos(s) /\ Pos(s) < Pos(Succ(idx))
          => mdMbuf'[s] # None /\ buf0'[s] = mdMbuf'[s]
    BY <1>3, <2>1, <2>2, <2>3, <2>5
  <2>9. \A s \in Slots : Pos(s) < Pos(FirstFull) \/ Pos(s) = Count - 1
          => mdMbuf'[s] = None
    BY <1>3, <2>1, <2>7
  <2>10. ~failed' => \A s \in Slots : Pos(Succ(idx)) <= Pos(s) => mdMbuf'[s] = None
    BY <1>3, <2>1, <2>3, <2>6
  <2> QED BY <1>4, <2>1, <2>3, <2>8, <2>9, <2>10
<1>9. CASE FillFails
  <2>1. /\ UNCHANGED <<cons, mdMbuf, buf0, cpuIdx>> /\ failed'
        /\ pc = "fill" /\ pc' = "process"
    BY <1>9 DEF FillFails, ring
  <2>2. FirstFull' = FirstFull /\ FilledTo' = cpuIdx
    BY <2>1 DEF FirstFull, FilledTo, Dequeuing
  <2>3. \A s \in Slots : Pos(s) < Pos(cpuIdx) => Pos(s) < Pos(FilledTo)
    BY <1>1, <1>2
  <2>4. \A s \in Slots : Pos(FirstFull) <= Pos(s) /\ Pos(s) < Pos(cpuIdx)
           => mdMbuf'[s] # None /\ buf0'[s] = mdMbuf'[s]
    BY <1>3, <2>1, <2>3
  <2> QED BY <1>3, <1>4, <2>1, <2>2, <2>4
<1>10. CASE EndFill
  <2>1. /\ UNCHANGED <<cons, mdMbuf, buf0>> /\ cpuIdx' = idx
        /\ pc = "fill" /\ pc' = "process" /\ idx = last
    BY <1>10 DEF EndFill
  <2>2. FirstFull' = FirstFull /\ FilledTo' = idx /\ FilledTo = idx
    BY <2>1 DEF FirstFull, FilledTo, Dequeuing
  <2>3. \A s \in Slots : Pos(idx) <= Pos(s) => Pos(s) = Count - 1
    BY <1>1, <1>2, <2>1, CountAssumption
  <2> QED BY <1>3, <1>4, <2>1, <2>2, <2>3
<1>11. CASE Reset
  <2>1. /\ cons' = 0 /\ cpuIdx' = 0 /\ pc' = "fill" /\ idx' = 0
        /\ \A s \in Slots : mdMbuf'[s] = None
    BY <1>11 DEF Reset, StartFilling
  <2>2. FirstFull' = 0 /\ FilledTo' = 0
    BY <2>1 DEF FirstFull, FilledTo, Dequeuing
  <2>3. 0 \in Slots /\ Dist(0, 0) = 0 /\ \A s \in Slots : ~(Dist(0, s) < 0)
    BY DistRange, CountAssumption DEF Slots
  <2> QED BY <2>1, <2>2, <2>3 DEF SlotInv, Pos
<1> QED
  BY <1>5, <1>6, <1>7, <1>8, <1>9, <1>10, <1>11 DEF Next, Dequeue, Fill

LEMMA StepHands ==
  ASSUME HandsInv, [Next]_vars
  PROVE  HandsInv'
<1>1. CASE DeviceWrite \/ UNCHANGED vars
  BY <1>1 DEF DeviceWrite, HandsInv, Dequeuing, driver, vars
<1>2. CASE BeginDequeue \/ DequeueSlot
  BY <1>2 DEF BeginDequeue, DequeueSlot, HandsInv, Dequeuing
<1>3. CASE EndDequeue
  BY <1>3 DEF EndDequeue, HandsInv, Dequeuing
<1>4. CASE FillSlot \/ FillFails \/ EndFill
  BY <1>4 DEF FillSlot, FillFails, EndFill, HandsInv, Dequeuing
<1>5. CASE Process \/ EndProcess
  BY <1>5 DEF Process, EndProcess, HandsInv, Dequeuing
<1>6. CASE Reset
  BY <1>6 DEF Reset, StartFilling, HandsInv, Dequeuing
<1> QED BY <1>1, <1>2, <1>3, <1>4, <1>5, <1>6 DEF Next, Dequeue, Fill

----------------------------------------------------------------------------
(* Types.                                                                  *)

LEMMA InitTypes == Init => TypeOK
<1> SUFFICES ASSUME Init PROVE TypeOK
  OBVIOUS
<1>1. 0 \in Slots /\ Count - 1 \in Slots
  BY CountAssumption DEF Slots
<1>2. 0 \in 0..(MaxFrames - 1) /\ 0 \in 0..(MaxBufs - 1)
  BY BufsAssumption, FramesAssumption, CountAssumption
<1>3. <<>> \in Seq(Mbufs) /\ <<>> \in Seq(Seq(Mbufs))
  OBVIOUS
<1> QED BY <1>1, <1>2, <1>3 DEF Init, TypeOK

\* The buffer that the loop of mwx_dma_rx_dequeue takes is there.
LEMMA TakenIsThere ==
  ASSUME TypeOK, IndexInv, SlotInv, DequeueSlot
  PROVE  mdMbuf[idx] \in Mbufs /\ pc' = "dequeue"
<1>1. FirstFull = idx /\ FilledTo = cpuIdx /\ Dequeuing /\ idx # last
  BY DEF DequeueSlot, FirstFull, FilledTo, Dequeuing
<1>2. Pos(idx) <= Pos(last) /\ Pos(last) <= Pos(dmaIdx) /\ idx \in Slots /\ last \in Slots
  BY <1>1 DEF IndexInv, TypeOK
<1>3. Pos(idx) # Pos(last)
  BY <1>1, <1>2, Positions
<1>4. Pos(idx) < Pos(FilledTo) /\ Pos(FirstFull) <= Pos(idx)
  BY <1>1, <1>2, <1>3, Positions, SlotOrder
<1>5. mdMbuf[idx] # None
  BY <1>2, <1>4 DEF SlotInv
<1> QED BY <1>2, <1>5 DEF TypeOK, DequeueSlot

\* mwx_dma_rx_dequeue puts the buffer at the end of the chain, and the chain at
\* the end of the list if that was its last.
LEMMA TakenIsAppended ==
  ASSUME TypeOK, IndexInv, SlotInv, DequeueSlot
  PROVE  /\ m0' \in Seq(Mbufs) /\ ml' \in Seq(Seq(Mbufs))
         /\ ToSet(m0') \cup Elements(ml')
              = ToSet(m0) \cup Elements(ml) \cup {mdMbuf[idx]}
         /\ /\ IsInjective(m0) /\ Apart(ml) /\ ToSet(m0) \cap Elements(ml) = {}
            /\ mdMbuf[idx] \notin ToSet(m0) \cup Elements(ml)
            => IsInjective(m0') /\ Apart(ml') /\ ToSet(m0') \cap Elements(ml') = {}
<1> DEFINE m == mdMbuf[idx]
           chain == Append(m0, m)
<1>1. m \in Mbufs /\ m0 \in Seq(Mbufs) /\ ml \in Seq(Seq(Mbufs))
  BY TakenIsThere DEF TypeOK
<1>2. IF isLast[idx] THEN ml' = Append(ml, chain) /\ m0' = <<>>
                     ELSE m0' = chain /\ ml' = ml
  BY DEF DequeueSlot
<1> HIDE DEF m
<1>3. /\ chain \in Seq(Mbufs) /\ ToSet(chain) = ToSet(m0) \cup {m}
      /\ IsInjective(m0) /\ m \notin ToSet(m0) => IsInjective(chain)
  BY <1>1, AppendSet
<1> HIDE DEF chain
<1>4. CASE isLast[idx]
  <2>0. ml' = Append(ml, chain)
    BY <1>2, <1>4
  <2>1. /\ ml' \in Seq(Seq(Mbufs)) /\ Elements(ml') = Elements(ml) \cup ToSet(chain)
        /\ Apart(ml) /\ IsInjective(chain) /\ ToSet(chain) \cap Elements(ml) = {}
             => Apart(ml')
    <3>1. /\ Append(ml, chain) \in Seq(Seq(Mbufs))
          /\ Elements(Append(ml, chain)) = Elements(ml) \cup ToSet(chain)
          /\ Apart(ml) /\ IsInjective(chain) /\ ToSet(chain) \cap Elements(ml) = {}
               => Apart(Append(ml, chain))
      BY <1>1, <1>3, AppendLists
    <3> QED BY <2>0, <3>1
  <2>2. m0' = <<>> /\ m0' \in Seq(Mbufs) /\ ToSet(m0') = {} /\ IsInjective(m0')
    BY <1>2, <1>4 DEF ToSet, IsInjective
  <2> QED BY <1>3, <2>1, <2>2 DEF m
<1>5. CASE ~isLast[idx]
  BY <1>1, <1>2, <1>3, <1>5 DEF m
<1> QED BY <1>4, <1>5

LEMMA StepTypes ==
  ASSUME TypeOK, IndexInv, SlotInv, [Next]_vars
  PROVE  TypeOK'
<1>1. CASE DeviceWrite
  <2>1. /\ UNCHANGED <<ring, live, driver, leaked>>
        /\ devIdx' = Succ(devIdx) /\ dmaIdx' \in {Succ(devIdx), dmaIdx}
    BY <1>1 DEF DeviceWrite
  <2>2. devIdx' \in Slots /\ dmaIdx' \in Slots
    BY <2>1, SuccInSlots DEF TypeOK
  <2>3. PICK end \in BOOLEAN :
          /\ part + 1 = MaxBufs => end
          /\ content' = [content EXCEPT ![buf0[devIdx]] =
                           [frame |-> frame, part |-> part + 1, end |-> end]]
          /\ isLast' = [isLast EXCEPT ![devIdx] = end]
          /\ part' = IF end THEN 0 ELSE part + 1
          /\ frame' = IF end THEN (frame + 1) % MaxFrames ELSE frame
    BY <1>1 DEF DeviceWrite
  <2>4. part + 1 \in 1..MaxBufs /\ part' \in 0..(MaxBufs - 1)
    BY <2>3, BufsAssumption DEF TypeOK
  <2>5. frame' \in 0..(MaxFrames - 1)
    BY <2>3, FramesAssumption, CountAssumption DEF TypeOK
  <2>6. [frame |-> frame, part |-> part + 1, end |-> end] \in Parts
    BY <2>4 DEF Parts, TypeOK
  <2>7. content' \in [Mbufs -> Parts \cup {None}] /\ isLast' \in [Slots -> BOOLEAN]
    BY <2>3, <2>6 DEF TypeOK
  <2> QED BY <2>1, <2>2, <2>4, <2>5, <2>7 DEF TypeOK, ring, driver
<1>2. CASE BeginDequeue
  BY <1>2 DEF BeginDequeue, TypeOK, ring, device
<1>3. CASE DequeueSlot
  <2>1. /\ UNCHANGED <<prod, cons, buf0, cpuIdx, isLast, device, live, failed, leaked>>
        /\ mdMbuf' = [mdMbuf EXCEPT ![idx] = None]
        /\ idx' = Succ(idx) /\ last' \in {dmaIdx, last} /\ pc' = "dequeue"
    BY <1>3, TakenIsThere DEF DequeueSlot
  <2>2. idx' \in Slots /\ last' \in Slots
    BY <2>1, SuccInSlots DEF TypeOK
  <2>3. m0' \in Seq(Mbufs) /\ ml' \in Seq(Seq(Mbufs))
    BY <1>3, TakenIsAppended
  <2> QED BY <2>1, <2>2, <2>3 DEF TypeOK, device
<1>4. CASE EndDequeue
  <2>2. cons' \in Slots /\ idx' \in Slots /\ last' \in Slots /\ pc' \in {"panic", "fill"}
    <3>1. CASE m0 # <<>>
      BY <1>4, <3>1 DEF EndDequeue, TypeOK
    <3>2. CASE m0 = <<>>
      <4>1. cons' = idx /\ idx' = prod /\ last' = FillEnd' /\ pc' = "fill"
        BY <1>4, <3>2 DEF EndDequeue
      <4>2. cons' \in Slots /\ idx' \in Slots
        BY <4>1 DEF TypeOK
      <4>3. FillEnd' \in Slots
        BY <4>2, SlotBefore DEF FillEnd
      <4> QED BY <4>1, <4>2, <4>3
    <3> QED BY <3>1, <3>2
  <2>3. UNCHANGED <<prod, mdMbuf, buf0, cpuIdx, isLast, device, live, m0, ml, failed,
                    leaked>>
    BY <1>4 DEF EndDequeue
  <2> QED BY <2>2, <2>3 DEF TypeOK, device
<1>5. CASE FillSlot
  <2> DEFINE m == CHOOSE n \in Mbufs : n \notin live
  <2>1. m \in Mbufs
    <3>1. \E n \in Mbufs : n \notin live
      BY <1>5 DEF FillSlot, TypeOK
    <3> QED BY <3>1
  <2>2. /\ live' = live \cup {m}
        /\ mdMbuf' = [mdMbuf EXCEPT ![idx] = m] /\ buf0' = [buf0 EXCEPT ![idx] = m]
        /\ isLast' = [isLast EXCEPT ![idx] = TRUE]
        /\ leaked' = leaked \cup ({mdMbuf[idx]} \ {None}) /\ idx' = Succ(idx)
        /\ UNCHANGED <<prod, cons, cpuIdx, device, pc, last, m0, ml, failed>>
    BY <1>5 DEF FillSlot
  <2> HIDE DEF m
  <2>3. idx' \in Slots /\ leaked' \subseteq Mbufs
    BY <2>2, SuccInSlots DEF TypeOK
  <2> QED BY <2>1, <2>2, <2>3 DEF TypeOK, device
<1>6. CASE FillFails \/ EndFill
  <2>1. 0 \in Slots
    BY CountAssumption DEF Slots
  <2> QED BY <1>6, <2>1 DEF FillFails, EndFill, TypeOK, ring, device
<1>7. CASE Process
  <2>1. ml # <<>> /\ ml \in Seq(Seq(Mbufs)) /\ ml' = Tail(ml)
    BY <1>7 DEF Process, TypeOK
  <2>2. ml' \in Seq(Seq(Mbufs))
    BY <2>1, PopLists
  <2>3. content' \in [Mbufs -> Parts \cup {None}] /\ live' \subseteq Mbufs
    BY <1>7 DEF Process, Forget, TypeOK
  <2> QED BY <1>7, <2>2, <2>3 DEF Process, TypeOK, ring
<1>8. CASE EndProcess
  BY <1>8 DEF EndProcess, TypeOK, ring, device
<1>9. CASE Reset
  <2>1. 0 \in Slots /\ Count - 1 \in Slots
    BY CountAssumption DEF Slots
  <2>2. 0 \in 0..(MaxBufs - 1)
    BY BufsAssumption
  <2>3. content' \in [Mbufs -> Parts \cup {None}] /\ live' \subseteq Mbufs
    BY <1>9 DEF Reset, Forget, TypeOK
  <2> QED BY <1>9, <2>1, <2>2, <2>3 DEF Reset, StartFilling, TypeOK
<1>10. CASE UNCHANGED vars
  BY <1>10 DEF vars, ring, device, driver, TypeOK
<1> QED
  BY <1>1, <1>2, <1>3, <1>4, <1>5, <1>6, <1>7, <1>8, <1>9, <1>10 DEF Next, Dequeue, Fill

----------------------------------------------------------------------------
(* Ownership.                                                              *)

OneSlotEach == \A s, t \in Slots : mdMbuf[s] = mdMbuf[t] /\ mdMbuf[s] # None => s = t

LEMMA DequeuedElements == Dequeued = ToSet(m0) \cup Elements(ml)
BY DEF Dequeued, Elements

\* A slot loses its buffer, or gets one that is in no slot.
LEMMA SlotChanges ==
  ASSUME TypeOK, OneSlotEach, NEW s \in Slots, NEW v, v = None \/ v \notin InSlots,
         mdMbuf' = [mdMbuf EXCEPT ![s] = v]
  PROVE  /\ OneSlotEach'
         /\ InSlots' = (InSlots \ {mdMbuf[s]}) \cup ({v} \ {None})
<1>1. \A t \in Slots : mdMbuf'[t] = IF t = s THEN v ELSE mdMbuf[t]
  BY DEF TypeOK
<1>2. \A t \in Slots : mdMbuf[t] # None => mdMbuf[t] \in InSlots
  BY DEF InSlots
<1>3. OneSlotEach'
  BY <1>1, <1>2 DEF OneSlotEach
<1>4. InSlots' \subseteq (InSlots \ {mdMbuf[s]}) \cup ({v} \ {None})
  BY <1>1 DEF InSlots, OneSlotEach
<1>5. (InSlots \ {mdMbuf[s]}) \cup ({v} \ {None}) \subseteq InSlots'
  BY <1>1 DEF InSlots
<1> QED BY <1>3, <1>4, <1>5

LEMMA InitOwners == Init => OwnerInv
<1> SUFFICES ASSUME Init PROVE OwnerInv
  OBVIOUS
<1>1. InSlots = {} /\ Dequeued = {} /\ Elements(ml) = {} /\ live = {} /\ leaked = {}
  BY DEF Init, InSlots, Dequeued, Elements, ToSet
<1>2. IsInjective(m0) /\ Apart(ml)
  BY DEF Init, IsInjective, Apart
<1>3. \A s \in Slots : mdMbuf[s] = None
  BY DEF Init
<1> QED BY <1>1, <1>2, <1>3 DEF OwnerInv

LEMMA StepOwners ==
  ASSUME TypeOK, IndexInv, SlotInv, OwnerInv, [Next]_vars
  PROVE  OwnerInv'
<1>1. /\ OneSlotEach
      /\ IsInjective(m0) /\ Apart(ml) /\ ToSet(m0) \cap Elements(ml) = {}
      /\ live = InSlots \cup Dequeued \cup leaked
      /\ InSlots \cap Dequeued = {} /\ leaked \cap (InSlots \cup Dequeued) = {}
  BY DEF OwnerInv, OneSlotEach
<1>2. Dequeued = ToSet(m0) \cup Elements(ml) /\ Dequeued' = ToSet(m0') \cup Elements(ml')
  BY DEF Dequeued, Elements
<1>3. ASSUME UNCHANGED <<mdMbuf, live, m0, ml, leaked>>
      PROVE  OwnerInv'
  BY <1>3 DEF OwnerInv, InSlots, Dequeued
<1>4. CASE DeviceWrite \/ BeginDequeue \/ EndDequeue \/ FillFails \/ EndFill
           \/ EndProcess \/ UNCHANGED vars
  BY <1>3, <1>4 DEF DeviceWrite, BeginDequeue, EndDequeue, FillFails, EndFill,
                    EndProcess, vars, ring, driver
<1>5. CASE DequeueSlot
  <2>1. idx \in Slots /\ mdMbuf[idx] \in Mbufs /\ mdMbuf[idx] \in InSlots
    BY <1>5, TakenIsThere, NoneAssumption DEF TypeOK, InSlots
  <2>2. mdMbuf' = [mdMbuf EXCEPT ![idx] = None] /\ UNCHANGED <<live, leaked>>
    BY <1>5 DEF DequeueSlot
  <2>3. OneSlotEach' /\ InSlots' = InSlots \ {mdMbuf[idx]}
    BY <1>1, <2>1, <2>2, SlotChanges
  <2>4. /\ Dequeued' = Dequeued \cup {mdMbuf[idx]}
        /\ IsInjective(m0') /\ Apart(ml') /\ ToSet(m0') \cap Elements(ml') = {}
    <3>1. mdMbuf[idx] \notin ToSet(m0) \cup Elements(ml)
      BY <1>1, <1>2, <2>1
    <3> QED BY <1>1, <1>2, <1>5, <3>1, TakenIsAppended
  <2> QED BY <1>1, <2>1, <2>2, <2>3, <2>4 DEF OwnerInv, OneSlotEach
<1>6. CASE FillSlot
  <2> DEFINE m == CHOOSE n \in Mbufs : n \notin live
  <2>1. m \in Mbufs /\ m \notin live /\ m # None
    <3>1. \E n \in Mbufs : n \notin live
      BY <1>6 DEF FillSlot, TypeOK
    <3> QED BY <3>1, NoneAssumption
  <2>2. /\ mdMbuf' = [mdMbuf EXCEPT ![idx] = m] /\ live' = live \cup {m}
        /\ leaked' = leaked \cup ({mdMbuf[idx]} \ {None}) /\ UNCHANGED <<m0, ml>>
    BY <1>6 DEF FillSlot
  <2> HIDE DEF m
  <2>3. OneSlotEach' /\ InSlots' = (InSlots \ {mdMbuf[idx]}) \cup {m}
    <3>1. idx \in Slots /\ m \notin InSlots
      BY <1>1, <2>1 DEF TypeOK
    <3>2. m = None \/ m \notin InSlots
      BY <3>1
    <3>3. OneSlotEach' /\ InSlots' = (InSlots \ {mdMbuf[idx]}) \cup ({m} \ {None})
      BY <1>1, <2>2, <3>1, <3>2, SlotChanges
    <3> QED BY <2>1, <3>3
  <2>4. {mdMbuf[idx]} \ {None} \subseteq InSlots
    BY DEF InSlots, TypeOK
  <2>5. Dequeued' = Dequeued
    BY <1>2, <2>2
  <2>6. None \notin InSlots
    BY DEF InSlots
  <2> QED BY <1>1, <2>1, <2>2, <2>3, <2>4, <2>5, <2>6 DEF OwnerInv, OneSlotEach
<1>7. CASE Process
  <2> DEFINE h == ToSet(Head(ml))
  <2>1. /\ ml # <<>> /\ ml' = Tail(ml) /\ live' = live \ h
        /\ UNCHANGED <<m0, mdMbuf, leaked>>
    BY <1>7 DEF Process, ring
  <2>2. Elements(ml) = h \cup Elements(ml') /\ Apart(ml') /\ h \cap Elements(ml') = {}
    <3>1. ml \in Seq(Seq(Mbufs))
      BY DEF TypeOK
    <3> QED BY <1>1, <2>1, <3>1, PopLists
  <2> HIDE DEF h
  <2>3. InSlots' = InSlots /\ OneSlotEach'
    BY <1>1, <2>1 DEF InSlots, OneSlotEach
  <2>4. ToSet(m0') = ToSet(m0) /\ IsInjective(m0')
    BY <1>1, <2>1
  <2>5. Dequeued' = Dequeued \ h /\ h \subseteq Dequeued
    BY <1>1, <1>2, <2>2, <2>4
  <2> QED BY <1>1, <2>1, <2>2, <2>3, <2>4, <2>5 DEF OwnerInv, OneSlotEach
<1>8. CASE Reset
  <2>1. /\ live' = live \ {mdMbuf[s] : s \in Slots}
        /\ \A s \in Slots : mdMbuf'[s] = None
        /\ UNCHANGED <<m0, ml, leaked>>
    BY <1>8 DEF Reset
  <2>2. InSlots' = {} /\ Dequeued' = Dequeued
    BY <1>2, <2>1 DEF InSlots
  <2>3. None \notin live
    BY NoneAssumption DEF TypeOK
  <2>4. live' = live \ InSlots
    BY <2>1, <2>3 DEF InSlots
  <2> QED BY <1>1, <2>1, <2>2, <2>4 DEF OwnerInv
<1> QED
  BY <1>4, <1>5, <1>6, <1>7, <1>8 DEF Next, Dequeue, Fill

LEMMA OwnInvHolds == Spec => []OwnInv
<1>1. Init => OwnInv
  BY InitTypes, InitIndex, InitSlots, InitOwners DEF OwnInv
<1>2. OwnInv /\ [Next]_vars => OwnInv'
  BY StepTypes, StepIndex, StepSlots, StepHands, StepOwners DEF OwnInv
<1> QED BY <1>1, <1>2, PTL DEF Spec

\* What the device may write to, and what a refill fills, in terms of positions.
LEMMA OwnInvImpliesOneOwner ==
  ASSUME OwnInv
  PROVE  BuffersHaveOneOwner
<1>0. TypeOK /\ IndexInv /\ SlotInv /\ OwnerInv
  BY DEF OwnInv
<1>1. /\ cpuIdx \in Slots /\ devIdx \in Slots /\ dmaIdx \in Slots
      /\ idx \in Slots /\ last \in Slots /\ cons \in Slots
      /\ FirstFull \in Slots /\ FilledTo \in Slots
      /\ \A s \in Slots : Pos(s) \in 0..(Count - 1)
  BY <1>0, Positions
<1>2. /\ Pos(FirstFull) <= Pos(devIdx) /\ Pos(devIdx) <= Pos(cpuIdx)
      /\ Pos(cpuIdx) <= Pos(FilledTo)
  BY <1>0, <1>1, SlotOrder
<1>3. ASSUME NEW a \in Slots, NEW b \in Slots, Pos(a) <= Pos(b), NEW s \in Span(a, b)
      PROVE  s \in Slots /\ Pos(a) <= Pos(s) /\ Pos(s) < Pos(b)
  <2>1. s \in Slots /\ Dist(a, s) < Dist(a, b)
    BY <1>3 DEF Span
  <2>2. Dist(a, b) = Pos(b) - Pos(a)
    BY <1>1, <1>3, DistRebase DEF Pos
  <2>3. Dist(a, s) \in 0..(Count - 1)
    BY <2>1, <1>3, DistRange
  <2>4. CASE Pos(a) <= Pos(s)
    <3>1. Dist(a, s) = Pos(s) - Pos(a)
      BY <1>1, <1>3, <2>1, <2>4, DistRebase DEF Pos
    <3> QED BY <1>1, <1>3, <2>1, <2>2, <2>4, <3>1
  <2>5. CASE Pos(s) < Pos(a)
    <3>1. Dist(a, s) = Count - (Pos(a) - Pos(s))
      BY <1>1, <1>3, <2>1, <2>5, DistWrap DEF Pos
    <3> QED BY <1>1, <1>3, <2>1, <2>2, <3>1, CountAssumption
  <2> QED BY <1>1, <1>3, <2>1, <2>4, <2>5
<1>4. DeviceOwnsPosted
  <2>1. ASSUME NEW s \in Span(devIdx, cpuIdx)
        PROVE  buf0[s] = mdMbuf[s] /\ buf0[s] \in live \ (Dequeued \cup leaked)
    <3>1. s \in Slots /\ Pos(devIdx) <= Pos(s) /\ Pos(s) < Pos(cpuIdx)
      BY <1>1, <1>2, <1>3
    <3>2. Pos(FirstFull) <= Pos(s) /\ Pos(s) < Pos(FilledTo)
      BY <1>1, <1>2, <3>1
    <3>3. mdMbuf[s] # None /\ buf0[s] = mdMbuf[s]
      BY <1>0, <3>1, <3>2 DEF SlotInv
    <3>4. mdMbuf[s] \in InSlots
      BY <3>1, <3>3 DEF InSlots
    <3> QED BY <1>0, <3>3, <3>4 DEF OwnerInv
  <2> QED BY <1>0, <2>1 DEF DeviceOwnsPosted, OwnerInv
<1>5. OnlyFailedFillsLeak
  <2>1. ASSUME pc = "fill", ~failed, NEW s \in Span(idx, last)
        PROVE  mdMbuf[s] = None
    <3>1. Pos(idx) <= Pos(last) /\ FilledTo = idx
      BY <1>0, <1>1, <2>1 DEF IndexInv, FilledTo
    <3>2. s \in Slots /\ Pos(idx) <= Pos(s)
      BY <1>1, <1>3, <2>1, <3>1
    <3> QED BY <1>0, <2>1, <3>1, <3>2 DEF SlotInv
  <2> QED BY <1>0, <2>1 DEF OnlyFailedFillsLeak, OwnerInv
<1> QED BY <1>4, <1>5 DEF BuffersHaveOneOwner

\* Every variable of the ring keeps its type, the indices stay in the ring and
\* the chains consist of mbufs: mwx_dma_rx_dequeue finds an mbuf in every slot it
\* takes, whatever DMA_IDX does meanwhile.
THEOREM RxTypeCorrect == Spec => []TypeOK
<1>1. OwnInv => TypeOK
  BY DEF OwnInv
<1> QED BY <1>1, OwnInvHolds, PTL

\* A buffer is the device's, a slot's or on its way up, one at a time, and only a
\* refill after a failed one forgets it.
THEOREM EachBufferHasOneOwner == Spec => []BuffersHaveOneOwner
BY OwnInvHolds, OwnInvImpliesOneOwner, PTL

----------------------------------------------------------------------------
(* Chains.                                                                 *)

LEMMA ChainGrows ==
  ASSUME NEW c, NEW s \in Seq(Mbufs), NEW m \in Mbufs, NEW f, Begins(c, s, f),
         NEW r, r = Append(s, m)
  PROVE  /\ c[m] = [frame |-> f, part |-> Len(s) + 1, end |-> FALSE]
              => Begins(c, r, f)
         /\ c[m] = [frame |-> f, part |-> Len(s) + 1, end |-> TRUE]
              => /\ Whole(c, r)
                 /\ c[r[1]].frame = f
<1> DEFINE n == Len(s)
<1>1. /\ n \in Nat /\ Len(r) = n + 1 /\ r # <<>>
      /\ \A j \in 1..n : r[j] = s[j]
      /\ r[n + 1] = m
      /\ DOMAIN s = 1..n /\ DOMAIN r = 1..(n + 1)
  <2>1. /\ r \in Seq(Mbufs) /\ Len(r) = n + 1
        /\ \A i \in 1..n : r[i] = s[i]
        /\ r[n + 1] = m
    BY AppendProperties
  <2>2. n \in Nat /\ DOMAIN s = 1..n /\ DOMAIN r = 1..Len(r)
    BY <2>1, LenProperties
  <2>3. r # <<>>
    BY <2>1, <2>2, EmptySeq
  <2> QED BY <2>1, <2>2, <2>3
<1> HIDE DEF n
<1>2. /\ \A j \in 1..(n + 1) : j = n + 1 \/ j \in 1..n
      /\ \A j \in 1..n : j # n + 1
      /\ 1 \in 1..(n + 1)
  <2>1. n \in Nat
    BY <1>1
  <2> QED BY <2>1
<1>3. \A j \in 1..n : c[r[j]] = [frame |-> f, part |-> j, end |-> FALSE]
  BY <1>1 DEF Begins
<1>4. ASSUME c[m] = [frame |-> f, part |-> n + 1, end |-> FALSE]
      PROVE  Begins(c, r, f)
  BY <1>1, <1>2, <1>3, <1>4 DEF Begins
<1>5. ASSUME c[m] = [frame |-> f, part |-> n + 1, end |-> TRUE]
      PROVE  Whole(c, r) /\ c[r[1]].frame = f
  <2>1. \A j \in 1..(n + 1) : c[r[j]] = [frame |-> f, part |-> j, end |-> j = n + 1]
    BY <1>1, <1>2, <1>3, <1>5
  <2>2. c[r[1]].frame = f
    <3>1. c[r[1]] = [frame |-> f, part |-> 1, end |-> 1 = n + 1]
      BY <1>2, <2>1
    <3> QED BY <3>1
  <2> QED BY <1>1, <2>1, <2>2 DEF Whole
<1> QED BY <1>4, <1>5 DEF n

LEMMA ListGrows ==
  ASSUME NEW c, NEW ls \in Seq(Seq(Mbufs)), NEW l \in Seq(Mbufs),
         InOrder(c, ls), Whole(c, l), Follows(c, ls, c[l[1]].frame)
  PROVE  /\ InOrder(c, Append(ls, l))
         /\ Follows(c, Append(ls, l), (c[l[1]].frame + 1) % MaxFrames)
<1> DEFINE r == Append(ls, l)
           n == Len(ls)
<1>1. /\ n \in Nat /\ Len(r) = n + 1
      /\ \A j \in 1..n : r[j] = ls[j]
      /\ r[n + 1] = l
      /\ DOMAIN ls = 1..n /\ DOMAIN r = 1..(n + 1)
  <2>1. /\ r \in Seq(Seq(Mbufs)) /\ Len(r) = n + 1
        /\ \A i \in 1..n : r[i] = ls[i]
        /\ r[n + 1] = l
    BY AppendProperties
  <2>2. n \in Nat /\ DOMAIN ls = 1..n /\ DOMAIN r = 1..Len(r)
    BY <2>1, LenProperties
  <2> QED BY <2>1, <2>2
<1>2. n # 0 => ls # <<>>
  BY EmptySeq
<1> HIDE DEF r, n
<1>3. \A i \in 1..(n + 1) : Whole(c, r[i])
  <2>1. \A j \in 1..(n + 1) : j = n + 1 \/ j \in 1..n
    BY <1>1
  <2> QED BY <1>1, <2>1 DEF InOrder
<1>4. ASSUME NEW i \in 1..n
      PROVE  c[r[i + 1][1]].frame = (c[r[i][1]].frame + 1) % MaxFrames
  <2>1. CASE i = n
    <3>1. ls # <<>> /\ r[i + 1] = l /\ r[i] = ls[n]
      BY <1>1, <1>2, <2>1
    <3> QED BY <3>1 DEF Follows, n
  <2>2. CASE i # n
    <3>1. i \in 1..(n - 1) /\ i + 1 \in 1..n
      BY <1>1, <2>2
    <3>2. c[ls[i + 1][1]].frame = (c[ls[i][1]].frame + 1) % MaxFrames
      BY <3>1 DEF InOrder, n
    <3> QED BY <1>1, <3>1, <3>2
  <2> QED BY <2>1, <2>2
<1>5. InOrder(c, r)
  <2>1. (n + 1) - 1 = n
    BY <1>1
  <2> QED BY <1>1, <1>3, <1>4, <2>1 DEF InOrder
<1>6. Follows(c, r, (c[l[1]].frame + 1) % MaxFrames)
  BY <1>1 DEF Follows
<1> QED BY <1>5, <1>6 DEF r

LEMMA ListPops ==
  ASSUME NEW c, NEW ls \in Seq(Seq(Mbufs)), ls # <<>>, NEW f,
         InOrder(c, ls), Follows(c, ls, f)
  PROVE  InOrder(c, Tail(ls)) /\ Follows(c, Tail(ls), f)
<1> DEFINE r == Tail(ls)
           n == Len(ls)
<1>1. /\ r \in Seq(Seq(Mbufs)) /\ n \in Nat \ {0} /\ Len(r) = n - 1
      /\ \A i \in 1..(n - 1) : r[i] = ls[i + 1]
  BY HeadTailProperties, EmptySeq
<1>2. r # <<>> => Len(r) # 0
  BY <1>1, EmptySeq
<1>3. DOMAIN r = 1..(n - 1) /\ DOMAIN ls = 1..n
  BY <1>1, LenProperties
<1> HIDE DEF r, n
<1>4. \A i \in 1..(n - 1) : Whole(c, r[i])
  <2>1. \A i \in 1..(n - 1) : i + 1 \in 1..n
    BY <1>1
  <2> QED BY <1>1, <1>3, <2>1 DEF InOrder
<1>5. ASSUME NEW i \in 1..(Len(r) - 1)
      PROVE  c[r[i + 1][1]].frame = (c[r[i][1]].frame + 1) % MaxFrames
  <2>1. i \in 1..(n - 1) /\ i + 1 \in 1..(n - 1)
    BY <1>1
  <2>2. c[ls[(i + 1) + 1][1]].frame = (c[ls[i + 1][1]].frame + 1) % MaxFrames
    BY <2>1 DEF InOrder, n
  <2> QED BY <1>1, <2>1, <2>2
<1>6. Follows(c, r, f)
  <2> SUFFICES ASSUME r # <<>>
               PROVE  f = (c[r[Len(r)][1]].frame + 1) % MaxFrames
    BY DEF Follows
  <2>1. Len(r) \in 1..(n - 1) /\ Len(r) + 1 = n
    BY <1>1, <1>2
  <2>2. r[Len(r)] = ls[n]
    BY <1>1, <2>1
  <2> QED BY <2>2 DEF Follows, n
<1> QED BY <1>3, <1>4, <1>5, <1>6 DEF InOrder, r

\* Chains do not depend on buffers that are not in them.
LEMMA SameChains ==
  ASSUME NEW c, NEW d, NEW s \in Seq(Mbufs), NEW ls \in Seq(Seq(Mbufs)), NEW f,
         \A m \in ToSet(s) \cup Elements(ls) : d[m] = c[m],
         InOrder(c, ls), Follows(c, ls, f), Begins(c, s, f)
  PROVE  InOrder(d, ls) /\ Follows(d, ls, f) /\ Begins(d, s, f)
<1>1. \A j \in DOMAIN s : d[s[j]] = c[s[j]]
  BY DEF ToSet
<1>2. \A i \in DOMAIN ls : \A j \in DOMAIN ls[i] : d[ls[i][j]] = c[ls[i][j]]
  BY DEF ToSet, Elements
<1>3. Len(ls) \in Nat /\ DOMAIN ls = 1..Len(ls) /\ ls \in [1..Len(ls) -> Seq(Mbufs)]
  BY LenProperties
<1>4. ASSUME NEW i \in DOMAIN ls
      PROVE  ls[i] \in Seq(Mbufs) /\ ls[i] # <<>> /\ 1 \in DOMAIN ls[i]
  <2>1. ls[i] \in Seq(Mbufs) /\ ls[i] # <<>>
    BY <1>3 DEF InOrder, Whole
  <2>2. Len(ls[i]) \in Nat /\ Len(ls[i]) # 0 /\ DOMAIN ls[i] = 1..Len(ls[i])
    BY <2>1, LenProperties, EmptySeq
  <2> QED BY <2>1, <2>2
<1>5. \A i \in DOMAIN ls : d[ls[i][1]] = c[ls[i][1]]
  BY <1>2, <1>4
<1>6. ASSUME NEW i \in DOMAIN ls
      PROVE  Whole(d, ls[i])
  <2>1. Whole(c, ls[i])
    BY DEF InOrder
  <2>2. d[ls[i][1]] = c[ls[i][1]] /\ \A j \in DOMAIN ls[i] : d[ls[i][j]] = c[ls[i][j]]
    BY <1>2, <1>5
  <2> QED BY <2>1, <2>2 DEF Whole
<1>7. ASSUME NEW i \in 1..(Len(ls) - 1)
      PROVE  d[ls[i + 1][1]].frame = (d[ls[i][1]].frame + 1) % MaxFrames
  <2>1. i \in DOMAIN ls /\ i + 1 \in DOMAIN ls
    BY <1>3
  <2> QED BY <1>5, <2>1 DEF InOrder
<1>8. Follows(d, ls, f)
  <2>1. ls # <<>> => Len(ls) \in DOMAIN ls
    BY <1>3, EmptySeq
  <2> QED BY <1>5, <2>1 DEF Follows
<1> QED BY <1>1, <1>6, <1>7, <1>8 DEF InOrder, Begins

----------------------------------------------------------------------------
(* Frames.                                                                 *)

LEMMA InitFrames == Init => FrameInv
<1> SUFFICES ASSUME Init PROVE FrameInv
  OBVIOUS
<1>1. 0 \in Slots /\ Dist(0, 0) = 0 /\ \A s \in Slots : ~(Dist(0, s) < 0)
  BY DistRange, CountAssumption DEF Slots
<1>2. PartsInv
  BY <1>1 DEF Init, PartsInv, Pos
<1>3. StartsFrame
  BY DEF Init, StartsFrame, At, Dequeuing
<1>4. DOMAIN m0 = {} /\ DOMAIN ml = {} /\ Len(m0) = 0 /\ Len(ml) = 0
  BY EmptySeq DEF Init
<1>5. ChainsInv
  <2>1. FirstFull = devIdx /\ At(FirstFull).part = Len(m0) + 1
    BY <1>4 DEF Init, FirstFull, At, Dequeuing
  <2>2. InOrder(content, ml)
    <3>1. \A i \in 1..(Len(ml) - 1) : FALSE
      BY <1>4
    <3> QED BY <1>4, <3>1 DEF InOrder
  <2>3. ml = <<>>
    BY DEF Init
  <2> QED BY <1>4, <2>1, <2>2, <2>3 DEF ChainsInv, Follows, Begins
<1> QED BY <1>2, <1>3, <1>5 DEF FrameInv

\* At after a step.
NextAt(s) ==
  IF s = devIdx' THEN [frame |-> frame', part |-> part' + 1]
  ELSE [frame |-> content'[mdMbuf'[s]].frame, part |-> content'[mdMbuf'[s]].part]

\* What a step has to establish.
LEMMA NextFrameInv ==
  ASSUME NEW first, first = FirstFull',
         \A s \in Slots :
           Dist(cons', first) <= Dist(cons', s) /\ Dist(cons', s) < Dist(cons', devIdx') =>
             /\ content'[mdMbuf'[s]] \in Parts
             /\ isLast'[s] = content'[mdMbuf'[s]].end
             /\ NextAt(Succ(s)) =
                  IF isLast'[s]
                  THEN [frame |-> (NextAt(s).frame + 1) % MaxFrames, part |-> 1]
                  ELSE [frame |-> NextAt(s).frame, part |-> NextAt(s).part + 1],
         NextAt(dmaIdx').part = 1, Dequeuing' => NextAt(last').part = 1, pc' # "panic",
         InOrder(content', ml'), Follows(content', ml', NextAt(first).frame),
         Begins(content', m0', NextAt(first).frame),
         NextAt(first).part = Len(m0') + 1
  PROVE  FrameInv'
<1>1. PartsInv'
  BY DEF PartsInv, Pos, At, NextAt
<1>2. StartsFrame'
  BY DEF StartsFrame, At, NextAt
<1>3. ChainsInv'
  BY DEF ChainsInv, At, NextAt, InOrder, Follows, Begins, Whole
<1> QED BY <1>1, <1>2, <1>3 DEF FrameInv

\* Where the indices are, and what is in the slots that the device has written.
LEMMA WrittenSlots ==
  ASSUME OwnInv
  PROVE  /\ FirstFull \in Slots /\ dmaIdx \in Slots /\ devIdx \in Slots
         /\ cpuIdx \in Slots /\ idx \in Slots /\ last \in Slots
         /\ \A s \in Slots : Pos(s) \in 0..(Count - 1) /\ Succ(s) \in Slots
         /\ \A s \in Slots : Pos(s) < Count - 1 => Pos(Succ(s)) = Pos(s) + 1
         /\ Pos(FirstFull) <= Pos(dmaIdx) /\ Pos(dmaIdx) <= Pos(devIdx)
         /\ Pos(devIdx) <= Pos(cpuIdx)
         /\ Dequeuing => /\ FirstFull = idx
                         /\ Pos(idx) <= Pos(last) /\ Pos(last) <= Pos(dmaIdx)
         /\ \A s \in Slots : Pos(FirstFull) <= Pos(s) /\ Pos(s) < Pos(cpuIdx)
              => /\ mdMbuf[s] \in InSlots /\ buf0[s] = mdMbuf[s]
         /\ InSlots \subseteq Mbufs
<1>1. TypeOK /\ IndexInv /\ SlotInv
  BY DEF OwnInv
<1>2. /\ FirstFull \in Slots /\ dmaIdx \in Slots /\ devIdx \in Slots
      /\ cpuIdx \in Slots /\ idx \in Slots /\ last \in Slots /\ FilledTo \in Slots
      /\ \A s \in Slots : Pos(s) \in 0..(Count - 1) /\ Succ(s) \in Slots
      /\ \A s \in Slots : Pos(s) < Count - 1 => Pos(Succ(s)) = Pos(s) + 1
  BY <1>1, Positions
<1>3. /\ Pos(FirstFull) <= Pos(dmaIdx) /\ Pos(dmaIdx) <= Pos(devIdx)
      /\ Pos(devIdx) <= Pos(cpuIdx) /\ Pos(cpuIdx) <= Pos(FilledTo)
  BY <1>1, SlotOrder
<1>4. Dequeuing => /\ FirstFull = idx
                   /\ Pos(idx) <= Pos(last) /\ Pos(last) <= Pos(dmaIdx)
  BY <1>1 DEF IndexInv, FirstFull
<1>5. ASSUME NEW s \in Slots, Pos(FirstFull) <= Pos(s), Pos(s) < Pos(cpuIdx)
      PROVE  mdMbuf[s] \in InSlots /\ buf0[s] = mdMbuf[s]
  <2>1. Pos(s) < Pos(FilledTo)
    BY <1>2, <1>3, <1>5
  <2> QED BY <1>1, <1>5, <2>1 DEF SlotInv, InSlots
<1>6. InSlots \subseteq Mbufs
  BY <1>1 DEF TypeOK, InSlots
<1> QED BY <1>2, <1>3, <1>4, <1>5, <1>6

\* A step that leaves alone what the device has written and the chains.
LEMMA SameFrames ==
  ASSUME OwnInv, FrameInv,
         UNCHANGED <<cons, dmaIdx, devIdx, frame, part, content, m0, ml>>,
         FirstFull' = FirstFull,
         Dequeuing' => last' = dmaIdx \/ UNCHANGED <<pc, last>>,
         pc' # "panic",
         \A s \in Slots : Pos(FirstFull) <= Pos(s) /\ Pos(s) < Pos(devIdx)
           => mdMbuf'[s] = mdMbuf[s] /\ isLast'[s] = isLast[s]
  PROVE  FrameInv'
<1>1. /\ FirstFull \in Slots /\ dmaIdx \in Slots /\ devIdx \in Slots /\ last \in Slots
      /\ cpuIdx \in Slots
      /\ \A s \in Slots : Pos(s) \in 0..(Count - 1) /\ Succ(s) \in Slots
      /\ \A s \in Slots : Pos(s) < Count - 1 => Pos(Succ(s)) = Pos(s) + 1
      /\ Pos(FirstFull) <= Pos(dmaIdx) /\ Pos(dmaIdx) <= Pos(devIdx)
      /\ Dequeuing => Pos(FirstFull) <= Pos(last) /\ Pos(last) <= Pos(dmaIdx)
  BY WrittenSlots
<1>2. \A s \in Slots : Pos(FirstFull) <= Pos(s) /\ Pos(s) <= Pos(devIdx) => NextAt(s) = At(s)
  <2> SUFFICES ASSUME NEW s \in Slots, Pos(FirstFull) <= Pos(s), Pos(s) <= Pos(devIdx)
               PROVE  NextAt(s) = At(s)
    OBVIOUS
  <2>1. CASE s = devIdx
    BY <2>1 DEF NextAt, At
  <2>2. CASE s # devIdx
    <3>1. Pos(s) # Pos(devIdx)
      BY <1>1, <2>2, Positions DEF OwnInv
    <3>2. mdMbuf'[s] = mdMbuf[s]
      BY <1>1, <3>1
    <3> QED BY <2>2, <3>2 DEF NextAt, At
  <2> QED BY <2>1, <2>2
<1>3. NextAt(dmaIdx).part = 1 /\ NextAt(FirstFull) = At(FirstFull)
  BY <1>1, <1>2 DEF FrameInv, StartsFrame
<1>4. Dequeuing' => NextAt(last').part = 1
  <2>1. CASE last' = dmaIdx
    BY <1>3, <2>1
  <2>2. CASE UNCHANGED <<pc, last>>
    <3>1. Dequeuing' => Dequeuing
      BY <2>2 DEF Dequeuing
    <3> QED BY <1>1, <1>2, <2>2, <3>1 DEF FrameInv, StartsFrame
  <2> QED BY <2>1, <2>2
<1>5. ASSUME NEW s \in Slots, Pos(FirstFull) <= Pos(s), Pos(s) < Pos(devIdx)
      PROVE  /\ content'[mdMbuf'[s]] \in Parts
             /\ isLast'[s] = content'[mdMbuf'[s]].end
             /\ NextAt(Succ(s)) =
                  IF isLast'[s]
                  THEN [frame |-> (NextAt(s).frame + 1) % MaxFrames, part |-> 1]
                  ELSE [frame |-> NextAt(s).frame, part |-> NextAt(s).part + 1]
  <2>1. Pos(Succ(s)) = Pos(s) + 1 /\ Pos(FirstFull) <= Pos(Succ(s))
        /\ Pos(Succ(s)) <= Pos(devIdx)
    BY <1>1, <1>5, CountAssumption
  <2>2. NextAt(s) = At(s) /\ NextAt(Succ(s)) = At(Succ(s))
    BY <1>1, <1>2, <1>5, <2>1
  <2> QED BY <1>5, <2>2 DEF FrameInv, PartsInv
<1>6. \A s : Dist(cons', s) = Pos(s)
  BY SamePositions
<1> QED BY <1>3, <1>4, <1>5, <1>6, NextFrameInv DEF FrameInv, ChainsInv

\* The device writes one more buffer: it is posted, so it is in no other slot and
\* in no chain.
LEMMA DeviceExtendsFrames ==
  ASSUME ~IdxPerDesc, OwnInv, FrameInv, DeviceWrite
  PROVE  FrameInv'
<1> DEFINE d == devIdx
           m == mdMbuf[devIdx]
<1>1. /\ FirstFull \in Slots /\ dmaIdx \in Slots /\ d \in Slots /\ last \in Slots
      /\ cpuIdx \in Slots
      /\ \A s \in Slots : Pos(s) \in 0..(Count - 1) /\ Succ(s) \in Slots
      /\ \A s \in Slots : Pos(s) < Count - 1 => Pos(Succ(s)) = Pos(s) + 1
      /\ Pos(FirstFull) <= Pos(dmaIdx) /\ Pos(dmaIdx) <= Pos(d)
      /\ Pos(d) <= Pos(cpuIdx)
      /\ Dequeuing => Pos(FirstFull) <= Pos(last) /\ Pos(last) <= Pos(dmaIdx)
      /\ \A s \in Slots : Pos(FirstFull) <= Pos(s) /\ Pos(s) < Pos(cpuIdx)
           => /\ mdMbuf[s] \in InSlots /\ buf0[s] = mdMbuf[s]
      /\ InSlots \subseteq Mbufs
  BY WrittenSlots
<1>2. \A s, t \in Slots : Pos(s) = Pos(t) => s = t
  BY Positions DEF OwnInv
<1>3. PICK end \in BOOLEAN :
        /\ content' = [content EXCEPT ![buf0[d]] =
                         [frame |-> frame, part |-> part + 1, end |-> end]]
        /\ isLast' = [isLast EXCEPT ![d] = end]
        /\ part' = IF end THEN 0 ELSE part + 1
        /\ frame' = IF end THEN (frame + 1) % MaxFrames ELSE frame
        /\ dmaIdx' = IF end THEN Succ(d) ELSE dmaIdx
        /\ part + 1 = MaxBufs => end
  BY DEF DeviceWrite
<1>4. /\ d # cpuIdx /\ devIdx' = Succ(d)
      /\ UNCHANGED <<cons, mdMbuf, m0, ml, pc, idx, last>>
  BY DEF DeviceWrite, ring, driver
<1>5. FirstFull' = FirstFull /\ Dequeuing' = Dequeuing
  BY <1>4 DEF FirstFull, Dequeuing
<1>6. Pos(d) < Pos(cpuIdx) /\ Pos(Succ(d)) = Pos(d) + 1 /\ Succ(d) \in Slots
  <2>1. Pos(d) # Pos(cpuIdx)
    BY <1>1, <1>2, <1>4
  <2> QED BY <1>1, <2>1, CountAssumption
<1>7. m \in InSlots /\ m \in Mbufs /\ buf0[d] = m
  <2>1. Pos(FirstFull) <= Pos(d)
    BY <1>1
  <2> QED BY <1>1, <1>6, <2>1
<1> HIDE DEF m
<1>8. /\ content'[m] = [frame |-> frame, part |-> part + 1, end |-> end]
      /\ \A n : n # m => content'[n] = content[n]
      /\ isLast'[d] = end
      /\ \A s \in Slots : s # d => isLast'[s] = isLast[s]
  <2>1. content \in [Mbufs -> Parts \cup {None}] /\ isLast \in [Slots -> BOOLEAN]
    BY DEF OwnInv, TypeOK
  <2> QED BY <1>1, <1>3, <1>7, <2>1
<1>9. [frame |-> frame, part |-> part + 1, end |-> end] \in Parts
  <2>1. frame \in 0..(MaxFrames - 1) /\ part \in 0..(MaxBufs - 1)
    BY DEF OwnInv, TypeOK
  <2>2. part + 1 \in 1..MaxBufs
    BY <2>1, BufsAssumption
  <2> QED BY <2>1, <2>2 DEF Parts
<1>10. At(d) = [frame |-> frame, part |-> part + 1]
  BY DEF At
<1>11. NextAt(d) = At(d)
  <2>1. d # Succ(d)
    BY <1>1, <1>6
  <2> QED BY <1>4, <1>8, <1>10, <2>1 DEF NextAt, m
<1>12. NextAt(Succ(d)) = IF end THEN [frame |-> (frame + 1) % MaxFrames, part |-> 1]
                         ELSE [frame |-> frame, part |-> (part + 1) + 1]
  BY <1>3, <1>4 DEF NextAt
<1>13. ASSUME NEW s \in Slots, Pos(FirstFull) <= Pos(s), Pos(s) < Pos(d)
       PROVE  mdMbuf[s] # m /\ s # d /\ s # Succ(d)
  <2>1. s # d /\ s # Succ(d) /\ Pos(s) < Pos(cpuIdx)
    BY <1>1, <1>6, <1>13
  <2>2. mdMbuf[s] # None
    BY <1>1, <1>13, <2>1 DEF InSlots
  <2> QED BY <1>1, <2>1, <2>2 DEF OwnInv, OwnerInv, m
<1>14. \A s \in Slots : Pos(FirstFull) <= Pos(s) /\ Pos(s) <= Pos(d) => NextAt(s) = At(s)
  <2> SUFFICES ASSUME NEW s \in Slots, Pos(FirstFull) <= Pos(s), Pos(s) <= Pos(d)
               PROVE  NextAt(s) = At(s)
    OBVIOUS
  <2>1. CASE s = d
    BY <1>11, <2>1
  <2>2. CASE s # d
    <3>1. Pos(s) < Pos(d)
      <4>1. Pos(s) # Pos(d)
        BY <1>1, <1>2, <2>2
      <4> QED BY <1>1, <4>1
    <3> QED BY <1>4, <1>8, <1>13, <3>1 DEF NextAt, At
  <2> QED BY <2>1, <2>2
<1>15. NextAt(FirstFull) = At(FirstFull)
  BY <1>1, <1>14
<1>16. NextAt(dmaIdx').part = 1
  <2>1. NextAt(dmaIdx).part = 1
    BY <1>1, <1>14 DEF FrameInv, StartsFrame
  <2> QED BY <1>3, <1>12, <2>1
<1>17. Dequeuing' => NextAt(last').part = 1
  <2>1. Dequeuing => NextAt(last).part = 1
    BY <1>1, <1>14 DEF FrameInv, StartsFrame
  <2> QED BY <1>4, <1>5, <2>1
<1>18. ASSUME NEW s \in Slots, Pos(FirstFull) <= Pos(s), Pos(s) < Pos(Succ(d))
       PROVE  /\ content'[mdMbuf'[s]] \in Parts
              /\ isLast'[s] = content'[mdMbuf'[s]].end
              /\ NextAt(Succ(s)) =
                   IF isLast'[s]
                   THEN [frame |-> (NextAt(s).frame + 1) % MaxFrames, part |-> 1]
                   ELSE [frame |-> NextAt(s).frame, part |-> NextAt(s).part + 1]
  <2>1. CASE s = d
    <3>1. NextAt(s).frame = frame /\ NextAt(s).part = part + 1
      BY <1>10, <1>11, <2>1
    <3>2. mdMbuf'[s] = m /\ content'[m].end = end
      BY <1>4, <1>8, <2>1 DEF m
    <3> QED BY <1>8, <1>9, <1>12, <2>1, <3>1, <3>2
  <2>2. CASE s # d
    <3>1. Pos(s) < Pos(d)
      <4>1. Pos(s) # Pos(d)
        BY <1>1, <1>2, <2>2
      <4> QED BY <1>1, <1>6, <1>18, <4>1
    <3>2. Pos(Succ(s)) = Pos(s) + 1 /\ Pos(FirstFull) <= Pos(Succ(s))
          /\ Pos(Succ(s)) <= Pos(d) /\ Pos(s) <= Pos(d)
      BY <1>1, <1>18, <3>1, CountAssumption
    <3>3. NextAt(s) = At(s) /\ NextAt(Succ(s)) = At(Succ(s))
      BY <1>1, <1>14, <1>18, <3>2
    <3>4. content'[mdMbuf'[s]] = content[mdMbuf[s]] /\ isLast'[s] = isLast[s]
      BY <1>4, <1>8, <1>13, <1>18, <2>2, <3>1
    <3> QED BY <1>18, <3>1, <3>3, <3>4 DEF FrameInv, PartsInv
  <2> QED BY <2>1, <2>2
<1>19. \A n \in ToSet(m0) \cup Elements(ml) : content'[n] = content[n]
  <2>1. m \notin ToSet(m0) \cup Elements(ml)
    BY <1>7, DequeuedElements DEF OwnInv, OwnerInv
  <2> QED BY <1>8, <2>1
<1>20. /\ InOrder(content', ml') /\ Follows(content', ml', NextAt(FirstFull).frame)
       /\ Begins(content', m0', NextAt(FirstFull).frame)
       /\ NextAt(FirstFull).part = Len(m0') + 1
  <2>1. m0 \in Seq(Mbufs) /\ ml \in Seq(Seq(Mbufs))
    BY DEF OwnInv, TypeOK
  <2>2. /\ InOrder(content, ml) /\ Follows(content, ml, At(FirstFull).frame)
        /\ Begins(content, m0, At(FirstFull).frame)
        /\ At(FirstFull).part = Len(m0) + 1
    BY DEF FrameInv, ChainsInv
  <2> HIDE DEF d
  <2>3. /\ InOrder(content', ml) /\ Follows(content', ml, At(FirstFull).frame)
        /\ Begins(content', m0, At(FirstFull).frame)
    BY <1>19, <2>1, <2>2, SameChains
  <2> QED BY <1>4, <1>15, <2>2, <2>3
<1>21. pc' # "panic"
  BY <1>4 DEF FrameInv, StartsFrame
<1>22. \A s : Dist(cons', s) = Pos(s)
  BY <1>4, SamePositions
<1> QED BY <1>4, <1>5, <1>16, <1>17, <1>18, <1>20, <1>21, <1>22, NextFrameInv

\* The loop of mwx_dma_rx_dequeue takes the next part of the frame it has begun.
LEMMA DequeueKeepsFrames ==
  ASSUME OwnInv, FrameInv, DequeueSlot
  PROVE  FrameInv'
<1> DEFINE m == mdMbuf[idx]
           f == At(idx).frame
           chain == Append(m0, m)
<1>0. TypeOK /\ IndexInv /\ SlotInv
  BY DEF OwnInv
<1>1. /\ dmaIdx \in Slots /\ devIdx \in Slots /\ last \in Slots /\ idx \in Slots
      /\ \A s \in Slots : Pos(s) \in 0..(Count - 1) /\ Succ(s) \in Slots
      /\ \A s \in Slots : Pos(s) < Count - 1 => Pos(Succ(s)) = Pos(s) + 1
      /\ Pos(dmaIdx) <= Pos(devIdx)
      /\ Dequeuing => FirstFull = idx /\ Pos(idx) <= Pos(last) /\ Pos(last) <= Pos(dmaIdx)
  BY WrittenSlots
<1>2. /\ idx # last /\ idx' = Succ(idx) /\ Dequeuing
      /\ last' = dmaIdx \/ last' = last
      /\ mdMbuf' = [mdMbuf EXCEPT ![idx] = None]
      /\ UNCHANGED <<cons, dmaIdx, devIdx, frame, part, content, isLast>>
      /\ IF isLast[idx] THEN ml' = Append(ml, chain) /\ m0' = <<>>
                        ELSE m0' = chain /\ ml' = ml
  BY DEF DequeueSlot, device, Dequeuing
<1>3. m \in Mbufs /\ m0 \in Seq(Mbufs) /\ ml \in Seq(Seq(Mbufs)) /\ pc' = "dequeue"
  BY <1>0, TakenIsThere DEF TypeOK
<1>4. FirstFull = idx /\ FirstFull' = Succ(idx)
  BY <1>1, <1>2, <1>3 DEF FirstFull, Dequeuing
<1>5. Pos(idx) < Pos(last) /\ Pos(Succ(idx)) = Pos(idx) + 1 /\ Succ(idx) \in Slots
  <2>1. Pos(idx) # Pos(last)
    BY <1>0, <1>1, <1>2, Positions
  <2> QED BY <1>1, <1>2, <2>1, CountAssumption
<1>6. \A s \in Slots : Pos(Succ(idx)) <= Pos(s) => NextAt(s) = At(s)
  <2> SUFFICES ASSUME NEW s \in Slots, Pos(Succ(idx)) <= Pos(s)
               PROVE  NextAt(s) = At(s)
    OBVIOUS
  <2>1. s # idx
    BY <1>1, <1>5
  <2>2. mdMbuf'[s] = mdMbuf[s]
    BY <1>0, <1>2, <2>1 DEF TypeOK
  <2> QED BY <1>2, <2>2 DEF NextAt, At
<1>7. NextAt(dmaIdx').part = 1 /\ NextAt(last').part = 1
  <2>1. NextAt(dmaIdx) = At(dmaIdx) /\ NextAt(last) = At(last)
    <3>1. Pos(Succ(idx)) <= Pos(dmaIdx) /\ Pos(Succ(idx)) <= Pos(last)
      BY <1>1, <1>2, <1>5
    <3> QED BY <1>1, <1>6, <3>1
  <2> QED BY <1>2, <2>1 DEF FrameInv, StartsFrame
<1>8. ASSUME NEW s \in Slots, Pos(Succ(idx)) <= Pos(s), Pos(s) < Pos(devIdx)
      PROVE  /\ content'[mdMbuf'[s]] \in Parts
             /\ isLast'[s] = content'[mdMbuf'[s]].end
             /\ NextAt(Succ(s)) =
                  IF isLast'[s]
                  THEN [frame |-> (NextAt(s).frame + 1) % MaxFrames, part |-> 1]
                  ELSE [frame |-> NextAt(s).frame, part |-> NextAt(s).part + 1]
  <2>1. Pos(Succ(s)) = Pos(s) + 1 /\ Pos(Succ(idx)) <= Pos(Succ(s)) /\ s # idx
        /\ Pos(FirstFull) <= Pos(s)
    BY <1>1, <1>4, <1>5, <1>8, CountAssumption
  <2>2. NextAt(s) = At(s) /\ NextAt(Succ(s)) = At(Succ(s))
    BY <1>1, <1>6, <1>8, <2>1
  <2>3. mdMbuf'[s] = mdMbuf[s]
    BY <1>0, <1>2, <2>1 DEF TypeOK
  <2> QED BY <1>2, <1>8, <2>1, <2>2, <2>3 DEF FrameInv, PartsInv
<1>9. /\ content[m] = [frame |-> f, part |-> Len(m0) + 1, end |-> isLast[idx]]
      /\ NextAt(Succ(idx)) = IF isLast[idx] THEN [frame |-> (f + 1) % MaxFrames, part |-> 1]
                             ELSE [frame |-> f, part |-> (Len(m0) + 1) + 1]
  <2>1. Pos(FirstFull) <= Pos(idx) /\ Pos(idx) < Pos(devIdx) /\ idx # devIdx
    BY <1>1, <1>2, <1>4, <1>5
  <2>2. /\ content[m] \in Parts /\ isLast[idx] = content[m].end
        /\ At(Succ(idx)) =
             IF isLast[idx] THEN [frame |-> (f + 1) % MaxFrames, part |-> 1]
                            ELSE [frame |-> f, part |-> At(idx).part + 1]
    BY <1>1, <2>1 DEF FrameInv, PartsInv
  <2>3. At(idx).part = Len(m0) + 1
    BY <1>4 DEF FrameInv, ChainsInv
  <2>4. NextAt(Succ(idx)) = At(Succ(idx))
    BY <1>1, <1>5, <1>6
  <2>5. content[m].frame = f /\ content[m].part = Len(m0) + 1
    BY <2>1, <2>3 DEF At
  <2>6. content[m] = [frame |-> content[m].frame, part |-> content[m].part,
                      end |-> content[m].end]
    BY <2>2 DEF Parts
  <2> QED BY <2>2, <2>3, <2>4, <2>5, <2>6
<1>10. /\ InOrder(content, ml) /\ Follows(content, ml, f) /\ Begins(content, m0, f)
  BY <1>4 DEF FrameInv, ChainsInv
<1> HIDE DEF f, m
<1>11. /\ chain \in Seq(Mbufs) /\ Len(chain) = Len(m0) + 1 /\ chain = Append(m0, m)
  BY <1>3, AppendProperties
<1> HIDE DEF chain
<1>12. /\ isLast[idx] => Whole(content, chain) /\ content[chain[1]].frame = f
       /\ ~isLast[idx] => Begins(content, chain, f)
  <2>1. isLast[idx] \in BOOLEAN
    BY <1>0, <1>1 DEF TypeOK
  <2>2. ASSUME isLast[idx] PROVE Whole(content, chain) /\ content[chain[1]].frame = f
    <3>1. content[m] = [frame |-> f, part |-> Len(m0) + 1, end |-> TRUE]
      BY <1>9, <2>1, <2>2
    <3> QED BY <1>3, <1>10, <1>11, <3>1, ChainGrows
  <2>3. ASSUME ~isLast[idx] PROVE Begins(content, chain, f)
    <3>1. content[m] = [frame |-> f, part |-> Len(m0) + 1, end |-> FALSE]
      BY <1>9, <2>1, <2>3
    <3> QED BY <1>3, <1>10, <1>11, <3>1, ChainGrows
  <2> QED BY <2>2, <2>3
<1>13. /\ InOrder(content', ml') /\ Follows(content', ml', NextAt(Succ(idx)).frame)
       /\ Begins(content', m0', NextAt(Succ(idx)).frame)
       /\ NextAt(Succ(idx)).part = Len(m0') + 1
  <2>1. CASE isLast[idx]
    <3>1. /\ InOrder(content, Append(ml, chain))
          /\ Follows(content, Append(ml, chain), (f + 1) % MaxFrames)
      BY <1>3, <1>10, <1>11, <1>12, <2>1, ListGrows
    <3>2. ml' = Append(ml, chain) /\ m0' = <<>> /\ content' = content
      BY <1>2, <2>1
    <3>3. NextAt(Succ(idx)).frame = (f + 1) % MaxFrames /\ NextAt(Succ(idx)).part = 1
      BY <1>9, <2>1
    <3>4. Len(m0') = 0 /\ DOMAIN m0' = {}
      BY <3>2
    <3> QED BY <3>1, <3>2, <3>3, <3>4 DEF Begins
  <2>2. CASE ~isLast[idx]
    <3>1. NextAt(Succ(idx)).frame = f /\ NextAt(Succ(idx)).part = (Len(m0) + 1) + 1
      BY <1>9, <2>2
    <3> QED BY <1>2, <1>10, <1>11, <1>12, <2>2, <3>1
  <2> QED BY <2>1, <2>2
<1>14. \A s : Dist(cons', s) = Pos(s)
  BY <1>2, SamePositions
<1> QED BY <1>2, <1>3, <1>4, <1>7, <1>8, <1>13, <1>14, NextFrameInv

\* At the end of the loop of mwx_dma_rx_dequeue no frame is half taken, since
\* DMA_IDX was at the beginning of one.
LEMMA EndDequeueKeepsFrames ==
  ASSUME OwnInv, FrameInv, EndDequeue
  PROVE  FrameInv'
<1>1. /\ dmaIdx \in Slots /\ devIdx \in Slots /\ idx \in Slots
      /\ \A s \in Slots : Pos(s) \in 0..(Count - 1)
      /\ Pos(dmaIdx) <= Pos(devIdx)
      /\ Dequeuing => FirstFull = idx /\ Pos(idx) <= Pos(last) /\ Pos(last) <= Pos(dmaIdx)
  BY WrittenSlots
<1>2. /\ pc = "dequeue" /\ Dequeuing /\ idx = last
      /\ UNCHANGED <<dmaIdx, devIdx, frame, part, content, isLast, mdMbuf, m0, ml>>
  BY DEF EndDequeue, device, Dequeuing
<1>3. m0 = <<>>
  <2>1. m0 \in Seq(Mbufs)
    BY DEF OwnInv, TypeOK
  <2>2. 1 = Len(m0) + 1
    BY <1>1, <1>2 DEF FrameInv, StartsFrame, ChainsInv
  <2> QED BY <2>1, <2>2, EmptySeq
<1>4. cons' = idx /\ pc' = "fill"
  BY <1>3 DEF EndDequeue
<1>5. FirstFull = idx /\ FirstFull' = idx /\ ~Dequeuing'
  BY <1>1, <1>2, <1>4 DEF FirstFull, Dequeuing
<1> DEFINE New(s) == Dist(cons', s)
<1>6. /\ \A s \in Slots : Pos(idx) <= Pos(s) => New(s) = Pos(s) - Pos(idx)
      /\ \A s \in Slots : Pos(s) < Pos(idx) => New(s) = Count - (Pos(idx) - Pos(s))
  BY <1>4, MovedPositions DEF OwnInv
<1> HIDE DEF New
<1>7. \A s \in Slots : New(s) < New(devIdx) => Pos(idx) <= Pos(s) /\ Pos(s) < Pos(devIdx)
  <2>1. New(devIdx) = Pos(devIdx) - Pos(idx) /\ Pos(idx) <= Pos(devIdx)
    BY <1>1, <1>2, <1>6
  <2> QED BY <1>1, <1>6, <2>1, CountAssumption
<1>8. \A s : NextAt(s) = At(s)
  BY <1>2 DEF NextAt, At
<1>9. \A s \in Slots : New(idx) <= New(s) /\ New(s) < New(devIdx) =>
        /\ content'[mdMbuf'[s]] \in Parts
        /\ isLast'[s] = content'[mdMbuf'[s]].end
        /\ NextAt(Succ(s)) =
             IF isLast'[s]
             THEN [frame |-> (NextAt(s).frame + 1) % MaxFrames, part |-> 1]
             ELSE [frame |-> NextAt(s).frame, part |-> NextAt(s).part + 1]
  BY <1>2, <1>5, <1>7, <1>8 DEF FrameInv, PartsInv
<1>10. NextAt(dmaIdx').part = 1 /\ pc' # "panic"
  BY <1>2, <1>4, <1>8 DEF FrameInv, StartsFrame
<1>11. /\ InOrder(content', ml') /\ Follows(content', ml', NextAt(idx).frame)
       /\ Begins(content', m0', NextAt(idx).frame)
       /\ NextAt(idx).part = Len(m0') + 1
  BY <1>2, <1>5, <1>8 DEF FrameInv, ChainsInv
<1> QED BY <1>2, <1>5, <1>9, <1>10, <1>11, NextFrameInv DEF New

\* mwx_dma_rx_process hands on the first frame of the list, whose buffers are in
\* no slot and in no other chain.
LEMMA ProcessKeepsFrames ==
  ASSUME OwnInv, FrameInv, Process
  PROVE  FrameInv'
<1> DEFINE h == ToSet(Head(ml))
<1>1. /\ ml # <<>> /\ ml' = Tail(ml) /\ content' = Forget(h)
      /\ pc' = "process" /\ pc = "process"
      /\ UNCHANGED <<cons, mdMbuf, isLast, dmaIdx, devIdx, frame, part, m0, idx>>
  BY DEF Process, ring
<1>2. m0 \in Seq(Mbufs) /\ ml \in Seq(Seq(Mbufs)) /\ TypeOK
  BY DEF OwnInv, TypeOK
<1>3. /\ Elements(ml) = h \cup Elements(Tail(ml)) /\ h \cap Elements(Tail(ml)) = {}
      /\ Tail(ml) \in Seq(Seq(Mbufs))
  BY <1>1, <1>2, PopLists DEF OwnInv, OwnerInv
<1> HIDE DEF h
<1>4. InSlots \cap h = {} /\ ToSet(m0) \cap h = {}
  BY <1>3, DequeuedElements DEF OwnInv, OwnerInv
<1>5. \A n \in Mbufs : n \notin h => content'[n] = content[n]
  BY <1>1 DEF Forget
<1>6. /\ FirstFull \in Slots /\ dmaIdx \in Slots /\ devIdx \in Slots /\ cpuIdx \in Slots
      /\ \A s \in Slots : Pos(s) \in 0..(Count - 1) /\ Succ(s) \in Slots
      /\ \A s \in Slots : Pos(s) < Count - 1 => Pos(Succ(s)) = Pos(s) + 1
      /\ Pos(FirstFull) <= Pos(dmaIdx) /\ Pos(dmaIdx) <= Pos(devIdx)
      /\ Pos(devIdx) <= Pos(cpuIdx)
      /\ \A s \in Slots : Pos(FirstFull) <= Pos(s) /\ Pos(s) < Pos(cpuIdx)
           => mdMbuf[s] \in InSlots
      /\ InSlots \subseteq Mbufs
  BY WrittenSlots
<1>7. FirstFull' = FirstFull /\ ~Dequeuing'
  BY <1>1 DEF FirstFull, Dequeuing
<1>8. ASSUME NEW s \in Slots, Pos(FirstFull) <= Pos(s), Pos(s) < Pos(devIdx)
      PROVE  content'[mdMbuf'[s]] = content[mdMbuf[s]]
  <2>1. Pos(s) < Pos(cpuIdx)
    BY <1>6, <1>8
  <2> QED BY <1>1, <1>4, <1>5, <1>6, <1>8, <2>1
<1>9. \A s \in Slots : Pos(FirstFull) <= Pos(s) /\ Pos(s) <= Pos(devIdx) => NextAt(s) = At(s)
  <2> SUFFICES ASSUME NEW s \in Slots, Pos(FirstFull) <= Pos(s), Pos(s) <= Pos(devIdx)
               PROVE  NextAt(s) = At(s)
    OBVIOUS
  <2>1. CASE s = devIdx
    BY <1>1, <2>1 DEF NextAt, At
  <2>2. CASE s # devIdx
    <3>1. Pos(s) # Pos(devIdx)
      BY <1>2, <1>6, <2>2, Positions
    <3>2. content'[mdMbuf'[s]] = content[mdMbuf[s]]
      BY <1>6, <1>8, <3>1
    <3> QED BY <1>1, <2>2, <3>2 DEF NextAt, At
  <2> QED BY <2>1, <2>2
<1>10. NextAt(dmaIdx').part = 1 /\ NextAt(FirstFull) = At(FirstFull)
  BY <1>1, <1>6, <1>9 DEF FrameInv, StartsFrame
<1>11. ASSUME NEW s \in Slots, Pos(FirstFull) <= Pos(s), Pos(s) < Pos(devIdx)
       PROVE  /\ content'[mdMbuf'[s]] \in Parts
              /\ isLast'[s] = content'[mdMbuf'[s]].end
              /\ NextAt(Succ(s)) =
                   IF isLast'[s]
                   THEN [frame |-> (NextAt(s).frame + 1) % MaxFrames, part |-> 1]
                   ELSE [frame |-> NextAt(s).frame, part |-> NextAt(s).part + 1]
  <2>1. Pos(Succ(s)) = Pos(s) + 1 /\ Pos(FirstFull) <= Pos(Succ(s))
        /\ Pos(Succ(s)) <= Pos(devIdx)
    BY <1>6, <1>11, CountAssumption
  <2>2. NextAt(s) = At(s) /\ NextAt(Succ(s)) = At(Succ(s))
    BY <1>6, <1>9, <1>11, <2>1
  <2>3. content'[mdMbuf'[s]] = content[mdMbuf[s]] /\ isLast'[s] = isLast[s]
    BY <1>1, <1>8, <1>11
  <2> QED BY <1>11, <2>2, <2>3 DEF FrameInv, PartsInv
<1>12. /\ InOrder(content', ml') /\ Follows(content', ml', NextAt(FirstFull).frame)
       /\ Begins(content', m0', NextAt(FirstFull).frame)
       /\ NextAt(FirstFull).part = Len(m0') + 1
  <2> DEFINE f == At(FirstFull).frame
  <2>1. /\ InOrder(content, ml) /\ Follows(content, ml, f) /\ Begins(content, m0, f)
        /\ At(FirstFull).part = Len(m0) + 1
    BY DEF FrameInv, ChainsInv
  <2> HIDE DEF f
  <2>2. InOrder(content, Tail(ml)) /\ Follows(content, Tail(ml), f)
    BY <1>1, <1>2, <2>1, ListPops
  <2>3. \A n \in ToSet(m0) \cup Elements(Tail(ml)) : content'[n] = content[n]
    <3>1. ToSet(m0) \subseteq Mbufs /\ Elements(ml) \subseteq Mbufs
      <4>1. OwnerInv /\ live \subseteq Mbufs
        BY <1>2 DEF OwnInv, TypeOK
      <4> QED BY <4>1, DequeuedElements DEF OwnerInv
    <3> QED BY <1>3, <1>4, <1>5, <3>1
  <2>4. /\ InOrder(content', Tail(ml)) /\ Follows(content', Tail(ml), f)
        /\ Begins(content', m0, f)
    BY <1>2, <1>3, <2>1, <2>2, <2>3, SameChains
  <2> QED BY <1>1, <1>10, <2>1, <2>4 DEF f
<1>13. \A s : Dist(cons', s) = Pos(s)
  BY <1>1, SamePositions
<1> QED BY <1>1, <1>7, <1>10, <1>11, <1>12, <1>13, NextFrameInv

\* A reset finds nothing on its way up and leaves an empty ring; the device begins
\* its frame again.
LEMMA ResetKeepsFrames ==
  ASSUME OwnInv, Reset
  PROVE  FrameInv'
<1>1. /\ cons' = 0 /\ dmaIdx' = 0 /\ devIdx' = 0 /\ part' = 0 /\ idx' = 0
      /\ pc = "idle" /\ pc' = "fill" /\ UNCHANGED <<m0, ml>>
  BY DEF Reset, StartFilling
<1>2. m0 = <<>> /\ ml = <<>>
  BY <1>1 DEF OwnInv, HandsInv, Dequeuing
<1>3. FirstFull' = 0 /\ ~Dequeuing'
  BY <1>1 DEF FirstFull, Dequeuing
<1>4. 0 \in Slots /\ Dist(0, 0) = 0 /\ \A s \in Slots : ~(Dist(0, s) < 0)
  BY DistRange, CountAssumption DEF Slots
<1>5. NextAt(0).part = 1
  BY <1>1 DEF NextAt
<1>6. DOMAIN m0' = {} /\ Len(m0') = 0 /\ DOMAIN ml' = {} /\ Len(ml') = 0 /\ ml' = <<>>
  BY <1>1, <1>2, EmptySeq
<1>7. InOrder(content', ml')
  <2>1. \A i \in 1..(Len(ml') - 1) : FALSE
    BY <1>6
  <2> QED BY <1>6, <2>1 DEF InOrder
<1>8. Follows(content', ml', NextAt(0).frame) /\ Begins(content', m0', NextAt(0).frame)
  BY <1>6 DEF Follows, Begins
<1> QED BY <1>1, <1>3, <1>4, <1>5, <1>6, <1>7, <1>8, NextFrameInv

LEMMA StepFrames ==
  ASSUME ~IdxPerDesc, OwnInv, FrameInv, [Next]_vars
  PROVE  FrameInv'
<1>1. CASE DeviceWrite
  BY <1>1, DeviceExtendsFrames
<1>2. CASE BeginDequeue
  <2>1. /\ UNCHANGED <<cons, dmaIdx, devIdx, frame, part, content, m0, ml, mdMbuf, isLast>>
        /\ pc = "idle" /\ pc' = "dequeue" /\ idx' = cons /\ last' = dmaIdx
    BY <1>2 DEF BeginDequeue, ring, device
  <2>2. FirstFull' = FirstFull
    BY <2>1 DEF FirstFull, Dequeuing
  <2> QED BY <2>1, <2>2, SameFrames
<1>3. CASE DequeueSlot
  BY <1>3, DequeueKeepsFrames
<1>4. CASE EndDequeue
  BY <1>4, EndDequeueKeepsFrames
<1>5. CASE FillSlot
  <2>1. /\ UNCHANGED <<cons, dmaIdx, devIdx, frame, part, content, m0, ml, pc, last>>
        /\ pc = "fill" /\ ~Dequeuing'
        /\ \E m : mdMbuf' = [mdMbuf EXCEPT ![idx] = m]
        /\ isLast' = [isLast EXCEPT ![idx] = TRUE]
    BY <1>5 DEF FillSlot, device, Dequeuing
  <2>2. FirstFull' = FirstFull
    BY <2>1 DEF FirstFull, Dequeuing
  <2>3. TypeOK /\ Pos(cpuIdx) <= Pos(idx)
    BY <2>1 DEF OwnInv, IndexInv
  <2>4. /\ \A s \in Slots : Pos(s) \in 0..(Count - 1)
        /\ devIdx \in Slots /\ cpuIdx \in Slots /\ idx \in Slots
        /\ Pos(devIdx) <= Pos(cpuIdx)
    BY WrittenSlots
  <2>5. \A s \in Slots : Pos(s) < Pos(devIdx) => s # idx
    BY <2>3, <2>4
  <2>6. \A s \in Slots : s # idx => mdMbuf'[s] = mdMbuf[s] /\ isLast'[s] = isLast[s]
    BY <2>1, <2>3 DEF TypeOK
  <2> QED BY <2>1, <2>2, <2>5, <2>6, SameFrames
<1>6. CASE FillFails \/ EndFill \/ EndProcess
  <2>1. /\ UNCHANGED <<cons, dmaIdx, devIdx, frame, part, content, m0, ml, mdMbuf, isLast>>
        /\ pc \in {"fill", "process"} /\ pc' \in {"process", "idle"}
    BY <1>6 DEF FillFails, EndFill, EndProcess, ring, device
  <2>2. FirstFull' = FirstFull /\ ~Dequeuing' /\ pc' # "panic"
    BY <2>1 DEF FirstFull, Dequeuing
  <2> QED BY <2>1, <2>2, SameFrames
<1>7. CASE Process
  BY <1>7, ProcessKeepsFrames
<1>8. CASE Reset
  BY <1>8, ResetKeepsFrames
<1>9. CASE UNCHANGED vars
  <2>1. UNCHANGED <<cons, dmaIdx, devIdx, frame, part, content, m0, ml, mdMbuf, isLast,
                    pc, idx, last>>
    BY <1>9 DEF vars, ring, device, driver
  <2>2. FirstFull' = FirstFull /\ pc' # "panic"
    BY <2>1 DEF FirstFull, Dequeuing, FrameInv, StartsFrame
  <2> QED BY <2>1, <2>2, SameFrames
<1> QED
  BY <1>1, <1>2, <1>3, <1>4, <1>5, <1>6, <1>7, <1>8, <1>9 DEF Next, Dequeue, Fill

\* Frames go up whole and in the order in which they were received, and neither
\* the KASSERT of mwx_dma_rx_dequeue nor its use of a slot's mbuf fails, however
\* DMA_IDX moves while it runs, if the device moves it from frame to frame.
THEOREM FramesGoUpWholeAndInOrder ==
  ASSUME ~IdxPerDesc
  PROVE  Spec => []FramesAreWholeAndInOrder
<1>1. Init => FrameInv
  BY InitFrames
<1>2. OwnInv /\ FrameInv /\ [Next]_vars => FrameInv'
  BY StepFrames
<1>3. FrameInv => FramesAreWholeAndInOrder
  BY DEF FrameInv, StartsFrame, ChainsInv, InOrder, Whole, FramesAreWholeAndInOrder
<1> QED BY <1>1, <1>2, <1>3, OwnInvHolds, PTL DEF Spec
=============================================================================
