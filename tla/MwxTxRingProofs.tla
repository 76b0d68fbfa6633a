-------------------------- MODULE MwxTxRingProofs --------------------------
(***************************************************************************)
(* Proofs about MwxTxRing for a ring of any size, any threads that enqueue *)
(* and clean up, any number of segments per message, and (but for          *)
(* FetchedFramesAreLive and RingRefinesFifo) a device that reports DMA_IDX *)
(* at whatever descriptor it likes.  What is proved holds until two        *)
(* producers, or two cleaners, are in the ring at once (raced).            *)
(***************************************************************************)
EXTENDS MwxTxRing, RingLemmas

\* mwx_dma_free_slots: one slot is always kept free, so that a full ring can
\* be told from an empty one.
LEMMA FreeSlotsValue ==
  ASSUME prod \in Slots, cons \in Slots
  PROVE  FreeSlots = Count - 1 - Dist(cons, prod)
<1>1. Dist(cons, prod) = IF prod >= cons THEN prod - cons ELSE prod - cons + Count
  BY DistValue
<1>2. prod \in 0..(Count - 1) /\ cons \in 0..(Count - 1)
  BY DEF Slots
<1>3. (Count - 1 + cons - prod) % Count =
        IF prod >= cons THEN Count - 1 + cons - prod ELSE cons - prod - 1
  BY <1>2, CountAssumption
<1> QED BY <1>1, <1>2, <1>3, CountAssumption DEF FreeSlots

----------------------------------------------------------------------------
\* At most one producer and one cleaner are in the ring.
OneEach ==
  /\ \A p, q \in Producers : Enqueueing(p) /\ Enqueueing(q) => p = q
  /\ \A c, d \in Cleaners : cpc[c] = "clean" /\ cpc[d] = "clean" => c = d

\* The producer in the ring begins at mq_prod, with the map of that slot.
LoadedAtProd ==
  \A p \in Producers :
    /\ pc[p] = "load" => idx[p] = prod
    /\ pc[p] \in {"load", "fill"} => map[prod] = p

\* The inductive invariant, as long as there is no race.  KassertHolds is not
\* inductive by itself: the index being filled stays away from mq_cons because
\* of FillOrder, and that survives a cleanup because of CleanOrder and
\* DeviceOrder.
RingInv ==
  /\ TypeOK /\ DeviceOrder /\ FillOrder /\ CleanOrder /\ NoPanic
  /\ OneEach /\ LoadedAtProd

----------------------------------------------------------------------------
LEMMA InitRing == Init => RingInv /\ ~raced
<1> SUFFICES ASSUME Init PROVE RingInv /\ ~raced
  OBVIOUS
<1>2. 0 \in Slots
  BY CountAssumption DEF Slots
<1>0. 0 \in 0..MaxSegs /\ Done \in Descs
  BY SegsAssumption DEF Done, Descs
<1>1. TypeOK
  BY <1>0, <1>2 DEF Init, EmptyRing, TypeOK
<1>3. Dist(0, 0) = 0
  BY <1>2, DistValue
<1>4. DeviceOrder
  BY <1>3 DEF Init, EmptyRing, DeviceOrder
<1>5. FillOrder /\ CleanOrder /\ NoPanic /\ OneEach /\ LoadedAtProd /\ ~raced
  BY DEF Init, FillOrder, CleanOrder, NoPanic, OneEach, LoadedAtProd, Enqueueing
<1> QED BY <1>1, <1>4, <1>5 DEF RingInv

----------------------------------------------------------------------------
\* Type correctness, race or not.
LEMMA StepType == TypeOK /\ [Next]_vars => TypeOK'
<1> SUFFICES ASSUME TypeOK, [Next]_vars PROVE TypeOK'
  OBVIOUS
<1> USE CountAssumption, SegsAssumption DEF TypeOK
<1>0. \A i \in Slots : Succ(i) \in Slots
  BY SuccInSlots
<1>1. ASSUME NEW p \in Producers, AllocMsg(p) PROVE TypeOK'
  BY <1>1 DEF AllocMsg, ring, device, cleaner
<1>2. ASSUME NEW p \in Producers, BeginEnqueue(p) PROVE TypeOK'
  BY <1>2 DEF BeginEnqueue, device, cleaner
<1>a. ASSUME NEW p \in Producers, LoadFails(p) PROVE TypeOK'
  BY <1>a DEF LoadFails, MapsWithout, device, cleaner
<1>b. ASSUME NEW p \in Producers, RingFull(p) PROVE TypeOK'
  BY <1>b DEF RingFull, MapsWithout, device, cleaner
<1>c. ASSUME NEW p \in Producers, RingHasRoom(p) PROVE TypeOK'
  <2>1. PICK n \in 1..MaxSegs : segs' = [segs EXCEPT ![p] = n]
    BY <1>c DEF RingHasRoom
  <2> QED BY <1>c, <2>1 DEF RingHasRoom, device, cleaner
<1>3. ASSUME NEW p \in Producers, FillDesc(p) PROVE TypeOK'
  <2>1. desc' \in [Slots -> Descs]
    BY <1>3 DEF FillDesc, Descs
  <2>2. segs' \in [Producers -> 0..MaxSegs] /\ idx' \in [Producers -> Slots]
    BY <1>0, <1>3 DEF FillDesc
  <2> QED BY <1>3, <2>1, <2>2 DEF FillDesc, device, cleaner
<1>4. ASSUME NEW p \in Producers, PublishProd(p) PROVE TypeOK'
  BY <1>4 DEF PublishProd, device, cleaner
<1>5. ASSUME NEW p \in Producers, Kick(p) PROVE TypeOK'
  BY <1>5 DEF Kick, MapsWithout, device, cleaner
<1>6. ASSUME NEW p \in Producers, GoToSleep(p) PROVE TypeOK'
  BY <1>6 DEF GoToSleep, device, cleaner
<1>7. ASSUME NEW p \in Producers, SleepTimeout(p) PROVE TypeOK'
  BY <1>7 DEF SleepTimeout, ring, device, cleaner
<1>8. ASSUME NEW c \in Cleaners, BeginCleanup(c) PROVE TypeOK'
  BY <1>8 DEF BeginCleanup, ring, device, producer
<1>9. ASSUME NEW c \in Cleaners, CleanSlot(c) PROVE TypeOK'
  BY <1>0, <1>9 DEF CleanSlot, Descs, Done, device, producer
<1>10. ASSUME NEW c \in Cleaners, EndCleanup(c) PROVE TypeOK'
  BY <1>10 DEF EndCleanup, device
<1>11. CASE DeviceFetch
  BY <1>0, <1>11 DEF DeviceFetch, ring, producer, cleaner
<1>12. CASE QueueReset
  BY <1>12 DEF QueueReset, Descs, Done, Slots, producer, cleaner
<1>13. CASE UNCHANGED vars
  BY <1>13 DEF vars, ring, device, producer, cleaner
<1> QED
  BY <1>1, <1>2, <1>a, <1>b, <1>c, <1>3, <1>4, <1>5, <1>6, <1>7, <1>8, <1>9,
     <1>10, <1>11, <1>12, <1>13 DEF Next, Produce, Clean

\* Type correctness, whatever the numbers of producers and cleaners.
THEOREM TypeCorrect == Spec => []TypeOK
<1>1. Init => TypeOK
  BY InitRing DEF RingInv
<1> QED BY <1>1, StepType, PTL DEF Spec

----------------------------------------------------------------------------
\* A step that moves no index but those of producers that leave, and lets
\* nobody into the ring, keeps the order.
LEMMA QuietStep ==
  ASSUME RingInv, TypeOK',
         UNCHANGED <<cons, prod, dmaIdx, devIdx, cpuIdx, segs, cpc, cidx, last>>,
         \A p \in Producers : pc'[p] # "panic",
         \A p \in Producers : pc'[p] \in {"load", "fill", "kick"}
           => /\ pc'[p] = pc[p] /\ idx'[p] = idx[p]
              /\ map[prod] = p => map'[prod] = p
  PROVE  RingInv'
<1>1. DeviceOrder'
  BY DEF RingInv, DeviceOrder, Dist
<1>2. FillOrder'
  BY DEF RingInv, FillOrder, Dist, DescsOf
<1>3. CleanOrder'
  BY DEF RingInv, CleanOrder, Dist
<1>4. OneEach' /\ LoadedAtProd'
  BY DEF RingInv, OneEach, LoadedAtProd, Enqueueing
<1> QED BY <1>1, <1>2, <1>3, <1>4 DEF RingInv, NoPanic

\* A producer in the ring is the only one there.
LEMMA AloneInRing ==
  ASSUME RingInv, NEW p \in Producers, Enqueueing(p)
  PROVE  \A q \in Producers : q # p => pc[q] \notin {"load", "fill", "kick"}
BY DEF RingInv, OneEach, Enqueueing

----------------------------------------------------------------------------
(* One lemma per action that moves an index.                               *)

LEMMA BeginKeepsRing ==
  ASSUME NEW p \in Producers, RingInv, TypeOK', BeginEnqueue(p), ~raced'
  PROVE  RingInv'
<1>1. UNCHANGED <<cons, prod, dmaIdx, devIdx, cpuIdx, segs, cpc, cidx, last>>
  BY DEF BeginEnqueue, device, cleaner
<1>2. /\ pc'[p] = "load" /\ idx'[p] = prod /\ map'[prod] = p
      /\ \A q \in Producers : q # p => pc'[q] = pc[q]
      /\ \A q \in Producers : q # p => pc[q] \notin {"load", "fill", "kick"}
  BY DEF RingInv, TypeOK, BeginEnqueue, Enqueueing
<1>3. DeviceOrder' /\ CleanOrder'
  BY <1>1 DEF RingInv, DeviceOrder, CleanOrder, Dist
<1>4. FillOrder' /\ NoPanic'
  BY <1>2 DEF RingInv, FillOrder, NoPanic
<1>5. OneEach' /\ LoadedAtProd'
  BY <1>1, <1>2 DEF RingInv, OneEach, LoadedAtProd, Enqueueing
<1> QED BY <1>3, <1>4, <1>5 DEF RingInv

LEMMA RoomKeepsRing ==
  ASSUME NEW p \in Producers, RingInv, TypeOK', RingHasRoom(p)
  PROVE  RingInv'
<1>0. PICK n \in 1..MaxSegs : DescsOf(n) <= FreeSlots /\ segs' = [segs EXCEPT ![p] = n]
  BY DEF RingHasRoom
<1>1. /\ UNCHANGED <<cons, prod, map, idx, dmaIdx, devIdx, cpuIdx, cpc, cidx, last>>
      /\ pc[p] = "load"
  BY DEF RingHasRoom, device, cleaner
<1>2. /\ pc'[p] = "fill" /\ idx'[p] = prod /\ segs'[p] = n
      /\ \A q \in Producers : q # p => pc'[q] = pc[q]
      /\ \A q \in Producers : q # p => pc[q] \notin {"load", "fill", "kick"}
  BY <1>0, <1>1, AloneInRing DEF RingInv, TypeOK, RingHasRoom, LoadedAtProd, Enqueueing
<1>3. Dist(cons, prod) + DescsOf(n) <= Count - 1
  <2>2. cons \in Slots /\ prod \in Slots
    BY DEF RingInv, TypeOK
  <2>3. FreeSlots = Count - 1 - Dist(cons, prod) /\ Dist(cons, prod) \in 0..(Count - 1)
    BY <2>2, FreeSlotsValue, DistRange
  <2>4. DescsOf(n) \in Int
    BY SegsAssumption DEF DescsOf
  <2> QED BY <1>0, <2>3, <2>4, CountAssumption
<1>4. Dist(cons, prod) <= Dist(cons, prod)
  BY DistRange DEF RingInv, TypeOK
<1>5. FillOrder'
  BY <1>1, <1>2, <1>3, <1>4 DEF FillOrder, Dist
<1>6. DeviceOrder' /\ CleanOrder'
  BY <1>1 DEF RingInv, DeviceOrder, CleanOrder, Dist
<1>7. NoPanic' /\ OneEach' /\ LoadedAtProd'
  BY <1>1, <1>2 DEF RingInv, NoPanic, OneEach, LoadedAtProd, Enqueueing
<1> QED BY <1>5, <1>6, <1>7 DEF RingInv

LEMMA FillKeepsRing ==
  ASSUME NEW p \in Producers, RingInv, TypeOK', FillDesc(p)
  PROVE  RingInv'
<1> DEFINE i == idx[p]
           n == segs[p]
<1>1. UNCHANGED <<cons, prod, map, dmaIdx, devIdx, cpuIdx, cpc, cidx, last>>
  BY DEF FillDesc, device, cleaner
<1>2. /\ i \in Slots /\ cons \in Slots /\ prod \in Slots
      /\ n \in 1..MaxSegs
  BY SegsAssumption DEF RingInv, TypeOK, FillDesc
<1>3. /\ idx'[p] = Succ(i)
      /\ segs'[p] = IF n <= 2 THEN 0 ELSE n - 2
      /\ pc'[p] = IF Succ(i) = cons THEN "panic" ELSE "fill"
      /\ pc[p] = "fill"
      /\ \A q \in Producers : q # p => pc'[q] = pc[q]
  BY DEF RingInv, TypeOK, FillDesc
<1>4. /\ Dist(cons, prod) <= Dist(cons, i)
      /\ Dist(cons, i) + DescsOf(n) <= Count - 1
  BY DEF RingInv, FillOrder, FillDesc
<1>5. /\ Dist(cons, i) \in 0..(Count - 1)
      /\ Dist(cons, prod) \in 0..(Count - 1)
  BY <1>2, DistRange
<1>6. DescsOf(n) \in Int /\ DescsOf(n) >= 1
  BY <1>2, SegsAssumption DEF DescsOf
<1>7. Succ(i) # cons /\ Dist(cons, Succ(i)) = Dist(cons, i) + 1
  <2>1. Dist(cons, i) < Count - 1
    BY <1>4, <1>5, <1>6, CountAssumption
  <2> HIDE DEF i
  <2> QED BY <2>1, <1>2, DistNotFarthest, DistSucc
<1>8. DescsOf(segs'[p]) = DescsOf(n) - 1
  BY <1>2, <1>3, SegsAssumption DEF DescsOf
<1>a. \A q \in Producers : q # p => pc[q] \notin {"load", "fill", "kick"}
  BY <1>3, AloneInRing DEF Enqueueing
<1>9. FillOrder'
  <2>1. /\ Dist(cons, prod) <= Dist(cons, idx'[p])
        /\ Dist(cons, idx'[p]) + DescsOf(segs'[p]) <= Count - 1
    <3> HIDE DEF i, n
    <3> QED BY <1>3, <1>4, <1>5, <1>6, <1>7, <1>8, CountAssumption
  <2> QED BY <2>1, <1>1, <1>3, <1>a DEF FillOrder, Dist
<1>10. DeviceOrder' /\ CleanOrder'
  BY <1>1 DEF RingInv, DeviceOrder, CleanOrder, Dist
<1>11. NoPanic' /\ OneEach' /\ LoadedAtProd'
  BY <1>1, <1>3, <1>7, <1>a DEF RingInv, NoPanic, OneEach, LoadedAtProd, Enqueueing
<1> QED BY <1>9, <1>10, <1>11 DEF RingInv

LEMMA PublishKeepsRing ==
  ASSUME NEW p \in Producers, RingInv, TypeOK', PublishProd(p)
  PROVE  RingInv'
<1>1. UNCHANGED <<cons, dmaIdx, devIdx, cpuIdx, cpc, cidx, last>>
  BY DEF PublishProd, device, cleaner
<1>2. /\ prod' = idx[p] /\ pc'[p] = "kick" /\ Dist(cons, prod) <= Dist(cons, idx[p])
      /\ \A q \in Producers : q # p => pc'[q] = pc[q]
      /\ \A q \in Producers : q # p => pc[q] \notin {"load", "fill", "kick"}
  BY AloneInRing DEF RingInv, TypeOK, FillOrder, PublishProd, Enqueueing
<1>3. /\ Dist(cons, prod) \in Int /\ Dist(cons, idx[p]) \in Int
      /\ Dist(cons, cpuIdx) \in Int
  BY DistRange DEF RingInv, TypeOK
<1>4. Dist(cons, cpuIdx) <= Dist(cons, prod')
  BY <1>2, <1>3 DEF RingInv, DeviceOrder
<1>5. DeviceOrder'
  BY <1>1, <1>4 DEF RingInv, DeviceOrder, Dist
<1>6. FillOrder' /\ NoPanic' /\ OneEach' /\ LoadedAtProd'
  BY <1>1, <1>2 DEF RingInv, FillOrder, NoPanic, OneEach, LoadedAtProd, Enqueueing
<1>7. CleanOrder'
  BY <1>1 DEF RingInv, CleanOrder, Dist
<1> QED BY <1>5, <1>6, <1>7 DEF RingInv

LEMMA KickKeepsRing ==
  ASSUME NEW p \in Producers, RingInv, TypeOK', Kick(p)
  PROVE  RingInv'
<1>1. UNCHANGED <<cons, prod, dmaIdx, devIdx, cpc, cidx, last>>
  BY DEF Kick, device, cleaner
<1>2. /\ cpuIdx' = prod /\ pc'[p] = "idle"
      /\ \A q \in Producers : q # p => pc'[q] = pc[q]
      /\ \A q \in Producers : q # p => pc[q] \notin {"load", "fill", "kick"}
  BY AloneInRing DEF RingInv, TypeOK, Kick, Enqueueing
<1>3. /\ Dist(cons, prod) \in Int /\ Dist(cons, devIdx) \in Int
      /\ Dist(cons, cpuIdx) \in Int
  BY DistRange DEF RingInv, TypeOK
<1>4. Dist(cons, devIdx) <= Dist(cons, prod) /\ Dist(cons, prod) <= Dist(cons, prod)
  BY <1>3 DEF RingInv, DeviceOrder
<1>5. DeviceOrder'
  BY <1>1, <1>2, <1>4 DEF RingInv, DeviceOrder, Dist
<1>6. FillOrder' /\ NoPanic' /\ OneEach' /\ LoadedAtProd'
  BY <1>1, <1>2 DEF RingInv, FillOrder, NoPanic, OneEach, LoadedAtProd, Enqueueing
<1>7. CleanOrder'
  BY <1>1 DEF RingInv, CleanOrder, Dist
<1> QED BY <1>5, <1>6, <1>7 DEF RingInv

LEMMA FetchKeepsRing ==
  ASSUME RingInv, TypeOK', DeviceFetch
  PROVE  RingInv'
<1>1. UNCHANGED <<cons, prod, map, cpuIdx, pc, idx, segs, cpc, cidx, last>>
  BY DEF DeviceFetch, ring, producer, cleaner
<1>2. /\ devIdx # cpuIdx /\ devIdx' = Succ(devIdx)
      /\ dmaIdx' = Succ(devIdx) \/ dmaIdx' = dmaIdx
  BY DEF DeviceFetch
<1>3. /\ cons \in Slots /\ devIdx \in Slots /\ cpuIdx \in Slots
      /\ dmaIdx \in Slots /\ Succ(devIdx) \in Slots
  BY SuccInSlots DEF RingInv, TypeOK
<1>4. /\ Dist(cons, Succ(devIdx)) = Dist(cons, devIdx) + 1
      /\ Dist(cons, Succ(devIdx)) <= Dist(cons, cpuIdx)
  BY <1>2, <1>3, DistStep DEF RingInv, DeviceOrder
<1>5. /\ Dist(cons, devIdx) \in Int /\ Dist(cons, dmaIdx) \in Int
      /\ Dist(cons, Succ(devIdx)) \in Int
  BY <1>3, DistRange
<1>6. /\ Dist(cons, dmaIdx) <= Dist(cons, dmaIdx')
      /\ Dist(cons, dmaIdx') <= Dist(cons, devIdx')
  BY <1>2, <1>4, <1>5 DEF RingInv, DeviceOrder
<1>7. DeviceOrder'
  BY <1>1, <1>2, <1>4, <1>6 DEF RingInv, DeviceOrder, Dist
<1>8. CleanOrder'
  <2> SUFFICES ASSUME NEW c \in Cleaners, cpc[c] = "clean"
               PROVE  /\ Dist(cons, cidx[c]) <= Dist(cons, last[c])
                      /\ Dist(cons, last[c]) <= Dist(cons, dmaIdx')
    BY <1>1 DEF CleanOrder, Dist
  <2>1. Dist(cons, last[c]) \in Int /\ Dist(cons, dmaIdx') \in Int
    BY DistRange DEF RingInv, TypeOK
  <2> QED BY <2>1, <1>5, <1>6 DEF RingInv, CleanOrder
<1>9. FillOrder' /\ NoPanic' /\ OneEach' /\ LoadedAtProd'
  BY <1>1 DEF RingInv, FillOrder, NoPanic, Dist, OneEach, LoadedAtProd, Enqueueing
<1> QED BY <1>7, <1>8, <1>9 DEF RingInv

LEMMA BeginCleanupKeepsRing ==
  ASSUME NEW c \in Cleaners, RingInv, TypeOK', BeginCleanup(c), ~raced'
  PROVE  RingInv'
<1>1. UNCHANGED <<cons, prod, map, cpuIdx, dmaIdx, devIdx, pc, idx, segs>>
  BY DEF BeginCleanup, ring, device, producer
<1>2. /\ cidx'[c] = cons /\ last'[c] = dmaIdx /\ cpc'[c] = "clean"
      /\ \A d \in Cleaners : d # c => cpc'[d] = cpc[d] /\ cpc[d] # "clean"
  BY DEF RingInv, TypeOK, BeginCleanup
<1>3. /\ Dist(cons, cons) = 0
      /\ Dist(cons, dmaIdx) \in 0..(Count - 1)
  BY DistRange DEF RingInv, TypeOK
<1>4. /\ Dist(cons, cidx'[c]) <= Dist(cons, last'[c])
      /\ Dist(cons, last'[c]) <= Dist(cons, dmaIdx)
  BY <1>2, <1>3, CountAssumption
<1>5. CleanOrder' /\ OneEach'
  BY <1>1, <1>2, <1>4 DEF RingInv, CleanOrder, Dist, OneEach, Enqueueing
<1>6. DeviceOrder' /\ FillOrder' /\ NoPanic' /\ LoadedAtProd'
  BY <1>1 DEF RingInv, DeviceOrder, FillOrder, NoPanic, Dist, LoadedAtProd
<1> QED BY <1>5, <1>6 DEF RingInv

LEMMA CleanSlotKeepsRing ==
  ASSUME NEW c \in Cleaners, RingInv, TypeOK', CleanSlot(c)
  PROVE  RingInv'
<1> DEFINE i == cidx[c]
           e == last[c]
<1>1. UNCHANGED <<cons, prod, map, cpuIdx, dmaIdx, devIdx, pc, idx, segs>>
  BY DEF CleanSlot, device, producer
<1>2. /\ cidx'[c] = Succ(i)
      /\ last'[c] = IF Succ(i) = e THEN dmaIdx ELSE e
      /\ i # e /\ cpc[c] = "clean" /\ cpc' = cpc
      /\ \A d \in Cleaners : d # c => cpc[d] # "clean"
  BY DEF RingInv, TypeOK, CleanSlot, OneEach
<1>3. cons \in Slots /\ i \in Slots /\ e \in Slots /\ dmaIdx \in Slots
  BY DEF RingInv, TypeOK
<1>4. Dist(cons, i) <= Dist(cons, e) /\ Dist(cons, e) <= Dist(cons, dmaIdx)
  BY DEF RingInv, CleanOrder, CleanSlot
<1> HIDE DEF i, e
<1>5. Dist(cons, Succ(i)) <= Dist(cons, e)
  BY <1>2, <1>3, <1>4, DistStep
<1>6. Dist(cons, e) \in Int /\ Dist(cons, dmaIdx) \in Int
  BY <1>3, DistRange
<1>7. /\ Dist(cons, cidx'[c]) <= Dist(cons, last'[c])
      /\ Dist(cons, last'[c]) <= Dist(cons, dmaIdx)
  BY <1>2, <1>4, <1>5, <1>6
<1>8. CleanOrder' /\ OneEach'
  BY <1>1, <1>2, <1>7 DEF RingInv, CleanOrder, Dist, OneEach, Enqueueing
<1>9. DeviceOrder' /\ FillOrder' /\ NoPanic' /\ LoadedAtProd'
  BY <1>1 DEF RingInv, DeviceOrder, FillOrder, NoPanic, Dist, LoadedAtProd
<1> QED BY <1>8, <1>9 DEF RingInv

LEMMA EndCleanupKeepsRing ==
  ASSUME NEW c \in Cleaners, RingInv, TypeOK', EndCleanup(c)
  PROVE  RingInv'
<1>1. UNCHANGED <<prod, map, cpuIdx, dmaIdx, devIdx, idx, segs, cidx, last>>
  BY DEF EndCleanup, device
<1>2. /\ cons' = cidx[c] /\ cons' \in Slots /\ cons \in Slots
      /\ cidx[c] = last[c] /\ cpc'[c] = "idle"
      /\ \A p \in Producers :
           pc'[p] \in {"load", "fill", "kick"} => pc[p] = pc'[p]
      /\ \A p \in Producers : pc'[p] # "panic"
      /\ \A d \in Cleaners : d # c => cpc'[d] = cpc[d] /\ cpc[d] # "clean"
  BY DEF RingInv, TypeOK, NoPanic, EndCleanup, OneEach
<1>3. Dist(cons, cons') <= Dist(cons, dmaIdx)
  BY <1>2 DEF RingInv, CleanOrder, EndCleanup
<1>4. \A s \in Slots : Dist(cons, s) \in Int
  BY <1>2, DistRange
<1>5. \A s \in Slots : Dist(cons, dmaIdx) <= Dist(cons, s)
        => Dist(cons', s) = Dist(cons, s) - Dist(cons, cons')
  <2> SUFFICES ASSUME NEW s \in Slots, Dist(cons, dmaIdx) <= Dist(cons, s)
               PROVE  Dist(cons', s) = Dist(cons, s) - Dist(cons, cons')
    OBVIOUS
  <2>1. Dist(cons, cons') <= Dist(cons, s)
    BY <1>2, <1>3, <1>4 DEF RingInv, TypeOK
  <2> QED BY <1>2, <2>1, DistRebase
<1>6. DeviceOrder'
  <2>1. /\ dmaIdx \in Slots /\ devIdx \in Slots
        /\ cpuIdx \in Slots /\ prod \in Slots
    BY DEF RingInv, TypeOK
  <2>2. /\ Dist(cons', dmaIdx) = Dist(cons, dmaIdx) - Dist(cons, cons')
        /\ Dist(cons', devIdx) = Dist(cons, devIdx) - Dist(cons, cons')
        /\ Dist(cons', cpuIdx) = Dist(cons, cpuIdx) - Dist(cons, cons')
        /\ Dist(cons', prod) = Dist(cons, prod) - Dist(cons, cons')
    BY <2>1, <1>4, <1>5 DEF RingInv, DeviceOrder
  <2>3. /\ Dist(cons', dmaIdx) <= Dist(cons', devIdx)
        /\ Dist(cons', devIdx) <= Dist(cons', cpuIdx)
        /\ Dist(cons', cpuIdx) <= Dist(cons', prod)
    BY <2>1, <2>2, <1>2, <1>4 DEF RingInv, DeviceOrder
  <2> QED BY <2>3, <1>1 DEF DeviceOrder, Dist
<1>7. FillOrder'
  <2> SUFFICES ASSUME NEW p \in Producers, pc[p] = "fill"
               PROVE  /\ Dist(cons', prod) <= Dist(cons', idx[p])
                      /\ Dist(cons', idx[p]) + DescsOf(segs[p]) <= Count - 1
    BY <1>1, <1>2 DEF FillOrder, Dist, DescsOf
  <2>1. /\ idx[p] \in Slots /\ prod \in Slots /\ DescsOf(segs[p]) \in Int
        /\ dmaIdx \in Slots /\ devIdx \in Slots /\ cpuIdx \in Slots
    BY SegsAssumption DEF RingInv, TypeOK, DescsOf
  <2>2. /\ Dist(cons, prod) <= Dist(cons, idx[p])
        /\ Dist(cons, idx[p]) + DescsOf(segs[p]) <= Count - 1
        /\ Dist(cons, dmaIdx) <= Dist(cons, prod)
        /\ Dist(cons, dmaIdx) <= Dist(cons, idx[p])
    BY <2>1, <1>4 DEF RingInv, DeviceOrder, FillOrder
  <2>3. /\ Dist(cons', prod) = Dist(cons, prod) - Dist(cons, cons')
        /\ Dist(cons', idx[p]) = Dist(cons, idx[p]) - Dist(cons, cons')
    BY <2>1, <2>2, <1>5
  <2>4. Dist(cons, cons') \in 0..(Count - 1) /\ Dist(cons, idx[p]) \in Int
        /\ Dist(cons, prod) \in Int
    BY <1>2, <2>1, DistRange
  <2> HIDE DEF RingInv
  <2> QED BY <2>1, <2>2, <2>3, <2>4, CountAssumption
<1>8. CleanOrder' /\ NoPanic' /\ OneEach' /\ LoadedAtProd'
  BY <1>1, <1>2
     DEF RingInv, CleanOrder, NoPanic, OneEach, LoadedAtProd, Enqueueing
<1> QED BY <1>6, <1>7, <1>8 DEF RingInv

----------------------------------------------------------------------------
LEMMA ResetKeepsRing ==
  ASSUME RingInv, TypeOK', QueueReset
  PROVE  RingInv'
<1>1. /\ prod' = 0 /\ cons' = 0 /\ cpuIdx' = 0 /\ dmaIdx' = 0 /\ devIdx' = 0
      /\ \A p \in Producers : pc'[p] = "idle"
      /\ \A c \in Cleaners : cpc'[c] = "idle"
  BY DEF QueueReset, producer, cleaner
<1>2. Dist(0, 0) = 0
  <2>1. 0 \in Slots
    BY CountAssumption DEF Slots
  <2> QED BY <2>1, DistRange
<1>3. DeviceOrder'
  BY <1>1, <1>2 DEF DeviceOrder, Dist
<1> QED
  BY <1>1, <1>3
     DEF RingInv, FillOrder, CleanOrder, NoPanic, OneEach, LoadedAtProd, Enqueueing

\* Every step of the ring keeps the order of the indices, if it is no race.
LEMMA StepRing == RingInv /\ [Next]_vars /\ ~raced' => RingInv'
<1> SUFFICES ASSUME RingInv, [Next]_vars, ~raced' PROVE RingInv'
  OBVIOUS
<1>0. TypeOK /\ TypeOK' /\ NoPanic
  BY StepType DEF RingInv
<1>1. ASSUME NEW p \in Producers, AllocMsg(p) PROVE RingInv'
  BY <1>0, <1>1, QuietStep DEF AllocMsg, TypeOK, NoPanic, ring, device, cleaner
<1>2. ASSUME NEW p \in Producers, BeginEnqueue(p) PROVE RingInv'
  BY <1>0, <1>2, BeginKeepsRing
<1>a. ASSUME NEW p \in Producers, LoadFails(p) \/ RingFull(p) PROVE RingInv'
  <2>1. /\ UNCHANGED <<cons, prod, dmaIdx, devIdx, cpuIdx, idx, segs, cpc, cidx, last>>
        /\ map' = MapsWithout(p)
        /\ \A q \in Producers : q # p => pc'[q] = pc[q]
        /\ pc'[p] \in {"idle", "busy"}
    BY <1>0, <1>a DEF LoadFails, RingFull, TypeOK, device, cleaner
  <2>2. prod \in Slots /\ \A q \in Producers : q # p /\ map[prod] = q => map'[prod] = q
    BY <1>0, <2>1 DEF TypeOK, MapsWithout
  <2> QED BY <1>0, <2>1, <2>2, QuietStep DEF NoPanic
<1>b. ASSUME NEW p \in Producers, RingHasRoom(p) PROVE RingInv'
  BY <1>0, <1>b, RoomKeepsRing
<1>3. ASSUME NEW p \in Producers, FillDesc(p) PROVE RingInv'
  BY <1>0, <1>3, FillKeepsRing
<1>4. ASSUME NEW p \in Producers, PublishProd(p) PROVE RingInv'
  BY <1>0, <1>4, PublishKeepsRing
<1>5. ASSUME NEW p \in Producers, Kick(p) PROVE RingInv'
  BY <1>0, <1>5, KickKeepsRing
<1>6. ASSUME NEW p \in Producers, GoToSleep(p) PROVE RingInv'
  BY <1>0, <1>6, QuietStep DEF GoToSleep, TypeOK, NoPanic, device, cleaner
<1>7. ASSUME NEW p \in Producers, SleepTimeout(p) PROVE RingInv'
  BY <1>0, <1>7, QuietStep DEF SleepTimeout, TypeOK, NoPanic, ring, device, cleaner
<1>8. ASSUME NEW c \in Cleaners, BeginCleanup(c) PROVE RingInv'
  BY <1>0, <1>8, BeginCleanupKeepsRing
<1>9. ASSUME NEW c \in Cleaners, CleanSlot(c) PROVE RingInv'
  BY <1>0, <1>9, CleanSlotKeepsRing
<1>10. ASSUME NEW c \in Cleaners, EndCleanup(c) PROVE RingInv'
  BY <1>0, <1>10, EndCleanupKeepsRing
<1>11. CASE DeviceFetch
  BY <1>0, <1>11, FetchKeepsRing
<1>12. CASE QueueReset
  BY <1>0, <1>12, ResetKeepsRing
<1>13. CASE UNCHANGED vars
  BY <1>0, <1>13, QuietStep DEF NoPanic, vars, ring, device, producer, cleaner
<1> QED
  BY <1>1, <1>2, <1>a, <1>b, <1>3, <1>4, <1>5, <1>6, <1>7, <1>8, <1>9, <1>10,
     <1>11, <1>12, <1>13 DEF Next, Produce, Clean

\* A race is not undone.
LEMMA RacedStays == raced /\ TypeOK /\ [Next]_vars => raced'
BY DEF TypeOK, Next, Produce, Clean, vars, AllocMsg, BeginEnqueue, LoadFails,
       RingFull, RingHasRoom, FillDesc, PublishProd, Kick, GoToSleep, SleepTimeout,
       DeviceFetch, BeginCleanup, CleanSlot, EndCleanup, QueueReset

\* KASSERT(idx != q->mq_cons) never fires in a ring of any size, even though
\* neither senders nor cleanups hold a lock, before two of one kind overlap.
THEOREM KassertNeverFires == Spec => []KassertHolds
<1> DEFINE I == TypeOK /\ (raced \/ RingInv)
<1>1. Init => I
  BY InitRing DEF RingInv
<1>2. I /\ [Next]_vars => I'
  BY StepType, StepRing, RacedStays
<1>3. I => KassertHolds
  BY DEF RingInv, KassertHolds
<1> QED BY <1>1, <1>2, <1>3, PTL DEF Spec

\* The indices and registers of a ring never overtake each other, before two
\* senders or two cleanups overlap.
THEOREM IndicesInOrder == Spec => []IndicesOrdered
<1> DEFINE I == TypeOK /\ (raced \/ RingInv)
<1>1. Init => I
  BY InitRing DEF RingInv
<1>2. I /\ [Next]_vars => I'
  BY StepType, StepRing, RacedStays
<1>3. I => IndicesOrdered
  BY DEF RingInv, IndicesOrdered
<1> QED BY <1>1, <1>2, <1>3, PTL DEF Spec

----------------------------------------------------------------------------
(* The mbufs.  MbufsConserved is not inductive by itself: an mbuf would be *)
(* lost if the slot it is written to, or one that cleanup leaves behind,   *)
(* still held another, so the slots outside mq_cons..mq_prod are empty.    *)

\* The position of a slot, counted from mq_cons.
Pos(s) == Dist(cons, s)

\* Only slots in use hold an mbuf; the first of a frame does while it is filled.
MbufsAreInUse ==
  \A s \in Slots : mdMbuf[s] # None =>
    Pos(s) < Pos(prod) \/ (s = prod /\ \E p \in Producers : pc[p] = "fill")

\* The slots a cleanup has passed are empty.
CleanedIsEmpty ==
  \A c \in Cleaners : cpc[c] = "clean" =>
    \A s \in Slots : Pos(s) < Pos(cidx[c]) => mdMbuf[s] = None

\* The frame that is being filled has its mbuf in its first slot, and at least
\* one descriptor when it is complete.
FirstSlotHasMbuf ==
  \A p \in Producers : pc[p] = "fill" =>
    /\ mbuf[p] # None
    /\ mdMbuf[prod] = mbuf[p]
    /\ segs[p] = 0 => idx[p] # prod

MbufInv == MbufsAreInUse /\ CleanedIsEmpty /\ FirstSlotHasMbuf /\ EachMbufOnce

\* A cleanup works behind the device, and so behind the producer.
LEMMA CleanBehindProd ==
  ASSUME RingInv, NEW c \in Cleaners, cpc[c] = "clean"
  PROVE  /\ Pos(cidx[c]) <= Pos(prod)
         /\ cidx[c] # last[c] => Pos(cidx[c]) < Pos(dmaIdx)
         /\ Pos(dmaIdx) <= Pos(prod)
<1>1. /\ Pos(cidx[c]) <= Pos(last[c]) /\ Pos(last[c]) <= Pos(dmaIdx)
      /\ Pos(dmaIdx) <= Pos(devIdx) /\ Pos(devIdx) <= Pos(cpuIdx)
      /\ Pos(cpuIdx) <= Pos(prod)
  BY DEF RingInv, CleanOrder, DeviceOrder, Pos
<1>2. /\ cons \in Slots /\ cidx[c] \in Slots /\ last[c] \in Slots
      /\ dmaIdx \in Slots /\ devIdx \in Slots /\ cpuIdx \in Slots /\ prod \in Slots
  BY DEF RingInv, TypeOK
<1>3. \A s \in Slots : Pos(s) \in Int
  BY <1>2, DistRange DEF Pos
<1>4. cidx[c] # last[c] => Pos(cidx[c]) # Pos(last[c])
  BY <1>2, DistInjective DEF Pos
<1> QED BY <1>1, <1>2, <1>3, <1>4

\* The mbufs in hand when a producer takes one up, gives it up, or does neither.
LEMMA SameHands ==
  ASSUME \A p \in Producers : pc'[p] \in Hands <=> pc[p] \in Hands,
         \A p \in Producers : pc[p] \in Hands => mbuf'[p] = mbuf[p]
  PROVE  InHand' = InHand
BY DEF InHand

LEMMA HandTakes ==
  ASSUME NEW q \in Producers, pc[q] \notin Hands, pc'[q] \in Hands,
         \A p \in Producers : p # q => pc'[p] = pc[p] /\ mbuf'[p] = mbuf[p]
  PROVE  InHand' = InHand \cup {mbuf'[q]}
BY DEF InHand

LEMMA HandGives ==
  ASSUME NEW q \in Producers, pc[q] \in Hands, pc'[q] \notin Hands,
         \A p \in Producers : p # q => pc'[p] = pc[p] /\ mbuf'[p] = mbuf[p],
         EachMbufOnce
  PROVE  InHand' = InHand \ {mbuf[q]}
BY DEF InHand, EachMbufOnce

LEMMA InitMbufs == Init => MbufInv
<1> SUFFICES ASSUME Init PROVE MbufInv
  OBVIOUS
<1>1. /\ live = {} /\ \A s \in Slots : mdMbuf[s] = None
      /\ \A p \in Producers : pc[p] = "idle"
      /\ \A c \in Cleaners : cpc[c] = "idle"
  BY DEF Init, EmptyRing
<1>2. InHand = {}
  BY <1>1 DEF InHand, Hands
<1>3. EachMbufOnce
  BY <1>1, <1>2 DEF EachMbufOnce, Hands
<1> QED BY <1>1, <1>3 DEF MbufInv, MbufsAreInUse, CleanedIsEmpty, FirstSlotHasMbuf

LEMMA StepMbufs == RingInv /\ RingInv' /\ MbufInv /\ [Next]_vars => MbufInv'
<1> SUFFICES ASSUME RingInv, RingInv', MbufInv, [Next]_vars PROVE MbufInv'
  OBVIOUS
<1>2. TypeOK /\ TypeOK' /\ NoPanic /\ NoPanic' /\ LoadedAtProd /\ OneEach
  BY DEF RingInv
<1>3. /\ MbufsAreInUse /\ CleanedIsEmpty /\ FirstSlotHasMbuf /\ EachMbufOnce
      /\ None \notin Mbufs
  BY NoneAssumption DEF MbufInv
<1>4. cons \in Slots /\ prod \in Slots /\ \A s \in Slots : Pos(s) \in Int
  BY <1>2, DistRange DEF TypeOK, Pos
<1>a. InHand \subseteq live /\ live \subseteq Mbufs
      /\ \A p \in Producers : pc[p] \in Hands => mbuf[p] \in InHand
  BY <1>2, <1>3 DEF EachMbufOnce, TypeOK, InHand
<1>5. \* The steps that move neither mbufs nor the indices they are judged by.
      ASSUME UNCHANGED <<cons, prod, mdMbuf, cidx, live>>,
             \A c \in Cleaners : cpc'[c] = "clean" => cpc[c] = "clean",
             \A p \in Producers : /\ pc'[p] \in Hands <=> pc[p] \in Hands
                                  /\ pc'[p] = "fill" <=> pc[p] = "fill"
                                  /\ pc'[p] \in Hands \cup {"fill"} => mbuf'[p] = mbuf[p]
                                  /\ pc'[p] = "fill" /\ segs'[p] = 0 => idx'[p] # prod
      PROVE  MbufInv'
  <2>1. InHand' = InHand
    BY <1>5, SameHands
  <2>2. EachMbufOnce'
    BY <1>3, <1>5, <2>1 DEF EachMbufOnce
  <2>3. MbufsAreInUse' /\ CleanedIsEmpty'
    BY <1>3, <1>5 DEF MbufsAreInUse, CleanedIsEmpty, Pos
  <2>4. FirstSlotHasMbuf'
    BY <1>3, <1>5 DEF FirstSlotHasMbuf
  <2> QED BY <2>2, <2>3, <2>4 DEF MbufInv
<1>6. ASSUME NEW q \in Producers, AllocMsg(q) PROVE MbufInv'
  <2>1. PICK m \in Mbufs \ live :
          live' = live \cup {m} /\ mbuf' = [mbuf EXCEPT ![q] = m]
    BY <1>6 DEF AllocMsg
  <2>2. /\ UNCHANGED <<cons, prod, mdMbuf, cidx, cpc, segs, idx>>
        /\ pc[q] = "idle" /\ pc'[q] = "enqueue" /\ mbuf'[q] = m
        /\ \A p \in Producers : p # q => pc'[p] = pc[p] /\ mbuf'[p] = mbuf[p]
    BY <1>2, <1>6, <2>1 DEF AllocMsg, ring, cleaner, TypeOK
  <2>3. InHand' = InHand \cup {m}
    BY <2>2, HandTakes DEF Hands
  <2>4. EachMbufOnce'
    <3>1. \A s, t \in Slots : mdMbuf'[s] = mdMbuf'[t] /\ mdMbuf'[s] # None => s = t
      BY <1>3, <2>2 DEF EachMbufOnce
    <3>2. \A s \in Slots : mdMbuf'[s] \notin InHand'
      BY <1>3, <2>1, <2>2, <2>3 DEF EachMbufOnce
    <3>3. live' = InHand' \cup ({mdMbuf'[s] : s \in Slots} \ {None})
      BY <1>3, <2>1, <2>2, <2>3 DEF EachMbufOnce
    <3>4. \A p, r \in Producers :
            pc'[p] \in Hands /\ pc'[r] \in Hands /\ mbuf'[p] = mbuf'[r] => p = r
      <4>1. \A p \in Producers : p # q /\ pc'[p] \in Hands => mbuf'[p] # m
        BY <1>a, <2>1, <2>2
      <4> QED BY <1>3, <2>2, <4>1 DEF EachMbufOnce
    <3> QED BY <3>1, <3>2, <3>3, <3>4 DEF EachMbufOnce
  <2>5. FirstSlotHasMbuf'
    BY <1>3, <2>2 DEF FirstSlotHasMbuf
  <2>6. MbufsAreInUse' /\ CleanedIsEmpty'
    <3>1. \A p \in Producers : pc[p] = "fill" => pc'[p] = "fill"
      BY <2>2
    <3> QED BY <1>3, <2>2, <3>1 DEF MbufsAreInUse, CleanedIsEmpty, Pos
  <2> QED BY <2>4, <2>5, <2>6 DEF MbufInv
<1>7. ASSUME NEW q \in Producers,
             BeginEnqueue(q) \/ RingFull(q) \/ Kick(q) \/ GoToSleep(q) \/ SleepTimeout(q)
      PROVE  MbufInv'
  <2>1. /\ UNCHANGED <<cons, prod, mdMbuf, cidx, cpc, live, segs>>
        /\ \A p \in Producers : p # q => /\ pc'[p] = pc[p] /\ mbuf'[p] = mbuf[p]
                                         /\ idx'[p] = idx[p]
        /\ \/ pc[q] \in Hands /\ pc'[q] \in Hands /\ mbuf'[q] = mbuf[q]
           \/ pc[q] = "kick" /\ pc'[q] = "idle"
    BY <1>2, <1>7
       DEF BeginEnqueue, RingFull, Kick, GoToSleep, SleepTimeout, ring, cleaner,
           TypeOK, Hands
  <2>2. pc[q] # "fill" /\ pc'[q] # "fill" /\ (pc[q] \in Hands <=> pc'[q] \in Hands)
    BY <2>1 DEF Hands
  <2>3. \A p \in Producers : pc'[p] = "fill" /\ segs'[p] = 0 => idx'[p] # prod
    BY <1>3, <2>1, <2>2 DEF FirstSlotHasMbuf
  <2>4. \A p \in Producers : pc'[p] \in Hands \cup {"fill"} => mbuf'[p] = mbuf[p]
    BY <2>1, <2>2 DEF Hands
  <2> QED BY <1>5, <2>1, <2>2, <2>3, <2>4
<1>8. ASSUME NEW q \in Producers, LoadFails(q) PROVE MbufInv'
  <2>1. /\ UNCHANGED <<cons, prod, mdMbuf, cidx, cpc, segs, idx>>
        /\ live' = live \ {mbuf[q]} /\ pc[q] = "load" /\ pc'[q] = "idle"
        /\ \A p \in Producers : p # q => pc'[p] = pc[p] /\ mbuf'[p] = mbuf[p]
    BY <1>2, <1>8 DEF LoadFails, cleaner, TypeOK
  <2>2. InHand' = InHand \ {mbuf[q]} /\ mbuf[q] \in InHand
    BY <1>3, <1>a, <2>1, HandGives DEF Hands
  <2>3. EachMbufOnce'
    <3>1. live' = InHand' \cup ({mdMbuf'[s] : s \in Slots} \ {None})
      BY <1>3, <2>1, <2>2 DEF EachMbufOnce
    <3>2. \A s \in Slots : mdMbuf'[s] \notin InHand'
      BY <1>3, <2>1, <2>2 DEF EachMbufOnce
    <3>3. /\ \A s, t \in Slots : mdMbuf'[s] = mdMbuf'[t] /\ mdMbuf'[s] # None => s = t
          /\ \A p, r \in Producers :
               pc'[p] \in Hands /\ pc'[r] \in Hands /\ mbuf'[p] = mbuf'[r] => p = r
      BY <1>3, <2>1 DEF EachMbufOnce, Hands
    <3> QED BY <3>1, <3>2, <3>3 DEF EachMbufOnce
  <2>4. FirstSlotHasMbuf'
    BY <1>3, <2>1 DEF FirstSlotHasMbuf
  <2>5. MbufsAreInUse' /\ CleanedIsEmpty'
    <3>1. \A p \in Producers : pc[p] = "fill" => pc'[p] = "fill"
      BY <2>1
    <3> QED BY <1>3, <2>1, <3>1 DEF MbufsAreInUse, CleanedIsEmpty, Pos
  <2> QED BY <2>3, <2>4, <2>5 DEF MbufInv
<1>9. ASSUME NEW q \in Producers, RingHasRoom(q) PROVE MbufInv'
  <2>0. PICK n \in 1..MaxSegs : segs' = [segs EXCEPT ![q] = n]
    BY <1>9 DEF RingHasRoom
  <2>1. /\ UNCHANGED <<cons, prod, live, mbuf, idx, cidx, cpc>>
        /\ pc[q] = "load" /\ pc'[q] = "fill" /\ segs'[q] = n /\ idx[q] = prod
        /\ \A p \in Producers : p # q => pc'[p] = pc[p]
        /\ \A s \in Slots : mdMbuf'[s] = IF s = prod THEN mbuf[q] ELSE mdMbuf[s]
    BY <1>2, <1>9, <2>0 DEF RingHasRoom, TypeOK, LoadedAtProd, cleaner
  <2>2. \A p \in Producers : p # q => pc'[p] # "fill" /\ pc[p] # "fill"
    BY <1>9, <2>1, AloneInRing DEF Enqueueing
  <2>3. /\ mbuf[q] # None /\ mdMbuf[prod] = None
        /\ \A s \in Slots : mdMbuf[s] # mbuf[q]
    <3>1. mbuf[q] \in InHand
      BY <1>a, <2>1 DEF Hands
    <3>2. mdMbuf[prod] = None
      BY <1>3, <1>4, <2>1, <2>2 DEF MbufsAreInUse
    <3> QED BY <1>3, <1>a, <3>1, <3>2 DEF EachMbufOnce
  <2>4. InHand' = InHand \ {mbuf[q]} /\ mbuf[q] \in InHand
    BY <1>3, <1>a, <2>1, HandGives DEF Hands
  <2>5. EachMbufOnce'
    <3>1. {mdMbuf'[s] : s \in Slots} \ {None}
              = {mbuf[q]} \cup ({mdMbuf[s] : s \in Slots} \ {None})
      BY <1>4, <2>1, <2>3
    <3>2. live' = InHand' \cup ({mdMbuf'[s] : s \in Slots} \ {None})
      <4>1. live = InHand \cup ({mdMbuf[s] : s \in Slots} \ {None})
        BY <1>3 DEF EachMbufOnce
      <4> QED BY <2>1, <2>4, <3>1, <4>1
    <3>3. \A s, t \in Slots : mdMbuf'[s] = mdMbuf'[t] /\ mdMbuf'[s] # None => s = t
      BY <1>3, <2>1, <2>3 DEF EachMbufOnce
    <3>4. \A s \in Slots : mdMbuf'[s] \notin InHand'
      BY <1>3, <2>1, <2>4 DEF EachMbufOnce
    <3>5. \A p, r \in Producers :
            pc'[p] \in Hands /\ pc'[r] \in Hands /\ mbuf'[p] = mbuf'[r] => p = r
      BY <1>3, <2>1 DEF EachMbufOnce, Hands
    <3> QED BY <3>2, <3>3, <3>4, <3>5 DEF EachMbufOnce
  <2>6. MbufsAreInUse'
    BY <1>3, <2>1, <2>2 DEF MbufsAreInUse, Pos
  <2>7. CleanedIsEmpty'
    <3> SUFFICES ASSUME NEW c \in Cleaners, cpc[c] = "clean",
                        NEW s \in Slots, Pos(s) < Pos(cidx[c])
                 PROVE  mdMbuf'[s] = None
      BY <2>1 DEF CleanedIsEmpty, Pos
    <3>1. s # prod
      <4>1. Pos(cidx[c]) <= Pos(prod) /\ cidx[c] \in Slots
        BY <1>2, CleanBehindProd DEF TypeOK
      <4> QED BY <1>4, <4>1
    <3> QED BY <1>3, <2>1, <3>1 DEF CleanedIsEmpty
  <2>8. FirstSlotHasMbuf'
    BY <1>4, <2>1, <2>2, <2>3 DEF FirstSlotHasMbuf
  <2> QED BY <2>5, <2>6, <2>7, <2>8 DEF MbufInv
<1>10. ASSUME NEW q \in Producers, FillDesc(q) PROVE MbufInv'
  <2>1. /\ idx'[q] = Succ(idx[q]) /\ pc[q] = "fill" /\ segs[q] > 0
        /\ pc'[q] # "panic" /\ pc'[q] = IF Succ(idx[q]) = cons THEN "panic" ELSE "fill"
        /\ UNCHANGED <<cons, prod, mdMbuf, live, mbuf, cidx, cpc>>
        /\ \A p \in Producers : p # q =>
             pc'[p] = pc[p] /\ segs'[p] = segs[p] /\ idx'[p] = idx[p]
    BY <1>2, <1>10 DEF FillDesc, TypeOK, NoPanic, cleaner
  <2>2. idx[q] \in Slots /\ Pos(prod) <= Pos(idx[q])
    BY <1>2, <2>1 DEF TypeOK, RingInv, FillOrder, Pos
  <2>3. Succ(idx[q]) # cons /\ Pos(Succ(idx[q])) = Pos(idx[q]) + 1
    BY <1>4, <2>1, <2>2, DistSucc DEF Pos
  <2>4. idx'[q] # prod
    BY <1>4, <2>1, <2>2, <2>3
  <2>5. \A p \in Producers : pc'[p] = pc[p]
    BY <2>1, <2>3
  <2>6. \A p \in Producers : pc'[p] = "fill" /\ segs'[p] = 0 => idx'[p] # prod
    BY <1>3, <2>1, <2>4, <2>5 DEF FirstSlotHasMbuf
  <2> QED BY <1>5, <2>1, <2>5, <2>6
<1>11. ASSUME NEW q \in Producers, PublishProd(q) PROVE MbufInv'
  <2>1. /\ pc[q] = "fill" /\ segs[q] = 0 /\ prod' = idx[q] /\ pc'[q] = "kick"
        /\ UNCHANGED <<cons, mdMbuf, live, mbuf, cidx, cpc>>
        /\ \A p \in Producers : p # q => pc'[p] = pc[p]
    BY <1>2, <1>11 DEF PublishProd, TypeOK, cleaner
  <2>2. \A p \in Producers : pc'[p] # "fill"
    BY <2>1, AloneInRing DEF Enqueueing
  <2>3. idx[q] \in Slots /\ Pos(prod) < Pos(idx[q])
    <3>1. idx[q] \in Slots /\ Pos(prod) <= Pos(idx[q]) /\ idx[q] # prod
      BY <1>2, <1>3, <2>1 DEF TypeOK, RingInv, FillOrder, FirstSlotHasMbuf, Pos
    <3> QED BY <1>4, <3>1, DistInjective DEF Pos
  <2>4. MbufsAreInUse'
    <3> SUFFICES ASSUME NEW s \in Slots, mdMbuf[s] # None
                 PROVE  Pos(s) < Pos(idx[q])
      BY <2>1 DEF MbufsAreInUse, Pos
    <3>1. Pos(s) < Pos(prod) \/ s = prod
      BY <1>3 DEF MbufsAreInUse
    <3> QED BY <1>4, <2>3, <3>1
  <2>5. EachMbufOnce'
    <3>1. InHand' = InHand /\ \A p \in Producers : pc'[p] \in Hands <=> pc[p] \in Hands
      BY <2>1, SameHands DEF Hands
    <3> QED BY <1>3, <2>1, <3>1 DEF EachMbufOnce
  <2>6. CleanedIsEmpty' /\ FirstSlotHasMbuf'
    BY <1>3, <2>1, <2>2 DEF CleanedIsEmpty, FirstSlotHasMbuf, Pos
  <2> QED BY <2>4, <2>5, <2>6 DEF MbufInv
<1>12. ASSUME NEW c \in Cleaners, BeginCleanup(c) PROVE MbufInv'
  <2>1. /\ UNCHANGED <<cons, prod, mdMbuf, live, pc, mbuf, idx, segs>>
        /\ cidx'[c] = cons
        /\ \A d \in Cleaners : d # c => cpc'[d] = cpc[d] /\ cidx'[d] = cidx[d]
    BY <1>2, <1>12 DEF BeginCleanup, ring, producer, TypeOK
  <2>2. CleanedIsEmpty'
    <3>1. Pos(cons) = 0 /\ \A s \in Slots : Pos(s) >= 0
      BY <1>4, DistRange DEF Pos
    <3> QED BY <1>3, <1>4, <2>1, <3>1 DEF CleanedIsEmpty, Pos
  <2>3. EachMbufOnce'
    <3>1. InHand' = InHand
      BY <2>1 DEF InHand
    <3> QED BY <1>3, <2>1, <3>1 DEF EachMbufOnce
  <2>4. MbufsAreInUse' /\ FirstSlotHasMbuf'
    BY <1>3, <2>1 DEF MbufsAreInUse, FirstSlotHasMbuf, Pos
  <2> QED BY <2>2, <2>3, <2>4 DEF MbufInv
<1>13. ASSUME NEW c \in Cleaners, CleanSlot(c) PROVE MbufInv'
  <2> DEFINE i == cidx[c]
  <2>1. /\ i \in Slots /\ cpc[c] = "clean" /\ i # last[c]
        /\ UNCHANGED <<cons, prod, pc, mbuf, idx, segs, cpc>>
        /\ cidx'[c] = Succ(i) /\ live' = live \ {mdMbuf[i]}
        /\ \A s \in Slots : mdMbuf'[s] = IF s = i THEN None ELSE mdMbuf[s]
        /\ \A d \in Cleaners : d # c => cpc'[d] # "clean"
    BY <1>2, <1>13 DEF CleanSlot, producer, TypeOK, OneEach
  <2>2. Pos(i) < Pos(prod)
    <3>1. /\ Pos(i) < Pos(dmaIdx) /\ Pos(dmaIdx) <= Pos(prod)
      BY <2>1, CleanBehindProd
    <3>2. dmaIdx \in Slots
      BY <1>2 DEF TypeOK
    <3> QED BY <1>4, <2>1, <3>1, <3>2
  <2>3. Pos(Succ(i)) = Pos(i) + 1
    <3>1. last[c] \in Slots /\ Pos(i) <= Pos(last[c])
      BY <1>2, <2>1 DEF RingInv, CleanOrder, TypeOK, Pos
    <3> HIDE DEF i
    <3> QED BY <1>4, <2>1, <3>1, DistStep DEF Pos
  <2> HIDE DEF i
  <2>4. EachMbufOnce'
    <3>0. InHand' = InHand
      BY <2>1 DEF InHand
    <3>1. \A s, t \in Slots : mdMbuf'[s] = mdMbuf'[t] /\ mdMbuf'[s] # None => s = t
      BY <1>3, <2>1 DEF EachMbufOnce
    <3>2. {mdMbuf'[s] : s \in Slots} \ {None}
            = ({mdMbuf[s] : s \in Slots} \ {None}) \ {mdMbuf[i]}
      BY <1>3, <2>1 DEF EachMbufOnce
    <3>3. mdMbuf[i] \notin InHand /\ None \notin InHand
      BY <1>3, <1>a, <2>1 DEF EachMbufOnce
    <3>4. \A s \in Slots : mdMbuf'[s] \notin InHand
      BY <1>3, <2>1, <3>3 DEF EachMbufOnce
    <3>6. live = InHand \cup ({mdMbuf[s] : s \in Slots} \ {None})
      BY <1>3 DEF EachMbufOnce
    <3>7. live' = InHand \cup ({mdMbuf'[s] : s \in Slots} \ {None})
      BY <2>1, <3>2, <3>3, <3>6
    <3>8. \A p, q \in Producers :
            pc'[p] \in Hands /\ pc'[q] \in Hands /\ mbuf'[p] = mbuf'[q] => p = q
      BY <1>3, <2>1 DEF EachMbufOnce
    <3> QED BY <3>0, <3>1, <3>4, <3>7, <3>8 DEF EachMbufOnce
  <2>5. MbufsAreInUse'
    BY <1>3, <2>1 DEF MbufsAreInUse, Pos
  <2>6. FirstSlotHasMbuf'
    BY <1>3, <1>4, <2>1, <2>2 DEF FirstSlotHasMbuf
  <2>7. CleanedIsEmpty'
    <3> SUFFICES ASSUME NEW s \in Slots, Pos(s) < Pos(Succ(i))
                 PROVE  mdMbuf'[s] = None
      BY <2>1 DEF CleanedIsEmpty, Pos
    <3>2. Pos(s) < Pos(i) \/ Pos(s) = Pos(i)
      BY <1>4, <2>1, <2>3
    <3>3. CASE Pos(s) < Pos(i)
      BY <1>3, <2>1, <3>3 DEF CleanedIsEmpty, i
    <3>4. CASE Pos(s) = Pos(i)
      <4>1. s = i
        BY <1>4, <2>1, <3>4, DistInjective DEF Pos
      <4> QED BY <2>1, <4>1
    <3> QED BY <3>2, <3>3, <3>4
  <2> QED BY <2>4, <2>5, <2>6, <2>7 DEF MbufInv
<1>14. ASSUME NEW c \in Cleaners, EndCleanup(c) PROVE MbufInv'
  <2>1. /\ cidx[c] \in Slots /\ cpc[c] = "clean" /\ cons' = cidx[c]
        /\ cpc'[c] = "idle" /\ UNCHANGED <<prod, mdMbuf, live, mbuf, idx, segs>>
        /\ \A p \in Producers : pc'[p] = pc[p] \/ (pc[p] = "sleep" /\ pc'[p] = "enqueue")
        /\ \A d \in Cleaners : cpc'[d] # "clean"
    BY <1>2, <1>14 DEF EndCleanup, TypeOK, OneEach
  <2>2. \A p \in Producers : /\ pc'[p] \in Hands <=> pc[p] \in Hands
                             /\ pc'[p] = "fill" <=> pc[p] = "fill"
    BY <2>1 DEF Hands
  <2>3. EachMbufOnce'
    <3>1. InHand' = InHand
      BY <2>1, <2>2, SameHands
    <3> QED BY <1>3, <2>1, <2>2, <3>1 DEF EachMbufOnce
  <2>4. CleanedIsEmpty'
    BY <2>1 DEF CleanedIsEmpty
  <2>5. MbufsAreInUse'
    <3> SUFFICES ASSUME NEW s \in Slots, mdMbuf[s] # None,
                        ~(s = prod /\ \E p \in Producers : pc[p] = "fill")
                 PROVE  Dist(cidx[c], s) < Dist(cidx[c], prod)
      BY <2>1, <2>2 DEF MbufsAreInUse, Pos
    <3>1. Pos(s) < Pos(prod) /\ ~(Pos(s) < Pos(cidx[c]))
      BY <1>3, <2>1 DEF MbufsAreInUse, CleanedIsEmpty
    <3>2. Pos(cidx[c]) <= Pos(prod) /\ Pos(cidx[c]) <= Pos(s)
      BY <1>4, <2>1, <3>1, CleanBehindProd
    <3>3. /\ Dist(cidx[c], s) = Pos(s) - Pos(cidx[c])
          /\ Dist(cidx[c], prod) = Pos(prod) - Pos(cidx[c])
      BY <1>4, <2>1, <3>2, DistRebase DEF Pos
    <3> QED BY <1>4, <2>1, <3>1, <3>3
  <2>6. FirstSlotHasMbuf'
    BY <1>3, <2>1, <2>2 DEF FirstSlotHasMbuf
  <2> QED BY <2>3, <2>4, <2>5, <2>6 DEF MbufInv
<1>15. CASE DeviceFetch
  BY <1>5, <1>15, <1>3 DEF DeviceFetch, ring, producer, cleaner, FirstSlotHasMbuf
<1>16. CASE QueueReset
  <2>1. /\ \A p \in Producers : pc[p] = "idle" /\ pc'[p] = "idle"
        /\ \A c \in Cleaners : cpc'[c] = "idle"
        /\ live' = live \ {mdMbuf[s] : s \in Slots}
        /\ \A s \in Slots : mdMbuf'[s] = None
    BY <1>16 DEF QueueReset, producer, cleaner
  <2>2. InHand = {} /\ InHand' = {}
    BY <2>1 DEF InHand, Hands
  <2>3. live' = {}
    BY <1>3, <2>1, <2>2 DEF EachMbufOnce
  <2>4. EachMbufOnce'
    BY <2>1, <2>2, <2>3 DEF EachMbufOnce, Hands
  <2> QED BY <2>1, <2>4
          DEF MbufInv, MbufsAreInUse, CleanedIsEmpty, FirstSlotHasMbuf
<1>17. CASE UNCHANGED vars
  BY <1>5, <1>17, <1>3 DEF vars, ring, producer, cleaner, FirstSlotHasMbuf
<1> QED
  BY <1>6, <1>7, <1>8, <1>9, <1>10, <1>11, <1>12, <1>13, <1>14, <1>15, <1>16,
     <1>17 DEF Next, Produce, Clean

\* Every mbuf that is allocated is in the hands of one sender or in exactly one
\* slot of the ring, and no slot keeps one that was freed: until two senders or
\* two cleanups overlap, whenever the device reports its progress, nothing leaks
\* and nothing is freed twice.
THEOREM NoMbufIsLost == Spec => []MbufsConserved
<1> DEFINE I == TypeOK /\ (raced \/ (RingInv /\ MbufInv))
<1>1. Init => I
  BY InitRing, InitMbufs DEF RingInv
<1>2. I /\ [Next]_vars => I'
  BY StepType, StepRing, StepMbufs, RacedStays
<1>3. I => MbufsConserved
  BY DEF MbufInv, MbufsConserved
<1> QED BY <1>1, <1>2, <1>3, PTL DEF Spec

----------------------------------------------------------------------------
(* The frames.  What the device may still fetch lies between DMA_IDX and   *)
(* the end of what was written; the mbuf it belongs to is kept by the      *)
(* first slot of the same frame, and that slot is not before DMA_IDX as    *)
(* long as the device reports whole frames only.  Positions are counted    *)
(* from a slot z, mq_cons or one that becomes it.                          *)

\* No descriptor from a up to, not including, e is the last of its frame.
Open(z, ds, a, e) ==
  \A u \in Slots : Dist(z, a) <= Dist(z, u) /\ Dist(z, u) < Dist(z, e) => ~ds[u].last

\* The descriptors from a up to e were written for the mbuf in the first slot of
\* their frame, which is not before a, and the first one points into it.
Framed(z, md, ds, a, e) ==
  \A s \in Slots : Dist(z, a) <= Dist(z, s) /\ Dist(z, s) < Dist(z, e) =>
    /\ ~ds[s].done
    /\ md[s] # None => ds[s].buf = md[s]
    /\ \E t \in Slots : /\ Dist(z, a) <= Dist(z, t) /\ Dist(z, t) <= Dist(z, s)
                        /\ md[t] # None /\ Open(z, ds, t, s)

FrameInv ==
  /\ Framed(cons, mdMbuf, desc, dmaIdx, prod)
  /\ \A p \in Producers : pc[p] = "fill" =>
       /\ Framed(cons, mdMbuf, desc, dmaIdx, idx[p])
       /\ segs[p] > 0 => Open(cons, desc, prod, idx[p])

\* Slots elsewhere may change.
LEMMA OpenKept ==
  ASSUME NEW z \in Slots, NEW ds, NEW nd, NEW a \in Slots, NEW e \in Slots,
         Open(z, ds, a, e),
         \A s \in Slots : Dist(z, a) <= Dist(z, s) /\ Dist(z, s) < Dist(z, e)
           => nd[s] = ds[s]
  PROVE  Open(z, nd, a, e)
BY DEF Open

LEMMA FramedKept ==
  ASSUME NEW z \in Slots, NEW md, NEW ds, NEW ny, NEW nd, NEW a \in Slots, NEW e \in Slots,
         Framed(z, md, ds, a, e),
         \A s \in Slots : Dist(z, a) <= Dist(z, s) /\ Dist(z, s) < Dist(z, e)
           => ny[s] = md[s] /\ nd[s] = ds[s]
  PROVE  Framed(z, ny, nd, a, e)
<1> SUFFICES ASSUME NEW s \in Slots, Dist(z, a) <= Dist(z, s), Dist(z, s) < Dist(z, e)
             PROVE  /\ ~nd[s].done
                    /\ ny[s] # None => nd[s].buf = ny[s]
                    /\ \E t \in Slots :
                         /\ Dist(z, a) <= Dist(z, t) /\ Dist(z, t) <= Dist(z, s)
                         /\ ny[t] # None /\ Open(z, nd, t, s)
  BY DEF Framed
<1>1. /\ ~ds[s].done
      /\ md[s] # None => ds[s].buf = md[s]
  BY DEF Framed
<1>2. PICK t \in Slots : /\ Dist(z, a) <= Dist(z, t) /\ Dist(z, t) <= Dist(z, s)
                         /\ md[t] # None /\ Open(z, ds, t, s)
  BY DEF Framed
<1>3. \A u \in Slots : Dist(z, u) \in Int
  BY DistRange
<1>4. \A u \in Slots : Dist(z, t) <= Dist(z, u) /\ Dist(z, u) <= Dist(z, s)
        => ny[u] = md[u] /\ nd[u] = ds[u]
  BY <1>2, <1>3
<1>5. Open(z, nd, t, s)
  BY <1>2, <1>3, <1>4, OpenKept
<1>6. ny[t] = md[t] /\ nd[s] = ds[s] /\ ny[s] = md[s]
  BY <1>2, <1>3, <1>4
<1> QED BY <1>1, <1>2, <1>5, <1>6

\* A descriptor is written at the end.
LEMMA EndGrows ==
  ASSUME NEW z \in Slots, NEW i \in Slots, Succ(i) # z
  PROVE  \A s \in Slots : Dist(z, s) < Dist(z, Succ(i)) <=> Dist(z, s) < Dist(z, i) \/ s = i
<1>1. /\ Dist(z, Succ(i)) = Dist(z, i) + 1
      /\ \A s \in Slots : Dist(z, s) \in Int /\ (Dist(z, s) = Dist(z, i) => s = i)
  BY DistSucc, DistRange, DistInjective
<1> QED BY <1>1

LEMMA OpenGrows ==
  ASSUME NEW z \in Slots, NEW ds, NEW nd, NEW a \in Slots, NEW i \in Slots,
         Succ(i) # z, Open(z, ds, a, i), ~nd[i].last,
         \A s \in Slots : s # i => nd[s] = ds[s]
  PROVE  Open(z, nd, a, Succ(i))
<1>1. \A s \in Slots : Dist(z, s) < Dist(z, Succ(i)) <=> Dist(z, s) < Dist(z, i) \/ s = i
  BY EndGrows
<1> QED BY <1>1 DEF Open

LEMMA FramedGrows ==
  ASSUME NEW z \in Slots, NEW md, NEW ds, NEW nd, NEW a \in Slots, NEW i \in Slots,
         Succ(i) # z, Framed(z, md, ds, a, i),
         \A s \in Slots : s # i => nd[s] = ds[s],
         ~nd[i].done, md[i] # None => nd[i].buf = md[i],
         NEW h \in Slots, Dist(z, a) <= Dist(z, h), Dist(z, h) <= Dist(z, i),
         md[h] # None, Open(z, ds, h, i)
  PROVE  Framed(z, md, nd, a, Succ(i))
<1>1. \A s \in Slots : Dist(z, s) < Dist(z, Succ(i)) <=> Dist(z, s) < Dist(z, i) \/ s = i
  BY EndGrows
<1>2. \A s \in Slots : Dist(z, s) \in Int
  BY DistRange
<1>3. \A s \in Slots : Dist(z, s) < Dist(z, i) => nd[s] = ds[s]
  BY <1>2
<1>4. Framed(z, md, nd, a, i)
  BY <1>3, FramedKept
<1>5. Open(z, nd, h, i)
  BY <1>3, OpenKept
<1> QED BY <1>1, <1>4, <1>5 DEF Framed

\* The device moves past the last descriptor of a frame.
LEMMA FramedShrinks ==
  ASSUME NEW z \in Slots, NEW md, NEW ds, NEW a \in Slots, NEW e \in Slots, NEW i \in Slots,
         Framed(z, md, ds, a, e), Dist(z, a) <= Dist(z, i), ds[i].last, Succ(i) # z
  PROVE  Framed(z, md, ds, Succ(i), e)
<1>1. /\ Dist(z, Succ(i)) = Dist(z, i) + 1
      /\ \A s \in Slots : Dist(z, s) \in Int
  BY DistSucc, DistRange
<1> SUFFICES ASSUME NEW s \in Slots, Dist(z, Succ(i)) <= Dist(z, s), Dist(z, s) < Dist(z, e)
             PROVE  /\ ~ds[s].done
                    /\ md[s] # None => ds[s].buf = md[s]
                    /\ \E t \in Slots :
                         /\ Dist(z, Succ(i)) <= Dist(z, t) /\ Dist(z, t) <= Dist(z, s)
                         /\ md[t] # None /\ Open(z, ds, t, s)
  BY DEF Framed
<1>2. Dist(z, a) <= Dist(z, s) /\ Dist(z, i) < Dist(z, s)
  BY <1>1
<1>3. PICK t \in Slots : /\ Dist(z, a) <= Dist(z, t) /\ Dist(z, t) <= Dist(z, s)
                         /\ md[t] # None /\ Open(z, ds, t, s)
  BY <1>2 DEF Framed
<1>4. ~(Dist(z, t) <= Dist(z, i))
  BY <1>2, <1>3 DEF Open
<1>5. Dist(z, Succ(i)) <= Dist(z, t)
  BY <1>1, <1>4
<1> QED BY <1>2, <1>3, <1>5 DEF Framed

\* mq_cons moves: slots behind the new one are the farthest from it.
LEMMA BetweenRebase ==
  ASSUME NEW z \in Slots, NEW y \in Slots, NEW a \in Slots, NEW e \in Slots,
         Dist(z, y) <= Dist(z, a), Dist(z, a) <= Dist(z, e)
  PROVE  \A s \in Slots :
           Dist(y, a) <= Dist(y, s) /\ Dist(y, s) < Dist(y, e)
             <=> Dist(z, a) <= Dist(z, s) /\ Dist(z, s) < Dist(z, e)
<1> SUFFICES ASSUME NEW s \in Slots
             PROVE  Dist(y, a) <= Dist(y, s) /\ Dist(y, s) < Dist(y, e)
                      <=> Dist(z, a) <= Dist(z, s) /\ Dist(z, s) < Dist(z, e)
  OBVIOUS
<1>1. /\ Dist(z, y) \in 0..(Count - 1) /\ Dist(z, a) \in 0..(Count - 1)
      /\ Dist(z, e) \in 0..(Count - 1) /\ Dist(z, s) \in 0..(Count - 1)
  BY DistRange
<1>2. Dist(y, a) = Dist(z, a) - Dist(z, y)
  BY DistRebase
<1>3. Dist(y, e) = Dist(z, e) - Dist(z, y)
  <2>1. Dist(z, y) <= Dist(z, e)
    BY <1>1
  <2> QED BY <2>1, DistRebase
<1>4. CASE Dist(z, y) <= Dist(z, s)
  <2>1. Dist(y, s) = Dist(z, s) - Dist(z, y)
    BY <1>4, DistRebase
  <2> QED BY <1>1, <1>2, <1>3, <2>1
<1>5. CASE Dist(z, s) < Dist(z, y)
  <2>1. Dist(y, s) = Count - (Dist(z, y) - Dist(z, s))
    BY <1>5, DistWrap
  <2> QED BY <1>1, <1>2, <1>3, <1>5, <2>1, CountAssumption
<1> QED BY <1>1, <1>4, <1>5

LEMMA OpenRebase ==
  ASSUME NEW z \in Slots, NEW y \in Slots, NEW ds, NEW a \in Slots, NEW e \in Slots,
         Dist(z, y) <= Dist(z, a), Dist(z, a) <= Dist(z, e), Open(z, ds, a, e)
  PROVE  Open(y, ds, a, e)
BY BetweenRebase DEF Open

LEMMA FramedRebase ==
  ASSUME NEW z \in Slots, NEW y \in Slots, NEW md, NEW ds, NEW a \in Slots, NEW e \in Slots,
         Dist(z, y) <= Dist(z, a), Dist(z, a) <= Dist(z, e), Framed(z, md, ds, a, e)
  PROVE  Framed(y, md, ds, a, e)
<1> SUFFICES ASSUME NEW s \in Slots, Dist(y, a) <= Dist(y, s), Dist(y, s) < Dist(y, e)
             PROVE  /\ ~ds[s].done
                    /\ md[s] # None => ds[s].buf = md[s]
                    /\ \E t \in Slots :
                         /\ Dist(y, a) <= Dist(y, t) /\ Dist(y, t) <= Dist(y, s)
                         /\ md[t] # None /\ Open(y, ds, t, s)
  BY DEF Framed
<1>1. Dist(z, a) <= Dist(z, s) /\ Dist(z, s) < Dist(z, e)
  BY BetweenRebase
<1>2. PICK t \in Slots : /\ Dist(z, a) <= Dist(z, t) /\ Dist(z, t) <= Dist(z, s)
                         /\ md[t] # None /\ Open(z, ds, t, s)
  BY <1>1 DEF Framed
<1>3. /\ Dist(z, y) \in Int /\ Dist(z, a) \in Int /\ Dist(z, t) \in Int /\ Dist(z, s) \in Int
  BY DistRange
<1>4. Dist(z, y) <= Dist(z, t) /\ Dist(z, y) <= Dist(z, s)
  BY <1>1, <1>2, <1>3
<1>5. Open(y, ds, t, s)
  BY <1>2, <1>4, OpenRebase
<1>6. /\ Dist(y, a) = Dist(z, a) - Dist(z, y) /\ Dist(y, t) = Dist(z, t) - Dist(z, y)
      /\ Dist(y, s) = Dist(z, s) - Dist(z, y)
  BY <1>4, DistRebase
<1>7. Dist(y, a) <= Dist(y, t) /\ Dist(y, t) <= Dist(y, s)
  BY <1>2, <1>3, <1>6
<1> QED BY <1>1, <1>2, <1>5, <1>7 DEF Framed

LEMMA StepFrames ==
  ASSUME ~IdxPerDesc, RingInv, RingInv', MbufInv, FrameInv, [Next]_vars
  PROVE  FrameInv'
<1>1. /\ TypeOK /\ TypeOK' /\ NoPanic /\ NoPanic' /\ LoadedAtProd
      /\ MbufsAreInUse /\ FirstSlotHasMbuf
  BY DEF RingInv, MbufInv
<1>2. /\ cons \in Slots /\ prod \in Slots /\ dmaIdx \in Slots /\ devIdx \in Slots
      /\ cpuIdx \in Slots /\ \A s \in Slots : Pos(s) \in Int
      /\ \A p \in Producers : idx[p] \in Slots
  BY <1>1, DistRange DEF TypeOK, Pos
<1>3. /\ Pos(dmaIdx) <= Pos(devIdx) /\ Pos(devIdx) <= Pos(cpuIdx)
      /\ Pos(cpuIdx) <= Pos(prod)
      /\ \A p \in Producers : pc[p] = "fill" => Pos(prod) <= Pos(idx[p])
  BY DEF RingInv, DeviceOrder, FillOrder, Pos
<1>a. /\ Framed(cons, mdMbuf, desc, dmaIdx, prod)
      /\ \A p \in Producers : pc[p] = "fill" =>
           /\ Framed(cons, mdMbuf, desc, dmaIdx, idx[p])
           /\ segs[p] > 0 => Open(cons, desc, prod, idx[p])
  BY DEF FrameInv
<1>4. ASSUME UNCHANGED <<cons, prod, dmaIdx, desc, mdMbuf>>,
             \A p \in Producers : pc'[p] = "fill" =>
               pc[p] = "fill" /\ segs'[p] = segs[p] /\ idx'[p] = idx[p]
      PROVE  FrameInv'
  BY <1>4, <1>a DEF FrameInv
<1>5. ASSUME NEW q \in Producers,
             AllocMsg(q) \/ BeginEnqueue(q) \/ LoadFails(q) \/ RingFull(q) \/ Kick(q)
               \/ GoToSleep(q) \/ SleepTimeout(q)
      PROVE  FrameInv'
  <2>1. /\ UNCHANGED <<cons, prod, dmaIdx, desc, mdMbuf, segs>> /\ pc'[q] # "fill"
        /\ \A p \in Producers : p # q => pc'[p] = pc[p] /\ idx'[p] = idx[p]
    BY <1>1, <1>5
       DEF AllocMsg, BeginEnqueue, LoadFails, RingFull, Kick, GoToSleep,
           SleepTimeout, ring, device, TypeOK
  <2> QED BY <1>4, <2>1
<1>6. ASSUME NEW q \in Producers, RingHasRoom(q) PROVE FrameInv'
  <2>1. /\ UNCHANGED <<cons, prod, desc, dmaIdx, idx>>
        /\ pc[q] = "load" /\ pc'[q] = "fill" /\ idx[q] = prod
        /\ \A p \in Producers : p # q => pc'[p] = pc[p]
        /\ \A s \in Slots : s # prod => mdMbuf'[s] = mdMbuf[s]
    BY <1>1, <1>6 DEF RingHasRoom, TypeOK, LoadedAtProd, device
  <2>2. \A p \in Producers : p # q => pc'[p] # "fill"
    BY <2>1, AloneInRing DEF Enqueueing
  <2>3. \A s \in Slots : Pos(s) < Pos(prod) => s # prod
    BY <1>2
  <2>4. Framed(cons, mdMbuf', desc, dmaIdx, prod)
    BY <1>2, <1>a, <2>1, <2>3, FramedKept DEF Pos
  <2>5. Open(cons, desc, prod, prod)
    BY <1>2 DEF Open, Pos
  <2> QED BY <2>1, <2>2, <2>4, <2>5 DEF FrameInv
<1>7. ASSUME NEW q \in Producers, FillDesc(q) PROVE FrameInv'
  <2> DEFINE i == idx[q]
             final == segs[q] <= 2
             buf == IF map[i] = q THEN mbuf[q] ELSE None
  <2>1. /\ i \in Slots /\ pc[q] = "fill" /\ segs[q] > 0
        /\ UNCHANGED <<cons, prod, mdMbuf, dmaIdx>>
        /\ idx'[q] = Succ(i) /\ Succ(i) # cons
        /\ segs'[q] = IF final THEN 0 ELSE segs[q] - 2
        /\ \A p \in Producers : p # q => pc'[p] = pc[p]
        /\ \A s \in Slots : desc'[s] = IF s = i
             THEN [buf |-> buf, last |-> final, done |-> FALSE] ELSE desc[s]
    BY <1>1, <1>7 DEF FillDesc, TypeOK, device, NoPanic
  <2>2. \A p \in Producers : p # q => pc'[p] # "fill"
    BY <2>1, AloneInRing DEF Enqueueing
  <2>3. mdMbuf[prod] = mbuf[q] /\ mbuf[q] # None /\ map[prod] = q
    BY <1>1, <2>1 DEF FirstSlotHasMbuf, LoadedAtProd
  <2>4. segs'[q] > 0 => ~final
    <3>1. segs[q] \in Nat
      BY <1>1, SegsAssumption DEF TypeOK
    <3> QED BY <2>1, <3>1
  <2>5. Open(cons, desc, prod, i) /\ Framed(cons, mdMbuf, desc, dmaIdx, i)
    BY <1>a, <2>1
  <2>6. Pos(dmaIdx) <= Pos(prod) /\ Pos(prod) <= Pos(i)
    BY <1>2, <1>3, <2>1
  <2>7. mdMbuf[i] # None => buf = mdMbuf[i]
    <3>1. mdMbuf[i] # None => i = prod
      BY <1>1, <1>2, <2>1, <2>6 DEF MbufsAreInUse
    <3> QED BY <2>3, <3>1
  <2> HIDE DEF i, final, buf
  <2>8. desc'[i] = [buf |-> buf, last |-> final, done |-> FALSE]
        /\ \A s \in Slots : s # i => desc'[s] = desc[s]
    BY <2>1
  <2>9. desc'[i].buf = buf /\ desc'[i].last = final /\ desc'[i].done = FALSE
    BY <2>8
  <2>10. Framed(cons, mdMbuf, desc', dmaIdx, Succ(i))
    BY <1>2, <2>1, <2>3, <2>5, <2>6, <2>7, <2>8, <2>9, FramedGrows DEF Pos
  <2>11. segs'[q] > 0 => Open(cons, desc', prod, Succ(i))
    BY <1>2, <2>1, <2>4, <2>5, <2>8, <2>9, OpenGrows
  <2>12. Framed(cons, mdMbuf, desc', dmaIdx, prod)
    <3>1. \A s \in Slots : Pos(s) < Pos(prod) => s # i
      BY <1>2, <2>1, <2>6
    <3> QED BY <1>2, <1>a, <2>8, <3>1, FramedKept DEF Pos
  <2> QED BY <2>1, <2>2, <2>10, <2>11, <2>12 DEF FrameInv
<1>8. ASSUME NEW q \in Producers, PublishProd(q) PROVE FrameInv'
  <2>1. /\ pc[q] = "fill" /\ pc'[q] = "kick" /\ prod' = idx[q]
        /\ UNCHANGED <<cons, mdMbuf, desc, dmaIdx>>
        /\ \A p \in Producers : p # q => pc'[p] = pc[p]
    BY <1>1, <1>8 DEF PublishProd, TypeOK, device
  <2>2. \A p \in Producers : pc'[p] # "fill"
    BY <2>1, AloneInRing DEF Enqueueing
  <2> QED BY <1>a, <2>1, <2>2 DEF FrameInv
<1>9. ASSUME NEW c \in Cleaners, BeginCleanup(c) PROVE FrameInv'
  BY <1>4, <1>9 DEF BeginCleanup, ring, device, producer
<1>10. ASSUME NEW c \in Cleaners, CleanSlot(c) PROVE FrameInv'
  <2>1. /\ UNCHANGED <<cons, prod, dmaIdx, pc, idx, segs>> /\ cpc[c] = "clean"
        /\ cidx[c] # last[c] /\ cidx[c] \in Slots
        /\ \A s \in Slots : s # cidx[c] => mdMbuf'[s] = mdMbuf[s] /\ desc'[s] = desc[s]
    BY <1>1, <1>10 DEF CleanSlot, device, producer, TypeOK
  <2>2. Pos(cidx[c]) < Pos(dmaIdx)
    BY <2>1, CleanBehindProd
  <2>3. \A s \in Slots : Pos(dmaIdx) <= Pos(s) => mdMbuf'[s] = mdMbuf[s] /\ desc'[s] = desc[s]
    BY <1>2, <2>1, <2>2
  <2>4. \A s \in Slots : Pos(prod) <= Pos(s) => desc'[s] = desc[s]
    BY <1>2, <1>3, <2>3
  <2>5. \A e \in Slots : Framed(cons, mdMbuf, desc, dmaIdx, e)
                           => Framed(cons, mdMbuf', desc', dmaIdx, e)
    <3> SUFFICES ASSUME NEW e \in Slots, Framed(cons, mdMbuf, desc, dmaIdx, e)
                 PROVE  Framed(cons, mdMbuf', desc', dmaIdx, e)
      OBVIOUS
    <3>1. \A s \in Slots : Dist(cons, dmaIdx) <= Dist(cons, s) /\ Dist(cons, s) < Dist(cons, e)
            => mdMbuf'[s] = mdMbuf[s] /\ desc'[s] = desc[s]
      BY <2>3 DEF Pos
    <3> QED BY <1>2, <3>1, FramedKept
  <2>6. \A e \in Slots : Open(cons, desc, prod, e) => Open(cons, desc', prod, e)
    BY <1>2, <2>4, OpenKept DEF Pos
  <2> QED BY <1>2, <1>a, <2>1, <2>5, <2>6 DEF FrameInv
<1>11. ASSUME NEW c \in Cleaners, EndCleanup(c) PROVE FrameInv'
  <2>1. /\ cidx[c] \in Slots /\ cpc[c] = "clean" /\ cons' = cidx[c]
        /\ UNCHANGED <<prod, mdMbuf, desc, dmaIdx, idx, segs>>
        /\ \A p \in Producers : pc'[p] = "fill" => pc[p] = "fill"
    BY <1>1, <1>11 DEF EndCleanup, TypeOK, device
  <2>2. Pos(cidx[c]) <= Pos(dmaIdx) /\ Pos(dmaIdx) <= Pos(prod)
    <3>1. /\ Pos(cidx[c]) <= Pos(last[c]) /\ Pos(last[c]) <= Pos(dmaIdx)
          /\ last[c] \in Slots
      BY <1>1, <2>1 DEF RingInv, CleanOrder, Pos, TypeOK
    <3> QED BY <1>2, <1>3, <2>1, <3>1
  <2>3. \A e \in Slots : Pos(prod) <= Pos(e) =>
          /\ Framed(cons, mdMbuf, desc, dmaIdx, e) => Framed(cidx[c], mdMbuf, desc, dmaIdx, e)
          /\ Open(cons, desc, prod, e) => Open(cidx[c], desc, prod, e)
    <3> SUFFICES ASSUME NEW e \in Slots, Pos(prod) <= Pos(e)
                 PROVE  /\ Framed(cons, mdMbuf, desc, dmaIdx, e)
                             => Framed(cidx[c], mdMbuf, desc, dmaIdx, e)
                        /\ Open(cons, desc, prod, e) => Open(cidx[c], desc, prod, e)
      OBVIOUS
    <3>1. Pos(dmaIdx) <= Pos(e) /\ Pos(cidx[c]) <= Pos(prod)
      BY <1>2, <2>1, <2>2
    <3> QED BY <1>2, <2>1, <2>2, <3>1, FramedRebase, OpenRebase DEF Pos
  <2>4. Pos(prod) <= Pos(prod)
    BY <1>2
  <2> QED BY <1>2, <1>3, <1>a, <2>1, <2>3, <2>4 DEF FrameInv
<1>12. CASE DeviceFetch
  <2>1. /\ UNCHANGED <<cons, prod, mdMbuf, desc, pc, idx, segs>>
        /\ devIdx # cpuIdx
        /\ dmaIdx' = IF desc[devIdx].last THEN Succ(devIdx) ELSE dmaIdx
    BY <1>12 DEF DeviceFetch, ring, producer
  <2>2. CASE ~desc[devIdx].last
    BY <1>4, <2>1, <2>2
  <2>3. CASE desc[devIdx].last
    <3>1. Succ(devIdx) # cons
      <4>1. Pos(Succ(devIdx)) = Pos(devIdx) + 1 /\ Pos(devIdx) >= 0 /\ Pos(cons) = 0
        BY <1>2, <1>3, <2>1, DistStep, DistRange DEF Pos
      <4> QED BY <1>2, <4>1
    <3>2. \A e \in Slots : Framed(cons, mdMbuf, desc, dmaIdx, e)
                             => Framed(cons, mdMbuf, desc, Succ(devIdx), e)
      BY <1>2, <1>3, <2>3, <3>1, FramedShrinks DEF Pos
    <3> QED BY <1>2, <1>a, <2>1, <2>3, <3>2 DEF FrameInv
  <2> QED BY <2>2, <2>3
<1>13. CASE QueueReset
  <2>1. /\ prod' = 0 /\ cons' = 0 /\ dmaIdx' = 0
        /\ \A p \in Producers : pc'[p] = "idle"
    BY <1>13 DEF QueueReset, producer
  <2>2. \A s \in Slots : ~(Dist(0, s) < Dist(0, 0))
    BY DistRange, CountAssumption DEF Slots
  <2>3. Framed(0, mdMbuf', desc', 0, 0)
    BY <2>2 DEF Framed
  <2> QED BY <2>1, <2>3 DEF FrameInv
<1>14. CASE UNCHANGED vars
  BY <1>4, <1>14 DEF vars, ring, device, producer
<1> QED
  BY <1>5, <1>6, <1>7, <1>8, <1>9, <1>10, <1>11, <1>12, <1>13, <1>14
     DEF Next, Produce, Clean

LEMMA InitFrames == Init => FrameInv
<1> SUFFICES ASSUME Init PROVE FrameInv
  OBVIOUS
<1>1. /\ prod = 0 /\ cons = 0 /\ dmaIdx = 0
      /\ \A p \in Producers : pc[p] = "idle"
  BY DEF Init, EmptyRing
<1>2. \A s \in Slots : ~(Dist(0, s) < Dist(0, 0))
  BY DistRange, CountAssumption DEF Slots
<1>3. Framed(0, mdMbuf, desc, 0, 0)
  BY <1>2 DEF Framed
<1> QED BY <1>1, <1>3 DEF FrameInv

\* A frame the device may still fetch is that of an mbuf that is allocated.
LEMMA FramesAreLive ==
  ASSUME RingInv, MbufInv, FrameInv
  PROVE  DeviceSeesLiveFrames
<1> SUFFICES ASSUME NEW s \in Slots, Dist(devIdx, s) < Dist(devIdx, cpuIdx)
             PROVE  /\ ~desc[s].done
                    /\ \E t \in Slots : SameFrame(t, s) /\ mdMbuf[t] \in live
                    /\ mdMbuf[s] # None => desc[s].buf = mdMbuf[s]
  BY DEF DeviceSeesLiveFrames, Span
<1>1. /\ cons \in Slots /\ prod \in Slots /\ dmaIdx \in Slots /\ devIdx \in Slots
      /\ cpuIdx \in Slots
      /\ \A x \in Slots : Pos(x) \in 0..(Count - 1)
  BY DistRange DEF RingInv, TypeOK, Pos
<1>2. /\ Pos(dmaIdx) <= Pos(devIdx) /\ Pos(devIdx) <= Pos(cpuIdx)
      /\ Pos(cpuIdx) <= Pos(prod)
  BY DEF RingInv, DeviceOrder, Pos
<1>3. Pos(devIdx) <= Pos(devIdx)
  BY <1>1
<1>4. Dist(devIdx, devIdx) <= Dist(devIdx, s)
  BY <1>1, DistRange
<1>5. Pos(devIdx) <= Pos(s) /\ Pos(s) < Pos(cpuIdx)
  BY <1>1, <1>2, <1>3, <1>4, BetweenRebase DEF Pos
<1>6. Pos(dmaIdx) <= Pos(s) /\ Pos(s) < Pos(prod)
  BY <1>1, <1>2, <1>5
<1>7. Framed(cons, mdMbuf, desc, dmaIdx, prod)
  BY DEF FrameInv
<1>8. /\ ~desc[s].done /\ (mdMbuf[s] # None => desc[s].buf = mdMbuf[s])
      /\ \E t \in Slots : /\ Pos(dmaIdx) <= Pos(t) /\ Pos(t) <= Pos(s)
                          /\ mdMbuf[t] # None /\ Open(cons, desc, t, s)
  BY <1>6, <1>7 DEF Framed, Pos
<1>9. \A t \in Slots : mdMbuf[t] # None => mdMbuf[t] \in live
  BY DEF MbufInv, EachMbufOnce
<1> QED BY <1>8, <1>9 DEF SameFrame, Open, Pos

\* The device never fetches a descriptor that was cleared, nor one of a frame
\* that was freed, and the first descriptor of a frame points into its mbuf:
\* until two senders or two cleanups overlap, with a device that reports DMA_IDX
\* at the end of whole frames.
THEOREM FetchedFramesAreLive ==
  ASSUME ~IdxPerDesc
  PROVE  Spec => []DeviceSeesLiveFrames
<1> DEFINE I == TypeOK /\ (raced \/ (RingInv /\ MbufInv /\ FrameInv))
<1>1. Init => I
  BY InitRing, InitMbufs, InitFrames DEF RingInv
<1>2. I /\ [Next]_vars => I'
  BY StepType, StepRing, StepMbufs, StepFrames, RacedStays
<1>3. I => DeviceSeesLiveFrames
  BY FramesAreLive DEF DeviceSeesLiveFrames
<1> HIDE DEF I
<1> QED BY <1>1, <1>2, <1>3, PTL DEF Spec

----------------------------------------------------------------------------
(* The frames of a stretch of the ring as a sequence.  There is one        *)
(* sequence of its first slots in ring order, by the least place at which  *)
(* two would differ; and a frame at either end of the stretch is the last  *)
(* or the first of the sequence.                                           *)

\* h lists the first slots from a up to b in ring order.
Lists(md, a, b, h) ==
  /\ h \in Seq(Slots)
  /\ \A i \in 1..Len(h) : h[i] \in HeadsIn(md, a, b)
  /\ \A s \in HeadsIn(md, a, b) : \E i \in 1..Len(h) : h[i] = s
  /\ \A i, j \in 1..Len(h) : i < j => Dist(a, h[i]) < Dist(a, h[j])

\* An element of a sequence has an index, and is at most once in one that is in
\* order.
LEMMA ListedOnce ==
  ASSUME NEW md, NEW a \in Slots, NEW b \in Slots, NEW h, Lists(md, a, b, h)
  PROVE  /\ Len(h) \in Nat /\ DOMAIN h = 1..Len(h) /\ h \in [1..Len(h) -> HeadsIn(md, a, b)]
         /\ \A i \in 1..Len(h) : h[i] \in Slots /\ Dist(a, h[i]) \in Nat
         /\ \A i, j \in 1..Len(h) : h[i] = h[j] => i = j
<1>1. h \in Seq(Slots)
  BY DEF Lists
<1>2. Len(h) \in Nat /\ h \in [1..Len(h) -> Slots]
  BY <1>1, LenProperties
<1>3. h \in [1..Len(h) -> HeadsIn(md, a, b)]
  BY <1>2 DEF Lists
<1>4. \A i \in 1..Len(h) : h[i] \in Slots /\ Dist(a, h[i]) \in Nat
  BY <1>2, DistRange
<1>5. ASSUME NEW i \in 1..Len(h), NEW j \in 1..Len(h), h[i] = h[j]
      PROVE  i = j
  <2>1. ~(i < j) /\ ~(j < i)
    BY <1>4, <1>5 DEF Lists
  <2> QED BY <1>2, <2>1
<1> QED BY <1>2, <1>3, <1>4, <1>5

\* A list of first slots has the same elements as another, so each is at its
\* place: the first place where they differed would have no slot for the other.
LEMMA ListIsUnique ==
  ASSUME NEW md, NEW a \in Slots, NEW b \in Slots,
         NEW h, Lists(md, a, b, h), NEW k, Lists(md, a, b, k)
  PROVE  Len(k) <= Len(h) /\ \A i \in 1..Len(k) : k[i] = h[i]
<1>1. /\ Len(h) \in Nat /\ Len(k) \in Nat
      /\ \A i \in 1..Len(h) : h[i] \in Slots /\ Dist(a, h[i]) \in Nat
      /\ \A i \in 1..Len(k) : k[i] \in Slots /\ Dist(a, k[i]) \in Nat
      /\ \A i, j \in 1..Len(h) : h[i] = h[j] => i = j
      /\ \A i, j \in 1..Len(k) : k[i] = k[j] => i = j
  BY ListedOnce
<1>2. /\ \A i \in 1..Len(k) : \E j \in 1..Len(h) : h[j] = k[i]
      /\ \A i \in 1..Len(h) : \E j \in 1..Len(k) : k[j] = h[i]
  BY DEF Lists
<1>3. /\ \A i, j \in 1..Len(h) : i < j => Dist(a, h[i]) < Dist(a, h[j])
      /\ \A i, j \in 1..Len(k) : i < j => Dist(a, k[i]) < Dist(a, k[j])
  BY DEF Lists
<1> DEFINE Differ == {i \in 1..Len(k) : ~(i <= Len(h) /\ k[i] = h[i])}
<1>4. Differ = {}
  <2> SUFFICES ASSUME Differ # {} PROVE FALSE
    OBVIOUS
  <2>1. PICK m \in Differ : \A j \in Differ : m <= j
    <3>1. Differ \subseteq Nat
      BY <1>1
    <3> HIDE DEF Differ
    <3> QED BY <3>1, LeastNumber
  <2>2. m \in 1..Len(k) /\ m \in Int /\ ~(m <= Len(h) /\ k[m] = h[m])
    BY <1>1
  <2>3. \A j \in 1..Len(k) : j < m => j <= Len(h) /\ k[j] = h[j]
    BY <1>1, <2>1, <2>2
  <2>4. PICK j \in 1..Len(h) : h[j] = k[m]
    BY <1>2, <2>2
  <2>5. m < j
    <3>1. CASE j < m
      <4>1. j \in 1..Len(k)
        BY <1>1, <2>2, <3>1
      <4>2. k[j] = k[m]
        BY <2>3, <2>4, <3>1, <4>1
      <4> QED BY <1>1, <2>2, <3>1, <4>1, <4>2
    <3>2. j # m
      BY <1>1, <2>2, <2>4
    <3> QED BY <1>1, <2>2, <3>1, <3>2
  <2>6. m \in 1..Len(h)
    BY <1>1, <2>2, <2>4, <2>5
  <2>7. PICK i \in 1..Len(k) : k[i] = h[m]
    BY <1>2, <2>6
  <2>8. ~(i < m)
    <3> SUFFICES ASSUME i < m PROVE FALSE
      OBVIOUS
    <3>1. i \in 1..Len(h) /\ h[i] = h[m]
      BY <1>1, <2>3, <2>7
    <3> QED BY <1>1, <2>6, <3>1
  <2>9. Dist(a, h[m]) < Dist(a, k[m])
    BY <1>3, <2>4, <2>5, <2>6
  <2>10. i # m
    BY <1>1, <2>2, <2>6, <2>7, <2>9
  <2>11. Dist(a, k[m]) < Dist(a, h[m])
    BY <1>1, <1>3, <2>2, <2>7, <2>8, <2>10
  <2> QED BY <1>1, <2>2, <2>6, <2>9, <2>11
<1>5. \A i \in 1..Len(k) : i <= Len(h) /\ k[i] = h[i]
  BY <1>4
<1>6. Len(k) <= Len(h)
  BY <1>1, <1>5
<1> QED BY <1>5, <1>6

\* The frames whose first slots are listed.
FramesOf(md, h) == [i \in 1..Len(h) |-> md[h[i]]]

\* It is the list FramesIn chooses.
LEMMA ListIsFramesIn ==
  ASSUME NEW md, NEW a \in Slots, NEW b \in Slots, NEW h, Lists(md, a, b, h)
  PROVE  FramesIn(md, a, b) = FramesOf(md, h)
<1> DEFINE H == HeadsIn(md, a, b)
           n == Cardinality(H)
           Ordered(k) == \A i, j \in DOMAIN k : i < j => Dist(a, k[i]) < Dist(a, k[j])
<1>1. /\ Len(h) \in Nat /\ DOMAIN h = 1..Len(h) /\ h \in [1..Len(h) -> H]
      /\ \A i, j \in 1..Len(h) : h[i] = h[j] => i = j
  BY ListedOnce
<1>2. H \subseteq Slots
  BY DEF HeadsIn, Span
<1>3. IsFiniteSet(1..Len(h)) /\ Cardinality(1..Len(h)) = Len(h)
  <2> DEFINE m == Len(h)
  <2>1. m \in Nat
    BY <1>1
  <2> HIDE DEF m
  <2>2. IsFiniteSet(1..m) /\ Cardinality(1..m) = IF 1 > m THEN 0 ELSE m - 1 + 1
    BY <2>1, FS_Interval
  <2>3. Cardinality(1..m) = m
    BY <2>1, <2>2
  <2> QED BY <2>2, <2>3 DEF m
<1>4. h \in Bijection(1..Len(h), H)
  <2>1. h \in Injection(1..Len(h), H)
    BY <1>1 DEF Injection, IsInjective
  <2>2. h \in Surjection(1..Len(h), H)
    <3>1. \A s \in H : \E i \in 1..Len(h) : h[i] = s
      BY DEF Lists
    <3> HIDE DEF H
    <3> QED BY <1>1, <3>1 DEF Surjection
  <2> QED BY <2>1, <2>2 DEF Bijection
<1>5. IsFiniteSet(H) /\ n = Len(h) /\ Cardinality(1..n) = Cardinality(H)
  BY <1>3, <1>4, FS_Bijection DEF ExistsBijection
<1> HIDE DEF H, n
<1>6. h \in [1..n -> H] /\ Ordered(h)
  BY <1>1, <1>5 DEF Lists
<1>7. ASSUME NEW k \in [1..n -> H], Ordered(k)
      PROVE  k = h
  <2>1. n \in Nat /\ DOMAIN k = 1..n
    BY <1>1, <1>5
  <2>2. k \in Seq(Slots) /\ Len(k) = n
    <3>1. k \in [1..n -> Slots]
      BY <1>2
    <3> QED BY <2>1, <3>1, SeqDef, LenProperties
  <2>3. \A i \in 1..n : k[i] \in Slots /\ Dist(a, k[i]) \in Nat
    BY <1>2, DistRange
  <2>4. ASSUME NEW i \in 1..n, NEW j \in 1..n, k[i] = k[j]
        PROVE  i = j
    <3>1. ~(i < j) /\ ~(j < i)
      BY <1>7, <2>1, <2>3, <2>4
    <3> QED BY <2>1, <3>1
  <2>5. k \in Injection(1..n, H)
    BY <2>4 DEF Injection, IsInjective
  <2>6. k \in Surjection(1..n, H)
    BY <1>5, <2>5, FS_Injection
  <2>7. \A s \in H : \E i \in 1..n : k[i] = s
    BY <2>6 DEF Surjection
  <2>8. Lists(md, a, b, k)
    BY <1>7, <2>1, <2>2, <2>7 DEF Lists, H
  <2>9. \A i \in 1..n : k[i] = h[i]
    BY <2>2, <2>8, ListIsUnique
  <2> QED BY <1>1, <1>5, <1>6, <2>2, <2>9, SeqEqual DEF Lists
<1>8. HeadsInOrder(md, a, b) = h
  <2>1. HeadsInOrder(md, a, b) = CHOOSE k \in [1..n -> H] : Ordered(k)
    BY DEF HeadsInOrder, n, H
  <2> HIDE DEF Ordered
  <2> QED BY <1>6, <1>7, <2>1
<1> QED BY <1>1, <1>8 DEF FramesIn, FramesOf

\* One more first slot, behind the others.
LEMMA AppendHead ==
  ASSUME NEW md, NEW a \in Slots, NEW b \in Slots, NEW e \in Slots, NEW x \in Slots,
         NEW h, Lists(md, a, b, h),
         HeadsIn(md, a, e) = HeadsIn(md, a, b) \cup {x}, Dist(a, b) <= Dist(a, x)
  PROVE  Lists(md, a, e, Append(h, x))
<1> DEFINE n == Len(h)
           r == Append(h, x)
<1>1. /\ n \in Nat /\ \A i \in 1..n : h[i] \in HeadsIn(md, a, b)
      /\ \A s \in HeadsIn(md, a, b) : \E i \in 1..n : h[i] = s
      /\ \A i, j \in 1..n : i < j => Dist(a, h[i]) < Dist(a, h[j])
      /\ h \in Seq(Slots)
  BY ListedOnce DEF Lists
<1>2. r \in Seq(Slots) /\ Len(r) = n + 1 /\ r[n + 1] = x /\ \A i \in 1..n : r[i] = h[i]
  BY <1>1, AppendProperties
<1> HIDE DEF n, r
<1>3. ASSUME NEW i \in 1..Len(r) PROVE r[i] \in HeadsIn(md, a, e)
  <2>1. CASE i = n + 1
    BY <1>2, <2>1
  <2>2. CASE i \in 1..n
    BY <1>1, <1>2, <2>2
  <2> QED BY <1>1, <1>2, <2>1, <2>2
<1>4. ASSUME NEW s \in HeadsIn(md, a, e) PROVE \E i \in 1..Len(r) : r[i] = s
  <2>1. CASE s = x
    <3>1. n + 1 \in 1..Len(r)
      BY <1>1, <1>2
    <3> QED BY <1>2, <2>1, <3>1
  <2>2. CASE s \in HeadsIn(md, a, b)
    <3>1. PICK i \in 1..n : h[i] = s
      BY <1>1, <2>2
    <3>2. i \in 1..Len(r)
      BY <1>1, <1>2
    <3> QED BY <1>2, <3>1, <3>2
  <2> QED BY <2>1, <2>2
<1>5. \A i \in 1..n : Dist(a, h[i]) < Dist(a, x)
  <2>1. \A s \in HeadsIn(md, a, b) : s \in Slots /\ Dist(a, s) < Dist(a, b)
    BY DEF HeadsIn, Span
  <2>2. \A s \in Slots : Dist(a, s) \in Int
    BY DistRange
  <2> QED BY <1>1, <2>1, <2>2
<1>6. ASSUME NEW i \in 1..Len(r), NEW j \in 1..Len(r), i < j
      PROVE  Dist(a, r[i]) < Dist(a, r[j])
  <2>1. i \in 1..n
    BY <1>1, <1>2, <1>6
  <2>2. CASE j = n + 1
    BY <1>2, <1>5, <2>1, <2>2
  <2>3. CASE j \in 1..n
    BY <1>1, <1>2, <1>6, <2>1, <2>3
  <2> QED BY <1>1, <1>2, <2>2, <2>3
<1>7. Lists(md, a, e, r)
  BY <1>2, <1>3, <1>4, <1>6 DEF Lists
<1> QED BY <1>7 DEF r

\* Every stretch has its list: from the shortest one that had none, the last
\* slot could be taken away.
LEMMA ListExists ==
  ASSUME NEW md, NEW a \in Slots, NEW b \in Slots
  PROVE  \E h : Lists(md, a, b, h)
<1> DEFINE HasList(e) == \E h : Lists(md, a, e, h)
           Without == {n \in Nat : \E e \in Slots : Dist(a, e) = n /\ ~HasList(e)}
<1>1. \A s \in Slots : Dist(a, s) \in Nat
  BY DistRange
<1>2. ASSUME Without # {} PROVE FALSE
  <2>1. PICK n \in Without : \A k \in Without : n <= k
    <3>1. Without \subseteq Nat
      OBVIOUS
    <3> HIDE DEF Without
    <3> QED BY <1>2, <3>1, LeastNumber
  <2>2. PICK e \in Slots : Dist(a, e) = n /\ ~HasList(e)
    BY <2>1
  <2>3. CASE e = a
    <3>1. HeadsIn(md, a, e) = {}
      BY <1>1, <2>3, DistRange DEF HeadsIn, Span
    <3>2. Lists(md, a, e, <<>>)
      BY <3>1, EmptySeq DEF Lists
    <3> QED BY <2>2, <3>2
  <2>4. CASE e # a
    <3> DEFINE d == IF e = 0 THEN Count - 1 ELSE e - 1
    <3>1. d \in Slots /\ Succ(d) = e
      <4>1. e \in 0..(Count - 1)
        BY DEF Slots
      <4>2. d \in Slots /\ (IF d + 1 = Count THEN 0 ELSE d + 1) = e
        BY <4>1, CountAssumption DEF Slots
      <4> HIDE DEF d
      <4> QED BY <4>2, SuccValue
    <3> HIDE DEF d
    <3>2. Dist(a, e) = Dist(a, d) + 1
      BY <2>4, <3>1, DistSucc
    <3>3. HasList(d)
      <4>1. Dist(a, d) \notin Without
        BY <1>1, <2>1, <2>2, <3>1, <3>2
      <4> QED BY <1>1, <3>1, <4>1
    <3>4. PICK h : Lists(md, a, d, h)
      BY <3>3
    <3>5. Span(a, e) = Span(a, d) \cup {d}
      BY <2>4, <3>1, SpanGrows
    <3>6. CASE md[d] = None
      <4>1. HeadsIn(md, a, e) = HeadsIn(md, a, d)
        BY <3>5, <3>6 DEF HeadsIn
      <4>2. Lists(md, a, e, h)
        BY <3>4, <4>1 DEF Lists
      <4> QED BY <2>2, <4>2
    <3>7. CASE md[d] # None
      <4>1. HeadsIn(md, a, e) = HeadsIn(md, a, d) \cup {d}
        BY <3>5, <3>7 DEF HeadsIn
      <4>2. Dist(a, d) <= Dist(a, d)
        BY <1>1, <3>1
      <4>3. Lists(md, a, e, Append(h, d))
        BY <3>1, <3>4, <4>1, <4>2, AppendHead
      <4> QED BY <2>2, <4>3
    <3> QED BY <3>6, <3>7
  <2> QED BY <2>3, <2>4
<1>3. Dist(a, b) \notin Without
  BY <1>2
<1>4. HasList(b)
  BY <1>1, <1>3
<1> QED BY <1>4

\* The frames of a stretch: buffers whose first slots are there, not more than
\* it has slots.
LEMMA FramesInValue ==
  ASSUME NEW md \in [Slots -> Mbufs \cup {None}], NEW a \in Slots, NEW b \in Slots
  PROVE  /\ FramesIn(md, a, b) \in Seq(Mbufs)
         /\ Len(FramesIn(md, a, b)) <= Dist(a, b)
         /\ \A i \in 1..Len(FramesIn(md, a, b)) :
              \E s \in HeadsIn(md, a, b) : FramesIn(md, a, b)[i] = md[s]
<1>1. PICK h : Lists(md, a, b, h)
  BY ListExists
<1>2. /\ Len(h) \in Nat
      /\ \A i \in 1..Len(h) : h[i] \in HeadsIn(md, a, b) /\ h[i] \in Slots
                              /\ Dist(a, h[i]) \in Nat
  BY <1>1, ListedOnce DEF Lists
<1>3. FramesIn(md, a, b) = [i \in 1..Len(h) |-> md[h[i]]]
  BY <1>1, ListIsFramesIn DEF FramesOf
<1>4. \A i \in 1..Len(h) : md[h[i]] \in Mbufs
  BY <1>2 DEF HeadsIn
<1>5. FramesIn(md, a, b) \in Seq(Mbufs) /\ Len(FramesIn(md, a, b)) = Len(h)
  <2>1. FramesIn(md, a, b) \in [1..Len(h) -> Mbufs]
    BY <1>3, <1>4
  <2> QED BY <1>2, <2>1, SeqDef, LenProperties
<1>6. \A i \in 1..Len(h) : Dist(a, h[i]) >= i - 1
  <2> DEFINE Less == {i \in 1..Len(h) : ~(Dist(a, h[i]) >= i - 1)}
  <2> SUFFICES ASSUME Less # {} PROVE FALSE
    OBVIOUS
  <2>1. PICK m \in Less : \A k \in Less : m <= k
    <3>1. Less \subseteq Nat
      BY <1>2
    <3> HIDE DEF Less
    <3> QED BY <3>1, LeastNumber
  <2>2. m \in 1..Len(h) /\ Dist(a, h[m]) < m - 1
    BY <1>2, <2>1
  <2>3. m - 1 \in 1..Len(h) /\ m - 1 < m
    BY <1>2, <2>2
  <2>4. Dist(a, h[m - 1]) >= (m - 1) - 1
    BY <1>2, <2>1, <2>2, <2>3
  <2>5. Dist(a, h[m - 1]) < Dist(a, h[m])
    BY <1>1, <2>2, <2>3 DEF Lists
  <2> QED BY <1>2, <2>2, <2>3, <2>4, <2>5
<1>7. Len(h) <= Dist(a, b)
  <2>1. CASE Len(h) = 0
    BY <2>1, DistRange
  <2>2. CASE Len(h) # 0
    <3>1. Len(h) \in 1..Len(h)
      BY <1>2, <2>2
    <3>2. Dist(a, h[Len(h)]) >= Len(h) - 1 /\ Dist(a, h[Len(h)]) < Dist(a, b)
      BY <1>2, <1>6, <3>1 DEF HeadsIn, Span
    <3> QED BY <1>2, <3>1, <3>2, DistRange
  <2> QED BY <2>1, <2>2
<1> QED BY <1>2, <1>3, <1>5, <1>7

\* A stretch, seen from a slot o that is not inside it.
LEMMA SpanFrom ==
  ASSUME NEW o \in Slots, NEW a \in Slots, NEW b \in Slots,
         Dist(o, a) <= Dist(o, b)
  PROVE  \A s \in Slots :
           /\ s \in Span(a, b) <=> Dist(o, a) <= Dist(o, s) /\ Dist(o, s) < Dist(o, b)
           /\ Dist(o, a) <= Dist(o, s) => Dist(a, s) = Dist(o, s) - Dist(o, a)
<1> SUFFICES ASSUME NEW s \in Slots
             PROVE  /\ Dist(a, s) < Dist(a, b) <=>
                         Dist(o, a) <= Dist(o, s) /\ Dist(o, s) < Dist(o, b)
                    /\ Dist(o, a) <= Dist(o, s) => Dist(a, s) = Dist(o, s) - Dist(o, a)
  BY DEF Span
<1>1. /\ Dist(o, a) \in 0..(Count - 1) /\ Dist(o, b) \in 0..(Count - 1)
      /\ Dist(o, s) \in 0..(Count - 1) /\ Dist(a, b) = Dist(o, b) - Dist(o, a)
  BY DistRange, DistRebase
<1>2. CASE Dist(o, a) <= Dist(o, s)
  <2>1. Dist(a, s) = Dist(o, s) - Dist(o, a)
    BY <1>2, DistRebase
  <2> QED BY <1>1, <1>2, <2>1
<1>3. CASE Dist(o, s) < Dist(o, a)
  <2>1. Dist(a, s) = Count - (Dist(o, a) - Dist(o, s))
    BY <1>3, DistWrap
  <2> QED BY <1>1, <1>3, <2>1, CountAssumption
<1> QED BY <1>1, <1>2, <1>3

\* No first slot, no frame.
LEMMA NoFramesIn ==
  ASSUME NEW md, NEW a \in Slots, NEW b \in Slots, HeadsIn(md, a, b) = {}
  PROVE  FramesIn(md, a, b) = <<>>
<1>1. PICK h : Lists(md, a, b, h)
  BY ListExists
<1>2. FramesIn(md, a, b) = [i \in 1..Len(h) |-> md[h[i]]]
  BY <1>1, ListIsFramesIn DEF FramesOf
<1>3. 1..Len(h) = {}
  BY <1>1 DEF Lists
<1>4. FramesIn(md, a, b) \in [{} -> {}]
  BY <1>2, <1>3
<1>5. <<>> \in [{} -> {}]
  OBVIOUS
<1> QED BY <1>4, <1>5

\* A stretch that grows by one first slot has one more frame at its end.
LEMMA FramesAppend ==
  ASSUME NEW md \in [Slots -> Mbufs \cup {None}],
         NEW a \in Slots, NEW b \in Slots, NEW e \in Slots,
         HeadsIn(md, a, e) = HeadsIn(md, a, b) \cup {b}
  PROVE  FramesIn(md, a, e) = Append(FramesIn(md, a, b), md[b])
<1>1. PICK h : Lists(md, a, b, h)
  BY ListExists
<1> DEFINE r == Append(h, b)
           f == FramesIn(md, a, b)
<1>2. Lists(md, a, e, r)
  <2>1. Dist(a, b) <= Dist(a, b)
    BY DistRange
  <2> QED BY <1>1, <2>1, AppendHead
<1>3. Len(h) \in Nat /\ Len(r) = Len(h) + 1 /\ r[Len(h) + 1] = b
      /\ \A i \in 1..Len(h) : r[i] = h[i]
  BY <1>1, ListedOnce, AppendProperties DEF Lists
<1> HIDE DEF r
<1>4. f = [i \in 1..Len(h) |-> md[h[i]]]
      /\ FramesIn(md, a, e) = [i \in 1..Len(r) |-> md[r[i]]]
  <2>1. f = [i \in 1..Len(h) |-> md[h[i]]]
    BY <1>1, ListIsFramesIn DEF FramesOf
  <2>2. FramesIn(md, a, e) = [i \in 1..Len(r) |-> md[r[i]]]
    BY <1>2, ListIsFramesIn DEF FramesOf
  <2> QED BY <2>1, <2>2
<1>5. f \in Seq(Mbufs) /\ FramesIn(md, a, e) \in Seq(Mbufs)
  BY FramesInValue
<1>6. Len(f) = Len(h) /\ Len(FramesIn(md, a, e)) = Len(h) + 1
  <2>1. DOMAIN f = 1..Len(h) /\ DOMAIN FramesIn(md, a, e) = 1..(Len(h) + 1)
    BY <1>3, <1>4
  <2>2. DOMAIN f = 1..Len(f)
        /\ DOMAIN FramesIn(md, a, e) = 1..Len(FramesIn(md, a, e))
    BY <1>5, LenProperties
  <2> QED BY <1>3, <1>5, <2>1, <2>2, LenProperties
<1>7. md[b] \in Mbufs
  <2>1. b \in HeadsIn(md, a, e)
    OBVIOUS
  <2> QED BY <2>1 DEF HeadsIn
<1> HIDE DEF f
<1>8. Append(f, md[b]) \in Seq(Mbufs) /\ Len(Append(f, md[b])) = Len(h) + 1
      /\ Append(f, md[b])[Len(h) + 1] = md[b]
      /\ \A i \in 1..Len(h) : Append(f, md[b])[i] = f[i]
  BY <1>5, <1>6, <1>7, AppendProperties
<1>9. ASSUME NEW i \in 1..(Len(h) + 1)
      PROVE  FramesIn(md, a, e)[i] = Append(f, md[b])[i]
  <2>1. CASE i = Len(h) + 1
    BY <1>3, <1>4, <1>8, <2>1
  <2>2. CASE i \in 1..Len(h)
    BY <1>3, <1>4, <1>8, <2>2
  <2>3. i = Len(h) + 1 \/ i \in 1..Len(h)
    BY <1>3
  <2> QED BY <2>1, <2>2, <2>3
<1>10. FramesIn(md, a, e) = Append(f, md[b])
  BY <1>5, <1>6, <1>8, <1>9, SeqEqual
<1> QED BY <1>10 DEF f

\* The same first slots, counted from a or from o, and the same buffers in them.
LEMMA FramesSame ==
  ASSUME NEW md, NEW ny, NEW a \in Slots, NEW o \in Slots, NEW b \in Slots,
         NEW e \in Slots, HeadsIn(ny, a, b) = HeadsIn(md, o, e),
         \A s \in HeadsIn(md, o, e) : ny[s] = md[s],
         \A s \in HeadsIn(md, o, e) : Dist(a, s) = Dist(o, s) + Dist(a, o)
  PROVE  FramesIn(ny, a, b) = FramesIn(md, o, e)
<1>1. PICK h : Lists(md, o, e, h)
  BY ListExists
<1>2. /\ h \in Seq(Slots) /\ \A i \in 1..Len(h) : h[i] \in HeadsIn(md, o, e)
      /\ \A s \in HeadsIn(md, o, e) : \E i \in 1..Len(h) : h[i] = s
      /\ \A i, j \in 1..Len(h) : i < j => Dist(o, h[i]) < Dist(o, h[j])
      /\ \A i \in 1..Len(h) : Dist(o, h[i]) \in Nat
  <2>1. \A i \in 1..Len(h) : Dist(o, h[i]) \in Nat
    BY <1>1, ListedOnce
  <2> QED BY <1>1, <2>1 DEF Lists
<1>3. Dist(a, o) \in Nat
  BY DistRange
<1>4. \A i \in 1..Len(h) : Dist(a, h[i]) = Dist(o, h[i]) + Dist(a, o)
  BY <1>2
<1>5. \A i, j \in 1..Len(h) : i < j => Dist(a, h[i]) < Dist(a, h[j])
  BY <1>2, <1>3, <1>4
<1>6. Lists(ny, a, b, h)
  BY <1>2, <1>5 DEF Lists
<1>7. FramesIn(md, o, e) = FramesOf(md, h) /\ FramesIn(ny, a, b) = FramesOf(ny, h)
  BY <1>1, <1>6, ListIsFramesIn
<1>8. \A i \in 1..Len(h) : ny[h[i]] = md[h[i]]
  BY <1>2
<1> QED BY <1>7, <1>8 DEF FramesOf

\* A stretch that has one more first slot at its beginning has one more frame
\* there.
LEMMA FramesPrepend ==
  ASSUME NEW md \in [Slots -> Mbufs \cup {None}],
         NEW a \in Slots, NEW o \in Slots, NEW b \in Slots, NEW x \in Slots,
         HeadsIn(md, a, b) = HeadsIn(md, o, b) \cup {x},
         \A s \in HeadsIn(md, o, b) :
           Dist(a, x) < Dist(a, s) /\ Dist(a, s) = Dist(o, s) + Dist(a, o)
  PROVE  /\ FramesIn(md, a, b) # <<>>
         /\ Head(FramesIn(md, a, b)) = md[x]
         /\ Tail(FramesIn(md, a, b)) = FramesIn(md, o, b)
<1>1. PICK h : Lists(md, o, b, h)
  BY ListExists
<1>2. /\ h \in Seq(Slots) /\ \A i \in 1..Len(h) : h[i] \in HeadsIn(md, o, b)
      /\ \A s \in HeadsIn(md, o, b) : \E i \in 1..Len(h) : h[i] = s
      /\ \A i, j \in 1..Len(h) : i < j => Dist(o, h[i]) < Dist(o, h[j])
      /\ Len(h) \in Nat /\ \A i \in 1..Len(h) : h[i] \in Slots /\ Dist(o, h[i]) \in Nat
  <2>1. Len(h) \in Nat /\ \A i \in 1..Len(h) : h[i] \in Slots /\ Dist(o, h[i]) \in Nat
    BY <1>1, ListedOnce
  <2> QED BY <1>1, <2>1 DEF Lists
<1>3. Dist(a, o) \in Nat /\ Dist(a, x) \in Nat
  BY DistRange
<1> DEFINE n == Len(h)
           r == [i \in 1..(n + 1) |-> IF i = 1 THEN x ELSE h[i - 1]]
           f == FramesIn(md, a, b)
           g == FramesIn(md, o, b)
<1>4. \A i \in 1..(n + 1) : i # 1 => i - 1 \in 1..n
  BY <1>2
<1>5. r \in Seq(Slots) /\ Len(r) = n + 1
  <2>1. r \in [1..(n + 1) -> Slots]
    BY <1>2, <1>4
  <2>2. n + 1 \in Nat
    BY <1>2
  <2> HIDE DEF r, n
  <2>3. r \in Seq(Slots)
    BY <2>1, <2>2, SeqDef
  <2> QED BY <2>1, <2>2, <2>3, LenProperties
<1>6. r[1] = x /\ \A i \in 1..n : r[i + 1] = h[i]
  <2>1. 1 \in 1..(n + 1) /\ \A i \in 1..n : i + 1 \in 1..(n + 1) /\ i + 1 # 1 /\ (i + 1) - 1 = i
    BY <1>2
  <2> HIDE DEF n
  <2> QED BY <2>1
<1> HIDE DEF r
<1>7. \A i \in 1..Len(r) : i = 1 \/ (i - 1 \in 1..n /\ r[i] = h[i - 1])
  <2> SUFFICES ASSUME NEW i \in 1..Len(r), i # 1
               PROVE  i - 1 \in 1..n /\ r[i] = h[i - 1]
    OBVIOUS
  <2>1. i - 1 \in 1..n /\ (i - 1) + 1 = i
    BY <1>4, <1>5
  <2> QED BY <1>6, <2>1
<1>8. \A i \in 1..Len(r) : r[i] \in HeadsIn(md, a, b)
  BY <1>2, <1>6, <1>7
<1>9. \A s \in HeadsIn(md, a, b) : \E i \in 1..Len(r) : r[i] = s
  <2> SUFFICES ASSUME NEW s \in HeadsIn(md, a, b) PROVE \E i \in 1..Len(r) : r[i] = s
    OBVIOUS
  <2>1. CASE s = x
    BY <1>2, <1>5, <1>6, <2>1
  <2>2. CASE s \in HeadsIn(md, o, b)
    <3>1. PICK i \in 1..n : h[i] = s
      BY <1>2, <2>2
    <3>2. i + 1 \in 1..Len(r) /\ r[i + 1] = s
      BY <1>2, <1>5, <1>6, <3>1
    <3> QED BY <3>2
  <2> QED BY <2>1, <2>2
<1>10. ASSUME NEW i \in 1..Len(r), NEW j \in 1..Len(r), i < j
       PROVE  Dist(a, r[i]) < Dist(a, r[j])
  <2>1. j - 1 \in 1..n /\ r[j] = h[j - 1]
    BY <1>5, <1>7, <1>10
  <2>2. Dist(a, r[j]) = Dist(o, h[j - 1]) + Dist(a, o) /\ Dist(a, x) < Dist(a, r[j])
    BY <1>2, <2>1
  <2>3. CASE i = 1
    BY <1>6, <2>2, <2>3
  <2>4. CASE i # 1
    <3>1. i - 1 \in 1..n /\ r[i] = h[i - 1] /\ i - 1 < j - 1
      BY <1>5, <1>7, <1>10, <2>4
    <3>2. Dist(a, r[i]) = Dist(o, h[i - 1]) + Dist(a, o)
      BY <1>2, <3>1
    <3>3. Dist(o, h[i - 1]) < Dist(o, h[j - 1])
      BY <1>2, <2>1, <3>1
    <3>4. Dist(o, h[i - 1]) \in Nat /\ Dist(o, h[j - 1]) \in Nat
      BY <1>2, <2>1, <3>1
    <3> HIDE DEF n
    <3> QED BY <1>3, <2>2, <3>2, <3>3, <3>4
  <2> QED BY <2>3, <2>4
<1>11. Lists(md, a, b, r)
  BY <1>5, <1>8, <1>9, <1>10 DEF Lists
<1>12. f = [i \in 1..(n + 1) |-> md[r[i]]] /\ g = [i \in 1..n |-> md[h[i]]]
  <2>1. f = FramesOf(md, r) /\ g = FramesOf(md, h)
    BY <1>1, <1>11, ListIsFramesIn
  <2> HIDE DEF f, g
  <2> QED BY <1>5, <2>1 DEF FramesOf
<1>13. f \in Seq(Mbufs) /\ g \in Seq(Mbufs)
  BY FramesInValue
<1>14. Len(f) = n + 1 /\ Len(g) = n
  <2>1. DOMAIN f = 1..(n + 1) /\ DOMAIN g = 1..n
    BY <1>12
  <2>2. DOMAIN f = 1..Len(f) /\ DOMAIN g = 1..Len(g) /\ Len(f) \in Nat /\ Len(g) \in Nat
    BY <1>13, LenProperties
  <2> HIDE DEF f, g
  <2> QED BY <1>2, <2>1, <2>2
<1> HIDE DEF f, g
<1>15. f # <<>> /\ Head(f) = f[1] /\ f[1] = md[x]
  BY <1>2, <1>6, <1>12, <1>13, <1>14, HeadTailProperties, EmptySeq
<1>16. Tail(f) \in Seq(Mbufs) /\ Len(Tail(f)) = n
       /\ \A i \in 1..n : Tail(f)[i] = f[i + 1]
  BY <1>2, <1>13, <1>14, <1>15, HeadTailProperties
<1>17. \A i \in 1..n : f[i + 1] = g[i]
  <2>1. \A i \in 1..n : i + 1 \in 1..(n + 1)
    BY <1>2
  <2> HIDE DEF n
  <2> QED BY <1>6, <1>12, <2>1
<1>18. Tail(f) = g
  BY <1>13, <1>14, <1>16, <1>17, SeqEqual
<1> QED BY <1>15, <1>18 DEF f, g

\* A frame that begins where the stretch ended is its last.
LEMMA FrameAtEnd ==
  ASSUME NEW md \in [Slots -> Mbufs \cup {None}],
         NEW a \in Slots, NEW b \in Slots, NEW e \in Slots,
         Dist(a, b) < Dist(a, e), md[b] # None,
         \A s \in Span(b, e) : s # b => md[s] = None
  PROVE  FramesIn(md, a, e) = Append(FramesIn(md, a, b), md[b])
<1>1. \A s \in Slots : Dist(a, s) \in Int /\ (Dist(a, s) = Dist(a, b) => s = b)
  BY DistRange, DistInjective
<1>2. \A s \in Slots : s \in Span(b, e) <=> Dist(a, b) <= Dist(a, s) /\ Dist(a, s) < Dist(a, e)
  <2>1. Dist(a, b) <= Dist(a, e)
    BY <1>1
  <2> QED BY <2>1, SpanFrom
<1>3. HeadsIn(md, a, e) = HeadsIn(md, a, b) \cup {b}
  <2>1. ASSUME NEW s \in Slots
        PROVE  s \in Span(a, e) /\ md[s] # None <=> (s \in Span(a, b) /\ md[s] # None) \/ s = b
    BY <1>1, <1>2 DEF Span
  <2> QED BY <2>1 DEF HeadsIn, Span
<1> QED BY <1>3, FramesAppend

\* The frame a stretch begins with is its first.
LEMMA FrameAtBegin ==
  ASSUME NEW md \in [Slots -> Mbufs \cup {None}],
         NEW a \in Slots, NEW e \in Slots, NEW b \in Slots,
         a # e, Dist(a, e) <= Dist(a, b), md[a] # None,
         \A s \in Span(a, e) : s # a => md[s] = None
  PROVE  /\ FramesIn(md, a, b) # <<>>
         /\ Head(FramesIn(md, a, b)) = md[a]
         /\ Tail(FramesIn(md, a, b)) = FramesIn(md, e, b)
<1>1. /\ \A s \in Slots : Dist(a, s) \in Nat /\ (Dist(a, s) = 0 <=> a = s)
      /\ Dist(a, a) = 0 /\ Dist(a, e) > 0
  BY DistRange
<1>2. \A s \in Slots :
        /\ s \in Span(e, b) <=> Dist(a, e) <= Dist(a, s) /\ Dist(a, s) < Dist(a, b)
        /\ Dist(a, e) <= Dist(a, s) => Dist(e, s) = Dist(a, s) - Dist(a, e)
  BY SpanFrom
<1>3. HeadsIn(md, a, b) = HeadsIn(md, e, b) \cup {a}
  <2>1. ASSUME NEW s \in Slots
        PROVE  s \in Span(a, b) /\ md[s] # None <=> (s \in Span(e, b) /\ md[s] # None) \/ s = a
    BY <1>1, <1>2 DEF Span
  <2> QED BY <2>1 DEF HeadsIn, Span
<1>4. ASSUME NEW s \in HeadsIn(md, e, b)
      PROVE  Dist(a, a) < Dist(a, s) /\ Dist(a, s) = Dist(e, s) + Dist(a, e)
  <2>1. s \in Slots /\ s \in Span(e, b)
    BY DEF HeadsIn, Span
  <2>2. Dist(a, e) <= Dist(a, s) /\ Dist(e, s) = Dist(a, s) - Dist(a, e)
    BY <1>2, <2>1
  <2> QED BY <1>1, <2>1, <2>2
<1> QED BY <1>3, <1>4, FramesPrepend

\* Slots that hold nothing may be cut off, and slots elsewhere may change.
LEMMA FramesKept ==
  ASSUME NEW md, NEW ny, NEW a \in Slots, NEW e \in Slots, NEW b \in Slots,
         Dist(a, e) <= Dist(a, b),
         \A s \in Span(a, e) : md[s] = None,
         \A s \in Span(e, b) : ny[s] = md[s]
  PROVE  FramesIn(ny, e, b) = FramesIn(md, a, b)
<1>1. \A s \in Slots : Dist(a, s) \in Int
  BY DistRange
<1>2. \A s \in Slots :
        /\ s \in Span(e, b) <=> Dist(a, e) <= Dist(a, s) /\ Dist(a, s) < Dist(a, b)
        /\ Dist(a, e) <= Dist(a, s) => Dist(e, s) = Dist(a, s) - Dist(a, e)
  BY SpanFrom
<1>3. HeadsIn(md, a, b) = HeadsIn(ny, e, b)
  <2>1. ASSUME NEW s \in Slots
        PROVE  s \in Span(a, b) /\ md[s] # None <=> s \in Span(e, b) /\ ny[s] # None
    BY <1>1, <1>2 DEF Span
  <2> QED BY <2>1 DEF HeadsIn, Span
<1>4. ASSUME NEW s \in HeadsIn(ny, e, b)
      PROVE  md[s] = ny[s] /\ Dist(a, s) = Dist(e, s) + Dist(a, e)
  <2>1. s \in Slots /\ s \in Span(e, b)
    BY DEF HeadsIn, Span
  <2>2. Dist(e, s) = Dist(a, s) - Dist(a, e)
    BY <1>2, <2>1
  <2> QED BY <1>1, <2>1, <2>2
<1> QED BY <1>3, <1>4, FramesSame

\* Slots elsewhere may change.
LEMMA FramesUnchanged ==
  ASSUME NEW md, NEW ny, NEW a \in Slots, NEW b \in Slots,
         \A s \in Span(a, b) : ny[s] = md[s]
  PROVE  FramesIn(ny, a, b) = FramesIn(md, a, b)
<1>1. HeadsIn(ny, a, b) = HeadsIn(md, a, b)
  BY DEF HeadsIn
<1>2. \A s \in HeadsIn(md, a, b) : s \in Slots /\ ny[s] = md[s]
  BY DEF HeadsIn, Span
<1>3. Dist(a, a) = 0 /\ \A s \in Slots : Dist(a, s) \in Int
  BY DistRange
<1>4. \A s \in HeadsIn(md, a, b) : Dist(a, s) = Dist(a, s) + Dist(a, a)
  BY <1>2, <1>3
<1> QED BY <1>1, <1>2, <1>4, FramesSame

----------------------------------------------------------------------------
(* The ring as a FIFO.  What DMA_IDX passes in one step, and what a        *)
(* CPU_IDX write hands over, is one frame.                                 *)

\* A frame begins behind the last descriptor of another, and so does what the
\* sender writes next.
FramesFollowLasts ==
  \A s \in Span(dmaIdx, prod) :
    mdMbuf[Succ(s)] # None \/ Succ(s) = prod => desc[s].last

\* A frame that is written completely ends with its last descriptor.
FillIsComplete ==
  \A p \in Producers : pc[p] = "fill" /\ segs[p] = 0 =>
    \A s \in Slots : Succ(s) = idx[p] => desc[s].last

\* The device has reported every frame it has fetched the end of.
NotReportedYet == \A s \in Span(dmaIdx, devIdx) : ~desc[s].last

\* Between mq_prod = idx and the CPU_IDX write there is the frame of the sender.
KickPostsOne ==
  /\ \A p \in Producers : pc[p] = "kick" =>
       /\ cpuIdx # prod /\ mdMbuf[cpuIdx] # None
       /\ \A s \in Span(cpuIdx, prod) : s # cpuIdx => mdMbuf[s] = None
  /\ (\A p \in Producers : pc[p] # "kick") => cpuIdx = prod

OrderInv == FramesFollowLasts /\ FillIsComplete /\ NotReportedYet /\ KickPostsOne

LEMMA InitOrder == Init => OrderInv
<1> SUFFICES ASSUME Init PROVE OrderInv
  OBVIOUS
<1>1. /\ prod = 0 /\ cpuIdx = 0 /\ dmaIdx = 0 /\ devIdx = 0
      /\ \A p \in Producers : pc[p] = "idle"
  BY DEF Init, EmptyRing
<1>2. Span(0, 0) = {}
  BY DistRange, CountAssumption DEF Slots, Span
<1> QED BY <1>1, <1>2
        DEF OrderInv, FramesFollowLasts, FillIsComplete, NotReportedYet, KickPostsOne

\* Two slots have different successors.
LEMMA SuccInjective ==
  ASSUME NEW s \in Slots, NEW t \in Slots, Succ(s) = Succ(t)
  PROVE  s = t
<1>1. s \in 0..(Count - 1) /\ t \in 0..(Count - 1)
  BY DEF Slots
<1>2. (IF s + 1 = Count THEN 0 ELSE s + 1) = (IF t + 1 = Count THEN 0 ELSE t + 1)
  BY SuccValue
<1> QED BY <1>1, <1>2, CountAssumption

\* Where the indices are, counted from mq_cons.
LEMMA PosOrder ==
  ASSUME RingInv
  PROVE  /\ cons \in Slots /\ dmaIdx \in Slots /\ devIdx \in Slots /\ cpuIdx \in Slots
         /\ prod \in Slots /\ \A p \in Producers : idx[p] \in Slots
         /\ Pos(dmaIdx) <= Pos(devIdx) /\ Pos(devIdx) <= Pos(cpuIdx)
         /\ Pos(cpuIdx) <= Pos(prod)
         /\ \A p \in Producers : pc[p] = "fill" => Pos(prod) <= Pos(idx[p])
         /\ \A s \in Slots : Pos(s) \in 0..(Count - 1)
         /\ \A s, t \in Slots : Pos(s) = Pos(t) => s = t
         /\ \A s \in Slots : Succ(s) \in Slots
         /\ \A s, t \in Slots : Pos(s) < Pos(t) => Pos(Succ(s)) = Pos(s) + 1
         /\ \A a, b \in Slots : Pos(a) <= Pos(b) =>
              \A s \in Slots : s \in Span(a, b) <=> Pos(a) <= Pos(s) /\ Pos(s) < Pos(b)
<1>1. /\ cons \in Slots /\ dmaIdx \in Slots /\ devIdx \in Slots /\ cpuIdx \in Slots
      /\ prod \in Slots /\ \A p \in Producers : idx[p] \in Slots
  BY DEF RingInv, TypeOK
<1>2. /\ Pos(dmaIdx) <= Pos(devIdx) /\ Pos(devIdx) <= Pos(cpuIdx)
      /\ Pos(cpuIdx) <= Pos(prod)
      /\ \A p \in Producers : pc[p] = "fill" => Pos(prod) <= Pos(idx[p])
  BY DEF RingInv, DeviceOrder, FillOrder, Pos
<1>3. \A s \in Slots : Pos(s) \in 0..(Count - 1)
  BY <1>1, DistRange DEF Pos
<1>4. \A s, t \in Slots : Pos(s) = Pos(t) => s = t
  BY <1>1, DistInjective DEF Pos
<1>5. \A s \in Slots : Succ(s) \in Slots
  BY SuccInSlots
<1>6. ASSUME NEW s \in Slots, NEW t \in Slots, Pos(s) < Pos(t)
      PROVE  Pos(Succ(s)) = Pos(s) + 1
  <2>1. s # t /\ Pos(s) <= Pos(t)
    BY <1>3, <1>6
  <2> QED BY <1>1, <2>1, DistStep DEF Pos
<1>7. ASSUME NEW a \in Slots, NEW b \in Slots, Pos(a) <= Pos(b), NEW s \in Slots
      PROVE  s \in Span(a, b) <=> Pos(a) <= Pos(s) /\ Pos(s) < Pos(b)
  BY <1>1, <1>7, SpanFrom DEF Pos
<1> QED BY <1>1, <1>2, <1>3, <1>4, <1>5, <1>6, <1>7

LEMMA StepOrder ==
  ASSUME ~IdxPerDesc, RingInv, RingInv', MbufInv, OrderInv, [Next]_vars
  PROVE  OrderInv'
<1>1. /\ TypeOK /\ TypeOK' /\ NoPanic' /\ LoadedAtProd
      /\ MbufsAreInUse /\ FirstSlotHasMbuf
      /\ FramesFollowLasts /\ FillIsComplete /\ NotReportedYet /\ KickPostsOne
  BY DEF RingInv, OrderInv, MbufInv
<1>2. /\ cons \in Slots /\ dmaIdx \in Slots /\ devIdx \in Slots /\ cpuIdx \in Slots
      /\ prod \in Slots /\ \A p \in Producers : idx[p] \in Slots
      /\ Pos(dmaIdx) <= Pos(devIdx) /\ Pos(devIdx) <= Pos(cpuIdx)
      /\ Pos(cpuIdx) <= Pos(prod)
      /\ \A p \in Producers : pc[p] = "fill" => Pos(prod) <= Pos(idx[p])
      /\ \A s \in Slots : Pos(s) \in Int /\ Succ(s) \in Slots
  BY PosOrder
<1>3. /\ \A s, t \in Slots : Pos(s) = Pos(t) => s = t
      /\ \A s, t \in Slots : Pos(s) < Pos(t) => Pos(Succ(s)) = Pos(s) + 1
  BY PosOrder
<1>4. \A a, b \in Slots : Pos(a) <= Pos(b) =>
        \A s \in Slots : s \in Span(a, b) <=> Pos(a) <= Pos(s) /\ Pos(s) < Pos(b)
  BY PosOrder
<1>5. /\ Pos(dmaIdx) <= Pos(cpuIdx) /\ Pos(dmaIdx) <= Pos(prod)
      /\ \A a, b : Span(a, b) \subseteq Slots
  BY <1>2 DEF Span
<1>6. ASSUME UNCHANGED <<prod, dmaIdx, devIdx, cpuIdx, desc, mdMbuf>>,
             \A p \in Producers : pc'[p] = "fill" /\ segs'[p] = 0 =>
               pc[p] = "fill" /\ segs[p] = 0 /\ idx'[p] = idx[p],
             \A p \in Producers : pc'[p] = "kick" <=> pc[p] = "kick"
      PROVE  OrderInv'
  BY <1>1, <1>6
     DEF OrderInv, FramesFollowLasts, FillIsComplete, NotReportedYet, KickPostsOne
<1>7. ASSUME NEW q \in Producers,
             AllocMsg(q) \/ BeginEnqueue(q) \/ LoadFails(q) \/ RingFull(q)
               \/ GoToSleep(q) \/ SleepTimeout(q)
      PROVE  OrderInv'
  <2>1. /\ UNCHANGED <<prod, dmaIdx, devIdx, cpuIdx, desc, mdMbuf, segs>>
        /\ pc'[q] \notin {"fill", "kick"} /\ pc[q] # "kick"
        /\ \A p \in Producers : p # q => pc'[p] = pc[p] /\ idx'[p] = idx[p]
    BY <1>1, <1>7
       DEF AllocMsg, BeginEnqueue, LoadFails, RingFull, GoToSleep, SleepTimeout, ring,
           device, TypeOK
  <2> QED BY <1>6, <2>1
<1>8. ASSUME NEW q \in Producers, RingHasRoom(q) PROVE OrderInv'
  <2>0. PICK n \in 1..MaxSegs : segs' = [segs EXCEPT ![q] = n]
    BY <1>8 DEF RingHasRoom
  <2>1. /\ UNCHANGED <<prod, cpuIdx, desc, dmaIdx, devIdx, idx>>
        /\ pc[q] = "load" /\ pc'[q] = "fill" /\ segs'[q] # 0 /\ idx[q] = prod
        /\ \A p \in Producers : p # q => pc'[p] = pc[p] /\ segs'[p] = segs[p]
        /\ \A s \in Slots : s # prod => mdMbuf'[s] = mdMbuf[s]
    BY <1>1, <1>8, <2>0, SegsAssumption DEF RingHasRoom, TypeOK, LoadedAtProd, device
  <2>2. \A p \in Producers : pc[p] # "kick" /\ pc'[p] # "kick"
    BY <2>1, AloneInRing DEF Enqueueing
  <2>3. FramesFollowLasts'
    BY <1>1, <1>2, <1>5, <2>1 DEF FramesFollowLasts
  <2>4. FillIsComplete' /\ NotReportedYet' /\ KickPostsOne'
    BY <1>1, <2>1, <2>2 DEF FillIsComplete, NotReportedYet, KickPostsOne
  <2> QED BY <2>3, <2>4 DEF OrderInv
<1>9. ASSUME NEW q \in Producers, FillDesc(q) PROVE OrderInv'
  <2> DEFINE i == idx[q]
             final == segs[q] <= 2
             buf == IF map[i] = q THEN mbuf[q] ELSE None
  <2>1. /\ i \in Slots /\ pc[q] = "fill" /\ pc'[q] = "fill"
        /\ UNCHANGED <<prod, cpuIdx, mdMbuf, dmaIdx, devIdx>> /\ idx'[q] = Succ(i)
        /\ \A p \in Producers : p # q => pc'[p] = pc[p]
        /\ segs'[q] = IF final THEN 0 ELSE segs[q] - 2
        /\ \A s \in Slots : desc'[s] = IF s = i
             THEN [buf |-> buf, last |-> final, done |-> FALSE] ELSE desc[s]
    BY <1>1, <1>9 DEF FillDesc, TypeOK, device, NoPanic
  <2>2. segs'[q] = 0 => final
    <3>1. segs[q] \in Nat
      BY <1>1, SegsAssumption DEF TypeOK
    <3> QED BY <2>1, <3>1
  <2>a. \A p \in Producers : p # q => pc'[p] \notin {"fill", "kick"}
    BY <2>1, AloneInRing DEF Enqueueing
  <2>b. Pos(prod) <= Pos(i)
    BY <1>2, <2>1
  <2> HIDE DEF i, final, buf
  <2>c. \A s \in Slots : s # i => desc'[s] = desc[s]
    BY <2>1
  <2>d. segs'[q] = 0 => desc'[i].last
    <3>1. desc'[i] = [buf |-> buf, last |-> final, done |-> FALSE]
      BY <2>1
    <3>2. desc'[i].last = final
      BY <3>1
    <3> QED BY <2>2, <3>2
  <2>3. i \notin Span(dmaIdx, prod) /\ i \notin Span(dmaIdx, devIdx)
    BY <1>2, <1>4, <1>5, <2>1, <2>b
  <2>4. FramesFollowLasts' /\ NotReportedYet'
    BY <1>1, <1>5, <2>1, <2>3, <2>c DEF FramesFollowLasts, NotReportedYet
  <2>5. FillIsComplete'
    BY <2>1, <2>a, <2>d, SuccInjective DEF FillIsComplete
  <2>6. KickPostsOne'
    BY <1>1, <2>1, <2>a DEF KickPostsOne
  <2> QED BY <2>4, <2>5, <2>6 DEF OrderInv
<1>10. ASSUME NEW q \in Producers, PublishProd(q) PROVE OrderInv'
  <2>1. /\ pc[q] = "fill" /\ segs[q] = 0 /\ pc'[q] = "kick" /\ prod' = idx[q]
        /\ UNCHANGED <<cpuIdx, mdMbuf, desc, dmaIdx, devIdx, mbuf>>
        /\ \A p \in Producers : p # q => pc'[p] = pc[p]
    BY <1>1, <1>10 DEF PublishProd, TypeOK, device
  <2>a. \A p \in Producers : pc[p] # "kick" /\ pc'[p] # "fill"
    BY <2>1, AloneInRing DEF Enqueueing
  <2>2. /\ cpuIdx = prod /\ idx[q] # prod /\ mdMbuf[prod] # None /\ idx[q] \in Slots
        /\ Pos(prod) <= Pos(idx[q]) /\ Pos(dmaIdx) <= Pos(idx[q])
    BY <1>1, <1>2, <1>5, <2>1, <2>a DEF KickPostsOne, FirstSlotHasMbuf
  <2>3. \A s \in Slots : mdMbuf[s] # None => Pos(s) <= Pos(prod)
    BY <1>1, <1>2 DEF MbufsAreInUse
  <2>4. FramesFollowLasts'
    <3> SUFFICES ASSUME NEW s \in Span(dmaIdx, idx[q]),
                        mdMbuf[Succ(s)] # None \/ Succ(s) = idx[q]
                 PROVE  desc[s].last
      BY <2>1 DEF FramesFollowLasts
    <3>1. s \in Slots /\ Pos(dmaIdx) <= Pos(s) /\ Pos(s) < Pos(idx[q])
      BY <1>2, <1>4, <1>5, <2>2
    <3>2. CASE Succ(s) = idx[q]
      BY <1>1, <2>1, <3>1, <3>2 DEF FillIsComplete
    <3>3. CASE mdMbuf[Succ(s)] # None
      <4>1. Pos(s) < Pos(prod)
        BY <1>2, <1>3, <2>2, <2>3, <3>1, <3>3
      <4>2. s \in Span(dmaIdx, prod)
        BY <1>2, <1>4, <1>5, <3>1, <4>1
      <4> QED BY <1>1, <3>3, <4>2 DEF FramesFollowLasts
    <3> QED BY <3>2, <3>3
  <2>5. KickPostsOne'
    <3> SUFFICES ASSUME NEW s \in Span(prod, idx[q]), s # prod
                 PROVE  mdMbuf[s] = None
      BY <2>1, <2>2 DEF KickPostsOne
    <3>1. s \in Slots /\ Pos(prod) <= Pos(s) /\ Pos(s) # Pos(prod)
      BY <1>2, <1>3, <1>4, <1>5, <2>2
    <3> QED BY <1>2, <2>3, <3>1
  <2>6. FillIsComplete' /\ NotReportedYet'
    BY <1>1, <2>1, <2>a DEF FillIsComplete, NotReportedYet
  <2> QED BY <2>4, <2>5, <2>6 DEF OrderInv
<1>11. ASSUME NEW q \in Producers, Kick(q) PROVE OrderInv'
  <2>1. /\ UNCHANGED <<prod, mdMbuf, desc, dmaIdx, devIdx, idx, segs>>
        /\ pc[q] = "kick" /\ pc'[q] = "idle" /\ cpuIdx' = prod
        /\ \A p \in Producers : p # q => pc'[p] = pc[p]
    BY <1>1, <1>11 DEF Kick, TypeOK, device
  <2>2. \A p \in Producers : pc'[p] \notin {"fill", "kick"}
    BY <2>1, AloneInRing DEF Enqueueing
  <2> QED BY <1>1, <2>1, <2>2
          DEF OrderInv, FramesFollowLasts, FillIsComplete, NotReportedYet, KickPostsOne
<1>12. ASSUME NEW c \in Cleaners, BeginCleanup(c) PROVE OrderInv'
  BY <1>6, <1>12 DEF BeginCleanup, ring, device, producer
<1>13. ASSUME NEW c \in Cleaners, CleanSlot(c) PROVE OrderInv'
  <2> DEFINE i == cidx[c]
  <2>1. /\ UNCHANGED <<prod, cpuIdx, dmaIdx, devIdx, pc, idx, segs, mbuf>>
        /\ i \in Slots /\ cpc[c] = "clean" /\ i # last[c]
        /\ \A s \in Slots : s # i => mdMbuf'[s] = mdMbuf[s] /\ desc'[s] = desc[s]
        /\ mdMbuf'[i] = None
    BY <1>1, <1>13 DEF CleanSlot, device, producer, TypeOK
  <2> HIDE DEF i
  <2>2. Pos(i) < Pos(dmaIdx)
    BY <1>1, <2>1, CleanBehindProd DEF i
  <2>3. i \notin Span(dmaIdx, prod) /\ i \notin Span(dmaIdx, devIdx) /\ i # cpuIdx
    BY <1>2, <1>4, <1>5, <2>1, <2>2
  <2>4. FramesFollowLasts'
    BY <1>1, <1>2, <1>5, <2>1, <2>3 DEF FramesFollowLasts
  <2>5. NotReportedYet' /\ KickPostsOne'
    <3>1. NotReportedYet'
      BY <1>1, <1>5, <2>1, <2>3 DEF NotReportedYet
    <3>2. KickPostsOne'
      BY <1>1, <1>2, <1>5, <2>1, <2>3 DEF KickPostsOne
    <3> QED BY <3>1, <3>2
  <2>6. FillIsComplete'
    <3> SUFFICES ASSUME NEW p \in Producers, pc[p] = "fill", segs[p] = 0,
                        NEW s \in Slots, Succ(s) = idx[p]
                 PROVE  desc'[s].last
      BY <2>1 DEF FillIsComplete
    <3>1. Pos(i) < Pos(prod) /\ Pos(prod) <= Pos(idx[p]) /\ idx[p] \in Slots
      BY <1>2, <1>5, <2>1, <2>2
    <3>2. s # i
      <4>1. s = i => Pos(idx[p]) = Pos(i) + 1
        BY <1>2, <1>3, <2>1, <3>1
      <4>2. idx[p] # prod
        BY <1>1 DEF FirstSlotHasMbuf
      <4>3. Pos(idx[p]) # Pos(prod)
        BY <1>2, <1>3, <3>1, <4>2
      <4> QED BY <1>2, <2>1, <3>1, <4>1, <4>3
    <3> QED BY <1>1, <2>1, <3>2 DEF FillIsComplete
  <2> QED BY <2>4, <2>5, <2>6 DEF OrderInv
<1>14. ASSUME NEW c \in Cleaners, EndCleanup(c) PROVE OrderInv'
  <2>1. /\ UNCHANGED <<prod, dmaIdx, devIdx, cpuIdx, desc, mdMbuf, segs, idx>>
        /\ \A p \in Producers :
             pc'[p] = pc[p] \/ (pc[p] = "sleep" /\ pc'[p] = "enqueue")
    BY <1>1, <1>14 DEF EndCleanup, TypeOK, device
  <2>2. \A p \in Producers : /\ pc'[p] = "kick" <=> pc[p] = "kick"
                             /\ pc'[p] = "fill" => pc[p] = "fill"
    BY <2>1
  <2> QED BY <1>6, <2>1, <2>2
<1>15. CASE DeviceFetch
  <2>1. /\ UNCHANGED <<prod, cpuIdx, mdMbuf, desc, pc, idx, segs, mbuf>>
        /\ devIdx # cpuIdx /\ devIdx' = Succ(devIdx)
        /\ dmaIdx' = IF desc[devIdx].last THEN Succ(devIdx) ELSE dmaIdx
    BY <1>15 DEF DeviceFetch, ring, producer
  <2>2. FillIsComplete' /\ KickPostsOne'
    BY <1>1, <2>1 DEF FillIsComplete, KickPostsOne
  <2>3. Pos(devIdx) < Pos(cpuIdx) /\ Pos(Succ(devIdx)) = Pos(devIdx) + 1
    <3>1. Pos(devIdx) # Pos(cpuIdx)
      BY <1>2, <1>3, <2>1
    <3> QED BY <1>2, <1>3, <3>1
  <2>4. CASE ~desc[devIdx].last
    <3>1. dmaIdx' = dmaIdx /\ Succ(devIdx) # dmaIdx
      BY <1>2, <2>1, <2>3, <2>4
    <3>2. Span(dmaIdx, Succ(devIdx)) = Span(dmaIdx, devIdx) \cup {devIdx}
      BY <1>2, <3>1, SpanGrows
    <3>3. NotReportedYet' /\ FramesFollowLasts'
      BY <1>1, <2>1, <2>4, <3>1, <3>2 DEF NotReportedYet, FramesFollowLasts
    <3> QED BY <2>2, <3>3 DEF OrderInv
  <2>5. CASE desc[devIdx].last
    <3>1. dmaIdx' = Succ(devIdx) /\ Succ(devIdx) \in Slots
      BY <1>2, <2>1, <2>5
    <3>2. Span(Succ(devIdx), Succ(devIdx)) = {}
      BY <3>1, DistRange DEF Span
    <3>3. Span(Succ(devIdx), prod) \subseteq Span(dmaIdx, prod)
      <4>1. Pos(Succ(devIdx)) <= Pos(prod) /\ Pos(dmaIdx) <= Pos(Succ(devIdx))
        BY <1>2, <2>3
      <4> QED BY <1>2, <1>4, <1>5, <3>1, <4>1
    <3>4. NotReportedYet' /\ FramesFollowLasts'
      BY <1>1, <2>1, <3>1, <3>2, <3>3 DEF NotReportedYet, FramesFollowLasts
    <3> QED BY <2>2, <3>4 DEF OrderInv
  <2> QED BY <2>4, <2>5
<1>16. CASE QueueReset
  <2>1. /\ prod' = 0 /\ cpuIdx' = 0 /\ dmaIdx' = 0 /\ devIdx' = 0
        /\ \A p \in Producers : pc'[p] = "idle"
    BY <1>16 DEF QueueReset, producer
  <2>2. Span(0, 0) = {}
    BY DistRange, CountAssumption DEF Slots, Span
  <2> QED BY <2>1, <2>2
          DEF OrderInv, FramesFollowLasts, FillIsComplete, NotReportedYet, KickPostsOne
<1>17. CASE UNCHANGED vars
  BY <1>6, <1>17 DEF vars, ring, device, producer
<1> QED
  BY <1>7, <1>8, <1>9, <1>10, <1>11, <1>12, <1>13, <1>14, <1>15, <1>16, <1>17
     DEF Next, Produce, Clean

\* CleanPos is the local idx of the cleaner in the ring, or mq_cons.
LEMMA CleanPosValue ==
  ASSUME OneEach
  PROVE  /\ \A c \in Cleaners : cpc[c] = "clean" => CleanPos = cidx[c]
         /\ (\A c \in Cleaners : cpc[c] # "clean") => CleanPos = cons
<1>1. ASSUME NEW c \in Cleaners, cpc[c] = "clean" PROVE CleanPos = cidx[c]
  <2>1. (CHOOSE d \in Cleaners : cpc[d] = "clean") = c
    BY <1>1 DEF OneEach
  <2> QED BY <1>1, <2>1 DEF CleanPos
<1> QED BY <1>1 DEF CleanPos

LEMMA CleanPosNext ==
  ASSUME OneEach'
  PROVE  /\ \A c \in Cleaners : cpc'[c] = "clean" => CleanPos' = cidx'[c]
         /\ (\A c \in Cleaners : cpc'[c] # "clean") => CleanPos' = cons'
<1>1. ASSUME NEW c \in Cleaners, cpc'[c] = "clean" PROVE CleanPos' = cidx'[c]
  <2>1. (CHOOSE d \in Cleaners : cpc'[d] = "clean") = c
    BY <1>1 DEF OneEach
  <2> QED BY <1>1, <2>1 DEF CleanPos
<1> QED BY <1>1 DEF CleanPos

\* The cleanup is behind the device.
LEMMA CleanPosOrder ==
  ASSUME RingInv
  PROVE  CleanPos \in Slots /\ Pos(CleanPos) <= Pos(dmaIdx)
<1>1. /\ cons \in Slots /\ dmaIdx \in Slots
      /\ \A c \in Cleaners : cidx[c] \in Slots /\ last[c] \in Slots
  BY DEF RingInv, TypeOK
<1>2. /\ Pos(cons) = 0 /\ \A s \in Slots : Pos(s) \in Nat
  BY <1>1, DistRange DEF Pos
<1>3. ASSUME NEW c \in Cleaners, cpc[c] = "clean"
      PROVE  Pos(cidx[c]) <= Pos(dmaIdx)
  <2>1. Pos(cidx[c]) <= Pos(last[c]) /\ Pos(last[c]) <= Pos(dmaIdx)
    BY <1>3 DEF RingInv, CleanOrder, Pos
  <2> QED BY <1>1, <1>2, <2>1
<1>4. CASE \E c \in Cleaners : cpc[c] = "clean"
  BY <1>1, <1>3, <1>4, CleanPosValue DEF RingInv
<1>5. CASE \A c \in Cleaners : cpc[c] # "clean"
  BY <1>1, <1>2, <1>5, CleanPosValue DEF RingInv
<1> QED BY <1>4, <1>5

LEMMA InitFifo == Init => Fifo!FifoInit
<1> SUFFICES ASSUME Init PROVE Fifo!FifoInit
  OBVIOUS
<1>1. /\ cons = 0 /\ cpuIdx = 0 /\ dmaIdx = 0
      /\ \A c \in Cleaners : cpc[c] = "idle"
  BY DEF Init, EmptyRing
<1>2. CleanPos = 0
  BY <1>1 DEF CleanPos
<1>3. 0 \in Slots /\ Span(0, 0) = {}
  BY DistRange, CountAssumption DEF Slots, Span
<1>4. FramesIn(mdMbuf, 0, 0) = <<>>
  BY <1>3, NoFramesIn DEF HeadsIn
<1> QED BY <1>1, <1>2, <1>4 DEF Fifo!FifoInit

LEMMA StepFifo ==
  ASSUME ~IdxPerDesc, RingInv, RingInv', MbufInv, FrameInv, OrderInv, [Next]_vars
  PROVE  [Fifo!FifoNext]_(Fifo!vars)
<1> DEFINE Posted == FramesIn(mdMbuf, dmaIdx, cpuIdx)
           Fetched == FramesIn(mdMbuf, CleanPos, dmaIdx)
<1>1. /\ TypeOK /\ TypeOK' /\ EachMbufOnce /\ LoadedAtProd /\ OneEach
      /\ Framed(cons, mdMbuf, desc, dmaIdx, prod)
      /\ FramesFollowLasts /\ NotReportedYet /\ KickPostsOne
  BY DEF RingInv, OrderInv, MbufInv, FrameInv
<1>2. /\ cons \in Slots /\ dmaIdx \in Slots /\ devIdx \in Slots /\ cpuIdx \in Slots
      /\ prod \in Slots
      /\ Pos(dmaIdx) <= Pos(devIdx) /\ Pos(devIdx) <= Pos(cpuIdx)
      /\ Pos(cpuIdx) <= Pos(prod)
      /\ \A s \in Slots : Pos(s) \in 0..(Count - 1) /\ Succ(s) \in Slots
  BY PosOrder
<1>3. /\ \A s, t \in Slots : Pos(s) = Pos(t) => s = t
      /\ \A s, t \in Slots : Pos(s) < Pos(t) => Pos(Succ(s)) = Pos(s) + 1
  BY PosOrder
<1>4. \A a, b \in Slots : Pos(a) <= Pos(b) =>
        \A s \in Slots : s \in Span(a, b) <=> Pos(a) <= Pos(s) /\ Pos(s) < Pos(b)
  BY PosOrder
<1>5. \A a, b \in Slots : Pos(a) <= Pos(b) => Dist(a, b) = Pos(b) - Pos(a)
  BY <1>2, DistRebase DEF Pos
<1>6. /\ CleanPos \in Slots /\ Pos(CleanPos) <= Pos(dmaIdx)
  BY CleanPosOrder
<1>b. /\ \A c \in Cleaners : cpc[c] = "clean" => CleanPos = cidx[c]
      /\ (\A c \in Cleaners : cpc[c] # "clean") => CleanPos = cons
      /\ \A c \in Cleaners : cpc'[c] = "clean" => CleanPos' = cidx'[c]
      /\ (\A c \in Cleaners : cpc'[c] # "clean") => CleanPos' = cons'
  BY CleanPosValue, CleanPosNext DEF RingInv
<1>7. /\ Pos(dmaIdx) <= Pos(cpuIdx) /\ Pos(dmaIdx) <= Pos(prod)
      /\ mdMbuf \in [Slots -> Mbufs \cup {None}]
  BY <1>1, <1>2 DEF TypeOK
<1>8. ASSUME Posted' = Posted, Fetched' = Fetched
      PROVE  UNCHANGED Fifo!vars
  BY <1>8 DEF Fifo!vars
<1>9. ASSUME UNCHANGED <<cons, dmaIdx, cpuIdx, mdMbuf, cpc, cidx>>
      PROVE  UNCHANGED Fifo!vars
  <2>1. CleanPos' = CleanPos
    BY <1>9 DEF CleanPos
  <2> QED BY <1>8, <1>9, <2>1
<1>10. ASSUME NEW q \in Producers,
              AllocMsg(q) \/ BeginEnqueue(q) \/ LoadFails(q) \/ RingFull(q) \/ FillDesc(q)
                \/ PublishProd(q) \/ GoToSleep(q) \/ SleepTimeout(q)
       PROVE  UNCHANGED Fifo!vars
  BY <1>9, <1>10
     DEF AllocMsg, BeginEnqueue, LoadFails, RingFull, FillDesc, PublishProd, GoToSleep,
         SleepTimeout, ring, device, cleaner
<1>11. ASSUME NEW q \in Producers, RingHasRoom(q) PROVE UNCHANGED Fifo!vars
  <2>1. /\ UNCHANGED <<cons, cpuIdx, dmaIdx, cpc, cidx>>
        /\ \A s \in Slots : s # prod => mdMbuf'[s] = mdMbuf[s]
    BY <1>1, <1>11 DEF RingHasRoom, TypeOK, LoadedAtProd, device, cleaner
  <2>2. CleanPos' = CleanPos
    BY <2>1 DEF CleanPos
  <2>3. \A s \in Slots : Pos(s) < Pos(cpuIdx) => mdMbuf'[s] = mdMbuf[s]
    BY <1>2, <2>1
  <2>4. FramesIn(mdMbuf', dmaIdx, cpuIdx) = FramesIn(mdMbuf, dmaIdx, cpuIdx)
    <3>1. \A s \in Span(dmaIdx, cpuIdx) : mdMbuf'[s] = mdMbuf[s]
      BY <1>2, <1>4, <1>7, <2>3 DEF Span
    <3> QED BY <1>2, <3>1, FramesUnchanged
  <2>5. FramesIn(mdMbuf', CleanPos, dmaIdx) = FramesIn(mdMbuf, CleanPos, dmaIdx)
    <3>1. \A s \in Span(CleanPos, dmaIdx) : s \in Slots /\ Pos(s) < Pos(dmaIdx)
      BY <1>2, <1>4, <1>6 DEF Span
    <3>2. \A s \in Span(CleanPos, dmaIdx) : mdMbuf'[s] = mdMbuf[s]
      BY <1>2, <1>7, <2>3, <3>1
    <3>3. CleanPos \in Slots /\ dmaIdx \in Slots
      BY <1>2, <1>6
    <3> QED BY <3>2, <3>3, FramesUnchanged
  <2> QED BY <1>8, <2>1, <2>2, <2>4, <2>5
<1>12. ASSUME NEW q \in Producers, Kick(q) PROVE [Fifo!FifoNext]_(Fifo!vars)
  <2>1. /\ UNCHANGED <<cons, mdMbuf, dmaIdx, cpc, cidx>>
        /\ pc[q] = "kick" /\ cpuIdx' = prod /\ CleanPos' = CleanPos
    BY <1>12 DEF Kick, device, cleaner, CleanPos
  <2>2. /\ cpuIdx # prod /\ mdMbuf[cpuIdx] # None /\ Pos(cpuIdx) < Pos(prod)
        /\ \A s \in Span(cpuIdx, prod) : s # cpuIdx => mdMbuf[s] = None
    <3>1. /\ cpuIdx # prod /\ mdMbuf[cpuIdx] # None
          /\ \A s \in Span(cpuIdx, prod) : s # cpuIdx => mdMbuf[s] = None
      BY <1>1, <2>1 DEF KickPostsOne
    <3>2. Pos(cpuIdx) < Pos(prod)
      BY <1>2, <1>3, <3>1
    <3> QED BY <3>1, <3>2
  <2>3. Posted' = Append(Posted, mdMbuf[cpuIdx])
    <3>1. FramesIn(mdMbuf, dmaIdx, prod) = Append(Posted, mdMbuf[cpuIdx])
      <4>1. Dist(dmaIdx, cpuIdx) < Dist(dmaIdx, prod)
        <5>1. /\ Dist(dmaIdx, cpuIdx) = Pos(cpuIdx) - Pos(dmaIdx)
              /\ Dist(dmaIdx, prod) = Pos(prod) - Pos(dmaIdx)
          BY <1>5, <1>2, <1>7
        <5> QED BY <1>2, <2>2, <5>1
      <4> QED BY <1>2, <1>7, <2>2, <4>1, FrameAtEnd
    <3> QED BY <2>1, <3>1
  <2>4. Fetched' = Fetched
    BY <2>1
  <2>5. mdMbuf[cpuIdx] \in Mbufs
    BY <1>2, <1>7, <2>2
  <2>6. mdMbuf[cpuIdx] \notin Fifo!ToSet(Posted) \cup Fifo!ToSet(Fetched)
    <3>1. ASSUME NEW a \in Slots, NEW b \in Slots, Pos(a) <= Pos(b), Pos(b) <= Pos(cpuIdx)
          PROVE  mdMbuf[cpuIdx] \notin Fifo!ToSet(FramesIn(mdMbuf, a, b))
      <4>1. \A s \in HeadsIn(mdMbuf, a, b) : s \in Slots /\ s # cpuIdx /\ mdMbuf[s] # None
        BY <1>2, <1>4, <3>1 DEF HeadsIn, Span
      <4>2. \A s \in HeadsIn(mdMbuf, a, b) : mdMbuf[s] # mdMbuf[cpuIdx]
        BY <1>1, <1>2, <4>1 DEF EachMbufOnce
      <4> DEFINE f == FramesIn(mdMbuf, a, b)
      <4>3. /\ f \in Seq(Mbufs)
            /\ \A i \in 1..Len(f) : \E s \in HeadsIn(mdMbuf, a, b) : f[i] = mdMbuf[s]
        BY <1>7, FramesInValue
      <4>4. DOMAIN f = 1..Len(f)
        BY <4>3, LenProperties
      <4> HIDE DEF f
      <4>5. mdMbuf[cpuIdx] \notin Fifo!ToSet(f)
        BY <4>2, <4>3, <4>4 DEF Fifo!ToSet
      <4> QED BY <4>5 DEF f
    <3>2. Pos(cpuIdx) <= Pos(cpuIdx)
      BY <1>2
    <3> QED BY <1>2, <1>6, <1>7, <3>1, <3>2
  <2>7. Len(Posted) + Len(Fetched) < Count - 1
    <3>1. /\ Len(Posted) <= Dist(dmaIdx, cpuIdx) /\ Len(Fetched) <= Dist(CleanPos, dmaIdx)
          /\ Len(Posted) \in Nat /\ Len(Fetched) \in Nat
      <4>1. Posted \in Seq(Mbufs) /\ Fetched \in Seq(Mbufs)
        BY <1>2, <1>6, <1>7, FramesInValue
      <4>2. Len(Posted) <= Dist(dmaIdx, cpuIdx) /\ Len(Fetched) <= Dist(CleanPos, dmaIdx)
        BY <1>2, <1>6, <1>7, FramesInValue
      <4> QED BY <4>1, <4>2, LenProperties
    <3>2. /\ Dist(dmaIdx, cpuIdx) = Pos(cpuIdx) - Pos(dmaIdx)
          /\ Dist(CleanPos, dmaIdx) = Pos(dmaIdx) - Pos(CleanPos)
      BY <1>5, <1>2, <1>6, <1>7
    <3>3. Pos(CleanPos) >= 0 /\ Pos(prod) <= Count - 1
      BY <1>2, <1>6, CountAssumption
    <3> HIDE DEF Posted, Fetched
    <3> QED BY <1>2, <1>6, <2>2, <3>1, <3>2, <3>3, CountAssumption
  <2> HIDE DEF Posted, Fetched
  <2>8. Fifo!Post(mdMbuf[cpuIdx])
    BY <2>3, <2>4, <2>6, <2>7 DEF Fifo!Post, Posted, Fetched
  <2> QED BY <2>5, <2>8 DEF Fifo!FifoNext
<1>13. CASE DeviceFetch
  <2>1. /\ UNCHANGED <<cons, mdMbuf, cpuIdx, cpc, cidx>> /\ CleanPos' = CleanPos
        /\ devIdx # cpuIdx
        /\ dmaIdx' = IF desc[devIdx].last THEN Succ(devIdx) ELSE dmaIdx
    BY <1>13 DEF DeviceFetch, ring, cleaner, CleanPos
  <2>2. CASE ~desc[devIdx].last
    BY <1>9, <2>1, <2>2
  <2>3. CASE desc[devIdx].last
    <3> DEFINE e == Succ(devIdx)
    <3>1. e \in Slots /\ Pos(e) = Pos(devIdx) + 1 /\ Pos(e) <= Pos(cpuIdx) /\ dmaIdx' = e
      <4>1. Pos(devIdx) < Pos(cpuIdx)
        BY <1>2, <1>3, <2>1
      <4> QED BY <1>2, <1>3, <2>1, <2>3, <4>1
    <3> HIDE DEF e
    <3>2. mdMbuf[dmaIdx] # None
      <4>1. Pos(dmaIdx) <= Pos(dmaIdx) /\ Pos(dmaIdx) < Pos(prod)
        BY <1>2, <3>1
      <4>2. PICK t \in Slots :
              Pos(dmaIdx) <= Pos(t) /\ Pos(t) <= Pos(dmaIdx) /\ mdMbuf[t] # None
        BY <1>1, <1>2, <4>1 DEF Framed, Pos
      <4>3. t = dmaIdx
        BY <1>2, <1>3, <4>2
      <4> QED BY <4>2, <4>3
    <3>3. ASSUME NEW u \in Span(dmaIdx, e), u # dmaIdx
          PROVE  mdMbuf[u] = None
      <4>0. u \in Slots /\ Pos(dmaIdx) < Pos(u) /\ Pos(u) < Pos(e)
        <5>1. u \in Slots /\ Pos(dmaIdx) <= Pos(e)
          BY <1>2, <3>1, <3>3 DEF Span
        <5>2. Pos(dmaIdx) <= Pos(u) /\ Pos(u) < Pos(e) /\ Pos(u) # Pos(dmaIdx)
          BY <1>2, <1>3, <1>4, <3>1, <3>3, <5>1
        <5> QED BY <1>2, <3>1, <5>1, <5>2
      <4>1. PICK s \in Slots : Succ(s) = u
        <5> DEFINE s == IF u = 0 THEN Count - 1 ELSE u - 1
        <5>1. u \in 0..(Count - 1)
          BY <4>0 DEF Slots
        <5>2. s \in Slots /\ (IF s + 1 = Count THEN 0 ELSE s + 1) = u
          BY <5>1, CountAssumption DEF Slots
        <5> HIDE DEF s
        <5> QED BY <5>2, SuccValue
      <4>2. Pos(u) = Pos(s) + 1
        <5>1. u # cons
          <6>1. Pos(cons) = 0
            BY <1>2, DistRange DEF Pos
          <6> QED BY <1>2, <4>0, <6>1
        <5> QED BY <1>2, <4>0, <4>1, <5>1, DistSucc DEF Pos
      <4>3. /\ Pos(dmaIdx) <= Pos(s) /\ Pos(s) < Pos(devIdx) /\ Pos(s) < Pos(prod)
        BY <1>2, <3>1, <4>0, <4>2
      <4>4. s \in Span(dmaIdx, devIdx) /\ s \in Span(dmaIdx, prod)
        BY <1>2, <1>4, <1>7, <4>3
      <4> QED BY <1>1, <4>1, <4>4 DEF NotReportedYet, FramesFollowLasts
    <3>4. \A s \in Span(dmaIdx, e) : s # dmaIdx => mdMbuf[s] = None
      BY <3>3
    <3>5. Pos(dmaIdx) < Pos(e)
      BY <1>2, <3>1
    <3>6. Fetched' = Append(Fetched, mdMbuf[dmaIdx])
      <4>1. FramesIn(mdMbuf, CleanPos, e) = Append(Fetched, mdMbuf[dmaIdx])
        <5>1. Dist(CleanPos, dmaIdx) < Dist(CleanPos, e)
          <6>1. /\ Dist(CleanPos, dmaIdx) = Pos(dmaIdx) - Pos(CleanPos)
                /\ Dist(CleanPos, e) = Pos(e) - Pos(CleanPos)
            <7>1. Pos(CleanPos) <= Pos(e)
              BY <1>2, <1>6, <3>1, <3>5
            <7> QED BY <1>5, <1>2, <1>6, <3>1, <7>1
          <6> QED BY <1>2, <1>6, <3>1, <3>5, <6>1
        <5>2. /\ CleanPos \in Slots /\ dmaIdx \in Slots /\ e \in Slots
              /\ mdMbuf \in [Slots -> Mbufs \cup {None}]
          BY <1>2, <1>6, <1>7, <3>1
        <5> HIDE DEF Posted, Fetched
        <5>3. FramesIn(mdMbuf, CleanPos, e)
                = Append(FramesIn(mdMbuf, CleanPos, dmaIdx), mdMbuf[dmaIdx])
          BY <3>2, <3>4, <5>1, <5>2, FrameAtEnd
        <5> QED BY <5>3 DEF Fetched
      <4> QED BY <2>1, <3>1, <4>1
    <3>7. /\ Posted # <<>> /\ Head(Posted) = mdMbuf[dmaIdx]
          /\ Posted' = Tail(Posted)
      <4>1. /\ Posted # <<>> /\ Head(Posted) = mdMbuf[dmaIdx]
            /\ Tail(Posted) = FramesIn(mdMbuf, e, cpuIdx)
        <5>1. Dist(dmaIdx, e) <= Dist(dmaIdx, cpuIdx) /\ dmaIdx # e
          <6>1. /\ Dist(dmaIdx, e) = Pos(e) - Pos(dmaIdx)
                /\ Dist(dmaIdx, cpuIdx) = Pos(cpuIdx) - Pos(dmaIdx)
            BY <1>5, <1>2, <1>7, <3>1, <3>5
          <6> QED BY <1>2, <3>1, <3>5, <6>1
        <5>2. /\ dmaIdx \in Slots /\ e \in Slots /\ cpuIdx \in Slots
              /\ mdMbuf \in [Slots -> Mbufs \cup {None}]
          BY <1>2, <1>7, <3>1
        <5> HIDE DEF Posted, Fetched
        <5>3. /\ FramesIn(mdMbuf, dmaIdx, cpuIdx) # <<>>
              /\ Head(FramesIn(mdMbuf, dmaIdx, cpuIdx)) = mdMbuf[dmaIdx]
              /\ Tail(FramesIn(mdMbuf, dmaIdx, cpuIdx)) = FramesIn(mdMbuf, e, cpuIdx)
          BY <3>2, <3>4, <5>1, <5>2, FrameAtBegin
        <5> QED BY <5>3 DEF Posted
      <4> QED BY <2>1, <3>1, <4>1
    <3>8. Fifo!Fetch
      BY <3>6, <3>7 DEF Fifo!Fetch
    <3> QED BY <3>8 DEF Fifo!FifoNext
  <2> QED BY <2>2, <2>3
<1>14. ASSUME NEW c \in Cleaners, BeginCleanup(c) PROVE UNCHANGED Fifo!vars
  <2>1. /\ UNCHANGED <<cons, mdMbuf, dmaIdx, cpuIdx>>
        /\ cpc'[c] = "clean" /\ cidx'[c] = cons /\ cpc[c] = "idle"
        /\ \A d \in Cleaners : d # c => cpc'[d] = cpc[d]
    BY <1>1, <1>14 DEF BeginCleanup, ring, device, TypeOK
  <2>2. \A d \in Cleaners : cpc[d] # "clean"
    BY <2>1 DEF RingInv, OneEach
  <2>3. CleanPos' = CleanPos
    BY <1>b, <2>1, <2>2
  <2> QED BY <1>8, <2>1, <2>3
<1>15. ASSUME NEW c \in Cleaners, CleanSlot(c) PROVE [Fifo!FifoNext]_(Fifo!vars)
  <2> DEFINE i == cidx[c]
  <2>1. /\ UNCHANGED <<cons, dmaIdx, cpuIdx>> /\ CleanPos = i /\ CleanPos' = Succ(i)
        /\ i \in Slots /\ Succ(i) \in Slots /\ cpc[c] = "clean" /\ i # last[c]
        /\ \A s \in Slots : s # i => mdMbuf'[s] = mdMbuf[s]
    BY <1>1, <1>2, <1>b, <1>15 DEF CleanSlot, device, TypeOK
  <2>2. Pos(i) < Pos(dmaIdx)
    BY <2>1, CleanBehindProd
  <2> HIDE DEF i
  <2>3. Pos(Succ(i)) = Pos(i) + 1 /\ Pos(Succ(i)) <= Pos(dmaIdx)
    BY <1>2, <1>3, <2>1, <2>2
  <2>4. \A s \in Slots : Pos(i) < Pos(s) => mdMbuf'[s] = mdMbuf[s]
    BY <1>2, <2>1
  <2>5. Posted' = Posted
    <3>1. \A s \in Slots : Pos(dmaIdx) <= Pos(s) => mdMbuf'[s] = mdMbuf[s]
      BY <1>2, <2>1, <2>2, <2>4
    <3>2. FramesIn(mdMbuf', dmaIdx, cpuIdx) = FramesIn(mdMbuf, dmaIdx, cpuIdx)
      <4>1. \A s \in Span(dmaIdx, cpuIdx) : mdMbuf'[s] = mdMbuf[s]
        BY <1>2, <1>4, <1>7, <3>1 DEF Span
      <4> QED BY <1>2, <4>1, FramesUnchanged
    <3> QED BY <2>1, <3>2
  <2>6. FramesIn(mdMbuf', Succ(i), dmaIdx) = FramesIn(mdMbuf, Succ(i), dmaIdx)
    <3>1. \A s \in Slots : Pos(Succ(i)) <= Pos(s) => mdMbuf'[s] = mdMbuf[s]
      BY <1>2, <2>1, <2>3, <2>4
    <3>2. \A s \in Span(Succ(i), dmaIdx) : mdMbuf'[s] = mdMbuf[s]
      BY <1>2, <1>4, <2>1, <2>3, <3>1 DEF Span
    <3> QED BY <1>2, <2>1, <3>2, FramesUnchanged
  <2>7. ASSUME NEW s \in Span(i, Succ(i))
        PROVE  s = i
    <3>1. s \in Slots /\ Pos(i) <= Pos(Succ(i))
      BY <1>2, <2>1, <2>3 DEF Span
    <3>2. Pos(i) <= Pos(s) /\ Pos(s) < Pos(Succ(i))
      BY <1>4, <2>1, <3>1
    <3>3. Pos(s) = Pos(i)
      BY <1>2, <2>1, <2>3, <3>1, <3>2
    <3> QED BY <1>3, <2>1, <3>1, <3>3
  <2>8. Dist(i, Succ(i)) <= Dist(i, dmaIdx) /\ i # Succ(i)
    <3>1. /\ Dist(i, Succ(i)) = Pos(Succ(i)) - Pos(i)
          /\ Dist(i, dmaIdx) = Pos(dmaIdx) - Pos(i)
      <4>1. Pos(i) <= Pos(Succ(i)) /\ Pos(i) <= Pos(dmaIdx)
        BY <1>2, <2>1, <2>2, <2>3
      <4> QED BY <1>5, <1>2, <2>1, <4>1
    <3> QED BY <1>2, <2>1, <2>3, <3>1
  <2>9. CASE mdMbuf[i] = None
    <3>1. \A s \in Span(i, Succ(i)) : mdMbuf[s] = None
      BY <2>7, <2>9
    <3>2. \A s \in Span(Succ(i), dmaIdx) : mdMbuf'[s] = mdMbuf[s]
      <4>1. \A s \in Span(Succ(i), dmaIdx) : s \in Slots /\ Pos(i) < Pos(s)
        BY <1>2, <1>4, <2>1, <2>3 DEF Span
      <4> QED BY <2>4, <4>1
    <3>3. FramesIn(mdMbuf', Succ(i), dmaIdx) = FramesIn(mdMbuf, i, dmaIdx)
      BY <1>2, <2>1, <2>8, <3>1, <3>2, FramesKept
    <3>4. Fetched' = Fetched
      BY <2>1, <3>3
    <3> QED BY <1>8, <2>5, <3>4
  <2>10. CASE mdMbuf[i] # None
    <3>1. \A s \in Span(i, Succ(i)) : s # i => mdMbuf[s] = None
      BY <2>7
    <3>2. Fetched # <<>> /\ Tail(Fetched) = FramesIn(mdMbuf, Succ(i), dmaIdx)
      <4>1. /\ i \in Slots /\ Succ(i) \in Slots /\ dmaIdx \in Slots
            /\ mdMbuf \in [Slots -> Mbufs \cup {None}]
        BY <1>2, <1>7, <2>1
      <4> HIDE DEF Posted, Fetched
      <4>2. /\ FramesIn(mdMbuf, i, dmaIdx) # <<>>
            /\ Tail(FramesIn(mdMbuf, i, dmaIdx)) = FramesIn(mdMbuf, Succ(i), dmaIdx)
        BY <2>10, <2>8, <3>1, <4>1, FrameAtBegin
      <4> QED BY <2>1, <4>2 DEF Fetched
    <3>3. Fetched' = Tail(Fetched)
      BY <2>1, <2>6, <3>2
    <3>4. Fifo!Reclaim
      BY <2>5, <3>2, <3>3 DEF Fifo!Reclaim
    <3> QED BY <3>4 DEF Fifo!FifoNext
  <2> QED BY <2>9, <2>10
<1>16. ASSUME NEW c \in Cleaners, EndCleanup(c) PROVE UNCHANGED Fifo!vars
  <2>1. /\ UNCHANGED <<mdMbuf, dmaIdx, cpuIdx>> /\ cons' = cidx[c]
        /\ cpc[c] = "clean" /\ \A d \in Cleaners : cpc'[d] # "clean"
    BY <1>1, <1>16 DEF EndCleanup, device, TypeOK, OneEach
  <2>2. CleanPos' = CleanPos
    BY <1>b, <2>1
  <2> QED BY <1>8, <2>1, <2>2
<1>17. CASE QueueReset
  <2>1. /\ cons' = 0 /\ dmaIdx' = 0 /\ cpuIdx' = 0
        /\ \A c \in Cleaners : cpc'[c] = "idle"
        /\ mdMbuf' = [s \in Slots |-> None]
    BY <1>17 DEF QueueReset, cleaner
  <2>2. CleanPos' = 0
    BY <2>1 DEF CleanPos
  <2>3. 0 \in Slots /\ HeadsIn(mdMbuf', 0, 0) = {}
    BY <2>1, CountAssumption DEF Slots, HeadsIn, Span
  <2>4. FramesIn(mdMbuf', 0, 0) = <<>>
    BY <2>3, NoFramesIn
  <2>5. Posted' = <<>> /\ Fetched' = <<>>
    BY <2>1, <2>2, <2>4
  <2>6. Fifo!Flush
    BY <2>5 DEF Fifo!Flush
  <2> QED BY <2>6 DEF Fifo!FifoNext
<1>18. CASE UNCHANGED vars
  BY <1>9, <1>18 DEF vars, ring, device, cleaner
<1> HIDE DEF Posted, Fetched
<1> QED
  BY <1>10, <1>11, <1>12, <1>13, <1>14, <1>15, <1>16, <1>17, <1>18
     DEF Next, Produce, Clean

\* The descriptor ring is a FIFO of frames, until two senders or two cleanups
\* overlap and with a device that reports DMA_IDX at the end of whole frames: what
\* is posted is fetched once and in order, and released once, in order, after
\* that, whatever its size and however posting, fetching, cleanups and resets
\* follow each other.
THEOREM RingRefinesFifo ==
  ASSUME ~IdxPerDesc
  PROVE  Spec => FifoRefined
<1> DEFINE J == RingInv /\ MbufInv /\ FrameInv /\ OrderInv
           I == TypeOK /\ (raced \/ J)
<1>1. Init => I /\ Fifo!FifoInit
  BY InitRing, InitMbufs, InitFrames, InitOrder, InitFifo DEF RingInv
<1>2. J /\ [Next]_vars /\ ~raced' => J'
  BY StepRing, StepMbufs, StepFrames, StepOrder
<1>3. J /\ J' /\ [Next]_vars => [Fifo!FifoNext]_(Fifo!vars)
  BY StepFifo
<1> HIDE DEF J
<1>4. I /\ [Next]_vars => I' /\ [Fifo!FifoNext \/ raced']_(Fifo!vars)
  BY <1>2, <1>3, StepType, RacedStays
<1> HIDE DEF I
<1> QED BY <1>1, <1>4, PTL DEF Spec, FifoRefined

=============================================================================
