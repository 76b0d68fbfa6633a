---------------------------- MODULE MwxTxProofs ----------------------------
(***************************************************************************)
(* Proofs about MwxTx for a pool and a ring of any size and any number of  *)
(* threads that send, with every failure of mwx_tx, lost events and resets,*)
(* and with events that name any TXWIs in any order.  Types hold always;   *)
(* the rest of the invariant holds until two senders clash.                *)
(***************************************************************************)
EXTENDS MwxTx, RingLemmas

----------------------------------------------------------------------------
(* What holds whatever the senders do to each other: the types, and that a *)
(* thread has what the step it is at works on.                             *)

WithFrame == {"get", "remove", "load"}
WithTxwi == {"remove", "load", "slot", "fill", "publish"}

HandsTyped ==
  /\ \A p \in Senders : /\ pc[p] \in WithFrame => mbuf[p] \in Mbufs
                        /\ pc[p] \in WithTxwi => mt[p] \in Txwis
  /\ ipc = "idle" => ids = <<>>
  /\ ipc = "free" => ids # <<>>

Types == TypeOK /\ HandsTyped

----------------------------------------------------------------------------
(* What holds until two senders clash, in three parts: the indices of the  *)
(* ring, where each TXWI is, and who owns each frame.                      *)

\* Seen from mq_cons, the cleanup, the device and the senders are in order.
IndexOrder ==
  /\ Dist(cons, dmaIdx) <= Dist(cons, cpuIdx)
  /\ Dist(cons, cpuIdx) <= Dist(cons, prod)
  /\ ipc = "clean" => /\ Dist(cons, cidx) <= Dist(cons, last)
                      /\ Dist(cons, last) <= Dist(cons, dmaIdx)

\* One sender is in mwx_dma_txwi_enqueue,
OneEnqueues == \A p, q \in Senders : Enqueueing(p) /\ Enqueueing(q) => p = q

\* the slot it is about to publish holds its TXWI, and the KASSERT of
\* mwx_dma_txwi_enqueue has not fired.
SlotIsWritten(p) ==
  /\ pc[p] # "panic"
  /\ pc[p] = "fill" => idx[p] = prod
  /\ pc[p] = "publish" =>
       idx[p] = Succ(prod) /\ Succ(prod) # cons /\ desc[prod] = mt[p]

IndexInv == IndexOrder /\ OneEnqueues /\ \A p \in Senders : SlotIsWritten(p)

InRing == {desc[s] : s \in Span(dmaIdx, prod)}

\* No two senders have the same TXWI, and LIST_REMOVE will find it.
HandsApart ==
  /\ \A p \in Senders : pc[p] = "remove" => mt[p] \in ToSet(free)
  /\ \A p, q \in Senders :
       pc[p] \in WithTxwi /\ pc[q] \in WithTxwi /\ mt[p] = mt[q] => p = q

\* No TXWI is twice in one place,
RingIsOnce ==
  /\ None \notin InRing
  /\ \A s, t \in Span(dmaIdx, prod) : desc[s] = desc[t] => s = t
  /\ \A p \in Senders : pc[p] = "publish" => mt[p] \notin InRing
EventsAreOnce ==
  IsInjective(ids) /\ Apart(events) /\ ToSet(ids) \cap Elements(events) = {}
NoneTwice == IsInjective(free) /\ RingIsOnce /\ EventsAreOnce

\* nor in two places,
PlacesApart ==
  /\ InHand \cap (Posted \cup fw \cup Reported \cup stuck) = {}
  /\ Posted \cap (fw \cup Reported \cup stuck) = {}
  /\ fw \cap (Reported \cup stuck) = {}
  /\ Reported \cap stuck = {}

\* and each is somewhere.
PlacesCover ==
  /\ Outstanding = InHand \cup Posted \cup fw \cup Reported \cup stuck
  /\ ToSet(free) = Txwis \ Outstanding

TxwiInv == HandsApart /\ NoneTwice /\ PlacesApart /\ PlacesCover

Unloaded == {mbuf[p] : p \in {q \in Senders : pc[q] \in WithFrame}}
Owned == {mtMbuf[t] : t \in Txwis} \ {None}

\* Every allocated frame has one owner.
FramesHaveOneOwner ==
  /\ live = leaked \cup Unloaded \cup Owned
  /\ leaked \cap Owned = {} /\ Unloaded \cap (leaked \cup Owned) = {}
  /\ \A p, q \in Senders :
       pc[p] \in WithFrame /\ pc[q] \in WithFrame /\ mbuf[p] = mbuf[q] => p = q
  /\ \A t, u \in Txwis : mtMbuf[t] = mtMbuf[u] /\ mtMbuf[t] # None => t = u

\* A TXWI has a frame from mwx_txwi_enqueue to mwx_txwi_put.
TxwisAreLoaded ==
  /\ \A t \in Txwis : mtMbuf[t] # None => busy[t]
  /\ \A p \in Senders : /\ pc[p] = "load" => mtMbuf[mt[p]] = None
                        /\ pc[p] \in {"slot", "fill"} => mtMbuf[mt[p]] # None
  /\ \A t \in Posted \cup fw : t # None => mtMbuf[t] # None

FrameInv == FramesHaveOneOwner /\ TxwisAreLoaded

Inv == IndexInv /\ TxwiInv /\ FrameInv

IInv == Types /\ (clash \/ Inv)

----------------------------------------------------------------------------
(* One sender and the others.                                              *)

HandsBut(p) ==
  {mt[q] : q \in {r \in Senders \ {p} : pc[r] \in {"load", "slot", "fill"}}}
PublishingBut(p) == {mt[q] : q \in {r \in Senders \ {p} : pc[r] = "publish"}}
UnloadedBut(p) == {mbuf[q] : q \in {r \in Senders \ {p} : pc[r] \in WithFrame}}

\* The places, as one sender sees them.
LEMMA Split ==
  ASSUME NEW p \in Senders
  PROVE  /\ InHand = HandsBut(p)
                     \cup IF pc[p] \in {"load", "slot", "fill"} THEN {mt[p]} ELSE {}
         /\ Posted = InRing \cup PublishingBut(p)
                     \cup IF pc[p] = "publish" THEN {mt[p]} ELSE {}
         /\ Unloaded = UnloadedBut(p)
                       \cup IF pc[p] \in WithFrame THEN {mbuf[p]} ELSE {}
<1>1. InHand = HandsBut(p)
               \cup IF pc[p] \in {"load", "slot", "fill"} THEN {mt[p]} ELSE {}
  BY DEF InHand, HandsBut
<1>2. Posted = InRing \cup PublishingBut(p)
               \cup IF pc[p] = "publish" THEN {mt[p]} ELSE {}
  BY DEF Posted, InRing, PublishingBut
<1>3. Unloaded = UnloadedBut(p)
                 \cup IF pc[p] \in WithFrame THEN {mbuf[p]} ELSE {}
  BY DEF Unloaded, UnloadedBut
<1> QED BY <1>1, <1>2, <1>3

\* And after a step that leaves the other senders alone.
LEMMA SplitAfter ==
  ASSUME NEW p \in Senders,
         \A q \in Senders \ {p} :
           pc'[q] = pc[q] /\ mt'[q] = mt[q] /\ mbuf'[q] = mbuf[q]
  PROVE  /\ InHand' = HandsBut(p)
                     \cup IF pc'[p] \in {"load", "slot", "fill"} THEN {mt'[p]} ELSE {}
         /\ Posted' = InRing' \cup PublishingBut(p)
                     \cup IF pc'[p] = "publish" THEN {mt'[p]} ELSE {}
         /\ Unloaded' = UnloadedBut(p)
                       \cup IF pc'[p] \in WithFrame THEN {mbuf'[p]} ELSE {}
<1>1. InHand' = HandsBut(p)
               \cup IF pc'[p] \in {"load", "slot", "fill"} THEN {mt'[p]} ELSE {}
  BY DEF InHand, HandsBut
<1>2. Posted' = InRing' \cup PublishingBut(p)
               \cup IF pc'[p] = "publish" THEN {mt'[p]} ELSE {}
  BY DEF Posted, InRing, PublishingBut
<1>3. Unloaded' = UnloadedBut(p)
                 \cup IF pc'[p] \in WithFrame THEN {mbuf'[p]} ELSE {}
  BY DEF Unloaded, UnloadedBut, WithFrame
<1> QED BY <1>1, <1>2, <1>3

\* A step of no sender.
LEMMA SendersStay ==
  ASSUME UNCHANGED <<pc, mt, mbuf>>
  PROVE  /\ InHand' = InHand /\ Unloaded' = Unloaded
         /\ InRing' = InRing => Posted' = Posted
BY DEF InHand, Unloaded, Posted, InRing, WithFrame

LEMMA ReportedValue == Reported = ToSet(ids) \cup Elements(events)
BY DEF Reported, Elements

LEMMA ReportedAfter == Reported' = ToSet(ids') \cup Elements(events')
BY DEF Reported, Elements

\* What one sender has, no other has.
LEMMA MineOnly ==
  ASSUME NEW p \in Senders
  PROVE  /\ HandsApart /\ pc[p] \in WithTxwi =>
              mt[p] \notin HandsBut(p) \cup PublishingBut(p)
         /\ FramesHaveOneOwner /\ pc[p] \in WithFrame => mbuf[p] \notin UnloadedBut(p)
BY DEF HandsApart, FramesHaveOneOwner, HandsBut, PublishingBut, UnloadedBut,
       WithTxwi, WithFrame

\* A step of one sender moves no other.
LEMMA OthersStay ==
  ASSUME NEW p \in Senders, TypeOK, TakeFrame(p) \/ Tx(p)
  PROVE  \A q \in Senders \ {p} : /\ pc'[q] = pc[q] /\ mt'[q] = mt[q]
                                  /\ mbuf'[q] = mbuf[q] /\ idx'[q] = idx[q]
<1>1. CASE NoTxwi(p) \/ LoadFails(p) \/ RingFull(p) \/ Kick(p)
  BY <1>1 DEF NoTxwi, LoadFails, RingFull, Kick, Leave, Goto, TypeOK
<1>2. CASE TakeFrame(p) \/ GetFirst(p) \/ Unlink(p) \/ Load(p)
  BY <1>2 DEF TakeFrame, GetFirst, Unlink, Load, Goto, TypeOK
<1>3. CASE TakeSlot(p) \/ Fill(p) \/ Publish(p)
  BY <1>3 DEF TakeSlot, Fill, Publish, Goto, TypeOK
<1> QED BY <1>1, <1>2, <1>3 DEF Tx

\* A clash stays.
LEMMA ClashStays ==
  ASSUME [Next]_vars, clash
  PROVE  clash'
<1>1. ASSUME NEW p \in Senders, TakeFrame(p) \/ Tx(p) PROVE clash'
  BY <1>1 DEF Tx, TakeFrame, NoTxwi, GetFirst, Unlink, LoadFails, Load, TakeSlot,
              RingFull, Fill, Publish, Kick, history
<1>2. ASSUME DeviceFetch \/ FirmwareReports \/ Interrupt \/ DmaReset \/ UNCHANGED vars
      PROVE  clash'
  BY <1>2 DEF DeviceFetch, FirmwareReports, Interrupt, BeginCleanup, CleanSlot,
              EndCleanup, EventIsLost, FreeNext, DmaReset, vars, history
<1> QED BY <1>1, <1>2 DEF Next

\* mwx_dma_free_slots: one slot is always kept free.
LEMMA FreeSlotsValue ==
  ASSUME prod \in Slots, cons \in Slots
  PROVE  FreeSlots = Count - 1 - Dist(cons, prod)
<1>1. Dist(cons, prod) = IF prod >= cons THEN prod - cons ELSE prod - cons + Count
  BY DistValue
<1>2. prod \in 0..(Count - 1) /\ cons \in 0..(Count - 1)
  BY DEF Slots
<1>3. (Count - 1 + cons - prod) % Count =
        IF prod >= cons THEN Count - 1 + cons - prod ELSE cons - prod - 1
  BY <1>2, CountAssumption
<1> QED BY <1>1, <1>2, <1>3, CountAssumption DEF FreeSlots

----------------------------------------------------------------------------
\* Initially every TXWI is in the pool and nothing is anywhere else.
LEMMA InitInv == Init => Types /\ Inv
<1> SUFFICES ASSUME Init PROVE Types /\ Inv
  OBVIOUS
<1>1. free \in Seq(Txwis) /\ ToSet(free) = Txwis /\ IsInjective(free)
  BY ListsOfSet, TxwisAssumption DEF Init
<1>2. 0 \in Slots /\ Dist(0, 0) = 0
  BY DistRange, CountAssumption DEF Slots
<1>3. TypeOK
  <2>1. clash \in BOOLEAN
    BY DEF Init
  <2>2. /\ desc \in [Slots -> Txwis \cup {None}] /\ idx \in [Senders -> Slots]
        /\ pc \in [Senders -> {"idle", "get", "remove", "load", "slot", "fill",
                               "publish", "kick", "panic"}]
        /\ mbuf \in [Senders -> Mbufs \cup {None}] /\ mt \in [Senders -> Txwis \cup {None}]
    BY <1>2 DEF Init
  <2>3. busy \in [Txwis -> BOOLEAN] /\ mtMbuf \in [Txwis -> Mbufs \cup {None}]
    BY DEF Init
  <2> QED BY <1>1, <1>2, <2>1, <2>2, <2>3 DEF Init, TypeOK
<1>4. HandsTyped
  BY DEF Init, HandsTyped, WithFrame, WithTxwi
<1>5. IndexInv
  BY <1>2 DEF Init, IndexInv, IndexOrder, OneEnqueues, Enqueueing, SlotIsWritten
<1>6. Span(dmaIdx, prod) = {}
  <2>1. \A s \in Slots : ~(Dist(0, s) < 0)
    BY <1>2, DistRange
  <2> QED BY <1>2, <2>1 DEF Init, Span
<1>7. InRing = {} /\ ToSet(ids) = {} /\ Elements(events) = {}
  BY <1>6 DEF Init, InRing, ToSet, Elements
<1>8. InHand = {} /\ Posted = {} /\ Reported = {} /\ Unloaded = {}
  <2>1. Posted = {}
    BY <1>7 DEF Init, Posted, InRing
  <2> QED BY <1>7, <2>1, ReportedValue DEF Init, InHand, Unloaded, WithFrame
<1>9. Outstanding = {} /\ Owned = {}
  BY DEF Init, Outstanding, Owned
<1>10. TxwiInv
  <2>1. HandsApart
    BY DEF Init, HandsApart, WithTxwi
  <2>2. IsInjective(ids) /\ Apart(events)
    BY DEF Init, IsInjective, Apart
  <2>3. NoneTwice
    BY <1>1, <1>6, <1>7, <2>2 DEF Init, NoneTwice, RingIsOnce, EventsAreOnce
  <2>4. PlacesApart /\ PlacesCover
    BY <1>1, <1>8, <1>9 DEF Init, PlacesApart, PlacesCover
  <2> QED BY <2>1, <2>3, <2>4 DEF TxwiInv
<1>11. FrameInv
  BY <1>8, <1>9 DEF Init, FrameInv, FramesHaveOneOwner, TxwisAreLoaded, WithFrame
<1> QED BY <1>3, <1>4, <1>5, <1>10, <1>11 DEF Types, Inv

----------------------------------------------------------------------------
(* Types.                                                                  *)

\* A step of one sender that leaves it with what its next step works on.
LEMMA SenderHasWhatItNeeds ==
  ASSUME NEW p \in Senders, Types, TakeFrame(p) \/ Tx(p),
         pc'[p] \in WithFrame => mbuf'[p] \in Mbufs,
         pc'[p] \in WithTxwi => mt'[p] \in Txwis
  PROVE  HandsTyped'
<1>1. UNCHANGED <<ipc, ids>>
  BY DEF Tx, TakeFrame, NoTxwi, GetFirst, Unlink, LoadFails, Load, TakeSlot,
         RingFull, Fill, Publish, Kick, intr
<1>2. \A q \in Senders \ {p} : pc'[q] = pc[q] /\ mt'[q] = mt[q] /\ mbuf'[q] = mbuf[q]
  BY OthersStay DEF Types
<1>3. \A q \in Senders : /\ pc'[q] \in WithFrame => mbuf'[q] \in Mbufs
                         /\ pc'[q] \in WithTxwi => mt'[q] \in Txwis
  BY <1>2 DEF Types, HandsTyped
<1>4. (ipc' = "idle" => ids' = <<>>) /\ (ipc' = "free" => ids' # <<>>)
  BY <1>1 DEF Types, HandsTyped
<1> QED BY <1>3, <1>4 DEF HandsTyped, WithFrame, WithTxwi

LEMMA SenderType ==
  ASSUME NEW p \in Senders, Types, TakeFrame(p) \/ Tx(p)
  PROVE  Types'
<1>1. TypeOK /\ HandsTyped
  BY DEF Types
<1>2. 0 \in Slots /\ \A s \in Slots : Succ(s) \in Slots
  BY SuccInSlots, CountAssumption DEF Slots
<1>3. /\ pc[p] \in WithFrame => mbuf[p] \in Mbufs
      /\ pc[p] \in WithTxwi => mt[p] \in Txwis
  BY <1>1 DEF HandsTyped
<1> SUFFICES /\ TypeOK'
             /\ pc'[p] \in WithFrame => mbuf'[p] \in Mbufs
             /\ pc'[p] \in WithTxwi => mt'[p] \in Txwis
  BY SenderHasWhatItNeeds DEF Types
<1>5. CASE TakeFrame(p)
  <2>1. \E x \in Mbufs : x \notin live
    BY <1>1, <1>5 DEF TakeFrame, TypeOK
  <2> DEFINE m == CHOOSE m \in Mbufs : m \notin live
  <2>2. m \in Mbufs
    BY <2>1
  <2>3. /\ mbuf' = [mbuf EXCEPT ![p] = m] /\ live' = live \cup {mbuf'[p]}
        /\ pc' = [pc EXCEPT ![p] = "get"]
    BY <1>5 DEF TakeFrame, Goto
  <2> HIDE DEF m
  <2>4. mbuf'[p] = m /\ pc'[p] = "get"
    BY <1>1, <2>3 DEF TypeOK
  <2>5. /\ live' \subseteq Mbufs /\ mbuf' \in [Senders -> Mbufs \cup {None}]
        /\ pc' \in [Senders -> {"idle", "get", "remove", "load", "slot", "fill",
                                "publish", "kick", "panic"}]
    BY <1>1, <2>2, <2>3, <2>4 DEF TypeOK
  <2>6. UNCHANGED <<free, busy, mtMbuf, prod, cons, desc, cpuIdx, dmaIdx, fw, events,
                    mt, idx, ipc, cidx, last, ids, clash, stuck, leaked>>
    BY <1>5 DEF TakeFrame, pool, ring, device, intr, history, losses
  <2> QED BY <1>1, <2>2, <2>4, <2>5, <2>6 DEF TypeOK, WithTxwi
<1>6. CASE NoTxwi(p) \/ LoadFails(p) \/ RingFull(p)
  <2>1. pc' = [pc EXCEPT ![p] = "idle"] /\ pc'[p] = "idle"
    BY <1>1, <1>6 DEF NoTxwi, LoadFails, RingFull, Leave, Goto, TypeOK
  <2>2. stuck' \subseteq Txwis /\ leaked' \subseteq Mbufs
    BY <1>1, <1>3, <1>6
       DEF NoTxwi, LoadFails, RingFull, TypeOK, WithFrame, WithTxwi
  <2>3. /\ mbuf' \in [Senders -> Mbufs \cup {None}] /\ mt' \in [Senders -> Txwis \cup {None}]
        /\ idx' \in [Senders -> Slots]
    BY <1>1, <1>2, <1>6 DEF NoTxwi, LoadFails, RingFull, Leave, TypeOK
  <2>4. UNCHANGED <<free, busy, mtMbuf, prod, cons, desc, cpuIdx, dmaIdx, fw, events,
                    live, ipc, cidx, last, ids, clash>>
    BY <1>6 DEF NoTxwi, LoadFails, RingFull, pool, ring, device, intr
  <2> QED BY <1>1, <2>1, <2>2, <2>3, <2>4 DEF TypeOK, WithFrame, WithTxwi
<1>7. CASE GetFirst(p)
  <2>1. Head(free) \in Txwis
    BY <1>1, <1>7, PopSet DEF GetFirst, TypeOK
  <2>2. clash' \in BOOLEAN
    BY <1>7 DEF GetFirst
  <2>3. UNCHANGED <<free, busy, mtMbuf, prod, cons, desc, cpuIdx, dmaIdx, fw, events,
                    live, mbuf, idx, ipc, cidx, last, ids, stuck, leaked>>
    BY <1>7 DEF GetFirst, pool, ring, device, intr, losses
  <2>4. /\ mt' = [mt EXCEPT ![p] = Head(free)] /\ pc' = [pc EXCEPT ![p] = "remove"]
        /\ pc[p] = "get"
    BY <1>7 DEF GetFirst, Goto
  <2>5. mt'[p] \in Txwis /\ pc'[p] = "remove" /\ mbuf'[p] \in Mbufs
    BY <1>1, <1>3, <2>1, <2>3, <2>4 DEF TypeOK, WithFrame
  <2> QED BY <1>1, <2>1, <2>2, <2>3, <2>4, <2>5 DEF TypeOK
<1>8. CASE Unlink(p)
  <2>1. free' \in Seq(Txwis)
    BY <1>1, <1>8, RemoveType DEF Unlink, TypeOK
  <2>2. busy' \in [Txwis -> BOOLEAN]
    BY <1>1, <1>8 DEF Unlink, TypeOK
  <2>3. UNCHANGED <<mtMbuf, prod, cons, desc, cpuIdx, dmaIdx, fw, events, live, mbuf,
                    mt, idx, ipc, cidx, last, ids, clash, stuck, leaked>>
    BY <1>8 DEF Unlink, ring, device, intr, history, losses
  <2>4. pc' = [pc EXCEPT ![p] = "load"] /\ pc[p] = "remove"
    BY <1>8 DEF Unlink, Goto
  <2> QED BY <1>1, <1>3, <2>1, <2>2, <2>3, <2>4 DEF TypeOK, WithFrame, WithTxwi
<1>9. CASE Load(p)
  <2>1. /\ mbuf[p] \in Mbufs /\ mt[p] \in Txwis
        /\ mtMbuf' = [mtMbuf EXCEPT ![mt[p]] = mbuf[p]]
        /\ pc' = [pc EXCEPT ![p] = "slot"]
    BY <1>3, <1>9 DEF Load, Goto, WithFrame, WithTxwi
  <2>2. UNCHANGED <<free, busy, prod, cons, desc, cpuIdx, dmaIdx, fw, events, live,
                    mbuf, mt, idx, ipc, cidx, last, ids, clash, stuck, leaked>>
    BY <1>9 DEF Load, ring, device, intr, history, losses
  <2> QED BY <1>1, <2>1, <2>2 DEF TypeOK, WithFrame
<1>10. CASE TakeSlot(p)
  <2>1. clash' \in BOOLEAN
    BY <1>10 DEF TakeSlot
  <2>2. /\ idx' = [idx EXCEPT ![p] = prod] /\ pc' = [pc EXCEPT ![p] = "fill"]
        /\ mt[p] \in Txwis
    BY <1>3, <1>10 DEF TakeSlot, Goto, WithTxwi
  <2>3. UNCHANGED <<free, busy, mtMbuf, prod, cons, desc, cpuIdx, dmaIdx, fw, events,
                    live, mbuf, mt, ipc, cidx, last, ids, stuck, leaked>>
    BY <1>10 DEF TakeSlot, pool, ring, device, intr, losses
  <2> QED BY <1>1, <2>1, <2>2, <2>3 DEF TypeOK, WithFrame
<1>11. CASE Fill(p)
  <2>1. mt[p] \in Txwis /\ idx[p] \in Slots
    BY <1>1, <1>3, <1>11 DEF Fill, WithTxwi, TypeOK
  <2>2. /\ desc' = [desc EXCEPT ![idx[p]] = mt[p]]
        /\ idx' = [idx EXCEPT ![p] = Succ(idx[p])]
        /\ \E w \in {"panic", "publish"} : pc' = [pc EXCEPT ![p] = w]
    BY <1>11 DEF Fill, Goto
  <2>3. UNCHANGED <<free, busy, mtMbuf, prod, cons, cpuIdx, dmaIdx, fw, events,
                    live, mbuf, mt, ipc, cidx, last, ids, clash, stuck, leaked>>
    BY <1>11 DEF Fill, pool, device, intr, history, losses
  <2> QED BY <1>1, <1>2, <2>1, <2>2, <2>3 DEF TypeOK, WithFrame
<1>12. CASE Publish(p) \/ Kick(p)
  <2>1. /\ prod' \in Slots /\ cpuIdx' \in Slots /\ idx' \in [Senders -> Slots]
        /\ mbuf' \in [Senders -> Mbufs \cup {None}] /\ mt' \in [Senders -> Txwis \cup {None}]
    <3>1. CASE Publish(p)
      BY <1>1, <3>1 DEF Publish, TypeOK
    <3>2. CASE Kick(p)
      BY <1>1, <1>2, <3>2 DEF Kick, Leave, TypeOK
    <3> QED BY <1>12, <3>1, <3>2
  <2>2. \E w \in {"idle", "kick"} : pc' = [pc EXCEPT ![p] = w]
    BY <1>12 DEF Publish, Kick, Leave, Goto
  <2>3. UNCHANGED <<free, busy, mtMbuf, cons, desc, dmaIdx, fw, events, live, ipc,
                    cidx, last, ids, clash, stuck, leaked>>
    BY <1>12 DEF Publish, Kick, pool, device, intr, history, losses
  <2> QED BY <1>1, <2>1, <2>2, <2>3 DEF TypeOK, WithFrame, WithTxwi
<1> QED BY <1>5, <1>6, <1>7, <1>8, <1>9, <1>10, <1>11, <1>12 DEF Tx

\* Types hold whatever the senders do to each other.
LEMMA StepType ==
  ASSUME Types, [Next]_vars
  PROVE  Types'
<1>1. TypeOK /\ HandsTyped
  BY DEF Types
<1>2. 0 \in Slots /\ \A s \in Slots : Succ(s) \in Slots
  BY SuccInSlots, CountAssumption DEF Slots
<1>3. ASSUME UNCHANGED <<pc, mt, mbuf>>,
             ipc' = "idle" => ids' = <<>>, ipc' = "free" => ids' # <<>>
      PROVE  HandsTyped'
  BY <1>1, <1>3 DEF HandsTyped, WithFrame, WithTxwi
<1>4. CASE DeviceFetch
  <2>1. TypeOK'
    BY <1>1, <1>2, <1>4
       DEF DeviceFetch, pool, ring, sender, intr, history, losses, TypeOK
  <2>2. HandsTyped'
    BY <1>1, <1>3, <1>4 DEF DeviceFetch, sender, intr, HandsTyped
  <2> QED BY <2>1, <2>2 DEF Types
<1>5. CASE FirmwareReports
  <2>1. PICK done \in SUBSET fw \ {{}} :
          /\ fw' = fw \ done
          /\ \E list \in SetToSeqs(done) : events' = Append(events, list)
    BY <1>5 DEF FirmwareReports
  <2>2. PICK list \in SetToSeqs(done) : events' = Append(events, list)
    BY <2>1
  <2>3. done \subseteq Txwis /\ IsFiniteSet(done)
    BY <1>1, TxwisAssumption, FS_Subset DEF TypeOK
  <2>4. list \in Seq(done)
    BY <2>3, ListsOfSet
  <2>5. list \in Seq(Txwis)
    BY <2>3, <2>4
  <2>6. events' \in Seq(Seq(Txwis))
    BY <1>1, <2>2, <2>5, AppendLists DEF TypeOK
  <2>7. TypeOK'
    BY <1>1, <1>5, <2>1, <2>6
       DEF FirmwareReports, pool, ring, sender, intr, history, losses, TypeOK
  <2>8. HandsTyped'
    BY <1>1, <1>3, <1>5 DEF FirmwareReports, sender, intr, HandsTyped
  <2> QED BY <2>7, <2>8 DEF Types
<1>6. CASE BeginCleanup
  <2>1. ids' \in Seq(Txwis) /\ events' \in Seq(Seq(Txwis))
    <3>1. CASE UNCHANGED <<ids, events>>
      BY <1>1, <3>1 DEF TypeOK
    <3>2. CASE events # <<>> /\ ids' = Head(events) /\ events' = Tail(events)
      <4>1. Head(events) \in Seq(Txwis) /\ Tail(events) \in Seq(Seq(Txwis))
        BY <1>1, <3>2, PopLists DEF TypeOK
      <4> QED BY <3>2, <4>1
    <3> QED BY <1>6, <3>1, <3>2 DEF BeginCleanup
  <2>2. TypeOK'
    BY <1>1, <1>6, <2>1 DEF BeginCleanup, pool, ring, sender, history, losses, TypeOK
  <2>3. HandsTyped'
    BY <1>3, <1>6 DEF BeginCleanup, sender
  <2> QED BY <2>2, <2>3 DEF Types
<1>7. CASE CleanSlot
  <2>1. TypeOK'
    BY <1>1, <1>2, <1>7 DEF CleanSlot, pool, sender, device, history, losses, TypeOK
  <2>2. HandsTyped'
    BY <1>1, <1>3, <1>7 DEF CleanSlot, sender
  <2> QED BY <2>1, <2>2 DEF Types
<1>8. CASE EndCleanup
  <2>1. TypeOK'
    BY <1>1, <1>2, <1>8
       DEF EndCleanup, StoreCons, pool, sender, device, history, losses, TypeOK
  <2>2. HandsTyped'
    BY <1>1, <1>3, <1>8 DEF EndCleanup, StoreCons, sender
  <2> QED BY <2>1, <2>2 DEF Types
<1>9. CASE EventIsLost
  <2>1. ToSet(ids) \subseteq Txwis /\ <<>> \in Seq(Txwis)
    BY <1>1, ToSetOfSeq DEF TypeOK
  <2>2. TypeOK'
    BY <1>1, <1>2, <1>9, <2>1
       DEF EventIsLost, StoreCons, pool, sender, device, TypeOK
  <2>3. HandsTyped'
    BY <1>1, <1>3, <1>9 DEF EventIsLost, StoreCons, sender
  <2> QED BY <2>2, <2>3 DEF Types
<1>10. CASE FreeNext
  <2>1. ids # <<>> /\ ids \in Seq(Txwis)
    BY <1>1, <1>10 DEF FreeNext, HandsTyped, TypeOK
  <2>2. Head(ids) \in Txwis /\ ids' \in Seq(Txwis)
    BY <1>10, <2>1, PopSet DEF FreeNext
  <2>3. <<Head(ids)>> \o free \in Seq(Txwis)
    BY <1>1, <2>2, ConcatProperties DEF TypeOK
  <2>4. /\ free' \in Seq(Txwis) /\ live' \subseteq Mbufs
        /\ mtMbuf' \in [Txwis -> Mbufs \cup {None}]
    BY <1>1, <1>10, <2>2, <2>3 DEF FreeNext, Put, pool, TypeOK
  <2>5. busy' \in [Txwis -> BOOLEAN]
    <3>1. CASE busy[Head(ids)]
      BY <1>1, <1>10, <3>1 DEF FreeNext, Put, TypeOK
    <3>2. CASE ~busy[Head(ids)]
      BY <1>1, <1>10, <3>2 DEF FreeNext, pool, TypeOK
    <3> QED BY <3>1, <3>2
  <2>6. /\ UNCHANGED <<prod, cons, desc, cpuIdx, dmaIdx, fw, events, pc, mbuf, mt, idx,
                       cidx, last, clash, stuck, leaked>>
        /\ ids' = Tail(ids) /\ ipc' = IF Len(ids) = 1 THEN "idle" ELSE "free"
    BY <1>10 DEF FreeNext, ring, device, sender, history, losses
  <2>7. TypeOK'
    BY <1>1, <2>2, <2>4, <2>5, <2>6 DEF TypeOK
  <2>8. Len(ids) = 1 <=> ids' = <<>>
    <3>1. Len(ids') = Len(ids) - 1 /\ Len(ids) \in Nat
      BY <2>1, <2>6, HeadTailProperties, LenProperties
    <3>2. ids' = <<>> <=> Len(ids') = 0
      BY <2>2, EmptySeq
    <3> QED BY <3>1, <3>2
  <2>9. HandsTyped'
    BY <1>3, <2>6, <2>8
  <2> QED BY <2>7, <2>9 DEF Types
<1>11. CASE DmaReset
  <2>1. Outstanding \subseteq Txwis /\ <<>> \in Seq(Seq(Txwis))
    BY DEF Outstanding
  <2>2. TypeOK'
    BY <1>1, <1>2, <1>11, <2>1 DEF DmaReset, pool, sender, intr, TypeOK
  <2>3. HandsTyped'
    BY <1>1, <1>3, <1>11 DEF DmaReset, sender, intr, HandsTyped
  <2> QED BY <2>2, <2>3 DEF Types
<1>12. CASE UNCHANGED vars
  <2>1. TypeOK'
    BY <1>1, <1>12 DEF vars, pool, ring, device, sender, intr, history, losses, TypeOK
  <2>2. HandsTyped'
    BY <1>1, <1>3, <1>12 DEF vars, sender, intr, HandsTyped
  <2> QED BY <2>1, <2>2 DEF Types
<1> QED
  BY <1>4, <1>5, <1>6, <1>7, <1>8, <1>9, <1>10, <1>11, <1>12, SenderType
     DEF Next, Interrupt

----------------------------------------------------------------------------
(* The indices.                                                            *)

\* The slots and their distances from mq_cons.
LEMMA IndexTypes ==
  ASSUME TypeOK
  PROVE  /\ cons \in Slots /\ prod \in Slots /\ cpuIdx \in Slots
         /\ dmaIdx \in Slots /\ cidx \in Slots /\ last \in Slots
         /\ \A s \in Slots : Dist(cons, s) \in 0..(Count - 1)
BY DistRange DEF TypeOK

\* A step that moves no index but those it names.
LEMMA SameOrder ==
  ASSUME IndexOrder, UNCHANGED <<cons, dmaIdx, cpuIdx, prod, cidx, last>>,
         ipc' = "clean" => ipc = "clean"
  PROVE  IndexOrder'
BY DEF IndexOrder, Dist

\* While one sender is in mwx_dma_txwi_enqueue the others are not.
LEMMA OthersAreOut ==
  ASSUME OneEnqueues, NEW p \in Senders, Enqueueing(p)
  PROVE  \A q \in Senders \ {p} : pc[q] \notin {"fill", "publish", "kick"}
BY DEF OneEnqueues, Enqueueing

LEMMA SenderMovesIndex ==
  ASSUME NEW p \in Senders, Types, Types', IndexInv, ~clash',
         TakeFrame(p) \/ Tx(p)
  PROVE  IndexInv'
<1>1. TypeOK /\ TypeOK' /\ IndexOrder /\ OneEnqueues /\ \A q \in Senders : SlotIsWritten(q)
  BY DEF Types, IndexInv
<1>2. /\ cons \in Slots /\ prod \in Slots /\ cpuIdx \in Slots
      /\ dmaIdx \in Slots /\ cidx \in Slots /\ last \in Slots
      /\ \A s \in Slots : Dist(cons, s) \in 0..(Count - 1)
  BY <1>1, IndexTypes
<1>3. \A q \in Senders \ {p} : pc'[q] = pc[q] /\ mt'[q] = mt[q] /\ idx'[q] = idx[q]
  BY <1>1, OthersStay
<1>4. ASSUME Enqueueing(p) \/ pc'[p] \notin {"fill", "publish", "kick"}
      PROVE  OneEnqueues'
  BY <1>1, <1>3, <1>4 DEF OneEnqueues, Enqueueing
<1>5. ASSUME Enqueueing(p), SlotIsWritten(p)' PROVE \A q \in Senders : SlotIsWritten(q)'
  <2>1. ASSUME NEW q \in Senders \ {p} PROVE SlotIsWritten(q)'
    BY <1>1, <1>3, <1>5, <2>1, OthersAreOut DEF SlotIsWritten
  <2> QED BY <1>5, <2>1
<1>6. ASSUME UNCHANGED <<cons, prod, desc>>, SlotIsWritten(p)'
      PROVE  \A q \in Senders : SlotIsWritten(q)'
  <2>1. ASSUME NEW q \in Senders \ {p} PROVE SlotIsWritten(q)'
    BY <1>1, <1>3, <1>6, <2>1 DEF SlotIsWritten
  <2> QED BY <1>6, <2>1
<1>7. CASE TakeFrame(p) \/ NoTxwi(p) \/ GetFirst(p) \/ Unlink(p) \/ LoadFails(p)
           \/ Load(p) \/ RingFull(p)
  <2>1. /\ UNCHANGED <<cons, dmaIdx, cpuIdx, prod, cidx, last, ipc, desc>>
        /\ pc'[p] \in {"get", "idle", "remove", "load", "slot"}
    BY <1>1, <1>7
       DEF TakeFrame, NoTxwi, GetFirst, Unlink, LoadFails, Load, RingFull,
           Leave, Goto, ring, device, intr, TypeOK
  <2>2. SlotIsWritten(p)'
    BY <2>1 DEF SlotIsWritten
  <2>3. IndexOrder' /\ OneEnqueues'
    BY <1>1, <1>4, <2>1, SameOrder
  <2> QED BY <1>6, <2>1, <2>2, <2>3 DEF IndexInv
<1>8. CASE TakeSlot(p)
  <2>1. /\ UNCHANGED <<cons, dmaIdx, cpuIdx, prod, cidx, last, ipc, desc>>
        /\ pc'[p] = "fill" /\ idx'[p] = prod
    BY <1>1, <1>8 DEF TakeSlot, Goto, ring, device, intr, TypeOK
  <2>2. \A q \in Senders : ~Enqueueing(q)
    BY <1>8 DEF TakeSlot
  <2>3. OneEnqueues'
    BY <1>3, <2>2 DEF OneEnqueues, Enqueueing
  <2>4. SlotIsWritten(p)'
    BY <2>1 DEF SlotIsWritten
  <2>5. IndexOrder'
    BY <1>1, <2>1, SameOrder
  <2> QED BY <1>6, <2>1, <2>3, <2>4, <2>5 DEF IndexInv
<1>9. CASE Fill(p)
  <2>1. /\ UNCHANGED <<cons, dmaIdx, cpuIdx, prod, cidx, last, ipc, mt>>
        /\ pc[p] = "fill" /\ idx[p] = prod
        /\ desc'[prod] = mt[p] /\ idx'[p] = Succ(prod)
        /\ pc'[p] = IF Succ(prod) = cons THEN "panic" ELSE "publish"
        /\ 1 <= FreeSlots
    BY <1>1, <1>2, <1>9 DEF Fill, Goto, TypeOK, device, intr, SlotIsWritten
  <2>2. Succ(prod) # cons
    <3>1. Dist(cons, prod) < Count - 1
      BY <1>2, <2>1, FreeSlotsValue, CountAssumption
    <3> QED BY <1>2, <3>1, DistNotFarthest
  <2>3. IndexOrder'
    BY <1>1, <2>1, SameOrder
  <2>4. SlotIsWritten(p)'
    BY <2>1, <2>2 DEF SlotIsWritten
  <2>5. Enqueueing(p)
    BY <2>1 DEF Enqueueing
  <2> QED BY <1>4, <1>5, <2>3, <2>4, <2>5 DEF IndexInv
<1>10. CASE Publish(p)
  <2>1. /\ UNCHANGED <<cons, dmaIdx, cpuIdx, cidx, last, ipc>>
        /\ pc[p] = "publish" /\ prod' = Succ(prod) /\ pc'[p] = "kick"
        /\ Succ(prod) # cons
    BY <1>1, <1>10 DEF Publish, Goto, TypeOK, device, intr, SlotIsWritten
  <2>2. Dist(cons, Succ(prod)) = Dist(cons, prod) + 1
    BY <1>2, <2>1, DistSucc
  <2>3. Dist(cons, cpuIdx) <= Dist(cons, Succ(prod))
    BY <1>1, <1>2, <2>2 DEF IndexOrder
  <2>4. IndexOrder'
    BY <1>1, <2>1, <2>3 DEF IndexOrder, Dist
  <2>5. SlotIsWritten(p)' /\ Enqueueing(p)
    BY <2>1 DEF SlotIsWritten, Enqueueing
  <2> QED BY <1>4, <1>5, <2>4, <2>5 DEF IndexInv
<1>11. CASE Kick(p)
  <2>1. /\ UNCHANGED <<cons, dmaIdx, prod, cidx, last, ipc>>
        /\ pc[p] = "kick" /\ cpuIdx' = prod /\ pc'[p] = "idle"
    BY <1>1, <1>11 DEF Kick, Leave, Goto, TypeOK, device, intr
  <2>2. Dist(cons, dmaIdx) <= Dist(cons, prod) /\ Dist(cons, prod) <= Dist(cons, prod)
    BY <1>1, <1>2 DEF IndexOrder
  <2>3. IndexOrder'
    BY <1>1, <2>1, <2>2 DEF IndexOrder, Dist
  <2>4. SlotIsWritten(p)' /\ Enqueueing(p)
    BY <2>1 DEF SlotIsWritten, Enqueueing
  <2> QED BY <1>4, <1>5, <2>3, <2>4 DEF IndexInv
<1> QED BY <1>7, <1>8, <1>9, <1>10, <1>11 DEF Tx

LEMMA StepIndex ==
  ASSUME Types, Types', IndexInv, ~clash', [Next]_vars
  PROVE  IndexInv'
<1>1. TypeOK /\ TypeOK' /\ IndexOrder /\ OneEnqueues /\ \A q \in Senders : SlotIsWritten(q)
  BY DEF Types, IndexInv
<1>2. /\ cons \in Slots /\ prod \in Slots /\ cpuIdx \in Slots
      /\ dmaIdx \in Slots /\ cidx \in Slots /\ last \in Slots
      /\ \A s \in Slots : Dist(cons, s) \in 0..(Count - 1)
  BY <1>1, IndexTypes
<1>3. ASSUME UNCHANGED <<pc, mt, idx, prod>>, IndexOrder',
             \A q \in Senders : pc[q] = "publish" => Succ(prod) # cons' /\ desc'[prod] = desc[prod]
      PROVE  IndexInv'
  <2>1. OneEnqueues'
    BY <1>1, <1>3 DEF OneEnqueues, Enqueueing
  <2>2. \A q \in Senders : SlotIsWritten(q)'
    BY <1>1, <1>3 DEF SlotIsWritten
  <2> QED BY <1>3, <2>1, <2>2 DEF IndexInv
<1>4. \A q \in Senders : pc[q] = "publish" => Succ(prod) # cons
  BY <1>1 DEF SlotIsWritten
<1>5. CASE DeviceFetch
  <2>1. /\ UNCHANGED <<cons, cpuIdx, prod, desc, cidx, last, ipc, pc, mt, idx>>
        /\ dmaIdx' = Succ(dmaIdx) /\ dmaIdx # cpuIdx
    BY <1>5 DEF DeviceFetch, ring, sender, intr
  <2>2. /\ Dist(cons, Succ(dmaIdx)) = Dist(cons, dmaIdx) + 1
        /\ Dist(cons, Succ(dmaIdx)) <= Dist(cons, cpuIdx)
    BY <1>1, <1>2, <2>1, DistStep DEF IndexOrder
  <2>3. ipc = "clean" => Dist(cons, last) <= Dist(cons, Succ(dmaIdx))
    BY <1>1, <1>2, <2>2 DEF IndexOrder
  <2>4. IndexOrder'
    BY <1>1, <2>1, <2>2, <2>3 DEF IndexOrder, Dist
  <2> QED BY <1>3, <1>4, <2>1, <2>4
<1>6. CASE FirmwareReports \/ FreeNext \/ UNCHANGED vars
  <2>1. /\ UNCHANGED <<cons, dmaIdx, cpuIdx, prod, desc, cidx, last, pc, mt, idx>>
        /\ ipc' = "clean" => ipc = "clean"
    BY <1>6 DEF FirmwareReports, FreeNext, vars, ring, device, sender, intr
  <2>2. IndexOrder'
    BY <1>1, <2>1, SameOrder
  <2> QED BY <1>3, <1>4, <2>1, <2>2
<1>7. CASE BeginCleanup
  <2>1. /\ UNCHANGED <<cons, dmaIdx, cpuIdx, prod, desc, pc, mt, idx>>
        /\ cidx' = cons /\ last' = dmaIdx
    BY <1>7 DEF BeginCleanup, ring, sender
  <2>2. Dist(cons, cons) = 0 /\ Dist(cons, dmaIdx) >= 0
        /\ Dist(cons, dmaIdx) <= Dist(cons, dmaIdx)
    BY <1>2, DistRange
  <2>3. IndexOrder'
    BY <1>1, <2>1, <2>2 DEF IndexOrder, Dist
  <2> QED BY <1>3, <1>4, <2>1, <2>3
<1>8. CASE CleanSlot
  <2>1. /\ UNCHANGED <<cons, dmaIdx, cpuIdx, prod, pc, mt, idx>>
        /\ ipc = "clean" /\ cidx # last /\ cidx' = Succ(cidx)
        /\ last' = IF Succ(cidx) = last THEN dmaIdx ELSE last
        /\ \A s \in Slots : s # cidx => desc'[s] = desc[s]
    BY <1>1, <1>8 DEF CleanSlot, sender, device, TypeOK
  <2>2. /\ Dist(cons, Succ(cidx)) = Dist(cons, cidx) + 1
        /\ Dist(cons, Succ(cidx)) <= Dist(cons, last)
    BY <1>1, <1>2, <2>1, DistStep DEF IndexOrder
  <2>3. /\ Dist(cons, cidx') <= Dist(cons, last')
        /\ Dist(cons, last') <= Dist(cons, dmaIdx)
    BY <1>1, <1>2, <2>1, <2>2 DEF IndexOrder
  <2>4. IndexOrder'
    BY <1>1, <2>1, <2>3 DEF IndexOrder, Dist
  <2>5. prod # cidx
    BY <1>1, <1>2, <2>1, <2>2 DEF IndexOrder
  <2> QED BY <1>2, <1>3, <1>4, <2>1, <2>4, <2>5
<1>9. CASE EndCleanup \/ EventIsLost
  <2>1. /\ UNCHANGED <<dmaIdx, cpuIdx, prod, desc, pc, mt, idx>>
        /\ ipc = "clean" /\ ipc' # "clean" /\ cidx = last /\ cons' = cidx
    BY <1>9 DEF EndCleanup, EventIsLost, StoreCons, sender, device
  <2>2. /\ Dist(cons, cidx) <= Dist(cons, dmaIdx)
        /\ Dist(cons, cidx) <= Dist(cons, cpuIdx)
        /\ Dist(cons, cidx) <= Dist(cons, prod)
    BY <1>1, <1>2, <2>1 DEF IndexOrder
  <2>3. /\ Dist(cidx, dmaIdx) = Dist(cons, dmaIdx) - Dist(cons, cidx)
        /\ Dist(cidx, cpuIdx) = Dist(cons, cpuIdx) - Dist(cons, cidx)
        /\ Dist(cidx, prod) = Dist(cons, prod) - Dist(cons, cidx)
    BY <1>2, <2>2, DistRebase
  <2>4. /\ Dist(cidx, dmaIdx) <= Dist(cidx, cpuIdx)
        /\ Dist(cidx, cpuIdx) <= Dist(cidx, prod)
    BY <1>1, <1>2, <2>3 DEF IndexOrder
  <2>5. IndexOrder'
    BY <2>1, <2>4 DEF IndexOrder, Dist
  <2>6. ASSUME NEW q \in Senders, pc[q] = "publish" PROVE Succ(prod) # cidx
    <3> SUFFICES ASSUME Succ(prod) = cidx PROVE FALSE
      OBVIOUS
    <3>1. Dist(cons, cidx) = Dist(cons, prod) + 1
      BY <1>2, <1>4, <2>6, DistSucc
    <3> QED BY <1>2, <2>2, <3>1
  <2> QED BY <1>3, <2>1, <2>5, <2>6
<1>10. CASE DmaReset
  <2>1. /\ cons' = 0 /\ prod' = 0 /\ cpuIdx' = 0 /\ dmaIdx' = 0 /\ ipc' = "idle"
        /\ \A q \in Senders : pc'[q] = "idle"
    BY <1>10 DEF DmaReset, intr, sender
  <2>2. Dist(0, 0) = 0
    BY DistRange, CountAssumption DEF Slots
  <2>3. IndexOrder'
    BY <2>1, <2>2 DEF IndexOrder
  <2> QED BY <2>1, <2>3 DEF IndexInv, OneEnqueues, Enqueueing, SlotIsWritten
<1> QED
  BY <1>5, <1>6, <1>7, <1>8, <1>9, <1>10, SenderMovesIndex DEF Next, Interrupt

----------------------------------------------------------------------------
(* Where each TXWI is.                                                     *)

\* The slots that are posted: the device's next one is the first of them if
\* there is one, mq_prod and what the cleanup clears are not among them.
LEMMA PostedSlots ==
  ASSUME TypeOK, IndexOrder
  PROVE  /\ prod \notin Span(dmaIdx, prod)
         /\ dmaIdx # cpuIdx =>
              /\ Span(Succ(dmaIdx), prod) = Span(dmaIdx, prod) \ {dmaIdx}
              /\ dmaIdx \in Span(dmaIdx, prod)
         /\ ipc = "clean" /\ cidx # last => cidx \notin Span(dmaIdx, prod)
         /\ Succ(prod) # cons =>
              /\ Succ(prod) # dmaIdx
              /\ Span(dmaIdx, Succ(prod)) = Span(dmaIdx, prod) \cup {prod}
<1>1. /\ cons \in Slots /\ prod \in Slots /\ cpuIdx \in Slots
      /\ dmaIdx \in Slots /\ cidx \in Slots /\ last \in Slots
      /\ \A s \in Slots : Dist(cons, s) \in 0..(Count - 1)
  BY IndexTypes
<1>2. Dist(dmaIdx, prod) = Dist(cons, prod) - Dist(cons, dmaIdx)
  <2>1. Dist(cons, dmaIdx) <= Dist(cons, prod)
    BY <1>1 DEF IndexOrder
  <2> QED BY <1>1, <2>1, DistRebase
<1>3. prod \notin Span(dmaIdx, prod)
  BY <1>1, <1>2 DEF Span
<1>4. ASSUME dmaIdx # cpuIdx
      PROVE  /\ Span(Succ(dmaIdx), prod) = Span(dmaIdx, prod) \ {dmaIdx}
             /\ dmaIdx \in Span(dmaIdx, prod)
  <2>1. Dist(cons, dmaIdx) # Dist(cons, cpuIdx)
    BY <1>1, <1>4, DistInjective
  <2>2. dmaIdx # prod
    BY <1>1, <2>1 DEF IndexOrder
  <2> QED BY <1>1, <2>2, SpanShrinks
<1>5. ASSUME ipc = "clean", cidx # last
      PROVE  cidx \notin Span(dmaIdx, prod)
  <2>1. Dist(cons, cidx) # Dist(cons, last)
    BY <1>1, <1>5, DistInjective
  <2>2. Dist(cons, cidx) < Dist(cons, dmaIdx)
    BY <1>1, <1>5, <2>1 DEF IndexOrder
  <2>3. Dist(dmaIdx, cidx) = Count - (Dist(cons, dmaIdx) - Dist(cons, cidx))
    BY <1>1, <2>2, DistWrap
  <2>4. ~(Dist(dmaIdx, cidx) < Dist(dmaIdx, prod))
    BY <1>1, <1>2, <2>3, CountAssumption
  <2> QED BY <2>4 DEF Span
<1>6. ASSUME Succ(prod) # cons
      PROVE  /\ Succ(prod) # dmaIdx
             /\ Span(dmaIdx, Succ(prod)) = Span(dmaIdx, prod) \cup {prod}
  <2>1. Dist(cons, Succ(prod)) = Dist(cons, prod) + 1
    BY <1>1, <1>6, DistSucc
  <2>2. Succ(prod) # dmaIdx
    BY <1>1, <2>1 DEF IndexOrder
  <2> QED BY <1>1, <2>2, SpanGrows
<1> QED BY <1>3, <1>4, <1>5, <1>6

\* A step that leaves the posted slots alone.
LEMMA SameSlots ==
  ASSUME UNCHANGED <<dmaIdx, prod>>,
         \A s \in Span(dmaIdx, prod) : desc'[s] = desc[s]
  PROVE  /\ InRing' = InRing
         /\ RingIsOnce /\ (\A q \in Senders : pc'[q] = "publish" => mt'[q] \notin InRing)
              => RingIsOnce'
<1>1. Span(dmaIdx, prod)' = Span(dmaIdx, prod)
  BY DEF Span, Dist, Slots
<1> QED BY <1>1 DEF InRing, RingIsOnce

\* A step that moves no TXWI.
LEMMA NoTxwiMoves ==
  ASSUME TxwiInv, UNCHANGED <<free, busy, fw, events, ids, stuck>>,
         RingIsOnce', HandsApart', InHand' = InHand, Posted' = Posted
  PROVE  TxwiInv'
<1>1. Reported' = Reported /\ Outstanding' = Outstanding
  BY DEF Reported, Outstanding
<1>2. IsInjective(free)' /\ EventsAreOnce'
  BY DEF TxwiInv, NoneTwice, EventsAreOnce, IsInjective, Apart, Elements, ToSet
<1>3. PlacesApart' /\ PlacesCover'
  BY <1>1 DEF TxwiInv, PlacesApart, PlacesCover
<1> QED BY <1>2, <1>3 DEF TxwiInv, NoneTwice

\* A step of a sender that takes no TXWI from the pool.
LEMMA SameHands ==
  ASSUME NEW p \in Senders, HandsApart, UNCHANGED free,
         \A q \in Senders \ {p} : pc'[q] = pc[q] /\ mt'[q] = mt[q],
         pc'[p] \in WithTxwi => pc[p] \in WithTxwi /\ mt'[p] = mt[p],
         pc'[p] # "remove"
  PROVE  HandsApart'
<1>1. \A q \in Senders : pc'[q] = "remove" => mt'[q] \in ToSet(free')
  BY DEF HandsApart
<1>2. \A q, r \in Senders :
        pc'[q] \in WithTxwi /\ pc'[r] \in WithTxwi /\ mt'[q] = mt'[r] => q = r
  BY DEF HandsApart
<1> QED BY <1>1, <1>2 DEF HandsApart, WithTxwi

LEMMA SenderMovesTxwi ==
  ASSUME NEW p \in Senders, Types, Types', IndexInv, IndexInv', TxwiInv, ~clash',
         TakeFrame(p) \/ Tx(p)
  PROVE  TxwiInv'
<1>1. /\ TypeOK /\ TypeOK' /\ HandsTyped /\ IndexOrder /\ OneEnqueues
      /\ SlotIsWritten(p) /\ HandsApart
      /\ IsInjective(free) /\ RingIsOnce /\ EventsAreOnce
      /\ PlacesApart /\ PlacesCover
  BY DEF Types, IndexInv, TxwiInv, NoneTwice
<1>2. \A q \in Senders \ {p} : pc'[q] = pc[q] /\ mt'[q] = mt[q] /\ mbuf'[q] = mbuf[q]
  BY <1>1, OthersStay
<1> DEFINE H == HandsBut(p)
           P == PublishingBut(p)
<1>3. /\ InHand = H \cup IF pc[p] \in {"load", "slot", "fill"} THEN {mt[p]} ELSE {}
      /\ Posted = InRing \cup P \cup IF pc[p] = "publish" THEN {mt[p]} ELSE {}
      /\ InHand' = H \cup IF pc'[p] \in {"load", "slot", "fill"} THEN {mt'[p]} ELSE {}
      /\ Posted' = InRing' \cup P \cup IF pc'[p] = "publish" THEN {mt'[p]} ELSE {}
  BY <1>2, Split, SplitAfter
<1>4. pc[p] \in WithTxwi => mt[p] \in Txwis /\ mt[p] \notin H \cup P
  BY <1>1, MineOnly DEF HandsTyped
<1>5. UNCHANGED <<fw, events, ids, ipc, dmaIdx>>
  BY DEF Tx, TakeFrame, NoTxwi, GetFirst, Unlink, LoadFails, Load, TakeSlot,
         RingFull, Fill, Publish, Kick, device, intr
<1>6. Reported' = Reported /\ EventsAreOnce'
  BY <1>1, <1>5 DEF Reported, EventsAreOnce, IsInjective, Apart, Elements, ToSet
<1>7. ASSUME UNCHANGED <<desc, prod>>, pc'[p] # "publish"
      PROVE  InRing' = InRing /\ RingIsOnce'
  <2>1. \A q \in Senders : pc'[q] = "publish" => mt'[q] \notin InRing
    BY <1>1, <1>2, <1>7 DEF RingIsOnce
  <2> QED BY <1>1, <1>5, <1>7, <2>1, SameSlots
<1> HIDE DEF H, P
<1>8. CASE TakeFrame(p) \/ NoTxwi(p) \/ Kick(p)
  <2>1. /\ pc'[p] \in {"idle", "get"} /\ pc[p] \notin {"load", "slot", "fill", "publish"}
        /\ UNCHANGED <<free, busy, desc, prod, stuck>>
    BY <1>1, <1>8
       DEF TakeFrame, NoTxwi, Kick, Leave, Goto, pool, ring, history, losses, TypeOK
  <2>2. InRing' = InRing /\ RingIsOnce'
    BY <1>7, <2>1
  <2>3. HandsApart'
    BY <1>1, <1>2, <2>1, SameHands DEF WithTxwi
  <2> QED BY <1>3, <1>5, <2>1, <2>2, <2>3, NoTxwiMoves
<1>9. CASE GetFirst(p)
  <2>1. /\ pc'[p] = "remove" /\ pc[p] = "get" /\ mt'[p] = Head(free)
        /\ free # <<>> /\ UNCHANGED <<free, busy, desc, prod, stuck>>
    BY <1>1, <1>9 DEF GetFirst, Goto, pool, ring, losses, TypeOK
  <2>2. InRing' = InRing /\ RingIsOnce'
    BY <1>7, <2>1
  <2>3. Head(free) \in ToSet(free)
    BY <1>1, <2>1, PopSet DEF TypeOK
  <2>4. \A q \in Senders : pc[q] \in WithTxwi => mt[q] # Head(free)
    <3>1. ASSUME NEW q \in Senders, pc[q] = "remove" PROVE mt[q] # Head(free)
      BY <1>9, <3>1 DEF GetFirst
    <3>2. ASSUME NEW q \in Senders, pc[q] \in {"load", "slot", "fill", "publish"}
          PROVE  mt[q] # Head(free)
      <4>1. mt[q] \in InHand \cup Posted
        BY <3>2 DEF InHand, Posted
      <4> QED BY <1>1, <2>3, <4>1 DEF PlacesCover
    <3> QED BY <3>1, <3>2 DEF WithTxwi
  <2>5. HandsApart'
    <3>1. \A q \in Senders : pc'[q] = "remove" => mt'[q] \in ToSet(free')
      BY <1>1, <1>2, <2>1, <2>3 DEF HandsApart
    <3>2. \A q, r \in Senders :
            pc'[q] \in WithTxwi /\ pc'[r] \in WithTxwi /\ mt'[q] = mt'[r] => q = r
      BY <1>1, <1>2, <2>1, <2>4 DEF HandsApart
    <3> QED BY <3>1, <3>2 DEF HandsApart, WithTxwi
  <2> QED BY <1>3, <1>5, <2>1, <2>2, <2>5, NoTxwiMoves
<1>10. CASE Unlink(p)
  <2> DEFINE t == mt[p]
  <2>1. /\ pc'[p] = "load" /\ pc[p] = "remove" /\ mt'[p] = t
        /\ free' = RemoveFirst(free, t) /\ busy' = [busy EXCEPT ![t] = TRUE]
        /\ UNCHANGED <<desc, prod, stuck>>
    BY <1>1, <1>10 DEF Unlink, Goto, ring, history, losses, TypeOK
  <2>2. t \in ToSet(free) /\ t \in Txwis
    BY <1>1, <1>4, <2>1 DEF HandsApart, WithTxwi
  <2>3. ToSet(free') = ToSet(free) \ {t} /\ IsInjective(free')
    BY <1>1, <2>1, <2>2, RemoveSet DEF TypeOK
  <2>4. Outstanding' = Outstanding \cup {t}
    <3>1. \A u \in Txwis : busy'[u] = IF u = t THEN TRUE ELSE busy[u]
      BY <1>1, <2>1 DEF TypeOK
    <3> HIDE DEF t
    <3> QED BY <2>2, <3>1 DEF Outstanding
  <2>5. InRing' = InRing /\ RingIsOnce'
    BY <1>7, <2>1
  <2>6. \A q \in Senders \ {p} : pc[q] \in WithTxwi => mt[q] # t
    BY <1>1, <2>1 DEF HandsApart, WithTxwi
  <2>7. HandsApart'
    <3>1. \A q \in Senders : pc'[q] = "remove" => mt'[q] \in ToSet(free')
      BY <1>1, <1>2, <2>1, <2>3, <2>6 DEF HandsApart, WithTxwi
    <3>2. \A q, r \in Senders :
            pc'[q] \in WithTxwi /\ pc'[r] \in WithTxwi /\ mt'[q] = mt'[r] => q = r
      BY <1>1, <1>2, <2>1, <2>6 DEF HandsApart
    <3> QED BY <3>1, <3>2 DEF HandsApart, WithTxwi
  <2>8. InHand' = InHand \cup {t} /\ Posted' = Posted
    BY <1>3, <2>1, <2>5
  <2> HIDE DEF t
  <2>9. t \notin Outstanding
    BY <1>1, <2>2 DEF PlacesCover
  <2>10. PlacesApart'
    BY <1>1, <1>5, <1>6, <2>1, <2>8, <2>9 DEF PlacesApart, PlacesCover
  <2>11. PlacesCover'
    BY <1>1, <1>5, <1>6, <2>1, <2>2, <2>3, <2>4, <2>8 DEF PlacesCover
  <2>12. NoneTwice'
    BY <1>6, <2>3, <2>5 DEF NoneTwice
  <2> QED BY <2>7, <2>10, <2>11, <2>12 DEF TxwiInv
<1>11. CASE LoadFails(p) \/ RingFull(p)
  <2>1. /\ pc'[p] = "idle" /\ pc[p] \in {"load", "slot", "fill"}
        /\ stuck' = stuck \cup {mt[p]} /\ UNCHANGED <<free, busy, desc, prod>>
    BY <1>1, <1>11 DEF LoadFails, RingFull, Leave, Goto, pool, ring, TypeOK
  <2>2. InRing' = InRing /\ RingIsOnce'
    BY <1>7, <2>1
  <2>3. HandsApart'
    BY <1>1, <1>2, <2>1, SameHands DEF WithTxwi
  <2>4. /\ InHand' = InHand \ {mt[p]} /\ mt[p] \in InHand /\ Posted' = Posted
        /\ Outstanding' = Outstanding /\ IsInjective(free')
    BY <1>1, <1>3, <1>4, <2>1, <2>2 DEF Outstanding, WithTxwi
  <2>5. PlacesApart' /\ PlacesCover'
    BY <1>1, <1>5, <1>6, <2>1, <2>4 DEF PlacesApart, PlacesCover
  <2>6. NoneTwice'
    BY <1>6, <2>2, <2>4 DEF NoneTwice
  <2> QED BY <2>3, <2>5, <2>6 DEF TxwiInv
<1>12. CASE Load(p) \/ TakeSlot(p)
  <2>1. /\ \/ pc[p] = "load" /\ pc'[p] = "slot"
           \/ pc[p] = "slot" /\ pc'[p] = "fill"
        /\ mt'[p] = mt[p] /\ UNCHANGED <<free, busy, desc, prod, stuck>>
    BY <1>1, <1>12 DEF Load, TakeSlot, Goto, pool, ring, history, losses, TypeOK
  <2>2. InRing' = InRing /\ RingIsOnce'
    BY <1>7, <2>1
  <2>3. HandsApart'
    BY <1>1, <1>2, <2>1, SameHands DEF WithTxwi
  <2> QED BY <1>3, <1>5, <2>1, <2>2, <2>3, NoTxwiMoves
<1>13. CASE Fill(p)
  <2>1. /\ pc'[p] = "publish" /\ pc[p] = "fill" /\ mt'[p] = mt[p]
        /\ UNCHANGED <<free, busy, prod, stuck>>
        /\ \A s \in Slots : s # prod => desc'[s] = desc[s]
    <3>1. pc'[p] # "panic"
      BY DEF IndexInv, SlotIsWritten
    <3>2. idx[p] = prod
      BY <1>1, <1>13 DEF Fill, SlotIsWritten
    <3> QED BY <1>1, <1>13, <3>1, <3>2 DEF Fill, Goto, pool, history, losses, TypeOK
  <2>2. mt[p] \in InHand /\ mt[p] \notin InRing
    <3>1. mt[p] \in InHand
      BY <1>3, <2>1
    <3> QED BY <1>1, <1>3, <3>1 DEF PlacesApart
  <2>3. InRing' = InRing /\ RingIsOnce'
    <3>1. \A s \in Span(dmaIdx, prod) : desc'[s] = desc[s]
      BY <1>1, <2>1, PostedSlots DEF Span
    <3>2. \A q \in Senders : pc'[q] = "publish" => mt'[q] \notin InRing
      BY <1>1, <1>2, <2>1, <2>2 DEF RingIsOnce
    <3> QED BY <1>1, <1>5, <2>1, <3>1, <3>2, SameSlots
  <2>4. HandsApart'
    BY <1>1, <1>2, <2>1, SameHands DEF WithTxwi
  <2>5. /\ InHand' = InHand \ {mt[p]} /\ Posted' = Posted \cup {mt[p]}
        /\ Outstanding' = Outstanding /\ IsInjective(free')
    BY <1>1, <1>3, <1>4, <2>1, <2>3 DEF Outstanding, WithTxwi
  <2>6. PlacesApart' /\ PlacesCover'
    BY <1>1, <1>5, <1>6, <2>1, <2>2, <2>5 DEF PlacesApart, PlacesCover
  <2>7. NoneTwice'
    BY <1>6, <2>3, <2>5 DEF NoneTwice
  <2> QED BY <2>4, <2>6, <2>7 DEF TxwiInv
<1>14. CASE Publish(p)
  <2>1. /\ pc'[p] = "kick" /\ pc[p] = "publish" /\ prod' = Succ(prod)
        /\ Succ(prod) # cons /\ desc[prod] = mt[p]
        /\ UNCHANGED <<free, busy, desc, stuck>>
    BY <1>1, <1>14 DEF Publish, Goto, SlotIsWritten, pool, history, losses, TypeOK
  <2>2. Span(dmaIdx, prod)' = Span(dmaIdx, prod) \cup {prod}
    <3>1. Span(dmaIdx, prod)' = Span(dmaIdx, Succ(prod))
      BY <1>5, <2>1 DEF Span, Dist, Slots
    <3> QED BY <1>1, <2>1, <3>1, PostedSlots
  <2>3. InRing' = InRing \cup {mt[p]}
    BY <2>1, <2>2 DEF InRing
  <2>4. mt[p] \notin InRing /\ mt[p] \in Txwis
    BY <1>1, <1>4, <2>1 DEF RingIsOnce, WithTxwi
  <2>5. RingIsOnce'
    <3>1. None \notin InRing'
      BY <1>1, <2>3, <2>4, NoneAssumption DEF RingIsOnce
    <3>2. \A s \in Span(dmaIdx, prod) : desc[s] # desc[prod]
      BY <2>1, <2>4 DEF InRing
    <3>3. \A s, t \in Span(dmaIdx, prod)' : desc[s] = desc[t] => s = t
      BY <1>1, <2>2, <3>2 DEF RingIsOnce
    <3>4. \A q \in Senders : pc'[q] # "publish"
      BY <1>1, <1>2, <2>1, OthersAreOut DEF Enqueueing
    <3> QED BY <2>1, <3>1, <3>3, <3>4 DEF RingIsOnce
  <2>6. HandsApart'
    BY <1>1, <1>2, <2>1, SameHands DEF WithTxwi
  <2>7. InHand' = InHand /\ Posted' = Posted
    BY <1>3, <2>1, <2>3
  <2> QED BY <1>5, <2>1, <2>5, <2>6, <2>7, NoTxwiMoves
<1> QED
  BY <1>8, <1>9, <1>10, <1>11, <1>12, <1>13, <1>14 DEF Tx

LEMMA DeviceMovesTxwi ==
  ASSUME Types, Types', IndexInv, TxwiInv,
         DeviceFetch \/ FirmwareReports
  PROVE  TxwiInv'
<1>1. /\ TypeOK /\ HandsTyped /\ IndexOrder /\ HandsApart
      /\ IsInjective(free) /\ RingIsOnce /\ EventsAreOnce
      /\ PlacesApart /\ PlacesCover
  BY DEF Types, IndexInv, TxwiInv, NoneTwice
<1>2. /\ Reported = ToSet(ids) \cup Elements(events)
      /\ Reported' = ToSet(ids') \cup Elements(events')
  BY ReportedValue, ReportedAfter
<1>3. UNCHANGED <<free, busy, stuck, prod, cons, desc, pc, mt, mbuf, ids, ipc>>
  BY DEF DeviceFetch, FirmwareReports, pool, ring, sender, intr, history, losses
<1>4. /\ HandsApart' /\ InHand' = InHand /\ Outstanding' = Outstanding
      /\ IsInjective(free')
  BY <1>1, <1>3, SendersStay DEF HandsApart, Outstanding, WithTxwi
<1>5. CASE DeviceFetch
  <2> DEFINE t == desc[dmaIdx]
  <2>1. /\ dmaIdx # cpuIdx /\ dmaIdx' = Succ(dmaIdx)
        /\ fw' = fw \cup ({t} \ {None}) /\ UNCHANGED events
    BY <1>5 DEF DeviceFetch
  <2>2. /\ Span(dmaIdx, prod)' = Span(dmaIdx, prod) \ {dmaIdx}
        /\ dmaIdx \in Span(dmaIdx, prod)
    <3>1. Span(dmaIdx, prod)' = Span(Succ(dmaIdx), prod)
      BY <1>3, <2>1 DEF Span, Dist, Slots
    <3> QED BY <1>1, <2>1, <3>1, PostedSlots
  <2>3. t \in InRing /\ t # None
    BY <1>1, <2>2 DEF InRing, RingIsOnce
  <2>4. InRing' = InRing \ {t}
    <3>1. \A s \in Span(dmaIdx, prod) : desc[s] = t => s = dmaIdx
      BY <1>1, <2>2 DEF RingIsOnce
    <3> QED BY <1>3, <2>2, <3>1 DEF InRing
  <2>5. RingIsOnce'
    BY <1>1, <1>3, <2>2, <2>4 DEF RingIsOnce
  <2>6. fw' = fw \cup {t} /\ Posted' = Posted \ {t} /\ t \in Posted
        /\ Reported' = Reported
    <3> HIDE DEF t
    <3>1. /\ Posted = InRing \cup {mt[q] : q \in {r \in Senders : pc[r] = "publish"}}
          /\ Posted' = InRing' \cup {mt[q] : q \in {r \in Senders : pc[r] = "publish"}}
      BY <1>3 DEF Posted, InRing
    <3>2. t \notin {mt[q] : q \in {r \in Senders : pc[r] = "publish"}}
      BY <1>1, <2>3 DEF RingIsOnce
    <3>3. Reported' = Reported
      BY <1>2, <1>3, <2>1
    <3> QED BY <2>1, <2>3, <2>4, <3>1, <3>2, <3>3
  <2>7. EventsAreOnce'
    BY <1>1, <1>3, <2>1 DEF EventsAreOnce, IsInjective, Apart, Elements, ToSet
  <2> HIDE DEF t
  <2>8. PlacesApart' /\ PlacesCover'
    BY <1>1, <1>3, <1>4, <2>6 DEF PlacesApart, PlacesCover
  <2> QED BY <1>4, <2>5, <2>7, <2>8 DEF TxwiInv, NoneTwice
<1>6. CASE FirmwareReports
  <2>0. PICK done \in SUBSET fw \ {{}} :
          /\ fw' = fw \ done
          /\ \E list \in SetToSeqs(done) : events' = Append(events, list)
    BY <1>6 DEF FirmwareReports
  <2>1. PICK list \in SetToSeqs(done) : events' = Append(events, list)
    BY <2>0
  <2>2. UNCHANGED dmaIdx
    BY <1>6 DEF FirmwareReports
  <2>3. list \in Seq(Txwis) /\ ToSet(list) = done /\ IsInjective(list)
    <3>1. done \subseteq Txwis /\ IsFiniteSet(done)
      BY <1>1, TxwisAssumption, FS_Subset DEF TypeOK
    <3>2. list \in Seq(done) /\ ToSet(list) = done /\ IsInjective(list)
      BY <3>1, ListsOfSet
    <3> QED BY <3>1, <3>2
  <2>4. /\ Elements(events') = Elements(events) \cup done
        /\ Apart(events) /\ done \cap Elements(events) = {} => Apart(events')
    BY <1>1, <2>1, <2>3, AppendLists DEF TypeOK
  <2>5. done \cap Reported = {}
    BY <1>1 DEF PlacesApart
  <2>6. EventsAreOnce'
    BY <1>1, <1>2, <1>3, <2>4, <2>5 DEF EventsAreOnce
  <2>7. InRing' = InRing /\ RingIsOnce'
    BY <1>1, <1>3, <2>2, SameSlots DEF RingIsOnce
  <2>8. Reported' = Reported \cup done /\ Posted' = Posted
    BY <1>2, <1>3, <2>4, <2>7, SendersStay
  <2>9. PlacesApart' /\ PlacesCover'
    BY <1>1, <1>3, <1>4, <2>0, <2>8 DEF PlacesApart, PlacesCover
  <2> QED BY <1>4, <2>6, <2>7, <2>9 DEF TxwiInv, NoneTwice
<1> QED BY <1>5, <1>6

LEMMA InterruptMovesTxwi ==
  ASSUME Types, Types', IndexInv, TxwiInv, Interrupt
  PROVE  TxwiInv'
<1>1. /\ TypeOK /\ HandsTyped /\ IndexOrder /\ HandsApart
      /\ IsInjective(free) /\ RingIsOnce /\ EventsAreOnce
      /\ PlacesApart /\ PlacesCover
  BY DEF Types, IndexInv, TxwiInv, NoneTwice
<1>2. /\ Reported = ToSet(ids) \cup Elements(events)
      /\ Reported' = ToSet(ids') \cup Elements(events')
  BY ReportedValue, ReportedAfter
<1>3. UNCHANGED <<prod, dmaIdx, fw, pc, mt, mbuf>>
  BY DEF Interrupt, BeginCleanup, CleanSlot, EndCleanup, EventIsLost, StoreCons,
         FreeNext, ring, device, sender
<1>4. InRing' = InRing /\ RingIsOnce' /\ InHand' = InHand /\ Posted' = Posted
  <2>1. \A s \in Span(dmaIdx, prod) : desc'[s] = desc[s]
    <3>1. CASE CleanSlot
      <4>1. cidx \notin Span(dmaIdx, prod)
        BY <1>1, <3>1, PostedSlots DEF CleanSlot
      <4> QED BY <1>1, <3>1, <4>1 DEF CleanSlot, Span, TypeOK
    <3>2. CASE ~CleanSlot
      BY <3>2 DEF Interrupt, BeginCleanup, EndCleanup, EventIsLost, StoreCons,
                  FreeNext, ring
    <3> QED BY <3>1, <3>2
  <2>2. InRing' = InRing /\ RingIsOnce'
    BY <1>1, <1>3, <2>1, SameSlots DEF RingIsOnce
  <2> QED BY <1>3, <2>2, SendersStay
<1>5. CASE BeginCleanup
  <2>1. /\ UNCHANGED <<free, busy, stuck>> /\ ipc = "idle" /\ ipc' = "clean"
        /\ \/ UNCHANGED <<ids, events>>
           \/ events # <<>> /\ ids' = Head(events) /\ events' = Tail(events)
    BY <1>5 DEF BeginCleanup, pool, history, losses
  <2>2. ids = <<>> /\ ToSet(ids) = {}
    BY <1>1, <2>1 DEF HandsTyped, ToSet
  <2>3. HandsApart' /\ IsInjective(free')
    BY <1>1, <1>3, <2>1 DEF HandsApart, WithTxwi
  <2>4. EventsAreOnce' /\ Reported' = Reported
    <3>1. CASE UNCHANGED <<ids, events>>
      BY <1>1, <1>2, <3>1, SMTT(40) DEF EventsAreOnce, IsInjective, Apart, Elements, ToSet
    <3>2. CASE events # <<>> /\ ids' = Head(events) /\ events' = Tail(events)
      <4>1. /\ Elements(events) = ToSet(ids') \cup Elements(events')
            /\ Apart(events) => /\ IsInjective(ids') /\ Apart(events')
                                /\ ToSet(ids') \cap Elements(events') = {}
        BY <1>1, <3>2, PopLists DEF TypeOK
      <4> QED BY <1>1, <1>2, <2>2, <4>1 DEF EventsAreOnce
    <3> QED BY <2>1, <3>1, <3>2
  <2>5. PlacesApart' /\ PlacesCover'
    BY <1>1, <1>3, <1>4, <2>1, <2>4 DEF PlacesApart, PlacesCover, Outstanding
  <2> QED BY <1>4, <2>3, <2>4, <2>5 DEF TxwiInv, NoneTwice
<1>6. CASE CleanSlot \/ EndCleanup
  <2>1. UNCHANGED <<free, busy, stuck, ids, events>>
    BY <1>6 DEF CleanSlot, EndCleanup, StoreCons, pool, history, losses, device
  <2>2. HandsApart'
    BY <1>1, <1>3, <1>6, <2>1 DEF HandsApart, WithTxwi
  <2> QED BY <1>3, <1>4, <2>1, <2>2, NoTxwiMoves
<1>7. CASE EventIsLost
  <2>1. /\ UNCHANGED <<free, busy, events>> /\ ids' = <<>> /\ ipc' = "idle"
        /\ stuck' = stuck \cup ToSet(ids)
    BY <1>7 DEF EventIsLost, StoreCons, pool, device
  <2>2. HandsApart' /\ IsInjective(free')
    BY <1>1, <1>3, <2>1 DEF HandsApart, WithTxwi
  <2>3. ToSet(ids') = {} /\ IsInjective(ids')
    BY <2>1 DEF ToSet, IsInjective
  <2>4. EventsAreOnce'
    BY <1>1, <2>1, <2>3 DEF EventsAreOnce
  <2>5. Reported' = Reported \ ToSet(ids) /\ ToSet(ids) \subseteq Reported
    BY <1>1, <1>2, <2>1, <2>3 DEF EventsAreOnce
  <2>6. PlacesApart' /\ PlacesCover'
    BY <1>1, <1>3, <1>4, <2>1, <2>5 DEF PlacesApart, PlacesCover, Outstanding
  <2> QED BY <1>4, <2>2, <2>4, <2>6 DEF TxwiInv, NoneTwice
<1>8. CASE FreeNext
  <2> DEFINE t == Head(ids)
  <2>1. /\ ipc = "free" /\ ids # <<>> /\ ids' = Tail(ids)
        /\ ipc' = IF Len(ids) = 1 THEN "idle" ELSE "free"
        /\ UNCHANGED <<stuck, events>>
    BY <1>1, <1>8 DEF FreeNext, HandsTyped, history, losses, device
  <2>2. /\ t \in Txwis /\ t \in ToSet(ids) /\ ids' \in Seq(Txwis)
        /\ ToSet(ids) = {t} \cup ToSet(ids')
        /\ IsInjective(ids') /\ t \notin ToSet(ids')
    BY <1>1, <2>1, PopSet DEF TypeOK, EventsAreOnce
  <2>3. t \in Reported /\ t \in Outstanding /\ t \notin ToSet(free)
    BY <1>1, <1>2, <2>2 DEF PlacesCover
  <2>4. free' = <<t>> \o free /\ busy' = [busy EXCEPT ![t] = FALSE]
    BY <1>8, <2>3 DEF FreeNext, Put, Outstanding
  <2>5. ToSet(free') = {t} \cup ToSet(free) /\ IsInjective(free')
    BY <1>1, <2>2, <2>3, <2>4, PushSet DEF TypeOK
  <2>6. HandsApart'
    BY <1>1, <1>3, <2>5 DEF HandsApart, WithTxwi
  <2>7. Outstanding' = Outstanding \ {t}
    <3>1. \A u \in Txwis : busy'[u] = IF u = t THEN FALSE ELSE busy[u]
      BY <1>1, <2>4 DEF TypeOK
    <3> HIDE DEF t
    <3> QED BY <2>2, <3>1 DEF Outstanding
  <2>8. EventsAreOnce' /\ Reported' = Reported \ {t}
    BY <1>1, <1>2, <2>1, <2>2 DEF EventsAreOnce
  <2> HIDE DEF t
  <2>9. PlacesApart'
    BY <1>1, <1>3, <1>4, <2>1, <2>8 DEF PlacesApart
  <2>10. PlacesCover'
    BY <1>1, <1>3, <1>4, <2>1, <2>2, <2>3, <2>5, <2>7, <2>8
       DEF PlacesCover, PlacesApart
  <2> QED BY <1>4, <2>5, <2>6, <2>8, <2>9, <2>10 DEF TxwiInv, NoneTwice
<1> QED BY <1>5, <1>6, <1>7, <1>8 DEF Interrupt

\* After a reset every TXWI that is not in the pool is stuck.
LEMMA ResetMovesTxwi ==
  ASSUME Types, TxwiInv, DmaReset
  PROVE  TxwiInv'
<1>1. TypeOK /\ HandsTyped /\ HandsApart /\ IsInjective(free) /\ PlacesCover
  BY DEF Types, TxwiInv, NoneTwice
<1>2. /\ \A q \in Senders : pc'[q] = "idle"
      /\ ids' = <<>> /\ events' = <<>>
      /\ fw' = {} /\ stuck' = Outstanding /\ prod' = 0 /\ dmaIdx' = 0
      /\ UNCHANGED <<free, busy>>
  BY <1>1 DEF DmaReset, HandsTyped, pool, sender, intr
<1>3. Span(dmaIdx, prod)' = {}
  <2>1. 0 \in Slots /\ Dist(0, 0) = 0 /\ \A s \in Slots : ~(Dist(0, s) < 0)
    BY DistRange, CountAssumption DEF Slots
  <2> QED BY <1>2, <2>1 DEF Span, Slots, Dist
<1>4. InRing' = {} /\ RingIsOnce'
  BY <1>2, <1>3 DEF InRing, RingIsOnce
<1>5. ToSet(ids') = {} /\ Elements(events') = {} /\ EventsAreOnce'
  BY <1>2 DEF ToSet, Elements, EventsAreOnce, IsInjective, Apart
<1>6. InHand' = {} /\ Posted' = {} /\ Reported' = {}
  <2>1. Posted' = InRing' \cup {mt'[q] : q \in {r \in Senders : pc'[r] = "publish"}}
    BY DEF Posted, InRing
  <2> QED BY <1>2, <1>4, <1>5, <2>1, ReportedAfter DEF InHand
<1>7. PlacesApart' /\ PlacesCover'
  BY <1>1, <1>2, <1>6 DEF PlacesApart, PlacesCover, Outstanding
<1>8. HandsApart'
  BY <1>2 DEF HandsApart, WithTxwi
<1> QED BY <1>1, <1>2, <1>4, <1>5, <1>7, <1>8 DEF TxwiInv, NoneTwice

LEMMA StepTxwi ==
  ASSUME Types, Types', IndexInv, IndexInv', TxwiInv, ~clash', [Next]_vars
  PROVE  TxwiInv'
<1>1. CASE UNCHANGED vars
  <2>1. UNCHANGED <<free, busy, fw, events, ids, stuck, dmaIdx, prod, desc, pc,
                    mt, mbuf>>
    BY <1>1 DEF vars, pool, ring, device, sender, intr, history, losses
  <2>2. InRing' = InRing /\ RingIsOnce'
    BY <2>1, SameSlots DEF TxwiInv, NoneTwice, RingIsOnce
  <2>3. InHand' = InHand /\ Posted' = Posted /\ HandsApart'
    BY <2>1, <2>2, SendersStay DEF TxwiInv, HandsApart, WithTxwi
  <2> QED BY <2>1, <2>2, <2>3, NoTxwiMoves
<1> QED
  BY <1>1, SenderMovesTxwi, DeviceMovesTxwi, InterruptMovesTxwi, ResetMovesTxwi
     DEF Next

----------------------------------------------------------------------------
(* Who owns each frame.                                                    *)

\* A step that changes no owner, and gives the device no other TXWI.
LEMMA SameOwners ==
  ASSUME FrameInv, UNCHANGED <<pc, mt, mbuf, mtMbuf, busy, live, leaked>>,
         Posted' \cup fw' \subseteq Posted \cup fw
  PROVE  FrameInv'
<1>1. Owned' = Owned /\ Unloaded' = Unloaded
  BY DEF Owned, Unloaded, WithFrame
<1>2. FramesHaveOneOwner'
  BY <1>1 DEF FrameInv, FramesHaveOneOwner, WithFrame
<1>3. TxwisAreLoaded'
  BY DEF FrameInv, TxwisAreLoaded
<1> QED BY <1>2, <1>3 DEF FrameInv

LEMMA SenderMovesFrame ==
  ASSUME NEW p \in Senders, Types, Types', IndexInv, TxwiInv, TxwiInv', FrameInv,
         TakeFrame(p) \/ Tx(p)
  PROVE  FrameInv'
<1>1. /\ TypeOK /\ TypeOK' /\ HandsTyped /\ IndexOrder /\ SlotIsWritten(p)
      /\ HandsApart /\ RingIsOnce
      /\ PlacesApart /\ PlacesCover /\ FramesHaveOneOwner /\ TxwisAreLoaded
  BY DEF Types, IndexInv, TxwiInv, NoneTwice, FrameInv
<1>2. \A q \in Senders \ {p} : pc'[q] = pc[q] /\ mt'[q] = mt[q] /\ mbuf'[q] = mbuf[q]
  BY <1>1, OthersStay
<1> DEFINE P == PublishingBut(p)
           U == UnloadedBut(p)
<1>3. /\ Posted = InRing \cup P \cup IF pc[p] = "publish" THEN {mt[p]} ELSE {}
      /\ Unloaded = U \cup IF pc[p] \in WithFrame THEN {mbuf[p]} ELSE {}
      /\ Posted' = InRing' \cup P \cup IF pc'[p] = "publish" THEN {mt'[p]} ELSE {}
      /\ Unloaded' = U \cup IF pc'[p] \in WithFrame THEN {mbuf'[p]} ELSE {}
  BY <1>2, Split, SplitAfter
<1>4. /\ pc[p] \in WithTxwi => mt[p] \in Txwis
      /\ pc[p] \in WithFrame => mbuf[p] \in Mbufs /\ mbuf[p] \notin U
  BY <1>1, MineOnly DEF HandsTyped
<1>5. UNCHANGED <<fw, dmaIdx>>
  BY DEF Tx, TakeFrame, NoTxwi, GetFirst, Unlink, LoadFails, Load, TakeSlot,
         RingFull, Fill, Publish, Kick, device
<1>6. ASSUME UNCHANGED <<desc, prod>>
      PROVE  InRing' = InRing
  BY <1>5, <1>6, SameSlots
<1>7. ASSUME pc'[p] \in WithFrame => pc[p] \in WithFrame /\ mbuf'[p] = mbuf[p]
      PROVE  \A q, r \in Senders : pc'[q] \in WithFrame /\ pc'[r] \in WithFrame
                                     /\ mbuf'[q] = mbuf'[r] => q = r
  BY <1>1, <1>2, <1>7 DEF FramesHaveOneOwner
<1> HIDE DEF P, U
<1>8. ASSUME UNCHANGED <<mtMbuf, live, leaked>>, Unloaded' = Unloaded,
             pc'[p] \in WithFrame => pc[p] \in WithFrame /\ mbuf'[p] = mbuf[p]
      PROVE  FramesHaveOneOwner'
  <2>1. Owned' = Owned
    BY <1>8 DEF Owned
  <2> QED BY <1>1, <1>7, <1>8, <2>1 DEF FramesHaveOneOwner, WithFrame
<1>9. ASSUME UNCHANGED <<mtMbuf, busy>>, Posted' \subseteq Posted,
             pc'[p] \in {"load", "slot", "fill"} =>
               /\ mt'[p] = mt[p]
               /\ pc'[p] = "load" => mtMbuf[mt[p]] = None
               /\ pc'[p] \in {"slot", "fill"} => mtMbuf[mt[p]] # None
      PROVE  TxwisAreLoaded'
  <2>1. \A q \in Senders : /\ pc'[q] = "load" => mtMbuf[mt'[q]] = None
                           /\ pc'[q] \in {"slot", "fill"} => mtMbuf[mt'[q]] # None
    BY <1>1, <1>2, <1>9 DEF TxwisAreLoaded
  <2> QED BY <1>1, <1>5, <1>9, <2>1 DEF TxwisAreLoaded
<1>10. CASE TakeFrame(p)
  <2> DEFINE m == CHOOSE m \in Mbufs : m \notin live
  <2>1. /\ mbuf' = [mbuf EXCEPT ![p] = m] /\ live' = live \cup {mbuf'[p]}
        /\ pc'[p] = "get" /\ pc[p] = "idle" /\ Mbufs # live
        /\ UNCHANGED <<mtMbuf, busy, leaked, desc, prod>>
    BY <1>1, <1>10 DEF TakeFrame, Goto, pool, ring, history, losses, TypeOK
  <2>2. m \in Mbufs /\ m \notin live
    <3>1. \E x \in Mbufs : x \notin live
      BY <1>1, <2>1 DEF TypeOK
    <3> QED BY <3>1
  <2> HIDE DEF m
  <2>3. mbuf'[p] = m
    BY <1>1, <2>1 DEF TypeOK
  <2>4. /\ Unloaded' = Unloaded \cup {m} /\ live' = live \cup {m}
        /\ Owned' = Owned /\ Posted' = Posted
    BY <1>3, <1>6, <2>1, <2>3 DEF Owned, WithFrame
  <2>5. \A q \in Senders : pc[q] \in WithFrame => mbuf[q] # m
    BY <1>1, <2>2 DEF FramesHaveOneOwner, Unloaded
  <2>6. \A q, r \in Senders : pc'[q] \in WithFrame /\ pc'[r] \in WithFrame
                                /\ mbuf'[q] = mbuf'[r] => q = r
    BY <1>1, <1>2, <2>3, <2>5 DEF FramesHaveOneOwner
  <2>7. FramesHaveOneOwner'
    BY <1>1, <2>1, <2>2, <2>4, <2>6 DEF FramesHaveOneOwner, WithFrame
  <2>8. TxwisAreLoaded'
    BY <1>9, <2>1, <2>4
  <2> QED BY <2>7, <2>8 DEF FrameInv
<1>11. CASE NoTxwi(p) \/ LoadFails(p)
  <2>1. /\ pc[p] \in {"get", "load"} /\ pc'[p] = "idle"
        /\ leaked' = leaked \cup {mbuf[p]}
        /\ UNCHANGED <<mtMbuf, busy, live, desc, prod>>
    BY <1>1, <1>11 DEF NoTxwi, LoadFails, Leave, Goto, pool, ring, TypeOK
  <2>2. /\ mbuf[p] \in Unloaded /\ Unloaded' = Unloaded \ {mbuf[p]} /\ Owned' = Owned
        /\ Posted' = Posted
    BY <1>3, <1>4, <1>6, <2>1 DEF Owned, WithFrame
  <2>3. FramesHaveOneOwner'
    <3>1. \A q, r \in Senders : pc'[q] \in WithFrame /\ pc'[r] \in WithFrame
                                  /\ mbuf'[q] = mbuf'[r] => q = r
      BY <1>7, <2>1 DEF WithFrame
    <3> QED BY <1>1, <2>1, <2>2, <3>1 DEF FramesHaveOneOwner, WithFrame
  <2>4. TxwisAreLoaded'
    BY <1>9, <2>1, <2>2
  <2> QED BY <2>3, <2>4 DEF FrameInv
<1>12. CASE GetFirst(p) \/ RingFull(p) \/ Kick(p)
  <2>1. /\ \/ pc[p] = "get" /\ pc'[p] = "remove" /\ mbuf'[p] = mbuf[p]
           \/ pc[p] \in {"fill", "kick"} /\ pc'[p] = "idle"
        /\ UNCHANGED <<mtMbuf, busy, live, leaked, desc, prod>>
    BY <1>1, <1>12 DEF GetFirst, RingFull, Kick, Leave, Goto, pool, ring, history,
                       losses, TypeOK
  <2>2. Unloaded' = Unloaded /\ Posted' = Posted
    BY <1>3, <1>6, <2>1 DEF WithFrame
  <2>3. FramesHaveOneOwner'
    BY <1>8, <2>1, <2>2 DEF WithFrame
  <2>4. TxwisAreLoaded'
    BY <1>9, <2>1, <2>2
  <2> QED BY <2>3, <2>4 DEF FrameInv
<1>13. CASE Unlink(p)
  <2>1. /\ pc[p] = "remove" /\ pc'[p] = "load" /\ UNCHANGED <<mt, mbuf>>
        /\ busy' = [busy EXCEPT ![mt[p]] = TRUE]
        /\ UNCHANGED <<mtMbuf, live, leaked, desc, prod>>
    BY <1>1, <1>13 DEF Unlink, Goto, ring, history, losses, TypeOK
  <2>2. Unloaded' = Unloaded /\ Posted' = Posted
    BY <1>3, <1>6, <2>1 DEF WithFrame
  <2>3. mt[p] \in Txwis /\ ~busy[mt[p]]
    BY <1>1, <2>1 DEF HandsApart, PlacesCover, Outstanding
  <2>4. mtMbuf[mt[p]] = None
    BY <1>1, <2>3 DEF TxwisAreLoaded
  <2>5. FramesHaveOneOwner'
    BY <1>8, <2>1, <2>2 DEF WithFrame
  <2>6. \A t \in Txwis : busy[t] => busy'[t]
    BY <1>1, <2>1 DEF TypeOK
  <2>7. \A q \in Senders : /\ pc'[q] = "load" => mtMbuf[mt[q]] = None
                           /\ pc'[q] \in {"slot", "fill"} => mtMbuf[mt[q]] # None
    BY <1>1, <1>2, <2>1, <2>4 DEF TxwisAreLoaded
  <2>8. TxwisAreLoaded'
    BY <1>1, <1>5, <2>1, <2>2, <2>6, <2>7 DEF TxwisAreLoaded
  <2> QED BY <2>5, <2>8 DEF FrameInv
<1>14. CASE Load(p)
  <2> DEFINE t == mt[p]
             m == mbuf[p]
  <2>1. /\ pc[p] = "load" /\ pc'[p] = "slot" /\ mt'[p] = t
        /\ mtMbuf' = [mtMbuf EXCEPT ![t] = m]
        /\ UNCHANGED <<busy, live, leaked, desc, prod>>
    BY <1>1, <1>14 DEF Load, Goto, ring, history, losses, TypeOK
  <2>2. t \in InHand /\ t \in Txwis /\ m \in Mbufs /\ m \in Unloaded
    BY <1>3, <1>4, <2>1, Split DEF WithFrame, WithTxwi
  <2>3. Unloaded' = Unloaded \ {m} /\ Posted' = Posted
    BY <1>3, <1>4, <1>6, <2>1 DEF WithFrame
  <2>4. /\ busy[t] /\ mtMbuf[t] = None /\ m \in live /\ m # None
    BY <1>1, <2>1, <2>2, NoneAssumption
       DEF PlacesCover, Outstanding, TxwisAreLoaded, FramesHaveOneOwner
  <2>5. \A u \in Txwis : mtMbuf'[u] = IF u = t THEN m ELSE mtMbuf[u]
    BY <1>1, <2>1 DEF TypeOK
  <2>6. \A q \in Senders \ {p} : pc[q] \in {"load", "slot", "fill"} =>
                                   mt[q] \in Txwis /\ mt[q] # t
    BY <1>1, <2>1 DEF HandsTyped, HandsApart, WithTxwi
  <2>7. \A q, r \in Senders : pc'[q] \in WithFrame /\ pc'[r] \in WithFrame
                                /\ mbuf'[q] = mbuf'[r] => q = r
    BY <1>7, <2>1 DEF WithFrame
  <2> HIDE DEF t, m
  <2>8. Owned' = Owned \cup {m}
    BY <2>2, <2>4, <2>5 DEF Owned
  <2>9. \A u \in Txwis : mtMbuf[u] # m
    BY <1>1, <2>2, <2>4 DEF FramesHaveOneOwner, Owned
  <2>10. FramesHaveOneOwner'
    <3>1. \A u, v \in Txwis : mtMbuf'[u] = mtMbuf'[v] /\ mtMbuf'[u] # None => u = v
      BY <1>1, <2>5, <2>9 DEF FramesHaveOneOwner
    <3>2. /\ live' = leaked' \cup Unloaded' \cup Owned'
          /\ leaked' \cap Owned' = {}
          /\ Unloaded' \cap (leaked' \cup Owned') = {}
      BY <1>1, <2>1, <2>2, <2>3, <2>8 DEF FramesHaveOneOwner
    <3> QED BY <2>7, <3>1, <3>2 DEF FramesHaveOneOwner, WithFrame
  <2>11. TxwisAreLoaded'
    <3>1. \A u \in Txwis : mtMbuf'[u] # None => busy[u]
      BY <1>1, <2>4, <2>5 DEF TxwisAreLoaded
    <3>2. t \notin Posted \cup fw
      BY <1>1, <2>2 DEF PlacesApart
    <3>3. \A u \in Posted \cup fw : u # None => mtMbuf'[u] # None
      BY <1>1, <2>1, <3>2 DEF TxwisAreLoaded, TypeOK
    <3>4. mtMbuf'[t] # None
      BY <2>2, <2>4, <2>5
    <3>5. ASSUME NEW q \in Senders
          PROVE  /\ pc'[q] = "load" => mtMbuf'[mt'[q]] = None
                 /\ pc'[q] \in {"slot", "fill"} => mtMbuf'[mt'[q]] # None
      <4>1. CASE q = p
        BY <2>1, <3>4, <4>1
      <4>2. CASE q # p
        BY <1>1, <1>2, <2>5, <2>6, <4>2 DEF TxwisAreLoaded
      <4> QED BY <4>1, <4>2
    <3> QED BY <1>5, <2>1, <2>3, <3>1, <3>3, <3>5 DEF TxwisAreLoaded
  <2> QED BY <2>10, <2>11 DEF FrameInv
<1>15. CASE TakeSlot(p)
  <2>1. /\ pc[p] = "slot" /\ pc'[p] = "fill" /\ mt'[p] = mt[p]
        /\ UNCHANGED <<mtMbuf, busy, live, leaked, desc, prod>>
    BY <1>1, <1>15 DEF TakeSlot, Goto, pool, ring, losses, TypeOK
  <2>2. Unloaded' = Unloaded /\ Posted' = Posted
    BY <1>3, <1>6, <2>1 DEF WithFrame
  <2>3. FramesHaveOneOwner'
    BY <1>8, <2>1, <2>2 DEF WithFrame
  <2>4. TxwisAreLoaded'
    BY <1>1, <1>9, <2>1, <2>2 DEF TxwisAreLoaded
  <2> QED BY <2>3, <2>4 DEF FrameInv
<1>16. CASE Fill(p)
  <2>1. /\ pc[p] = "fill" /\ pc'[p] \in {"publish", "panic"} /\ UNCHANGED mt
        /\ UNCHANGED <<mtMbuf, busy, live, leaked, prod>>
        /\ \A s \in Slots : s # prod => desc'[s] = desc[s]
    BY <1>1, <1>16 DEF Fill, Goto, SlotIsWritten, pool, history, losses, TypeOK
  <2>2. InRing' = InRing
    <3>1. \A s \in Span(dmaIdx, prod) : desc'[s] = desc[s]
      BY <1>1, <2>1, PostedSlots DEF Span
    <3> QED BY <1>5, <2>1, <3>1, SameSlots
  <2>3. /\ Unloaded' = Unloaded /\ Posted' \subseteq Posted \cup {mt[p]}
    BY <1>3, <2>1, <2>2 DEF WithFrame
  <2>4. FramesHaveOneOwner'
    BY <1>8, <2>1, <2>3 DEF WithFrame
  <2>5. mtMbuf[mt[p]] # None
    BY <1>1, <2>1 DEF TxwisAreLoaded
  <2>6. \A q \in Senders : /\ pc'[q] = "load" => mtMbuf[mt[q]] = None
                           /\ pc'[q] \in {"slot", "fill"} => mtMbuf[mt[q]] # None
    BY <1>1, <1>2, <2>1 DEF TxwisAreLoaded
  <2>7. TxwisAreLoaded'
    BY <1>1, <1>5, <2>1, <2>3, <2>5, <2>6 DEF TxwisAreLoaded
  <2> QED BY <2>4, <2>7 DEF FrameInv
<1>17. CASE Publish(p)
  <2>1. /\ pc[p] = "publish" /\ pc'[p] = "kick" /\ prod' = Succ(prod)
        /\ Succ(prod) # cons /\ desc[prod] = mt[p]
        /\ UNCHANGED <<mtMbuf, busy, live, leaked, desc>>
    BY <1>1, <1>17 DEF Publish, Goto, SlotIsWritten, pool, history, losses, TypeOK
  <2>2. Span(dmaIdx, prod)' = Span(dmaIdx, prod) \cup {prod}
    <3>1. Span(dmaIdx, prod)' = Span(dmaIdx, Succ(prod))
      BY <1>5, <2>1 DEF Span, Dist, Slots
    <3> QED BY <1>1, <2>1, <3>1, PostedSlots
  <2>3. InRing' = InRing \cup {mt[p]}
    BY <2>1, <2>2 DEF InRing
  <2>4. Posted' = Posted /\ Unloaded' = Unloaded
    BY <1>3, <2>1, <2>3 DEF WithFrame
  <2>5. FramesHaveOneOwner'
    BY <1>8, <2>1, <2>4 DEF WithFrame
  <2>6. TxwisAreLoaded'
    BY <1>9, <2>1, <2>4
  <2> QED BY <2>5, <2>6 DEF FrameInv
<1> QED
  BY <1>10, <1>11, <1>12, <1>13, <1>14, <1>15, <1>16, <1>17 DEF Tx

LEMMA StepFrames ==
  ASSUME Types, Types', IndexInv, TxwiInv, TxwiInv', FrameInv, [Next]_vars
  PROVE  FrameInv'
<1>1. /\ TypeOK /\ HandsTyped /\ IndexOrder /\ HandsApart /\ RingIsOnce
      /\ PlacesApart /\ PlacesCover /\ FramesHaveOneOwner /\ TxwisAreLoaded
  BY DEF Types, IndexInv, TxwiInv, NoneTwice, FrameInv
<1>2. ASSUME UNCHANGED <<pc, mt, mbuf>>, InRing' \subseteq InRing
      PROVE  Posted' \subseteq Posted
  BY <1>2 DEF Posted, InRing
<1>3. ASSUME UNCHANGED <<pc, mt, mbuf, mtMbuf, busy, live, leaked>>,
             Posted' \cup fw' \subseteq Posted \cup fw
      PROVE  FrameInv'
  BY <1>3, SameOwners
<1>4. CASE DeviceFetch
  <2>1. /\ UNCHANGED <<pc, mt, mbuf, mtMbuf, busy, live, leaked, desc, prod>>
        /\ dmaIdx # cpuIdx /\ dmaIdx' = Succ(dmaIdx)
        /\ fw' = fw \cup ({desc[dmaIdx]} \ {None})
    BY <1>4 DEF DeviceFetch, pool, ring, sender, history, losses
  <2>2. /\ Span(dmaIdx, prod)' = Span(dmaIdx, prod) \ {dmaIdx}
        /\ dmaIdx \in Span(dmaIdx, prod)
    <3>1. Span(dmaIdx, prod)' = Span(Succ(dmaIdx), prod)
      BY <2>1 DEF Span, Dist, Slots
    <3> QED BY <1>1, <2>1, <3>1, PostedSlots
  <2>3. desc[dmaIdx] \in InRing /\ InRing' \subseteq InRing
    BY <2>1, <2>2 DEF InRing
  <2>4. Posted' \cup fw' \subseteq Posted \cup fw
    <3>1. desc[dmaIdx] \in Posted
      BY <2>3 DEF Posted, InRing
    <3> QED BY <1>2, <2>1, <2>3, <3>1
  <2> QED BY <1>3, <2>1, <2>4
<1>5. CASE FirmwareReports
  <2>1. /\ UNCHANGED <<pc, mt, mbuf, mtMbuf, busy, live, leaked, desc, prod, dmaIdx>>
        /\ fw' \subseteq fw
    BY <1>5 DEF FirmwareReports, pool, ring, sender, history, losses
  <2>2. Posted' \cup fw' \subseteq Posted \cup fw
    BY <1>2, <2>1, SameSlots
  <2> QED BY <1>3, <2>1, <2>2
<1>6. CASE BeginCleanup \/ CleanSlot \/ EndCleanup \/ EventIsLost
  <2>1. /\ UNCHANGED <<pc, mt, mbuf, mtMbuf, busy, live, leaked, prod, dmaIdx, fw>>
    BY <1>6 DEF BeginCleanup, CleanSlot, EndCleanup, EventIsLost, StoreCons,
                pool, ring, sender, device, history, losses
  <2>2. \A s \in Span(dmaIdx, prod) : desc'[s] = desc[s]
    <3>1. CASE CleanSlot
      <4>1. cidx \notin Span(dmaIdx, prod)
        BY <1>1, <3>1, PostedSlots DEF CleanSlot
      <4> QED BY <1>1, <3>1, <4>1 DEF CleanSlot, Span, TypeOK
    <3>2. CASE ~CleanSlot
      BY <1>6, <3>2 DEF BeginCleanup, EndCleanup, EventIsLost, StoreCons, ring
    <3> QED BY <3>1, <3>2
  <2>3. Posted' \cup fw' \subseteq Posted \cup fw
    BY <1>2, <2>1, <2>2, SameSlots
  <2> QED BY <1>3, <2>1, <2>3
<1>7. CASE FreeNext
  <2> DEFINE t == Head(ids)
  <2>1. /\ t \in Reported /\ t \in Txwis
    <3>1. ids # <<>>
      BY <1>1, <1>7 DEF FreeNext, HandsTyped
    <3> QED BY <1>1, <3>1, ReportedValue, PopSet DEF TypeOK
  <2>2. busy[t]
    BY <1>1, <2>1 DEF PlacesCover, Outstanding
  <2>3. /\ live' = live \ {mtMbuf[t]} /\ mtMbuf' = [mtMbuf EXCEPT ![t] = None]
        /\ busy' = [busy EXCEPT ![t] = FALSE]
        /\ UNCHANGED <<pc, mt, mbuf, leaked, desc, prod, dmaIdx, fw>>
    BY <1>7, <2>2 DEF FreeNext, Put, ring, device, sender, history, losses
  <2>4. Unloaded' = Unloaded /\ Posted' = Posted
    BY <2>3, SameSlots, SendersStay
  <2>5. t \notin InHand \cup Posted \cup fw
    BY <1>1, <2>1 DEF PlacesApart
  <2>6. \A u \in Txwis : /\ mtMbuf'[u] = IF u = t THEN None ELSE mtMbuf[u]
                        /\ busy'[u] = IF u = t THEN FALSE ELSE busy[u]
    BY <1>1, <2>3 DEF TypeOK
  <2> HIDE DEF t
  <2>7. Owned' = Owned \ {mtMbuf[t]}
    <3>1. \A u \in Txwis : mtMbuf[u] # None /\ u # t => mtMbuf[u] # mtMbuf[t]
      BY <1>1, <2>1 DEF FramesHaveOneOwner
    <3>2. Owned' \subseteq Owned \ {mtMbuf[t]}
      BY <2>6, <3>1 DEF Owned
    <3>3. Owned \ {mtMbuf[t]} \subseteq Owned'
      BY <2>6 DEF Owned
    <3> QED BY <3>2, <3>3
  <2>8. mtMbuf[t] \notin leaked \cup Unloaded
    <3>1. CASE mtMbuf[t] = None
      BY <1>1, <3>1, NoneAssumption DEF FramesHaveOneOwner, TypeOK
    <3>2. CASE mtMbuf[t] # None
      BY <1>1, <2>1, <3>2 DEF FramesHaveOneOwner, Owned
    <3> QED BY <3>1, <3>2
  <2>9. FramesHaveOneOwner'
    <3>1. \A u, v \in Txwis : mtMbuf'[u] = mtMbuf'[v] /\ mtMbuf'[u] # None => u = v
      BY <1>1, <2>6 DEF FramesHaveOneOwner
    <3>2. /\ live' = leaked' \cup Unloaded' \cup Owned'
          /\ leaked' \cap Owned' = {}
          /\ Unloaded' \cap (leaked' \cup Owned') = {}
      BY <1>1, <2>3, <2>4, <2>7, <2>8 DEF FramesHaveOneOwner
    <3> QED BY <1>1, <2>3, <3>1, <3>2 DEF FramesHaveOneOwner, WithFrame
  <2>10. TxwisAreLoaded'
    <3>1. ASSUME NEW u \in Txwis, mtMbuf'[u] # None PROVE busy'[u]
      <4>1. u # t /\ mtMbuf[u] # None
        BY <2>6, <3>1
      <4>2. busy[u] /\ busy'[u] = busy[u]
        BY <1>1, <2>6, <4>1 DEF TxwisAreLoaded
      <4> QED BY <4>2
    <3>2. ASSUME NEW q \in Senders
          PROVE  /\ pc[q] = "load" => mtMbuf'[mt[q]] = None
                 /\ pc[q] \in {"slot", "fill"} => mtMbuf'[mt[q]] # None
      <4>1. pc[q] \in {"load", "slot", "fill"} => mt[q] \in Txwis /\ mt[q] # t
        BY <1>1, <2>5 DEF HandsTyped, WithTxwi, InHand
      <4> QED BY <1>1, <2>6, <4>1 DEF TxwisAreLoaded
    <3>3. \A u \in Posted \cup fw : u # None => mtMbuf'[u] # None
      <4>1. \A u \in Posted \cup fw : u \in Txwis
        BY <1>1 DEF PlacesCover, Outstanding
      <4> QED BY <1>1, <2>5, <2>6, <4>1 DEF TxwisAreLoaded
    <3> QED BY <2>3, <2>4, <3>1, <3>2, <3>3 DEF TxwisAreLoaded
  <2> QED BY <2>9, <2>10 DEF FrameInv
<1>8. CASE DmaReset
  <2>1. /\ fw' = {} /\ prod' = 0 /\ dmaIdx' = 0
        /\ UNCHANGED <<pc, mt, mbuf, mtMbuf, busy, live, leaked>>
    BY <1>8 DEF DmaReset, pool, sender
  <2>2. Span(dmaIdx, prod)' = {}
    <3>1. 0 \in Slots /\ Dist(0, 0) = 0 /\ \A s \in Slots : ~(Dist(0, s) < 0)
      BY DistRange, CountAssumption DEF Slots
    <3> QED BY <2>1, <3>1 DEF Span, Slots, Dist
  <2>3. Posted' \subseteq Posted
    BY <1>2, <2>1, <2>2 DEF InRing
  <2> QED BY <1>3, <2>1, <2>3
<1>9. CASE UNCHANGED vars
  <2>1. UNCHANGED <<pc, mt, mbuf, mtMbuf, busy, live, leaked, desc, prod, dmaIdx, fw>>
    BY <1>9 DEF vars, pool, ring, sender, device, history, losses
  <2>2. Posted' \cup fw' \subseteq Posted \cup fw
    BY <1>2, <2>1, SameSlots
  <2> QED BY <1>3, <2>1, <2>2
<1> QED
  BY <1>4, <1>5, <1>6, <1>7, <1>8, <1>9, SenderMovesFrame DEF Next, Interrupt

----------------------------------------------------------------------------
\* The invariant holds with any number of senders, whatever fails.
LEMMA InvHolds == Spec => []IInv
<1>1. Init => IInv
  BY InitInv DEF IInv
<1>2. ASSUME IInv, [Next]_vars
      PROVE  IInv'
  <2>1. Types /\ Types'
    BY <1>2, StepType DEF IInv
  <2>2. CASE clash'
    BY <2>1, <2>2 DEF IInv
  <2>3. CASE ~clash'
    <3>1. IndexInv /\ TxwiInv /\ FrameInv
      BY <1>2, <2>3, ClashStays DEF IInv, Inv
    <3>2. IndexInv'
      BY <1>2, <2>1, <2>3, <3>1, StepIndex
    <3>3. TxwiInv'
      BY <1>2, <2>1, <2>3, <3>1, <3>2, StepTxwi
    <3>4. FrameInv'
      BY <1>2, <2>1, <3>1, <3>3, StepFrames
    <3> QED BY <2>1, <3>2, <3>3, <3>4 DEF IInv, Inv
  <2> QED BY <2>2, <2>3
<1>3. IInv /\ [Next]_vars => IInv'
  BY <1>2
<1> QED BY <1>1, <1>3, PTL DEF Spec

\* Every variable keeps its type, however many threads send and whatever they do
\* to each other: among others, no step of mwx_tx, of the cleanup or of
\* mwx_mac_tx_free uses a TXWI or a frame that it does not have.
THEOREM TxTypeCorrect == Spec => []TypeOK
<1>1. IInv => TypeOK
  BY DEF IInv, Types
<1> QED BY <1>1, InvHolds, PTL

\* A TXWI that mwx_txwi_get may hand out is not in use anywhere, until two
\* senders clash.
THEOREM PoolStaysUnused == Spec => []PoolIsUnused
<1>1. IInv => PoolIsUnused
  <2> SUFFICES ASSUME Inv, NEW t \in ToSet(free)
               PROVE  /\ ~busy[t] /\ mtMbuf[t] = None
                      /\ t \notin InHand \cup Posted \cup fw \cup Reported
    BY DEF PoolIsUnused, IInv, Inv, TxwiInv, NoneTwice
  <2>1. t \in Txwis /\ t \notin Outstanding
    BY DEF Inv, TxwiInv, PlacesCover
  <2>2. t \notin InHand \cup Posted \cup fw \cup Reported
    BY <2>1 DEF Inv, TxwiInv, PlacesCover
  <2>3. ~busy[t]
    BY <2>1 DEF Outstanding
  <2> QED BY <2>1, <2>2, <2>3 DEF Inv, FrameInv, TxwisAreLoaded
<1> QED BY <1>1, InvHolds, PTL

\* The device reads no frame that was freed or belongs to another TXWI, until
\* two senders clash.
THEOREM DeviceReadsOnlyLiveFrames == Spec => []DeviceReadsLiveFrames
<1>1. IInv => DeviceReadsLiveFrames
  <2> SUFFICES ASSUME Types, Inv
               PROVE  /\ None \notin Posted
                      /\ \A t \in Posted \cup fw :
                           /\ mtMbuf[t] \in live
                           /\ \A u \in Txwis : mtMbuf[u] = mtMbuf[t] => u = t
    BY DEF IInv, DeviceReadsLiveFrames
  <2>1. \A t \in Posted \cup fw : t \in Txwis
    BY DEF Inv, TxwiInv, PlacesCover, Outstanding
  <2>2. None \notin Posted
    BY <2>1, NoneAssumption
  <2>3. \A t \in Posted \cup fw : mtMbuf[t] # None
    BY <2>1, <2>2, NoneAssumption DEF Inv, FrameInv, TxwisAreLoaded
  <2>4. \A t \in Posted \cup fw : mtMbuf[t] \in live
    BY <2>1, <2>3 DEF Inv, FrameInv, FramesHaveOneOwner, Owned
  <2>5. \A t \in Posted \cup fw : \A u \in Txwis : mtMbuf[u] = mtMbuf[t] => u = t
    BY <2>1, <2>3 DEF Inv, FrameInv, FramesHaveOneOwner
  <2> QED BY <2>2, <2>4, <2>5
<1> QED BY <1>1, InvHolds, PTL

\* Until two senders clash, TXWIs and frames are lost by failures of mwx_tx,
\* lost events and resets, and by nothing else.
THEOREM LossesAreFailures == Spec => []OnlyFailuresLeak
<1>1. Unloaded = {mbuf[p] : p \in {q \in Senders : pc[q] \in {"get", "remove", "load"}}}
  BY DEF Unloaded, WithFrame
<1>2. IInv => OnlyFailuresLeak
  BY <1>1 DEF IInv, Inv, TxwiInv, PlacesCover, FrameInv, FramesHaveOneOwner, Owned,
              OnlyFailuresLeak
<1> QED BY <1>2, InvHolds, PTL
=============================================================================
