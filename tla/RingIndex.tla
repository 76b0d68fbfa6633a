----------------------------- MODULE RingIndex -----------------------------
(***************************************************************************)
(* The slots of a descriptor ring of SimpleMtkWlan/hal_mwx/MtkMwx.cpp and  *)
(* the arithmetic on its indices, which the transmit rings, the data ring  *)
(* and the receive rings share.                                            *)
(***************************************************************************)
EXTENDS Integers

CONSTANT Count  \* mq_count, the number of descriptors of the ring

ASSUME CountAssumption == Count \in Nat /\ Count > 1

Slots == 0..(Count - 1)

\* Mutant: no remainder.
SuccWithoutWrap(i) == i + 1

\* idx = (idx + 1) % q->mq_count
Succ(i) == (i + 1) % Count

\* The number of steps from slot a forward to slot b.
Dist(a, b) == (b - a) % Count

\* The slots from a up to, not including, b, in ring order.
Span(a, b) == {s \in Slots : Dist(a, s) < Dist(a, b)}

=============================================================================
