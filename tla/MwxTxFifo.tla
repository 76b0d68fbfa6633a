----------------------------- MODULE MwxTxFifo -----------------------------
(***************************************************************************)
(* What a transmit ring of the mwx driver promises to its callers,         *)
(* whatever descriptors, indices and registers it uses to keep the         *)
(* promise: a frame handed to mwx_dma_tx_enqueue is fetched by the device  *)
(* exactly once, in the order in which the frames were posted, and its     *)
(* buffer is released exactly once, in the same order, only after the      *)
(* device has fetched it.  At most Capacity frames are in the ring.        *)
(***************************************************************************)
EXTENDS Naturals, Sequences, SequencesExt

CONSTANTS
  Frame,      \* the frames (mbufs) that may be posted
  Capacity    \* the most frames that are ever in the ring

VARIABLES
  posted,     \* frames the device has still to fetch, oldest first
  fetched     \* frames the device is done with and nobody has released

vars == <<posted, fetched>>

FifoTypeOK ==
  /\ posted \in Seq(Frame)
  /\ fetched \in Seq(Frame)

FifoInit == posted = <<>> /\ fetched = <<>>

\* The caller posts a frame that is not in the ring already.
Post(m) ==
  /\ m \notin ToSet(posted) \cup ToSet(fetched)
  /\ Len(posted) + Len(fetched) < Capacity
  /\ posted' = Append(posted, m)
  /\ UNCHANGED fetched

\* The device takes the oldest posted frame.
Fetch ==
  /\ posted # <<>>
  /\ posted' = Tail(posted)
  /\ fetched' = Append(fetched, Head(posted))

\* The interrupt handler releases the oldest fetched frame.
Reclaim ==
  /\ fetched # <<>>
  /\ fetched' = Tail(fetched)
  /\ UNCHANGED posted

\* The ring is torn down and set up again: every frame in it is released.
Flush ==
  /\ posted' = <<>>
  /\ fetched' = <<>>

FifoNext == (\E m \in Frame : Post(m)) \/ Fetch \/ Reclaim \/ Flush

FifoSpec == FifoInit /\ [][FifoNext]_vars
=============================================================================
