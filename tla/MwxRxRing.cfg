CONSTANTS
  Count = 4
  Mbufs = {m1, m2, m3, m4, m5}
  MaxBufs = 2
  MaxFrames = 4
  IdxPerDesc = FALSE
  Faults = {"nomem", "reset"}
  None = None

SPECIFICATION FairSpec

INVARIANTS
  TypeOK
  BuffersHaveOneOwner
  FramesAreWholeAndInOrder

PROPERTIES
  ReceivedGoesUp
  StarvedOnlyByFailedFill

CHECK_DEADLOCK FALSE
