SPECIFICATION FairSpec
CONSTANTS
  Count = 4
  Producers = {p1, p2}
  Cleaners = {intr, p1}
  Mbufs = {m1, m2}
  MaxSegs = 3
  IdxPerDesc = FALSE
  None = None
INVARIANTS TypeOK KassertHolds IndicesOrdered DeviceSeesLiveFrames MbufsConserved
PROPERTIES FifoRefined FramesAreReleased BusySenderGetsOut
CONSTRAINT UntilRaced
