CONSTANTS
  Txwis = {t1, t2}
  Count = 3
  Senders = {s1, s2}
  Mbufs = {m1, m2, m3}
  Faults = {"load", "pullup", "reset"}
  MaxEvents = 2
  None = None

SPECIFICATION FairSpec

PROPERTY SentFramesAreFreed

CONSTRAINT UntilClash

CHECK_DEADLOCK FALSE
