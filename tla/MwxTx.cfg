CONSTANTS
  Txwis = {t1, t2, t3}
  Count = 3
  Senders = {s1, s2}
  Mbufs = {m1, m2, m3, m4}
  Faults = {"load", "pullup", "reset"}
  MaxEvents = 1
  None = None

SPECIFICATION Spec

INVARIANTS
  TypeOK
  PoolIsUnused
  DeviceReadsLiveFrames
  OnlyFailuresLeak

CONSTRAINT UntilClash

CHECK_DEADLOCK FALSE
