SPECIFICATION McuFairSpec
CONSTANTS
  Callers = {c1, c2}
  Cmds = {m1, m2}
  SeqCount = 3
  MaxPending = 2
  None = None
INVARIANTS McuTypeOK AnswerIsMine 
PROPERTIES EveryCommandEnds
