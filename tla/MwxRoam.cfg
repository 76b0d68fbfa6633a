CONSTANTS
  SwitchArgs = {a1, a2}
  Events = {"user", "reset", "deauth", "nomem"}
  MaxRefs = 1
  None = None

SPECIFICATION FairSpec

INVARIANTS
  TypeOK
  ArgHasOneHolder
  HeldBackOnlyToLeave

PROPERTY BgscanEnds

CHECK_DEADLOCK FALSE
