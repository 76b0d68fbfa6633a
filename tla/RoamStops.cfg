CONSTANTS
  SwitchArgs = {a1, a2}
  Events = {}
  MaxRefs = 1
  None = None

SPECIFICATION FairSpec

PROPERTY RoamEnds

CHECK_DEADLOCK FALSE
