SPECIFICATION FairSpec
CONSTANTS
  Ctl = {ctl}
  Worker = mwxns
  Events = {"disable", "user"}
  MaxDone = 2
PROPERTIES EnableScans
