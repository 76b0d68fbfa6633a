SPECIFICATION FairSpec
CONSTANTS
  Ctl = {ctl}
  Worker = mwxns
  Events = {"disable", "user", "trouble", "nomem", "early"}
  MaxDone = 2
INVARIANTS TypeOK RequestsAreServed ResetIsComing
PROPERTIES ResetEnds
