SPECIFICATION FairSpec
CONSTANTS
  systq = systq
  mwxns = mwxns
  scan = scan
  reset = reset
  newstate = newstate
  setkey = setkey
  intr = intr
  stopper = stopper
  Queues = {mwxns}
  Tasks = {reset, newstate, setkey}
  Callers = {intr, stopper}
  Calls <- MatchingCalls
  NThreads = 1
  None = None
INVARIANTS TypeOK NoSleepOverWork
PROPERTIES ServiceRefined TasksAreServiced
