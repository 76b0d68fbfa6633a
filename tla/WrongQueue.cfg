SPECIFICATION FairSpec
CONSTANTS
  systq = systq
  mwxns = mwxns
  scan = scan
  reset = reset
  newstate = newstate
  setkey = setkey
  intr = intr
  stopper = stopper
  Queues = {systq, mwxns}
  Tasks = {scan, newstate}
  Callers = {intr, stopper}
  Calls <- DriverCalls
  NThreads = 1
  None = None
PROPERTIES TasksAreServiced
