------------------------------ MODULE MCTaskQ ------------------------------
(***************************************************************************)
(* TaskQ for TLC: who calls what in the driver.                            *)
(***************************************************************************)
EXTENDS TaskQ, TLC

CONSTANTS systq, mwxns,            \* the queues
          scan, reset, newstate, setkey,   \* sc_scan_task, sc_reset_task, ...
          intr, stopper            \* the interrupt handler; who runs mwx_stop

Add(q, t) == [fn |-> "add", tq |-> q, w |-> t]
Del(q, t) == [fn |-> "del", tq |-> q, w |-> t]

\* Calls on sc_nswq alone: both threads add the same task, and mwx_stop
\* deletes tasks from the head, the middle and the end of the list.
MatchingCalls ==
  (intr :> {Add(mwxns, newstate), Add(mwxns, setkey), Add(mwxns, reset)}) @@
  (stopper :> {Add(mwxns, newstate), Del(mwxns, newstate), Del(mwxns, setkey),
               Del(mwxns, reset)})

\* The calls of the driver: mwx_stop deletes sc_scan_task from sc_nswq.
DriverCalls ==
  (intr :> {Add(systq, scan), Add(mwxns, newstate)}) @@
  (stopper :> {Del(mwxns, scan), Del(mwxns, newstate)})
=============================================================================
