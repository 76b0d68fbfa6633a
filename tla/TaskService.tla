---------------------------- MODULE TaskService ----------------------------
(***************************************************************************)
(* What a task queue of mtk80211/openbsd/sys/_task.cpp promises to the     *)
(* driver, whatever links its tasks: a task that is added is pending once, *)
(* the thread of the queue takes the pending tasks in the order in which   *)
(* they were added, a task that is deleted before it was taken is not      *)
(* taken, and nothing but a deletion keeps a task from being taken.        *)
(***************************************************************************)
EXTENDS Sequences, SequencesExt

CONSTANTS
  Queue,      \* the queues
  Task,       \* the tasks
  NoTask      \* the thread of a queue is between two tasks

VARIABLES
  pending,    \* the tasks of each queue, oldest first
  current     \* the task the thread of each queue is running

vars == <<pending, current>>

IsPending(t) == \E q \in Queue : t \in ToSet(pending[q])

ServiceInit ==
  /\ pending = [q \in Queue |-> <<>>]
  /\ current = [q \in Queue |-> NoTask]

Add(q, t) ==
  /\ ~IsPending(t)
  /\ pending' = [pending EXCEPT ![q] = Append(@, t)]
  /\ UNCHANGED current

Delete(q, t) ==
  /\ \E i \in DOMAIN pending[q] :
       /\ pending[q][i] = t
       /\ pending' = [pending EXCEPT ![q] = RemoveAt(@, i)]
  /\ UNCHANGED current

Take(q) ==
  /\ pending[q] # <<>>
  /\ current[q] = NoTask
  /\ current' = [current EXCEPT ![q] = Head(pending[q])]
  /\ pending' = [pending EXCEPT ![q] = Tail(@)]

Finish(q) ==
  /\ current[q] # NoTask
  /\ current' = [current EXCEPT ![q] = NoTask]
  /\ UNCHANGED pending

ServiceNext ==
  \E q \in Queue :
    \/ \E t \in Task : Add(q, t) \/ Delete(q, t)
    \/ Take(q)
    \/ Finish(q)

ServiceSpec == ServiceInit /\ [][ServiceNext]_vars
=============================================================================
