------------------------------- MODULE TaskQ -------------------------------
(***************************************************************************)
(* The task queues of mtk80211/openbsd/sys/_task.cpp, down to the links of *)
(* the TAILQ that holds the pending tasks.                                 *)
(*                                                                         *)
(* Each queue has the thread that starts its worker (taskq_create_thread), *)
(* the worker (taskq_thread) and any number of callers of task_add and     *)
(* task_del.  What runs under tq_mtx is one step; the test of TASK_ONQUEUE *)
(* that comes before the lock, and the wakeup that comes after it, are     *)
(* steps of their own.  taskq_destroy is left out: its only call, in       *)
(* mwx_attach, comes after the last goto fail that could find a queue, so  *)
(* a queue is created or running and a worker never ends.                  *)
(*                                                                         *)
(* The link that points at a task is a cell: the head of a queue or the    *)
(* next field of another task.  next[c] is what cell c holds, prev[t] is   *)
(* the cell that points at t, and tail[q] the cell in which the next       *)
(* insertion is written.  Which queue a task is linked in is nowhere       *)
(* stored: task_add and task_del believe their caller.                     *)
(***************************************************************************)
EXTENDS Naturals, FiniteSets, Sequences

CONSTANTS
  Queues,    \* the queues: systq and the driver's sc_nswq
  Tasks,     \* the tasks
  Callers,   \* the threads that call task_add and task_del
  Calls,     \* the calls each of them makes: records [fn, tq, w]
  NThreads,  \* tq_nthreads
  None       \* NULL

Cells == Queues \cup Tasks

ASSUME CallsAssumption ==
  Calls \in [Callers -> SUBSET [fn : {"add", "del"}, tq : Queues, w : Tasks]]
ASSUME ThreadAssumption == NThreads = 1
ASSUME NullAssumption == None \notin Cells /\ Queues \cap Tasks = {}
ASSUME TasksAssumption == IsFiniteSet(Tasks)

VARIABLES
  state,     \* tq_state
  running,   \* tq_running
  next,      \* tqh_first of the queues and tqe_next of the tasks
  prev,      \* tqe_prev of the tasks
  tail,      \* tqh_last of the queues
  onqueue,   \* TASK_ONQUEUE of each task
  creator,   \* where the thread is that runs taskq_create_thread
  worker,    \* where the thread is that runs taskq_thread
  work,      \* its copy of the task
  pc,        \* where each caller is
  call       \* the call it makes

links == <<next, prev, tail, onqueue>>
threads == <<creator, worker, work>>
callers == <<pc, call>>
vars == <<state, running, links, threads, callers>>

Init ==
  /\ state = [q \in Queues |-> "created"]
  /\ running = [q \in Queues |-> 0]
  /\ next = [c \in Cells |-> None]
  /\ prev = [t \in Tasks |-> None]
  /\ tail = [q \in Queues |-> q]
  /\ onqueue = [t \in Tasks |-> FALSE]
  /\ creator = [q \in Queues |-> "start"]
  /\ worker = [q \in Queues |-> "none"]
  /\ work = [q \in Queues |-> None]
  /\ pc = [c \in Callers |-> "idle"]
  /\ call = [c \in Callers |-> None]

----------------------------------------------------------------------------
(* The macros of sys/queue.h.                                              *)

\* TAILQ_INSERT_TAIL(&q->tq_worklist, t, t_entry)
InsertAtTail(q, t) ==
  /\ next' = [next EXCEPT ![t] = None, ![tail[q]] = t]
  /\ prev' = [prev EXCEPT ![t] = tail[q]]
  /\ tail' = [tail EXCEPT ![q] = t]

\* TAILQ_REMOVE(&q->tq_worklist, t, t_entry): the last task of a list moves
\* the tail of the list it is told to be on, whichever list it is on.
\* The task's own links are not read again before they are set again.
Remove(q, t) ==
  /\ next' = [next EXCEPT ![prev[t]] = next[t], ![t] = None]
  /\ prev' = [u \in Tasks |-> IF u = t THEN None
                              ELSE IF u = next[t] THEN prev[t] ELSE prev[u]]
  /\ tail' = IF next[t] = None THEN [tail EXCEPT ![q] = prev[t]] ELSE tail

Return(c) ==
  /\ pc' = [pc EXCEPT ![c] = "idle"]
  /\ call' = [call EXCEPT ![c] = None]

----------------------------------------------------------------------------
(* taskq_create_thread                                                     *)

CreatorStart(q) ==
  /\ creator[q] = "start"
  /\ state[q] = "created"
  /\ state' = [state EXCEPT ![q] = "running"]
  /\ running' = [running EXCEPT ![q] = @ + 1]
  /\ creator' = [creator EXCEPT ![q] = "spawn"]
  /\ UNCHANGED <<links, worker, work, callers>>

\* kernel_thread_start succeeds.
Spawn(q) ==
  /\ creator[q] = "spawn"
  /\ worker' = [worker EXCEPT ![q] = "look"]
  /\ creator' = [creator EXCEPT ![q] = "spawned"]
  /\ UNCHANGED <<state, running, links, work, callers>>

\* kernel_thread_start fails: the loop ends, and nobody tries again.
SpawnFails(q) ==
  /\ creator[q] = "spawn"
  /\ running' = [running EXCEPT ![q] = @ - 1]
  /\ creator' = [creator EXCEPT ![q] = "done"]
  /\ UNCHANGED <<state, links, worker, work, callers>>

\* Mutant: <= for <.
SpawnedOneTooMany(q) ==
  /\ creator[q] = "spawned"
  /\ IF running[q] <= NThreads
     THEN /\ running' = [running EXCEPT ![q] = @ + 1]
          /\ creator' = [creator EXCEPT ![q] = "spawn"]
     ELSE /\ creator' = [creator EXCEPT ![q] = "done"]
          /\ UNCHANGED running
  /\ UNCHANGED <<state, links, worker, work, callers>>

\* The condition of the loop, under the lock taken again after the spawn.
Spawned(q) ==
  /\ creator[q] = "spawned"
  /\ IF running[q] < NThreads
     THEN /\ running' = [running EXCEPT ![q] = @ + 1]
          /\ creator' = [creator EXCEPT ![q] = "spawn"]
     ELSE /\ creator' = [creator EXCEPT ![q] = "done"]
          /\ UNCHANGED running
  /\ UNCHANGED <<state, links, worker, work, callers>>

Creator(q) ==
  CreatorStart(q) \/ Spawn(q) \/ SpawnFails(q) \/ Spawned(q)

----------------------------------------------------------------------------
(* taskq_thread and taskq_next_work                                        *)

NextWork(q) ==
  /\ worker[q] = "look"
  /\ next[q] # None
  /\ Remove(q, next[q])
  /\ onqueue' = [onqueue EXCEPT ![next[q]] = FALSE]
  /\ work' = [work EXCEPT ![q] = next[q]]
  /\ worker' = [worker EXCEPT ![q] = "run"]
  /\ UNCHANGED <<state, running, creator, callers>>

NoWork(q) ==
  /\ worker[q] = "look"
  /\ next[q] = None
  /\ worker' = [worker EXCEPT ![q] = "asleep"]
  /\ UNCHANGED <<state, running, links, creator, work, callers>>

\* The task function returns (IOSleep(1) follows).
WorkDone(q) ==
  /\ worker[q] = "run"
  /\ work' = [work EXCEPT ![q] = None]
  /\ worker' = [worker EXCEPT ![q] = "look"]
  /\ UNCHANGED <<state, running, links, creator, callers>>

Worker(q) == NextWork(q) \/ NoWork(q) \/ WorkDone(q)

----------------------------------------------------------------------------
(* task_add and task_del                                                   *)

Begin(c) ==
  /\ pc[c] = "idle"
  /\ \E k \in Calls[c] :
       /\ call' = [call EXCEPT ![c] = k]
       /\ pc' = [pc EXCEPT ![c] = "test"]
  /\ UNCHANGED <<state, running, links, threads>>

\* if (ISSET(w->t_flags, TASK_ONQUEUE)), without the lock
TestOnQueue(c) ==
  /\ pc[c] = "test"
  /\ IF onqueue[call[c].w] = (call[c].fn = "add")
     THEN Return(c)
     ELSE pc' = [pc EXCEPT ![c] = "lock"] /\ UNCHANGED call
  /\ UNCHANGED <<state, running, links, threads>>

\* Mutant: nobody is woken.
AddTaskWithoutWakeup(c) ==
  /\ pc[c] = "lock" /\ call[c].fn = "add"
  /\ ~onqueue[call[c].w]
  /\ onqueue' = [onqueue EXCEPT ![call[c].w] = TRUE]
  /\ InsertAtTail(call[c].tq, call[c].w)
  /\ Return(c)
  /\ UNCHANGED <<state, running, threads>>

\* Mutant: not tested again under the lock.
AddTaskUntested(c) ==
  /\ pc[c] = "lock" /\ call[c].fn = "add"
  /\ onqueue' = [onqueue EXCEPT ![call[c].w] = TRUE]
  /\ InsertAtTail(call[c].tq, call[c].w)
  /\ pc' = [pc EXCEPT ![c] = "wake"]
  /\ UNCHANGED <<state, running, threads, call>>

AddTask(c) ==
  /\ pc[c] = "lock" /\ call[c].fn = "add"
  /\ ~onqueue[call[c].w]
  /\ onqueue' = [onqueue EXCEPT ![call[c].w] = TRUE]
  /\ InsertAtTail(call[c].tq, call[c].w)
  /\ pc' = [pc EXCEPT ![c] = "wake"]
  /\ UNCHANGED <<state, running, threads, call>>

\* Mutant: TASK_ONQUEUE is not cleared.
DelTaskKeepsFlag(c) ==
  /\ pc[c] = "lock" /\ call[c].fn = "del"
  /\ onqueue[call[c].w]
  /\ Remove(call[c].tq, call[c].w)
  /\ Return(c)
  /\ UNCHANGED <<state, running, onqueue, threads>>

DelTask(c) ==
  /\ pc[c] = "lock" /\ call[c].fn = "del"
  /\ onqueue[call[c].w]
  /\ onqueue' = [onqueue EXCEPT ![call[c].w] = FALSE]
  /\ Remove(call[c].tq, call[c].w)
  /\ Return(c)
  /\ UNCHANGED <<state, running, threads>>

\* Another thread was faster between the test and the lock.
TestWasStale(c) ==
  /\ pc[c] = "lock"
  /\ onqueue[call[c].w] = (call[c].fn = "add")
  /\ Return(c)
  /\ UNCHANGED <<state, running, links, threads>>

\* IORecursiveLockWakeup(tq_mtx, tq, true), after the unlock
WakeOne(c) ==
  LET q == call[c].tq IN
  /\ pc[c] = "wake"
  /\ worker' = [worker EXCEPT ![q] = IF @ = "asleep" THEN "look" ELSE @]
  /\ Return(c)
  /\ UNCHANGED <<state, running, links, creator, work>>

Caller(c) ==
  \/ Begin(c) \/ TestOnQueue(c) \/ AddTask(c) \/ DelTask(c) \/ TestWasStale(c)
  \/ WakeOne(c)

Next ==
  \/ \E q \in Queues : Creator(q) \/ Worker(q)
  \/ \E c \in Callers : Caller(c)

Spec == Init /\ [][Next]_vars

----------------------------------------------------------------------------
(* Fairness: every thread that can take a step takes one in the end, but   *)
(* nobody has to begin a call.  Task functions return: the sleeps in them  *)
(* are timed.                                                              *)

Fairness ==
  /\ \A q \in Queues : WF_vars(Creator(q)) /\ WF_vars(Worker(q))
  /\ \A c \in Callers : WF_vars(Caller(c) /\ ~Begin(c))

FairSpec == Spec /\ Fairness

----------------------------------------------------------------------------
(* Properties                                                              *)

TypeOK ==
  /\ state \in [Queues -> {"created", "running"}]
  /\ running \in [Queues -> 0..NThreads]
  /\ next \in [Cells -> Tasks \cup {None}]
  /\ prev \in [Tasks -> Cells \cup {None}]
  /\ tail \in [Queues -> Cells]
  /\ onqueue \in [Tasks -> BOOLEAN]
  /\ creator \in [Queues -> {"start", "spawn", "spawned", "done"}]
  /\ worker \in [Queues -> {"none", "look", "asleep", "run"}]
  /\ work \in [Queues -> Tasks \cup {None}]
  /\ pc \in [Callers -> {"idle", "test", "lock", "wake"}]
  /\ \A c \in Callers : call[c] \in Calls[c] \cup {None}

\* The sequences of tasks that lie one behind the other on the links nx, from
\* the head of queue q.
Paths(nx, q) ==
  {s \in UNION {[1..n -> Tasks] : n \in 0..Cardinality(Tasks)} :
     \A i \in DOMAIN s : s[i] = nx[IF i = 1 THEN q ELSE s[i - 1]]}

\* The tasks of queue q, in the order in which the worker will find them.
Worklist(nx, q) ==
  CHOOSE s \in Paths(nx, q) : \A r \in Paths(nx, q) : Len(r) <= Len(s)

pending == [q \in Queues |-> Worklist(next, q)]

Service == INSTANCE TaskService WITH
             Queue <- Queues, Task <- Tasks, NoTask <- None, current <- work

\* The linked lists are FIFO queues: no task is lost, taken twice or taken out
\* of order, and one that was deleted in time is never taken.
ServiceRefined == Service!ServiceSpec

\* A worker that sleeps has been woken, or is about to be, when there is work:
\* no wakeup is lost between task_add's unlock and its wakeup.
NoSleepOverWork ==
  \A q \in Queues :
    worker[q] = "asleep" /\ next[q] # None
      => \E c \in Callers : pc[c] = "wake" /\ call[c].tq = q

\* "try to create a thread to guarantee that tasks will be serviced": a task
\* that is on a queue is taken or deleted in the end, unless no thread could
\* be created.
TasksAreServiced ==
  \A t \in Tasks :
    onqueue[t] ~>
      ~onqueue[t] \/ (\E q \in Queues : creator[q] = "done" /\ running[q] = 0)

=============================================================================
