---------------------------- MODULE TaskQProofs ----------------------------
(***************************************************************************)
(* Proofs about TaskQ for any number of queues, tasks, callers and calls,  *)
(* as long as every call names the queue its task belongs to: home[t] is   *)
(* the queue of task t.  (The driver breaks this rule for sc_scan_task,    *)
(* and TLC shows what follows; the rule is what the code relies on.)       *)
(***************************************************************************)
EXTENDS TaskQ, FiniteSetTheorems, FunctionTheorems, SequenceTheorems,
        WellFoundedInduction, TLAPS

\* Every task is added to one queue only and deleted from no other.
CallsMatch(home) ==
  /\ home \in [Tasks -> Queues]
  /\ \A c \in Callers : \A k \in Calls[c] : k.tq = home[k.w]

\* The cells of queue q's list: its head and the tasks that are on it.
Linked(home, q, x) == x = q \/ (x \in Tasks /\ onqueue[x] /\ home[x] = q)

----------------------------------------------------------------------------
(* The inductive invariant: what is known of each cell and its neighbours. *)
(* No list is ever followed from end to end.                               *)

\* What points at a task that is queued, points at it indeed.
PrevPointsHere(home) ==
  \A t \in Tasks : onqueue[t] =>
    /\ prev[t] \in Cells
    /\ next[prev[t]] = t
    /\ Linked(home, home[t], prev[t])

\* What a cell of a list points at is on the list and points back.
NextPointsBack(home) ==
  \A q \in Queues, x \in Cells : Linked(home, q, x) /\ next[x] # None =>
    /\ onqueue[next[x]]
    /\ home[next[x]] = q
    /\ prev[next[x]] = x

\* A list has one end, and tqh_last is there.
TailIsTheEnd(home) ==
  \A q \in Queues :
    /\ Linked(home, q, tail[q])
    /\ \A x \in Cells : Linked(home, q, x) => (next[x] = None <=> x = tail[q])

ListsAreLinked(home) ==
  PrevPointsHere(home) /\ NextPointsBack(home) /\ TailIsTheEnd(home)

\* tq_running counts the thread that exists or is being created.
ThreadsCounted ==
  \A q \in Queues :
    /\ creator[q] = "start" => running[q] = 0
    /\ creator[q] \in {"spawn", "spawned"} => running[q] = 1

\* A thread in task_add or task_del has the arguments of its call.
CallsAreMade ==
  /\ call = [c \in Callers |-> call[c]]
  /\ \A c \in Callers : pc[c] # "idle" => call[c] \in Calls[c]

QueueInv(home) == TypeOK /\ ThreadsCounted /\ CallsAreMade /\ ListsAreLinked(home)

----------------------------------------------------------------------------
LEMMA InitQueue ==
  ASSUME NEW home, CallsMatch(home)
  PROVE  Init => QueueInv(home)
<1> SUFFICES ASSUME Init PROVE QueueInv(home)
  OBVIOUS
<1>1. TypeOK /\ ThreadsCounted /\ CallsAreMade
  BY ThreadAssumption DEF Init, TypeOK, ThreadsCounted, CallsAreMade, Cells
<1>2. ListsAreLinked(home)
  BY DEF Init, ListsAreLinked, PrevPointsHere, NextPointsBack, TailIsTheEnd,
         Linked, Cells
<1> QED BY <1>1, <1>2 DEF QueueInv

\* What a caller has in hand when it is past the idle state.
LEMMA CallArguments ==
  ASSUME NEW home, CallsMatch(home), TypeOK, CallsAreMade,
         NEW c \in Callers, pc[c] # "idle"
  PROVE  /\ call[c].fn \in {"add", "del"}
         /\ call[c].tq \in Queues
         /\ call[c].w \in Tasks
         /\ call[c].tq = home[call[c].w]
<1>1. call[c] \in Calls[c]
  BY DEF CallsAreMade
<1>2. call[c] \in [fn : {"add", "del"}, tq : Queues, w : Tasks]
  BY <1>1, CallsAssumption
<1> QED BY <1>1, <1>2 DEF CallsMatch

\* A step that leaves the links alone leaves the lists as they are.
LEMMA SameLinks ==
  ASSUME NEW home, ListsAreLinked(home), UNCHANGED links
  PROVE  ListsAreLinked(home)'
BY DEF links, ListsAreLinked, PrevPointsHere, NextPointsBack, TailIsTheEnd, Linked

\* TAILQ_INSERT_TAIL of a task that is on no list.
LEMMA InsertKeepsLists ==
  ASSUME NEW home, CallsMatch(home), QueueInv(home),
         NEW t \in Tasks, ~onqueue[t],
         InsertAtTail(home[t], t), onqueue' = [onqueue EXCEPT ![t] = TRUE]
  PROVE  /\ next' \in [Cells -> Tasks \cup {None}]
         /\ prev' \in [Tasks -> Cells \cup {None}]
         /\ tail' \in [Queues -> Cells]
         /\ onqueue' \in [Tasks -> BOOLEAN]
         /\ ListsAreLinked(home)'
<1> DEFINE q == home[t]
           e == tail[q]
           After(p, x) == x = p \/ (x \in Tasks /\ onqueue'[x] /\ home[x] = p)
<1> USE DEF QueueInv, TypeOK
<1>0. q \in Queues /\ e \in Cells /\ t \in Cells /\ t \notin Queues /\ t # None
  BY NullAssumption DEF CallsMatch, Cells
<1>1. Linked(home, q, e) /\ next[e] = None /\ e # t
  BY <1>0 DEF ListsAreLinked, TailIsTheEnd, Linked
<1>2. /\ next' = [next EXCEPT ![t] = None, ![e] = t]
      /\ prev' = [prev EXCEPT ![t] = e]
      /\ tail' = [tail EXCEPT ![q] = t]
  BY DEF InsertAtTail
<1> HIDE DEF q, e
<1>3. /\ next' \in [Cells -> Tasks \cup {None}]
      /\ prev' \in [Tasks -> Cells \cup {None}]
      /\ tail' \in [Queues -> Cells]
      /\ onqueue' \in [Tasks -> BOOLEAN]
  BY <1>0, <1>2
<1>4. \A x \in Cells : next'[x] = IF x = e THEN t ELSE IF x = t THEN None ELSE next[x]
  BY <1>0, <1>1, <1>2
<1>5. \A p \in Queues, x \in Cells :
        After(p, x) <=> Linked(home, p, x) \/ (p = q /\ x = t)
  BY <1>0 DEF Linked, q, Cells
<1> HIDE DEF After
<1>6. ~ \E p \in Queues : Linked(home, p, t)
  BY <1>0 DEF Linked
<1>7. \A p \in Queues : Linked(home, p, e) => p = q
  BY <1>0, <1>1, NullAssumption DEF Linked, Cells
<1>8. PrevPointsHere(home)'
  <2> SUFFICES ASSUME NEW u \in Tasks, onqueue'[u]
               PROVE  /\ prev'[u] \in Cells /\ next'[prev'[u]] = u
                      /\ After(home[u], prev'[u])
    BY DEF PrevPointsHere, Linked, After
  <2>1. CASE u = t
    BY <2>1, <1>0, <1>1, <1>2, <1>4, <1>5 DEF q
  <2>2. CASE u # t
    <3>1. onqueue[u] /\ prev'[u] = prev[u]
      BY <2>2, <1>2
    <3>2. /\ prev[u] \in Cells /\ next[prev[u]] = u
          /\ Linked(home, home[u], prev[u]) /\ home[u] \in Queues
      BY <3>1 DEF ListsAreLinked, PrevPointsHere, CallsMatch
    <3>3. prev[u] # e /\ prev[u] # t
      BY <3>2, <1>1, <1>6, NullAssumption DEF Cells
    <3> QED BY <3>1, <3>2, <3>3, <1>4, <1>5
  <2> QED BY <2>1, <2>2
<1>9. NextPointsBack(home)'
  <2> SUFFICES ASSUME NEW p \in Queues, NEW x \in Cells,
                      After(p, x), next'[x] # None
               PROVE  /\ onqueue'[next'[x]] /\ home[next'[x]] = p
                      /\ prev'[next'[x]] = x
    BY DEF NextPointsBack, Linked, After
  <2>1. CASE x = e
    <3>1. next'[x] = t /\ p = q
      BY <2>1, <1>0, <1>1, <1>4, <1>5, <1>7
    <3> QED BY <3>1, <2>1, <1>2 DEF q
  <2>2. CASE x # e
    <3>1. x # t /\ next'[x] = next[x] /\ Linked(home, p, x) /\ next[x] \in Tasks
      BY <2>2, <1>4, <1>5
    <3>2. onqueue[next[x]] /\ home[next[x]] = p /\ prev[next[x]] = x
      BY <3>1 DEF ListsAreLinked, NextPointsBack
    <3> QED BY <3>1, <3>2, <1>2
  <2> QED BY <2>1, <2>2
<1>10. TailIsTheEnd(home)'
  <2> SUFFICES ASSUME NEW p \in Queues
               PROVE  /\ After(p, tail'[p])
                      /\ \A x \in Cells : After(p, x)
                           => (next'[x] = None <=> x = tail'[p])
    BY DEF TailIsTheEnd, Linked, After
  <2>1. tail[p] \in Cells /\ Linked(home, p, tail[p])
        /\ \A x \in Cells : Linked(home, p, x) => (next[x] = None <=> x = tail[p])
    BY DEF ListsAreLinked, TailIsTheEnd
  <2>2. CASE p = q
    <3>1. tail'[p] = t /\ tail[p] = e
      BY <2>2, <1>0, <1>2 DEF e
    <3>2. After(p, tail'[p])
      BY <3>1, <2>2, <1>0, <1>5
    <3>3. ASSUME NEW x \in Cells, After(p, x)
          PROVE  next'[x] = None <=> x = tail'[p]
      BY <3>3, <3>1, <2>1, <2>2, <1>0, <1>1, <1>4, <1>5
    <3> QED BY <3>2, <3>3
  <2>3. CASE p # q
    <3>1. tail'[p] = tail[p]
      BY <2>3, <1>2
    <3> QED BY <3>1, <2>1, <2>3, <1>0, <1>4, <1>5, <1>6, <1>7
  <2> QED BY <2>2, <2>3
<1> QED BY <1>3, <1>8, <1>9, <1>10 DEF ListsAreLinked

\* TAILQ_REMOVE of a task from the list it is on.
LEMMA RemoveKeepsLists ==
  ASSUME NEW home, CallsMatch(home), QueueInv(home),
         NEW t \in Tasks, onqueue[t],
         Remove(home[t], t), onqueue' = [onqueue EXCEPT ![t] = FALSE]
  PROVE  /\ next' \in [Cells -> Tasks \cup {None}]
         /\ prev' \in [Tasks -> Cells \cup {None}]
         /\ tail' \in [Queues -> Cells]
         /\ onqueue' \in [Tasks -> BOOLEAN]
         /\ ListsAreLinked(home)'
<1> DEFINE q == home[t]
           a == prev[t]
           b == next[t]
           After(p, x) == x = p \/ (x \in Tasks /\ onqueue'[x] /\ home[x] = p)
<1> USE DEF QueueInv, TypeOK
<1>0. /\ q \in Queues /\ t \in Cells /\ t \notin Queues /\ t # None
      /\ b \in Tasks \cup {None} /\ Tasks \subseteq Cells /\ None \notin Cells
  BY NullAssumption DEF CallsMatch, Cells
<1>1. a \in Cells /\ next[a] = t /\ Linked(home, q, a) /\ Linked(home, q, t)
  BY <1>0 DEF ListsAreLinked, PrevPointsHere, Linked
<1>2. b # None => onqueue[b] /\ home[b] = q /\ prev[b] = t
  BY <1>0, <1>1 DEF ListsAreLinked, NextPointsBack
<1>3. /\ next' = [next EXCEPT ![a] = b, ![t] = None]
      /\ prev' = [u \in Tasks |-> IF u = t THEN None
                                  ELSE IF u = b THEN a ELSE prev[u]]
      /\ tail' = IF b = None THEN [tail EXCEPT ![q] = a] ELSE tail
  BY DEF Remove
<1> HIDE DEF q, a, b
<1>4. /\ next' \in [Cells -> Tasks \cup {None}]
      /\ prev' \in [Tasks -> Cells \cup {None}]
      /\ tail' \in [Queues -> Cells]
      /\ onqueue' \in [Tasks -> BOOLEAN]
  BY <1>0, <1>1, <1>3
<1>5. \A x \in Cells : x # t => next'[x] = IF x = a THEN b ELSE next[x]
  BY <1>0, <1>3
<1>6. \A p \in Queues, x \in Cells : After(p, x) <=> Linked(home, p, x) /\ x # t
  BY <1>0 DEF Linked, Cells
<1> HIDE DEF After
<1>7. \A p \in Queues : Linked(home, p, a) => p = q
  BY <1>0, <1>1, NullAssumption DEF Linked, Cells
<1>8. PrevPointsHere(home)'
  <2> SUFFICES ASSUME NEW u \in Tasks, onqueue'[u]
               PROVE  /\ prev'[u] \in Cells /\ next'[prev'[u]] = u
                      /\ After(home[u], prev'[u])
    BY DEF PrevPointsHere, Linked, After
  <2>1. u # t /\ onqueue[u] /\ home[u] \in Queues
    BY DEF CallsMatch
  <2>2. /\ prev[u] \in Cells /\ next[prev[u]] = u
        /\ Linked(home, home[u], prev[u])
    BY <2>1 DEF ListsAreLinked, PrevPointsHere
  <2>3. CASE u = b
    <3>1. prev'[u] = a /\ home[u] = q /\ a # t
      BY <2>1, <2>3, <1>0, <1>1, <1>2, <1>3 DEF b
    <3> QED BY <3>1, <2>1, <2>3, <1>1, <1>5, <1>6
  <2>4. CASE u # b
    <3>1. prev'[u] = prev[u] /\ prev[u] # t /\ prev[u] # a
      BY <2>1, <2>2, <2>4, <1>1, <1>3 DEF b
    <3> QED BY <3>1, <2>1, <2>2, <1>5, <1>6
  <2> QED BY <2>3, <2>4
<1>9. NextPointsBack(home)'
  <2> SUFFICES ASSUME NEW p \in Queues, NEW x \in Cells,
                      After(p, x), next'[x] # None
               PROVE  /\ onqueue'[next'[x]] /\ home[next'[x]] = p
                      /\ prev'[next'[x]] = x
    BY DEF NextPointsBack, Linked, After
  <2>1. x # t /\ Linked(home, p, x)
    BY <1>6
  <2>2. CASE x = a
    <3>1. next'[x] = b /\ p = q /\ b # None /\ b \in Tasks
      BY <2>1, <2>2, <1>0, <1>5, <1>7
    <3>2. onqueue[b] /\ home[b] = q /\ prev[b] = t /\ b # t
      BY <3>1, <2>1, <2>2, <1>2 DEF a
    <3> QED BY <3>1, <3>2, <2>2, <1>3
  <2>3. CASE x # a
    <3>1. next'[x] = next[x] /\ next[x] \in Tasks
      BY <2>1, <2>3, <1>5
    <3>2. onqueue[next[x]] /\ home[next[x]] = p /\ prev[next[x]] = x
      BY <3>1, <2>1 DEF ListsAreLinked, NextPointsBack
    <3>3. next[x] # t /\ next[x] # b
      BY <3>1, <3>2, <2>1, <2>3, <1>2, <1>0 DEF a
    <3> QED BY <3>1, <3>2, <3>3, <1>3
  <2> QED BY <2>2, <2>3
<1>10. TailIsTheEnd(home)'
  <2> SUFFICES ASSUME NEW p \in Queues
               PROVE  /\ After(p, tail'[p])
                      /\ \A x \in Cells : After(p, x)
                           => (next'[x] = None <=> x = tail'[p])
    BY DEF TailIsTheEnd, Linked, After
  <2>1. tail[p] \in Cells /\ Linked(home, p, tail[p])
        /\ \A x \in Cells : Linked(home, p, x) => (next[x] = None <=> x = tail[p])
    BY DEF ListsAreLinked, TailIsTheEnd
  <2>2. CASE p = q /\ b = None
    <3>1. tail'[p] = a /\ tail[p] = t /\ a # t
      BY <2>1, <2>2, <1>0, <1>1, <1>3 DEF b
    <3> QED BY <3>1, <2>1, <2>2, <1>0, <1>1, <1>5, <1>6
  <2>3. CASE p = q /\ b # None
    <3>1. tail'[p] = tail[p] /\ tail[p] # t /\ tail[p] # a
      BY <2>1, <2>3, <1>0, <1>1, <1>3 DEF b
    <3> QED BY <3>1, <2>1, <2>3, <1>0, <1>1, <1>5, <1>6
  <2>4. CASE p # q
    <3>1. tail'[p] = tail[p] /\ ~Linked(home, p, t) /\ ~Linked(home, p, a)
      BY <2>4, <1>0, <1>3, <1>7 DEF Linked, q
    <3> QED BY <3>1, <2>1, <1>0, <1>5, <1>6
  <2> QED BY <2>2, <2>3, <2>4
<1> QED BY <1>4, <1>8, <1>9, <1>10 DEF ListsAreLinked

----------------------------------------------------------------------------
LEMMA StepQueue ==
  ASSUME NEW home, CallsMatch(home)
  PROVE  QueueInv(home) /\ [Next]_vars => QueueInv(home)'
<1> SUFFICES ASSUME QueueInv(home), [Next]_vars PROVE QueueInv(home)'
  OBVIOUS
<1> DEFINE Rest == TypeOK /\ ThreadsCounted /\ CallsAreMade
<1>0. Rest /\ ListsAreLinked(home)
  BY DEF QueueInv
<1> USE ThreadAssumption DEF TypeOK, ThreadsCounted, CallsAreMade
<1>1. ASSUME NEW q \in Queues, CreatorStart(q) PROVE QueueInv(home)'
  BY <1>0, <1>1, SameLinks DEF QueueInv, CreatorStart, links, callers
<1>2. ASSUME NEW q \in Queues, Spawn(q) PROVE QueueInv(home)'
  BY <1>0, <1>2, SameLinks DEF QueueInv, Spawn, links, callers
<1>3. ASSUME NEW q \in Queues, SpawnFails(q) PROVE QueueInv(home)'
  BY <1>0, <1>3, SameLinks DEF QueueInv, SpawnFails, links, callers
<1>4. ASSUME NEW q \in Queues, Spawned(q) PROVE QueueInv(home)'
  BY <1>0, <1>4, SameLinks DEF QueueInv, Spawned, links, callers
<1>5. ASSUME NEW q \in Queues, NextWork(q) PROVE QueueInv(home)'
  <2>1. next[q] \in Tasks /\ onqueue[next[q]] /\ home[next[q]] = q
    BY <1>0, <1>5 DEF NextWork, ListsAreLinked, NextPointsBack, Linked, Cells
  <2>2. /\ next' \in [Cells -> Tasks \cup {None}]
        /\ prev' \in [Tasks -> Cells \cup {None}]
        /\ tail' \in [Queues -> Cells]
        /\ onqueue' \in [Tasks -> BOOLEAN]
        /\ ListsAreLinked(home)'
    BY <1>5, <2>1, RemoveKeepsLists DEF NextWork
  <2> QED BY <1>0, <1>5, <2>1, <2>2 DEF QueueInv, NextWork, callers
<1>6. ASSUME NEW q \in Queues, NoWork(q) PROVE QueueInv(home)'
  BY <1>0, <1>6, SameLinks DEF QueueInv, NoWork, links, callers
<1>7. ASSUME NEW q \in Queues, WorkDone(q) PROVE QueueInv(home)'
  BY <1>0, <1>7, SameLinks DEF QueueInv, WorkDone, links, callers
<1>8. ASSUME NEW c \in Callers, Begin(c) PROVE QueueInv(home)'
  <2>1. PICK k \in Calls[c] : call' = [call EXCEPT ![c] = k]
    BY <1>8 DEF Begin
  <2>2. /\ pc' = [pc EXCEPT ![c] = "test"]
        /\ UNCHANGED <<state, running, links, creator, worker, work>>
    BY <1>8 DEF Begin, threads
  <2>3. \A d \in Callers : call'[d] = IF d = c THEN k ELSE call[d]
    BY <2>1, <1>0
  <2>4. call' = [d \in Callers |-> call'[d]]
    BY <2>1, <1>0
  <2>5. ListsAreLinked(home)'
    BY <1>0, <2>2, SameLinks DEF links
  <2>6. CallsAreMade'
    BY <1>0, <2>1, <2>2, <2>3, <2>4
  <2>7. \A d \in Callers : call'[d] \in Calls[d] \cup {None}
    BY <1>0, <2>1, <2>3
  <2>8. TypeOK' /\ ThreadsCounted'
    <3>1. pc' \in [Callers -> {"idle", "test", "lock", "wake"}]
      BY <1>0, <2>2
    <3>2. ThreadsCounted'
      BY <1>0, <2>2
    <3> QED BY <1>0, <2>2, <2>7, <3>1, <3>2 DEF links
  <2> QED BY <2>5, <2>6, <2>8 DEF QueueInv
<1>9. ASSUME NEW c \in Callers, TestOnQueue(c) PROVE QueueInv(home)'
  <2>1. CASE Return(c)
    BY <1>0, <1>9, <2>1, SameLinks DEF QueueInv, TestOnQueue, Return, links, threads
  <2>2. CASE pc' = [pc EXCEPT ![c] = "lock"] /\ UNCHANGED call
    BY <1>0, <1>9, <2>2, SameLinks DEF QueueInv, TestOnQueue, links, threads
  <2> QED BY <1>9, <2>1, <2>2 DEF TestOnQueue
<1>10. ASSUME NEW c \in Callers, AddTask(c) PROVE QueueInv(home)'
  <2>1. call[c].w \in Tasks /\ call[c].tq = home[call[c].w]
    BY <1>0, <1>10, CallArguments DEF AddTask
  <2>2. /\ next' \in [Cells -> Tasks \cup {None}]
        /\ prev' \in [Tasks -> Cells \cup {None}]
        /\ tail' \in [Queues -> Cells]
        /\ onqueue' \in [Tasks -> BOOLEAN]
        /\ ListsAreLinked(home)'
    BY <1>10, <2>1, InsertKeepsLists DEF AddTask
  <2> QED BY <1>0, <1>10, <2>2 DEF QueueInv, AddTask, threads
<1>11. ASSUME NEW c \in Callers, DelTask(c) PROVE QueueInv(home)'
  <2>1. call[c].w \in Tasks /\ call[c].tq = home[call[c].w]
    BY <1>0, <1>11, CallArguments DEF DelTask
  <2>2. /\ next' \in [Cells -> Tasks \cup {None}]
        /\ prev' \in [Tasks -> Cells \cup {None}]
        /\ tail' \in [Queues -> Cells]
        /\ onqueue' \in [Tasks -> BOOLEAN]
        /\ ListsAreLinked(home)'
    BY <1>11, <2>1, RemoveKeepsLists DEF DelTask
  <2> QED BY <1>0, <1>11, <2>2 DEF QueueInv, DelTask, Return, threads
<1>12. ASSUME NEW c \in Callers, TestWasStale(c) PROVE QueueInv(home)'
  BY <1>0, <1>12, SameLinks DEF QueueInv, TestWasStale, Return, links, threads
<1>13. ASSUME NEW c \in Callers, WakeOne(c) PROVE QueueInv(home)'
  <2>1. call[c].tq \in Queues
    BY <1>0, <1>13, CallArguments DEF WakeOne
  <2> QED BY <1>0, <1>13, <2>1, SameLinks DEF QueueInv, WakeOne, Return, links
<1>14. CASE UNCHANGED vars
  BY <1>0, <1>14, SameLinks DEF QueueInv, vars, threads, callers, links
<1> QED
  BY <1>1, <1>2, <1>3, <1>4, <1>5, <1>6, <1>7, <1>8, <1>9, <1>10, <1>11,
     <1>12, <1>13, <1>14 DEF Next, Creator, Worker, Caller

\* The links of the task queues stay lists through every interleaving of
\* task_add, task_del and the threads of the queues: what points at a queued
\* task is in the list of its queue, and tqh_last is the one end of it.
THEOREM ListsStayLinked ==
  ASSUME NEW home, CallsMatch(home)
  PROVE  Spec => []ListsAreLinked(home)
<1>1. Init => QueueInv(home)
  BY InitQueue
<1>2. QueueInv(home) /\ [Next]_vars => QueueInv(home)'
  BY StepQueue
<1>3. QueueInv(home) => ListsAreLinked(home)
  BY DEF QueueInv
<1> QED BY <1>1, <1>2, <1>3, PTL DEF Spec

\* Every variable keeps its type; tq_running never exceeds tq_nthreads.
THEOREM TaskTypeCorrect ==
  ASSUME NEW home, CallsMatch(home)
  PROVE  Spec => []TypeOK
<1>1. Init => QueueInv(home)
  BY InitQueue
<1>2. QueueInv(home) /\ [Next]_vars => QueueInv(home)'
  BY StepQueue
<1>3. QueueInv(home) => TypeOK
  BY DEF QueueInv
<1> QED BY <1>1, <1>2, <1>3, PTL DEF Spec

\* The step of NoSleepOverWork.  Only AddTask links a task into an empty
\* list, and it leaves its caller before the wakeup of that very queue.
LEMMA StepNoSleep ==
  ASSUME NEW home, CallsMatch(home), QueueInv(home), NoSleepOverWork, [Next]_vars
  PROVE  NoSleepOverWork'
<1> SUFFICES ASSUME NEW q \in Queues, worker'[q] = "asleep", next'[q] # None
             PROVE  \E c \in Callers : pc'[c] = "wake" /\ call'[c].tq = q
  BY DEF NoSleepOverWork
<1> DEFINE Waker(c) == c \in Callers /\ pc[c] = "wake" /\ call[c].tq = q
<1>0. TypeOK /\ ThreadsCounted /\ CallsAreMade /\ ListsAreLinked(home)
  BY DEF QueueInv
<1>1. worker[q] = "asleep" /\ next[q] # None => \E c : Waker(c)
  BY DEF NoSleepOverWork
<1> USE DEF TypeOK
<1>2. ASSUME UNCHANGED callers, worker[q] = "asleep", next[q] # None
      PROVE  \E c \in Callers : pc'[c] = "wake" /\ call'[c].tq = q
  BY <1>1, <1>2 DEF callers
<1>3. ASSUME NEW d \in Callers, pc[d] # "wake", worker[q] = "asleep",
             next[q] # None, \A c \in Callers : c # d => pc'[c] = pc[c] /\ call'[c] = call[c]
      PROVE  \E c \in Callers : pc'[c] = "wake" /\ call'[c].tq = q
  BY <1>1, <1>3
<1>4. \* TAILQ_REMOVE leaves no queue with work that had none.
      ASSUME NEW t \in Tasks, onqueue[t], Remove(home[t], t)
      PROVE  next[q] # None
  <2>1. prev[t] \in Cells /\ next[prev[t]] = t /\ t # None /\ q \in Cells
    BY <1>0, <1>4, NullAssumption DEF ListsAreLinked, PrevPointsHere, Cells
  <2>2. CASE prev[t] = q
    BY <2>1, <2>2
  <2>3. CASE prev[t] # q
    BY <1>0, <1>4, <2>1, <2>3, NullAssumption DEF Remove, Cells
  <2> QED BY <2>2, <2>3
<1>5. ASSUME NEW p \in Queues, Creator(p)
      PROVE  \E c \in Callers : pc'[c] = "wake" /\ call'[c].tq = q
  BY <1>0, <1>2, <1>5
     DEF Creator, CreatorStart, Spawn, SpawnFails, Spawned, links, callers
<1>6. ASSUME NEW p \in Queues, NextWork(p)
      PROVE  \E c \in Callers : pc'[c] = "wake" /\ call'[c].tq = q
  <2>1. next[p] \in Tasks /\ onqueue[next[p]] /\ home[next[p]] = p
    BY <1>0, <1>6 DEF NextWork, ListsAreLinked, NextPointsBack, Linked, Cells
  <2>2. next[q] # None
    BY <1>4, <1>6, <2>1 DEF NextWork
  <2> QED BY <1>0, <1>2, <1>6, <2>2 DEF NextWork
<1>7. ASSUME NEW p \in Queues, NoWork(p) \/ WorkDone(p)
      PROVE  \E c \in Callers : pc'[c] = "wake" /\ call'[c].tq = q
  BY <1>0, <1>2, <1>7 DEF NoWork, WorkDone, links, callers
<1>8. ASSUME NEW d \in Callers, Begin(d) \/ TestOnQueue(d) \/ TestWasStale(d)
      PROVE  \E c \in Callers : pc'[c] = "wake" /\ call'[c].tq = q
  BY <1>0, <1>3, <1>8
     DEF Begin, TestOnQueue, TestWasStale, Return, links, threads, CallsAreMade
<1>9. ASSUME NEW d \in Callers, AddTask(d)
      PROVE  \E c \in Callers : pc'[c] = "wake" /\ call'[c].tq = q
  <2>1. call[d].w \in Tasks /\ call[d].tq \in Queues
    BY <1>0, <1>9, CallArguments DEF AddTask
  <2>2. CASE call[d].tq = q
    BY <1>0, <1>9, <2>2 DEF AddTask
  <2>3. CASE call[d].tq # q
    <3>1. tail[call[d].tq] # q /\ call[d].w # q /\ q \in Cells
      BY <1>0, <2>1, <2>3, NullAssumption
         DEF ListsAreLinked, TailIsTheEnd, Linked, Cells
    <3>2. next'[q] = next[q]
      BY <1>0, <1>9, <3>1 DEF AddTask, InsertAtTail
    <3> QED BY <1>0, <1>3, <1>9, <3>2 DEF AddTask, threads
  <2> QED BY <2>2, <2>3
<1>10. ASSUME NEW d \in Callers, DelTask(d)
       PROVE  \E c \in Callers : pc'[c] = "wake" /\ call'[c].tq = q
  <2>1. call[d].w \in Tasks /\ call[d].tq = home[call[d].w]
    BY <1>0, <1>10, CallArguments DEF DelTask
  <2>2. next[q] # None
    BY <1>4, <1>10, <2>1 DEF DelTask
  <2> QED BY <1>0, <1>3, <1>10, <2>2 DEF DelTask, Return, threads, CallsAreMade
<1>11. ASSUME NEW d \in Callers, WakeOne(d)
       PROVE  \E c \in Callers : pc'[c] = "wake" /\ call'[c].tq = q
  <2>1. call[d].tq # q /\ worker[q] = "asleep" /\ next[q] # None
    BY <1>0, <1>11 DEF WakeOne, links
  <2>2. PICK c : Waker(c)
    BY <1>1, <2>1
  <2> QED BY <1>0, <1>11, <2>1, <2>2 DEF WakeOne, Return, CallsAreMade
<1>12. CASE UNCHANGED vars
  BY <1>2, <1>12 DEF vars, threads, links, callers
<1> QED
  BY <1>5, <1>6, <1>7, <1>8, <1>9, <1>10, <1>11, <1>12 DEF Next, Worker, Caller

\* No wakeup is lost: a worker that sleeps while its queue holds a task is
\* about to be woken by the caller of task_add that has left the lock.
THEOREM WakeupsAreNotLost ==
  ASSUME NEW home, CallsMatch(home)
  PROVE  Spec => []NoSleepOverWork
<1>1. Init => QueueInv(home) /\ NoSleepOverWork
  BY InitQueue DEF Init, NoSleepOverWork
<1>2. QueueInv(home) /\ NoSleepOverWork /\ [Next]_vars
        => QueueInv(home)' /\ NoSleepOverWork'
  BY StepQueue, StepNoSleep
<1> QED BY <1>1, <1>2, PTL DEF Spec

----------------------------------------------------------------------------
(* The lists as sequences: the links from a head determine the tasks behind *)
(* it, and the macros append to the sequence and take out of it.           *)

\* A set of numbers that is not empty has a least one.
LEMMA LeastNumber ==
  ASSUME NEW T, T \subseteq Nat, T # {}
  PROVE  \E m \in T : \A k \in T : m <= k
<1>1. IsWellFoundedOn(OpToRel(<, Nat), Nat)
  BY NatLessThanWellFounded
<1>2. \E m \in T : \A k \in T : <<k, m>> \notin OpToRel(<, Nat)
  BY <1>1, WFMin
<1>3. \A k, m \in Nat : <<k, m>> \in OpToRel(<, Nat) <=> k < m
  BY DEF OpToRel
<1>4. \E m \in T : \A k \in T : ~(k < m)
  BY <1>2, <1>3, Zenon
<1> QED BY <1>4

\* The cell that points at the i-th task of a list.
Cell(q, s, i) == IF i = 1 THEN q ELSE s[i - 1]

IsChain(nx, q, s) == \A i \in 1..Len(s) : s[i] = nx[Cell(q, s, i)]

\* s is the whole list that starts in q, each of its tasks once.
IsList(nx, q, s) ==
  /\ IsChain(nx, q, s)
  /\ nx[Cell(q, s, Len(s) + 1)] = None
  /\ \A i, j \in 1..Len(s) : s[i] = s[j] => i = j

\* Whatever follows the links from q is a part of the list.
LEMMA ChainIsPrefix ==
  ASSUME NEW nx, NEW q, NEW s \in Seq(Tasks), NEW r \in Seq(Tasks),
         IsList(nx, q, s), IsChain(nx, q, r)
  PROVE  Len(r) <= Len(s) /\ \A i \in 1..Len(r) : r[i] = s[i]
<1>0. /\ Len(s) \in Nat /\ Len(r) \in Nat
      /\ \A i \in 1..Len(r) : r[i] \in Tasks /\ r[i] # None
  BY LenProperties, ElementOfSeq, NullAssumption DEF Cells
<1> DEFINE Differ == {i \in 1..Len(r) : ~(i <= Len(s) /\ r[i] = s[i])}
<1>1. Differ = {}
  <2> SUFFICES ASSUME Differ # {} PROVE FALSE
    OBVIOUS
  <2>1. PICK m \in Differ : \A k \in Differ : m <= k
    <3>1. Differ \subseteq Nat
      BY <1>0
    <3> HIDE DEF Differ
    <3> QED BY <3>1, LeastNumber
  <2>2. m \in 1..Len(r) /\ m \in Int
    BY <1>0
  <2>3. m # 1 => m - 1 \in 1..Len(s) /\ r[m - 1] = s[m - 1]
    <3> SUFFICES ASSUME m # 1 PROVE m - 1 \in 1..Len(s) /\ r[m - 1] = s[m - 1]
      OBVIOUS
    <3>1. m - 1 \in 1..Len(r) /\ m - 1 \notin Differ
      BY <1>0, <2>1, <2>2
    <3> QED BY <1>0, <3>1
  <2>4. Cell(q, r, m) = Cell(q, s, m)
    BY <2>3 DEF Cell
  <2>5. r[m] = nx[Cell(q, s, m)] /\ r[m] # None
    BY <1>0, <2>2, <2>4 DEF IsChain
  <2>6. m \in 1..Len(s)
    <3>1. m <= Len(s) + 1
      BY <1>0, <2>2, <2>3
    <3>2. m # Len(s) + 1
      BY <2>5 DEF IsList
    <3> QED BY <1>0, <2>2, <3>1, <3>2
  <2>7. s[m] = nx[Cell(q, s, m)]
    BY <2>6 DEF IsList, IsChain
  <2> QED BY <2>1, <2>5, <2>6, <2>7
<1>2. \A i \in 1..Len(r) : i <= Len(s) /\ r[i] = s[i]
  BY <1>1
<1>3. Len(r) <= Len(s)
  BY <1>0, <1>2
<1> QED BY <1>2, <1>3

\* A list is the longest path from its head.
LEMMA ListIsWorklist ==
  ASSUME NEW nx, NEW q, NEW s \in Seq(Tasks), IsList(nx, q, s)
  PROVE  Worklist(nx, q) = s
<1> DEFINE N == Cardinality(Tasks)
           Short == UNION {[1..n -> Tasks] : n \in 0..N}
<1>0. N \in Nat /\ Len(s) \in Nat /\ DOMAIN s = 1..Len(s) /\ s \in [1..Len(s) -> Tasks]
  BY TasksAssumption, FS_CardinalityType, LenProperties
<1>1. Len(s) <= N
  <2>1. s \in Injection(1..Len(s), Tasks)
    BY <1>0 DEF IsList, Injection, IsInjective
  <2>2. Cardinality(1..Len(s)) <= Cardinality(Tasks)
    BY <2>1, TasksAssumption, FS_Injection
  <2>3. Cardinality(1..Len(s)) = Len(s)
    <3> DEFINE n == Len(s)
    <3>1. n \in Nat
      BY <1>0
    <3> HIDE DEF n
    <3>2. Cardinality(1..n) = IF 1 > n THEN 0 ELSE n - 1 + 1
      BY <3>1, FS_Interval
    <3>3. Cardinality(1..n) = n
      BY <3>1, <3>2
    <3> QED BY <3>3 DEF n
  <2> QED BY <2>2, <2>3
<1>2. s \in Short
  BY <1>0, <1>1
<1>3. \A r \in Short : r \in Seq(Tasks) /\ Len(r) \in Nat /\ DOMAIN r = 1..Len(r)
  <2>1. \A r \in Short : \E n \in Nat : r \in [1..n -> Tasks]
    BY <1>0
  <2>2. \A r \in Short : r \in Seq(Tasks)
    BY <2>1, SeqDef
  <2> QED BY <2>2, LenProperties
<1>4. Paths(nx, q) = {r \in Short : IsChain(nx, q, r)}
  <2>1. Paths(nx, q) = {r \in Short : \A i \in DOMAIN r : r[i] = nx[Cell(q, r, i)]}
    BY DEF Paths, Cell
  <2> QED BY <2>1, <1>3 DEF IsChain
<1> HIDE DEF Short, N
<1>5. s \in Paths(nx, q) /\ \A r \in Paths(nx, q) : Len(r) <= Len(s)
  BY <1>2, <1>3, <1>4, ChainIsPrefix DEF IsList
<1>6. ASSUME NEW r \in Paths(nx, q), Len(s) <= Len(r)
      PROVE  r = s
  <2>1. r \in Seq(Tasks) /\ Len(r) \in Nat /\ IsChain(nx, q, r)
    BY <1>3, <1>4
  <2>2. Len(r) <= Len(s) /\ \A i \in 1..Len(r) : r[i] = s[i]
    BY <2>1, ChainIsPrefix
  <2> QED BY <1>0, <1>6, <2>1, <2>2, SeqEqual
<1> QED BY <1>5, <1>6 DEF Worklist

\* Append(s, t), when the last cell is made to point at t.
LEMMA AppendToList ==
  ASSUME NEW nx, NEW q, NEW s \in Seq(Tasks), IsList(nx, q, s),
         NEW t \in Tasks, \A i \in 1..Len(s) : s[i] # t,
         NEW ny, ny[Cell(q, s, Len(s) + 1)] = t, ny[t] = None,
         \A i \in 1..Len(s) : ny[Cell(q, s, i)] = nx[Cell(q, s, i)]
  PROVE  /\ Append(s, t) \in Seq(Tasks)
         /\ \A u : (\E i \in 1..Len(Append(s, t)) : Append(s, t)[i] = u)
                     <=> u = t \/ \E i \in 1..Len(s) : s[i] = u
         /\ IsList(ny, q, Append(s, t))
<1> DEFINE n == Len(s)
           r == Append(s, t)
<1>1. /\ n \in Nat /\ r \in Seq(Tasks) /\ Len(r) = n + 1
      /\ r[n + 1] = t /\ \A i \in 1..n : r[i] = s[i]
  BY AppendProperties, LenProperties
<1> HIDE DEF r, n
<1>2. ASSUME NEW i \in 1..(n + 1) PROVE Cell(q, r, i) = Cell(q, s, i)
  <2>1. i # 1 => i - 1 \in 1..n
    BY <1>1
  <2>2. i # 1 => r[i - 1] = s[i - 1]
    BY <1>1, <2>1
  <2> QED BY <2>2 DEF Cell
<1>3. Cell(q, r, n + 2) = t
  BY <1>1 DEF Cell
<1>4. \A i \in 1..n : s[i] = nx[Cell(q, s, i)]
  BY DEF IsList, IsChain, n
<1>5. \A i \in 1..n : ny[Cell(q, s, i)] = s[i]
  BY <1>4 DEF n
<1>6. ny[Cell(q, s, n + 1)] = t
  BY DEF n
<1>7. IsChain(ny, q, r)
  <2> SUFFICES ASSUME NEW i \in 1..(n + 1) PROVE r[i] = ny[Cell(q, r, i)]
    BY <1>1 DEF IsChain
  <2>1. CASE i = n + 1
    BY <2>1, <1>1, <1>2, <1>6
  <2>2. CASE i \in 1..n
    BY <2>2, <1>1, <1>2, <1>5
  <2> QED BY <1>1, <2>1, <2>2
<1>8. ny[Cell(q, r, Len(r) + 1)] = None
  <2>1. Len(r) + 1 = n + 2
    BY <1>1
  <2> QED BY <2>1, <1>3
<1>9. ASSUME NEW i \in 1..Len(r), NEW j \in 1..Len(r), r[i] = r[j]
      PROVE  i = j
  <2>1. \A a, b \in 1..n : s[a] = s[b] => a = b
    BY DEF IsList, n
  <2>2. \A a \in 1..n : s[a] # t
    BY DEF n
  <2> QED BY <1>1, <1>9, <2>1, <2>2
<1>10. IsList(ny, q, r)
  BY <1>7, <1>8, <1>9 DEF IsList
<1>11. \A u : (\E i \in 1..Len(r) : r[i] = u) <=> u = t \/ \E i \in 1..n : s[i] = u
  BY <1>1
<1> QED BY <1>1, <1>10, <1>11 DEF r, n

\* The place at which the i-th element of a list is found when the k-th is
\* taken out.
LEMMA RemovedAt ==
  ASSUME NEW S, NEW s \in Seq(S), NEW k \in 1..Len(s)
  PROVE  LET r == Service!RemoveAt(s, k) IN
         /\ r \in Seq(S) /\ Len(r) = Len(s) - 1
         /\ \A i \in 1..(Len(s) - 1) : r[i] = IF i < k THEN s[i] ELSE s[i + 1]
<1> DEFINE n == Len(s)
           a == SubSeq(s, 1, k - 1)
           b == SubSeq(s, k + 1, n)
           r == a \o b
<1>1. n \in Nat /\ k \in 1..n /\ \A i \in 1..n : s[i] \in S
  BY LenProperties, ElementOfSeq
<1>2. /\ a \in Seq(S) /\ Len(a) = k - 1 /\ \A i \in 1..(k - 1) : a[i] = s[i]
  BY <1>1, SubSeqProperties
<1>3. /\ b \in Seq(S) /\ Len(b) = n - k /\ \A i \in 1..(n - k) : b[i] = s[k + i]
  <2> HIDE DEF n
  <2>1. k + 1 \in Int /\ n \in Int /\ \A i \in (k + 1)..n : s[i] \in S
    BY <1>1
  <2>2. /\ b \in Seq(S) /\ Len(b) = IF k + 1 <= n THEN n - (k + 1) + 1 ELSE 0
        /\ \A i \in 1..(n - (k + 1) + 1) : b[i] = s[(k + 1) + i - 1]
    BY <2>1, SubSeqProperties
  <2> HIDE DEF b
  <2>3. n - (k + 1) + 1 = n - k /\ \A i \in Int : (k + 1) + i - 1 = k + i
    BY <1>1
  <2> QED BY <1>1, <2>2, <2>3
<1> HIDE DEF n, a, b
<1>4. /\ r \in Seq(S) /\ Len(r) = Len(a) + Len(b)
      /\ \A i \in 1..(Len(a) + Len(b)) :
           r[i] = IF i <= Len(a) THEN a[i] ELSE b[i - Len(a)]
  BY <1>2, <1>3, ConcatProperties
<1> HIDE DEF r
<1>5. Len(r) = n - 1
  BY <1>1, <1>2, <1>3, <1>4
<1>6. ASSUME NEW i \in 1..(n - 1)
      PROVE  r[i] = IF i < k THEN s[i] ELSE s[i + 1]
  <2>1. CASE i < k
    <3>1. i \in 1..(Len(a) + Len(b)) /\ i <= Len(a) /\ i \in 1..(k - 1)
      BY <1>1, <1>2, <1>3, <2>1
    <3> QED BY <1>2, <1>4, <2>1, <3>1
  <2>2. CASE ~(i < k)
    <3>1. i \in 1..(Len(a) + Len(b)) /\ ~(i <= Len(a))
      BY <1>1, <1>2, <1>3, <2>2
    <3>2. i - Len(a) \in 1..(n - k) /\ k + (i - Len(a)) = i + 1
      BY <1>1, <1>2, <2>2
    <3>3. r[i] = b[i - Len(a)]
      BY <1>4, <3>1
    <3>4. b[i - Len(a)] = s[i + 1]
      BY <1>3, <3>2
    <3> QED BY <2>2, <3>3, <3>4
  <2> QED BY <2>1, <2>2
<1> QED BY <1>4, <1>5, <1>6 DEF Service!RemoveAt, r, a, b, n

\* The links ny are nx, but that the cell before the k-th task points behind it.
\* The links of the task itself are not asked for.
Skips(nx, ny, q, s, k) ==
  /\ ny[Cell(q, s, k)] = nx[s[k]]
  /\ \A i \in 1..(Len(s) + 1) : i # k /\ i # k + 1
       => ny[Cell(q, s, i)] = nx[Cell(q, s, i)]

\* r holds what s holds, except for the k-th task of s.
Lacks(r, s, k) ==
  \A u : (\E i \in 1..Len(r) : r[i] = u) <=> u # s[k] /\ \E i \in 1..Len(s) : s[i] = u

\* With those links the list is the one without its k-th task.
LEMMA RemoveFromList ==
  ASSUME NEW nx, NEW q, NEW s \in Seq(Tasks), IsList(nx, q, s),
         NEW k \in 1..Len(s),
         NEW ny, Skips(nx, ny, q, s, k),
         NEW r, r = Service!RemoveAt(s, k)
  PROVE  /\ r \in Seq(Tasks)
         /\ Lacks(r, s, k)
         /\ IsList(ny, q, r)
<1> DEFINE n == Len(s)
<1>1. /\ n \in Nat /\ k \in 1..n /\ r \in Seq(Tasks) /\ Len(r) = n - 1
      /\ \A i \in 1..(n - 1) : r[i] = IF i < k THEN s[i] ELSE s[i + 1]
  BY RemovedAt, LenProperties
<1>2. /\ \A i \in 1..n : s[i] = nx[Cell(q, s, i)]
      /\ nx[Cell(q, s, n + 1)] = None
      /\ \A i, j \in 1..n : s[i] = s[j] => i = j
  BY DEF IsList, IsChain
<1>3. /\ ny[Cell(q, s, k)] = nx[s[k]]
      /\ \A i \in 1..(n + 1) : i # k /\ i # k + 1
           => ny[Cell(q, s, i)] = nx[Cell(q, s, i)]
  BY DEF Skips
<1> HIDE DEF n
<1>4. \A i \in 1..n : i <= k => Cell(q, r, i) = Cell(q, s, i)
  BY <1>1 DEF Cell
<1>5. \A i \in 1..n : i > k => Cell(q, r, i) = Cell(q, s, i + 1)
  BY <1>1 DEF Cell
<1>6. ny[Cell(q, s, k)] = nx[Cell(q, s, k + 1)]
  BY <1>1, <1>3 DEF Cell
<1>7. IsChain(ny, q, r)
  <2> SUFFICES ASSUME NEW i \in 1..(n - 1) PROVE r[i] = ny[Cell(q, r, i)]
    BY <1>1 DEF IsChain
  <2>1. CASE i < k
    <3>1. i \in 1..n /\ i \in 1..(n + 1) /\ i # k /\ i # k + 1 /\ i <= k
      BY <1>1, <2>1
    <3>2. r[i] = s[i] /\ Cell(q, r, i) = Cell(q, s, i)
      BY <1>1, <1>4, <2>1, <3>1
    <3> QED BY <1>2, <1>3, <3>1, <3>2
  <2>2. CASE i = k
    <3>1. i + 1 \in 1..n /\ i \in 1..n /\ i <= k /\ r[i] = s[i + 1]
      BY <1>1, <2>2
    <3>2. Cell(q, r, i) = Cell(q, s, k)
      BY <1>4, <2>2, <3>1
    <3> QED BY <1>2, <1>6, <2>2, <3>1, <3>2
  <2>3. CASE i > k
    <3>1. i + 1 \in 1..n /\ i \in 1..n /\ i + 1 \in 1..(n + 1) /\ i + 1 # k /\ i + 1 # k + 1
      BY <1>1, <2>3
    <3>2. r[i] = s[i + 1] /\ Cell(q, r, i) = Cell(q, s, i + 1)
      BY <1>1, <1>5, <2>3, <3>1
    <3> QED BY <1>2, <1>3, <3>1, <3>2
  <2> QED BY <1>1, <2>1, <2>2, <2>3
<1>8. ny[Cell(q, r, Len(r) + 1)] = None
  <2>1. Len(r) + 1 = n /\ n \in 1..n
    BY <1>1
  <2>2. CASE k = n
    BY <1>1, <1>2, <1>4, <1>6, <2>1, <2>2
  <2>3. CASE k < n
    <3>1. n + 1 \in 1..(n + 1) /\ n + 1 # k /\ n + 1 # k + 1
      BY <1>1, <2>3
    <3>2. Cell(q, r, n) = Cell(q, s, n + 1)
      BY <1>1, <1>5, <2>1, <2>3
    <3> QED BY <1>2, <1>3, <2>1, <3>1, <3>2
  <2> QED BY <1>1, <2>2, <2>3
<1> DEFINE At(m) == IF m < k THEN m ELSE m + 1
<1>9. \A i \in 1..(n - 1) : At(i) \in 1..n /\ At(i) # k /\ r[i] = s[At(i)]
  BY <1>1
<1>10. \A j \in 1..n : j # k => \E i \in 1..(n - 1) : At(i) = j
  <2> SUFFICES ASSUME NEW j \in 1..n, j # k PROVE \E i \in 1..(n - 1) : At(i) = j
    OBVIOUS
  <2>1. CASE j < k
    <3>1. j \in 1..(n - 1) /\ At(j) = j
      BY <1>1, <2>1
    <3> QED BY <3>1
  <2>2. CASE j > k
    <3>1. j - 1 \in 1..(n - 1) /\ At(j - 1) = j
      BY <1>1, <2>2
    <3> QED BY <3>1
  <2> QED BY <1>1, <2>1, <2>2
<1>11. \A i, j \in 1..(n - 1) : At(i) = At(j) => i = j
  BY <1>1
<1> HIDE DEF At
<1>12. \A i, j \in 1..Len(r) : r[i] = r[j] => i = j
  <2> SUFFICES ASSUME NEW i \in 1..(n - 1), NEW j \in 1..(n - 1), r[i] = r[j]
               PROVE  i = j
    BY <1>1
  <2>1. At(i) \in 1..n /\ At(j) \in 1..n /\ s[At(i)] = s[At(j)]
    BY <1>9
  <2>2. At(i) = At(j)
    BY <1>2, <2>1
  <2> QED BY <1>11, <2>2
<1>13. \A u : (\E i \in 1..Len(r) : r[i] = u) <=> u # s[k] /\ \E i \in 1..n : s[i] = u
  <2>1. ASSUME NEW i \in 1..(n - 1) PROVE r[i] # s[k] /\ \E j \in 1..n : s[j] = r[i]
    BY <1>1, <1>2, <1>9
  <2>2. ASSUME NEW j \in 1..n, s[j] # s[k] PROVE \E i \in 1..(n - 1) : r[i] = s[j]
    BY <1>9, <1>10, <2>2
  <2>3. 1..Len(r) = 1..(n - 1)
    BY <1>1
  <2>4. ASSUME NEW u, NEW i \in 1..(n - 1), r[i] = u
        PROVE  u # s[k] /\ \E j \in 1..n : s[j] = u
    BY <2>1, <2>4
  <2>5. ASSUME NEW u, u # s[k], NEW j \in 1..n, s[j] = u
        PROVE  \E i \in 1..(n - 1) : r[i] = u
    BY <2>2, <2>5
  <2> QED BY <2>3, <2>4, <2>5
<1>14. IsList(ny, q, r)
  BY <1>7, <1>8, <1>12 DEF IsList
<1> QED BY <1>1, <1>13, <1>14 DEF n, Lacks

----------------------------------------------------------------------------
(* What is pending on the queues, in every state.                          *)

\* Worklist(next, q) is the list of queue q, and the tasks on it are those
\* whose flag says that they are on a queue and whose queue is q.
Listed(home) ==
  \A q \in Queues :
    /\ Worklist(next, q) \in Seq(Tasks)
    /\ IsList(next, q, Worklist(next, q))
    /\ \A t \in Tasks :
         (\E i \in 1..Len(Worklist(next, q)) : Worklist(next, q)[i] = t)
           <=> onqueue[t] /\ home[t] = q

\* A thread that runs a task has it; the first thread is the only one.
WorkInHand ==
  \A q \in Queues :
    /\ work[q] # None <=> worker[q] = "run"
    /\ creator[q] \in {"start", "spawn"} => worker[q] = "none"

\* The cells of a list are linked, and no other queue's list has them.
LEMMA CellsAreLinked ==
  ASSUME NEW home, CallsMatch(home), Listed(home), NEW q \in Queues,
         NEW i \in 1..(Len(Worklist(next, q)) + 1)
  PROVE  /\ Cell(q, Worklist(next, q), i) \in Cells
         /\ Linked(home, q, Cell(q, Worklist(next, q), i))
<1> DEFINE s == Worklist(next, q)
<1>1. s \in Seq(Tasks) /\ Len(s) \in Nat
  BY LenProperties DEF Listed
<1>2. \A t \in Tasks : (\E j \in 1..Len(s) : s[j] = t) => onqueue[t] /\ home[t] = q
  BY DEF Listed
<1> HIDE DEF s
<1>3. CASE i = 1
  BY <1>3 DEF Cell, Linked, Cells
<1>4. CASE i # 1
  <2>1. i - 1 \in 1..Len(s)
    BY <1>1, <1>4 DEF s
  <2>2. s[i - 1] \in Tasks /\ onqueue[s[i - 1]] /\ home[s[i - 1]] = q
    BY <1>1, <1>2, <2>1, ElementOfSeq
  <2>3. Cell(q, s, i) = s[i - 1]
    BY <1>4 DEF Cell
  <2> QED BY <2>2, <2>3 DEF Linked, Cells, s
<1> QED BY <1>3, <1>4

LEMMA LinkedOnce ==
  ASSUME NEW home, NEW q \in Queues, NEW p \in Queues, NEW x,
         Linked(home, q, x), Linked(home, p, x)
  PROVE  p = q
BY NullAssumption DEF Linked

\* A list none of whose cells is written is the list it was.
LEMMA SameList ==
  ASSUME NEW nx, NEW q, NEW s \in Seq(Tasks), IsList(nx, q, s),
         NEW ny, \A i \in 1..(Len(s) + 1) : ny[Cell(q, s, i)] = nx[Cell(q, s, i)]
  PROVE  IsList(ny, q, s)
<1>1. Len(s) \in Nat
  BY LenProperties
<1>2. 1..Len(s) \subseteq 1..(Len(s) + 1) /\ Len(s) + 1 \in 1..(Len(s) + 1)
  BY <1>1
<1> QED BY <1>2, Zenon DEF IsList, IsChain

\* TAILQ_INSERT_TAIL appends to the list.
LEMMA InsertAppends ==
  ASSUME NEW home, CallsMatch(home), QueueInv(home), Listed(home),
         NEW t \in Tasks, ~onqueue[t],
         InsertAtTail(home[t], t), onqueue' = [onqueue EXCEPT ![t] = TRUE]
  PROVE  Listed(home)' /\ pending' = [pending EXCEPT ![home[t]] = Append(@, t)]
<1> DEFINE q == home[t]
           W(p) == Worklist(next, p)
           Pts(p, i) == Cell(p, W(p), i)
           V(p) == IF p = q THEN Append(W(p), t) ELSE W(p)
<1>0. /\ q \in Queues /\ t \in Cells /\ t # None
      /\ next \in [Cells -> Tasks \cup {None}]
      /\ tail[q] \in Cells /\ onqueue \in [Tasks -> BOOLEAN]
  BY NullAssumption DEF CallsMatch, Cells, QueueInv, TypeOK
<1>1. \A p \in Queues : /\ W(p) \in Seq(Tasks) /\ IsList(next, p, W(p)) /\ Len(W(p)) \in Nat
                        /\ \A u \in Tasks : (\E i \in 1..Len(W(p)) : W(p)[i] = u)
                                               <=> onqueue[u] /\ home[u] = p
  BY LenProperties DEF Listed
<1>2. \A p \in Queues : \A i \in 1..(Len(W(p)) + 1) :
        Pts(p, i) \in Cells /\ Linked(home, p, Pts(p, i))
  BY CellsAreLinked
<1> HIDE DEF q, W, Pts
<1>3. /\ ~ \E p \in Queues : Linked(home, p, t)
      /\ Linked(home, q, tail[q])
      /\ \A x \in Cells : Linked(home, q, x) => (next[x] = None <=> x = tail[q])
  BY <1>0, NullAssumption DEF QueueInv, ListsAreLinked, TailIsTheEnd, Linked
<1>4. \A x \in Cells : next'[x] = IF x = tail[q] THEN t ELSE IF x = t THEN None ELSE next[x]
  BY <1>0, <1>3 DEF InsertAtTail, q
<1>5. ASSUME NEW p \in Queues, p # q
      PROVE  IsList(next', p, W(p))
  <2>1. \A i \in 1..(Len(W(p)) + 1) : Pts(p, i) # tail[q] /\ Pts(p, i) # t
    BY <1>0, <1>2, <1>3, <1>5, LinkedOnce
  <2>2. \A i \in 1..(Len(W(p)) + 1) : next'[Cell(p, W(p), i)] = next[Cell(p, W(p), i)]
    BY <1>2, <1>4, <2>1 DEF Pts
  <2> QED BY <1>1, <2>2, SameList
<1>6. /\ Append(W(q), t) \in Seq(Tasks)
      /\ \A u : (\E i \in 1..Len(Append(W(q), t)) : Append(W(q), t)[i] = u)
                     <=> u = t \/ \E i \in 1..Len(W(q)) : W(q)[i] = u
      /\ IsList(next', q, Append(W(q), t))
  <2> DEFINE n == Len(W(q))
  <2>1. n \in Nat /\ W(q) \in Seq(Tasks) /\ IsList(next, q, W(q))
    BY <1>0, <1>1
  <2>2. Pts(q, n + 1) = tail[q]
    <3>1. next[Pts(q, n + 1)] = None
      BY <2>1 DEF IsList, Pts
    <3> QED BY <1>0, <1>2, <1>3, <2>1, <3>1
  <2>3. \A i \in 1..n : Pts(q, i) # tail[q] /\ Pts(q, i) # t
    <3> SUFFICES ASSUME NEW i \in 1..n PROVE Pts(q, i) # tail[q] /\ Pts(q, i) # t
      OBVIOUS
    <3>1. next[Pts(q, i)] = W(q)[i]
      BY <2>1 DEF IsList, IsChain, Pts
    <3>2. W(q)[i] # None
      BY <2>1, ElementOfSeq, NullAssumption DEF Cells
    <3>3. Pts(q, i) \in Cells /\ Linked(home, q, Pts(q, i))
      <4>1. i \in 1..(n + 1)
        BY <2>1
      <4> QED BY <1>0, <1>2, <4>1
    <3> QED BY <1>0, <1>3, <3>1, <3>2, <3>3
  <2>4. \A i \in 1..n : W(q)[i] # t
    BY <1>0, <1>1
  <2>5. next'[Pts(q, n + 1)] = t
    BY <1>0, <1>4, <2>2
  <2>6. next'[t] = None
    BY <1>0, <1>3, <1>4
  <2>7. \A i \in 1..n : next'[Pts(q, i)] = next[Pts(q, i)]
    <3>1. \A i \in 1..n : Pts(q, i) \in Cells
      <4>1. 1..n \subseteq 1..(n + 1)
        BY <2>1
      <4> QED BY <1>0, <1>2, <4>1
    <3> QED BY <1>4, <2>3, <3>1
  <2> QED BY <2>1, <2>4, <2>5, <2>6, <2>7, AppendToList DEF Pts
<1>7. \A p \in Queues : V(p) \in Seq(Tasks) /\ IsList(next', p, V(p))
  BY <1>0, <1>1, <1>5, <1>6
<1>8. \A p \in Queues : Worklist(next, p)' = V(p)
  BY <1>7, ListIsWorklist
<1>9. ASSUME NEW p \in Queues, NEW u \in Tasks
      PROVE  (\E i \in 1..Len(V(p)) : V(p)[i] = u) <=> onqueue'[u] /\ home[u] = p
  <2>1. onqueue'[u] <=> u = t \/ onqueue[u]
    BY <1>0
  <2>2. CASE p = q
    BY <1>1, <1>6, <2>1, <2>2 DEF q
  <2>3. CASE p # q
    BY <1>1, <2>1, <2>3 DEF q
  <2> QED BY <2>2, <2>3
<1>10. Listed(home)'
  <2> HIDE DEF V
  <2> QED BY <1>7, <1>8, <1>9 DEF Listed
<1>11. pending' = [p \in Queues |-> V(p)]
  BY <1>8 DEF pending
<1>12. pending = [p \in Queues |-> W(p)]
  BY DEF pending, W
<1>13. pending' = [pending EXCEPT ![q] = Append(@, t)]
  BY <1>0, <1>11, <1>12
<1> QED BY <1>10, <1>13 DEF q

\* Task t is taken out of the tasks pending on queue q.
TakenOut(q, t) ==
  \E k \in 1..Len(Worklist(next, q)) :
    /\ Worklist(next, q)[k] = t
    /\ pending' = [pending EXCEPT ![q] = Service!RemoveAt(@, k)]

\* TAILQ_REMOVE takes one task out of the list, and leaves its other tasks in
\* their order.
LEMMA RemoveTakesOut ==
  ASSUME NEW home, CallsMatch(home), QueueInv(home), Listed(home),
         NEW t \in Tasks, onqueue[t],
         Remove(home[t], t), onqueue' = [onqueue EXCEPT ![t] = FALSE]
  PROVE  Listed(home)' /\ TakenOut(home[t], t)
<1> DEFINE q == home[t]
           W(p) == Worklist(next, p)
           Pts(p, i) == Cell(p, W(p), i)
           a == prev[t]
<1>0. /\ q \in Queues /\ t \in Cells /\ t # None
      /\ next \in [Cells -> Tasks \cup {None}] /\ onqueue \in [Tasks -> BOOLEAN]
  BY NullAssumption DEF CallsMatch, Cells, QueueInv, TypeOK
<1>1. \A p \in Queues : /\ W(p) \in Seq(Tasks) /\ IsList(next, p, W(p)) /\ Len(W(p)) \in Nat
                        /\ \A u \in Tasks : (\E i \in 1..Len(W(p)) : W(p)[i] = u)
                                               <=> onqueue[u] /\ home[u] = p
  BY LenProperties DEF Listed
<1>2. \A p \in Queues : \A i \in 1..(Len(W(p)) + 1) :
        Pts(p, i) \in Cells /\ Linked(home, p, Pts(p, i))
  BY CellsAreLinked
<1>3. /\ a \in Cells /\ next[a] = t /\ Linked(home, q, a) /\ Linked(home, q, t)
      /\ next' = [next EXCEPT ![a] = next[t], ![t] = None]
  BY <1>0 DEF QueueInv, ListsAreLinked, PrevPointsHere, Linked, Remove
<1> HIDE DEF q, W, Pts, a
<1>4. \A x \in Cells : x # t => next'[x] = IF x = a THEN next[t] ELSE next[x]
  BY <1>0, <1>3
<1>5. PICK k \in 1..Len(W(q)) : W(q)[k] = t
  BY <1>0, <1>1 DEF q
<1> DEFINE n == Len(W(q))
           r == Service!RemoveAt(W(q), k)
           V(p) == IF p = q THEN r ELSE W(p)
<1>6. /\ n \in Nat /\ k \in 1..n /\ k \in Int
      /\ W(q) \in Seq(Tasks) /\ IsList(next, q, W(q))
      /\ \A i, j \in 1..n : W(q)[i] = W(q)[j] => i = j
  <2>1. n \in Nat /\ W(q) \in Seq(Tasks) /\ IsList(next, q, W(q))
    BY <1>0, <1>1
  <2> QED BY <2>1, <1>5 DEF IsList
<1>7. ASSUME NEW p \in Queues, p # q
      PROVE  IsList(next', p, W(p))
  <2>1. \A i \in 1..(Len(W(p)) + 1) : Pts(p, i) # a /\ Pts(p, i) # t
    BY <1>0, <1>2, <1>3, <1>7, LinkedOnce
  <2>2. \A i \in 1..(Len(W(p)) + 1) : next'[Cell(p, W(p), i)] = next[Cell(p, W(p), i)]
    BY <1>2, <1>4, <2>1 DEF Pts
  <2> QED BY <1>1, <2>2, SameList
<1>8. Pts(q, k) = a /\ a # t
  <2>1. next[Pts(q, k)] = t
    BY <1>5, <1>6 DEF IsList, IsChain, Pts
  <2>2. k \in 1..(n + 1)
    BY <1>6
  <2>3. Pts(q, k) \in Cells /\ Linked(home, q, Pts(q, k))
    BY <1>0, <1>2, <2>2
  <2>4. Pts(q, k) = a
    BY <1>0, <2>1, <2>3 DEF QueueInv, ListsAreLinked, NextPointsBack, a
  <2>5. k # 1 => Pts(q, k) = W(q)[k - 1] /\ k - 1 \in 1..n
    BY <1>6 DEF Pts, Cell
  <2>6. k # 1 => W(q)[k - 1] # t
    BY <1>5, <1>6, <2>5
  <2>7. k = 1 => Pts(q, k) = q
    BY DEF Pts, Cell
  <2>8. q # t
    BY <1>0, NullAssumption
  <2> QED BY <2>4, <2>5, <2>6, <2>7, <2>8
<1>9. ASSUME NEW i \in 1..(n + 1), i # k, i # k + 1
      PROVE  next'[Pts(q, i)] = next[Pts(q, i)]
  <2>1. Pts(q, i) \in Cells
    BY <1>0, <1>2
  <2>2. Pts(q, i) # t
    <3>1. CASE i = 1
      BY <3>1, <1>0, NullAssumption DEF Pts, Cell
    <3>2. CASE i # 1
      <4>1. i - 1 \in 1..n /\ i - 1 # k /\ Pts(q, i) = W(q)[i - 1]
        BY <1>6, <1>9, <3>2 DEF Pts, Cell
      <4> QED BY <1>5, <1>6, <4>1
    <3> QED BY <3>1, <3>2
  <2>3. Pts(q, i) # a
    <3>1. CASE i = n + 1
      <4>1. next[Pts(q, i)] = None
        BY <1>6, <3>1 DEF IsList, Pts
      <4> QED BY <1>0, <1>3, <4>1
    <3>2. CASE i \in 1..n
      <4>1. next[Pts(q, i)] = W(q)[i]
        BY <1>6, <3>2 DEF IsList, IsChain, Pts
      <4> QED BY <1>3, <1>5, <1>6, <1>9, <3>2, <4>1
    <3> QED BY <1>6, <3>1, <3>2
  <2> QED BY <1>4, <2>1, <2>2, <2>3
<1>10. next'[Pts(q, k)] = next[W(q)[k]]
  BY <1>3, <1>4, <1>5, <1>8
<1>11. /\ r \in Seq(Tasks)
       /\ \A u : (\E i \in 1..Len(r) : r[i] = u)
                   <=> u # W(q)[k] /\ \E i \in 1..n : W(q)[i] = u
       /\ IsList(next', q, r)
  <2> DEFINE s == W(q)
             ny == next'
  <2>1. s \in Seq(Tasks) /\ IsList(next, q, s) /\ k \in 1..Len(s)
    BY <1>6
  <2>2. Skips(next, ny, q, s, k)
    BY <1>9, <1>10 DEF Skips, Pts
  <2>3. r = Service!RemoveAt(s, k)
    BY DEF s
  <2> HIDE DEF r, s, ny
  <2>4. /\ r \in Seq(Tasks)
        /\ Lacks(r, s, k) /\ IsList(ny, q, r)
    BY <2>1, <2>2, <2>3, RemoveFromList
  <2> QED BY <2>4 DEF s, ny, Lacks
<1> HIDE DEF r
<1>12. \A p \in Queues : V(p) \in Seq(Tasks) /\ IsList(next', p, V(p))
  BY <1>0, <1>1, <1>7, <1>11
<1>13. \A p \in Queues : Worklist(next, p)' = V(p)
  BY <1>12, ListIsWorklist
<1>14. ASSUME NEW p \in Queues, NEW u \in Tasks
      PROVE  (\E i \in 1..Len(V(p)) : V(p)[i] = u) <=> onqueue'[u] /\ home[u] = p
  <2>1. onqueue'[u] <=> u # t /\ onqueue[u]
    BY <1>0
  <2>2. CASE p = q
    <3>1. (\E i \in 1..Len(r) : r[i] = u) <=> u # t /\ \E i \in 1..Len(W(q)) : W(q)[i] = u
      BY <1>5, <1>11
    <3>2. (\E i \in 1..Len(W(q)) : W(q)[i] = u) <=> onqueue[u] /\ home[u] = q
      BY <1>0, <1>1
    <3> QED BY <2>1, <2>2, <3>1, <3>2
  <2>3. CASE p # q
    BY <1>1, <2>1, <2>3 DEF q
  <2> QED BY <2>2, <2>3
<1>15. Listed(home)'
  <2> HIDE DEF V
  <2> QED BY <1>12, <1>13, <1>14 DEF Listed
<1>16. pending' = [p \in Queues |-> V(p)] /\ pending = [p \in Queues |-> W(p)]
  BY <1>13 DEF pending, W
<1>17. pending' = [pending EXCEPT ![q] = Service!RemoveAt(@, k)]
  BY <1>0, <1>16 DEF r
<1> QED BY <1>5, <1>15, <1>17 DEF q, W, TakenOut

----------------------------------------------------------------------------
(* The queues implement TaskService.                                       *)

LEMMA InitListed ==
  ASSUME NEW home, CallsMatch(home), Init
  PROVE  /\ Listed(home) /\ WorkInHand
         /\ pending = [q \in Queues |-> <<>>] /\ work = [q \in Queues |-> None]
<1>1. ASSUME NEW q \in Queues PROVE <<>> \in Seq(Tasks) /\ IsList(next, q, <<>>)
  <2>1. next[q] = None
    BY DEF Init, Cells
  <2>2. Len(<<>>) = 0 /\ <<>> \in Seq(Tasks)
    BY EmptySeq
  <2> QED BY <2>1, <2>2 DEF IsList, IsChain, Cell
<1>2. \A q \in Queues : Worklist(next, q) = <<>>
  BY <1>1, ListIsWorklist
<1>3. \A t \in Tasks : ~onqueue[t]
  BY DEF Init
<1>4. Len(<<>>) = 0
  OBVIOUS
<1>5. Listed(home)
  <2> DEFINE W(q) == Worklist(next, q)
  <2>1. ASSUME NEW q \in Queues
        PROVE  /\ W(q) \in Seq(Tasks) /\ IsList(next, q, W(q))
               /\ ~ \E i \in 1..Len(W(q)) : TRUE
    <3>1. W(q) = <<>> /\ <<>> \in Seq(Tasks) /\ IsList(next, q, <<>>)
      BY <1>1, <1>2
    <3>2. ~ \E i \in 1..Len(<<>>) : TRUE
      BY <1>4
    <3> HIDE DEF W
    <3> QED BY ONLY <3>1, <3>2, Zenon
  <2>2. ASSUME NEW q \in Queues, NEW t \in Tasks
        PROVE  (\E i \in 1..Len(W(q)) : W(q)[i] = t) <=> onqueue[t] /\ home[t] = q
    BY <1>3, <2>1
  <2> QED BY <2>1, <2>2, Zenon DEF Listed
<1>6. WorkInHand /\ work = [q \in Queues |-> None]
  BY DEF Init, WorkInHand
<1> QED BY <1>2, <1>5, <1>6 DEF pending

\* A step that leaves the links alone leaves what is pending.
LEMMA SamePending ==
  ASSUME NEW home, Listed(home), UNCHANGED links
  PROVE  Listed(home)' /\ UNCHANGED pending
BY DEF Listed, links, pending

\* The tasks on the queues are those whose flag says so.
LEMMA PendingFlag ==
  ASSUME NEW home, CallsMatch(home), Listed(home), NEW t \in Tasks
  PROVE  Service!IsPending(t) <=> onqueue[t]
<1>1. \A q \in Queues : /\ pending[q] = Worklist(next, q)
                        /\ DOMAIN pending[q] = 1..Len(pending[q])
  BY LenProperties DEF Listed, pending
<1>2. \A q \in Queues : (\E i \in DOMAIN pending[q] : pending[q][i] = t)
                           <=> onqueue[t] /\ home[t] = q
  BY <1>1 DEF Listed
<1>3. home[t] \in Queues
  BY DEF CallsMatch
<1>4. Service!IsPending(t) <=> \E q \in Queues : \E i \in DOMAIN pending[q] : pending[q][i] = t
  BY DEF Service!IsPending, Service!ToSet
<1> QED BY <1>2, <1>3, <1>4

\* The step of the refinement.
LEMMA StepService ==
  ASSUME NEW home, CallsMatch(home), QueueInv(home), Listed(home), WorkInHand,
         [Next]_vars
  PROVE  Listed(home)' /\ WorkInHand' /\ [Service!ServiceNext]_(Service!vars)
<1> DEFINE Goal == Listed(home)' /\ WorkInHand' /\ [Service!ServiceNext]_(Service!vars)
<1>0. TypeOK /\ ThreadsCounted /\ CallsAreMade /\ ListsAreLinked(home)
  BY DEF QueueInv
<1>1. ASSUME UNCHANGED <<links, work>> PROVE Listed(home)' /\ UNCHANGED Service!vars
  BY <1>1, SamePending DEF Service!vars
<1>2. ASSUME NEW q \in Queues, Creator(q) PROVE Goal
  <2>1. UNCHANGED <<links, work>>
    BY <1>2 DEF Creator, CreatorStart, Spawn, SpawnFails, Spawned
  <2>2. WorkInHand'
    BY <1>0, <1>2, ThreadAssumption
       DEF Creator, CreatorStart, Spawn, SpawnFails, Spawned, WorkInHand, TypeOK,
           ThreadsCounted
  <2> QED BY <1>1, <2>1, <2>2
<1>3. ASSUME NEW q \in Queues, NextWork(q) PROVE Goal
  <2> DEFINE t == next[q]
             s == Worklist(next, q)
  <2>1. t \in Tasks /\ onqueue[t] /\ home[t] = q /\ t # None
    BY <1>0, <1>3, NullAssumption
       DEF NextWork, ListsAreLinked, NextPointsBack, Linked, Cells, TypeOK
  <2>2. Remove(home[t], t) /\ onqueue' = [onqueue EXCEPT ![t] = FALSE]
    BY <1>3, <2>1 DEF NextWork
  <2>3. /\ s \in Seq(Tasks) /\ IsList(next, q, s) /\ pending[q] = s /\ DOMAIN s = 1..Len(s)
        /\ Len(s) \in Nat
    BY LenProperties DEF Listed, pending
  <2> HIDE DEF t, s
  <2>4. Listed(home)'
    BY <2>1, <2>2, RemoveTakesOut
  <2>5. PICK k \in 1..Len(s) : s[k] = t /\ pending' = [pending EXCEPT ![q] = Service!RemoveAt(@, k)]
    <3>1. TakenOut(q, t)
      BY <2>1, <2>2, RemoveTakesOut
    <3> QED BY <3>1 DEF TakenOut, s
  <2>6. 1 \in 1..Len(s) /\ s[1] = t /\ s # <<>>
    <3>1. 1 \in 1..Len(s)
      BY <2>3, <2>5
    <3>2. Cell(q, s, 1) = q
      BY DEF Cell
    <3>3. s[1] = t
      BY <2>3, <3>1, <3>2 DEF IsList, IsChain, t
    <3> QED BY <3>1, <3>3, EmptySeq
  <2>7. k = 1
    BY <2>3, <2>5, <2>6 DEF IsList
  <2>8. Head(s) = t
    BY <2>3, <2>6
  <2>9. Service!RemoveAt(s, 1) = Tail(s)
    <3> DEFINE r == Service!RemoveAt(s, 1)
    <3>1. /\ r \in Seq(Tasks) /\ Len(r) = Len(s) - 1
          /\ \A i \in 1..(Len(s) - 1) : r[i] = IF i < 1 THEN s[i] ELSE s[i + 1]
      BY <2>3, <2>6, RemovedAt
    <3> HIDE DEF r
    <3>2. /\ Tail(s) \in Seq(Tasks) /\ Len(Tail(s)) = Len(s) - 1
          /\ \A i \in 1..(Len(s) - 1) : Tail(s)[i] = s[i + 1]
      BY <2>3, <2>6, HeadTailProperties
    <3>3. \A i \in 1..Len(r) : r[i] = Tail(s)[i]
      BY <2>3, <3>1, <3>2
    <3>4. r = Tail(s)
      BY <3>1, <3>2, <3>3, SeqEqual
    <3> QED BY <3>4 DEF r
  <2>10. pending' = [pending EXCEPT ![q] = Tail(@)]
    BY <2>3, <2>5, <2>7, <2>9
  <2>11. work' = [work EXCEPT ![q] = Head(pending[q])] /\ work[q] = None
    BY <1>3, <2>3, <2>8 DEF NextWork, WorkInHand, t
  <2>12. Service!Take(q)
    BY <2>3, <2>6, <2>10, <2>11 DEF Service!Take
  <2>13. WorkInHand'
    BY <1>0, <1>3, <2>1 DEF NextWork, WorkInHand, TypeOK, t
  <2> QED BY <2>4, <2>12, <2>13 DEF Service!ServiceNext
<1>4. ASSUME NEW q \in Queues, NoWork(q) PROVE Goal
  <2>1. WorkInHand'
    BY <1>0, <1>4 DEF NoWork, WorkInHand, TypeOK
  <2> QED BY <1>1, <1>4, <2>1 DEF NoWork
<1>5. ASSUME NEW q \in Queues, WorkDone(q) PROVE Goal
  <2>1. Listed(home)' /\ UNCHANGED pending
    BY <1>5, SamePending DEF WorkDone
  <2>2. work[q] # None /\ work' = [work EXCEPT ![q] = None]
    BY <1>5 DEF WorkDone, WorkInHand
  <2>3. Service!Finish(q)
    BY <2>1, <2>2 DEF Service!Finish
  <2>4. WorkInHand'
    BY <1>0, <1>5 DEF WorkDone, WorkInHand, TypeOK
  <2> QED BY <2>1, <2>3, <2>4 DEF Service!ServiceNext
<1>6. ASSUME NEW c \in Callers,
             Begin(c) \/ TestOnQueue(c) \/ TestWasStale(c)
      PROVE  Goal
  <2>1. UNCHANGED <<links, threads>>
    BY <1>6 DEF Begin, TestOnQueue, TestWasStale
  <2>2. WorkInHand'
    BY <2>1 DEF threads, WorkInHand
  <2> QED BY <1>1, <2>1, <2>2 DEF threads
<1>7. ASSUME NEW c \in Callers, AddTask(c) PROVE Goal
  <2> DEFINE t == call[c].w
             q == call[c].tq
  <2>1. t \in Tasks /\ q = home[t] /\ q \in Queues /\ ~onqueue[t]
    BY <1>0, <1>7, CallArguments DEF AddTask
  <2>2. /\ InsertAtTail(q, t) /\ onqueue' = [onqueue EXCEPT ![t] = TRUE]
        /\ UNCHANGED threads
    BY <1>7 DEF AddTask
  <2> HIDE DEF t, q
  <2>3. Listed(home)' /\ pending' = [pending EXCEPT ![q] = Append(@, t)]
    BY <2>1, <2>2, InsertAppends
  <2>4. Service!Add(q, t)
    BY <2>1, <2>2, <2>3, PendingFlag DEF Service!Add, threads
  <2>5. WorkInHand'
    BY <2>2 DEF threads, WorkInHand
  <2> QED BY <2>1, <2>3, <2>4, <2>5 DEF Service!ServiceNext
<1>8. ASSUME NEW c \in Callers, DelTask(c) PROVE Goal
  <2> DEFINE t == call[c].w
             q == call[c].tq
  <2>1. t \in Tasks /\ q = home[t] /\ q \in Queues /\ onqueue[t]
    BY <1>0, <1>8, CallArguments DEF DelTask
  <2>2. /\ Remove(q, t) /\ onqueue' = [onqueue EXCEPT ![t] = FALSE]
        /\ UNCHANGED threads
    BY <1>8 DEF DelTask
  <2> HIDE DEF t, q
  <2>3. Listed(home)'
    BY <2>1, <2>2, RemoveTakesOut
  <2>4. PICK k \in 1..Len(Worklist(next, q)) :
          /\ Worklist(next, q)[k] = t
          /\ pending' = [pending EXCEPT ![q] = Service!RemoveAt(@, k)]
    <3>1. TakenOut(q, t)
      BY <2>1, <2>2, RemoveTakesOut
    <3> QED BY <3>1 DEF TakenOut
  <2>5. pending[q] = Worklist(next, q) /\ DOMAIN pending[q] = 1..Len(Worklist(next, q))
    BY <2>1, LenProperties DEF Listed, pending
  <2>6. k \in DOMAIN pending[q] /\ pending[q][k] = t
    BY <2>4, <2>5
  <2>7. UNCHANGED work
    BY <2>2 DEF threads
  <2>8. Service!Delete(q, t)
    <3>1. t \in Service!ToSet(pending[q])
      BY <2>6 DEF Service!ToSet
    <3> QED BY <2>4, <2>6, <2>7, <3>1 DEF Service!Delete
  <2>9. WorkInHand'
    BY <2>2 DEF threads, WorkInHand
  <2> QED BY <2>1, <2>3, <2>8, <2>9 DEF Service!ServiceNext
<1>9. ASSUME NEW c \in Callers, WakeOne(c) PROVE Goal
  <2>1. UNCHANGED <<links, creator, work>> /\ call[c].tq \in Queues
    BY <1>0, <1>9, CallArguments DEF WakeOne
  <2>2. \A q \in Queues : /\ worker'[q] = "run" <=> worker[q] = "run"
                          /\ worker'[q] = "none" <=> worker[q] = "none"
    BY <1>0, <1>9, <2>1 DEF WakeOne, TypeOK
  <2>3. WorkInHand'
    BY <2>1, <2>2 DEF WorkInHand
  <2> QED BY <1>1, <2>1, <2>3
<1>10. CASE UNCHANGED vars
  <2>1. WorkInHand'
    BY <1>10 DEF vars, threads, WorkInHand
  <2> QED BY <1>1, <1>10, <2>1 DEF vars, threads
<1> QED
  BY <1>2, <1>3, <1>4, <1>5, <1>6, <1>7, <1>8, <1>9, <1>10
     DEF Next, Worker, Caller

\* The TAILQs with their locks, flags and wakeups implement the task service:
\* first in, first out, nothing lost, nothing taken twice, nothing taken that
\* was deleted in time.
THEOREM QueuesRefineService ==
  ASSUME NEW home, CallsMatch(home)
  PROVE  Spec => ServiceRefined
<1>1. Init => QueueInv(home) /\ Listed(home) /\ WorkInHand /\ Service!ServiceInit
  BY InitQueue, InitListed DEF Service!ServiceInit
<1>2. QueueInv(home) /\ Listed(home) /\ WorkInHand /\ [Next]_vars
        => /\ QueueInv(home)' /\ Listed(home)' /\ WorkInHand'
           /\ [Service!ServiceNext]_(Service!vars)
  BY StepQueue, StepService
<1> QED BY <1>1, <1>2, PTL DEF Spec, ServiceRefined, Service!ServiceSpec
=============================================================================
