------------------------ MODULE ComputeKernel_proofs ------------------------
(***************************************************************************)
(* Proofs about ComputeKernel, for every set of nodes and tasks, every     *)
(* kind and weight of a node and every timeout.  IInv is inductive; RunOnce,*)
(* ReturnIsConsistent and TimeoutIsHonest are conjuncts of it, EndIsFinal  *)
(* and the refinement of RequestReply follow from it step by step.         *)
(***************************************************************************)
EXTENDS ComputeKernel, FiniteSetTheorems, WellFoundedInduction, TLAPS

\* What Append does to a queue.
LEMMA AppendFacts ==
  ASSUME NEW S, NEW q \in Seq(S), NEW e \in S
  PROVE  /\ Append(q, e) \in Seq(S)
         /\ Len(Append(q, e)) = Len(q) + 1
         /\ \A i \in 1 .. Len(q) : Append(q, e)[i] = q[i]
         /\ Append(q, e)[Len(q) + 1] = e
  OBVIOUS

\* What Head and Tail do to a queue that is not empty.
LEMMA TailFacts ==
  ASSUME NEW S, NEW q \in Seq(S), q # <<>>
  PROVE  /\ Head(q) \in S
         /\ Head(q) = q[1]
         /\ Len(q) \in Nat \ {0}
         /\ Tail(q) \in Seq(S)
         /\ Len(Tail(q)) = Len(q) - 1
         /\ \A i \in 1 .. Len(Tail(q)) : Tail(q)[i] = q[i + 1]
  OBVIOUS

\* Kept apart: the prover loses it among the facts of a step.
LEMMA OneIsNotZero == \A x : x = 1 => x # 0
OBVIOUS

\* Every place of every queue holds a task.
LEMMA QueuesHoldTasks ==
  ASSUME TypeOK
  PROVE  /\ \A i \in 1 .. Len(task_queue) : task_queue[i] \in Tasks
         /\ \A n \in Nodes : \A i \in 1 .. Len(node_queue[n]) : node_queue[n][i] \in Tasks
<1>1. task_queue \in Seq(Tasks) /\ \A n \in Nodes : node_queue[n] \in Seq(Tasks)
  BY DEF TypeOK
<1>2. QED
  BY <1>1

\* A task nobody waits for yet is in no queue.
LEMMA IdleIsNotQueued ==
  ASSUME QueuedOnce, NEW t, waiter[t] = "idle"
  PROVE  /\ \A i \in 1 .. Len(task_queue) : task_queue[i] # t
         /\ \A n \in Nodes : \A i \in 1 .. Len(node_queue[n]) : node_queue[n][i] # t
<1>1. \A i \in 1 .. Len(task_queue) : task_queue[i] # t
  BY DEF QueuedOnce
<1>2. \A n \in Nodes : \A i \in 1 .. Len(node_queue[n]) : node_queue[n][i] # t
  BY DEF QueuedOnce
<1>3. QED
  BY <1>1, <1>2

\* The empty kernel satisfies the inductive invariant.
THEOREM InitIInv == Init => IInv
<1> SUFFICES ASSUME Init PROVE IInv
  OBVIOUS
<1> USE KernelAssumption, NoneIsNew DEF Init
<1>1. TypeOK
  BY DEF TypeOK, TaskState, Outcome
<1>2. QED
  BY <1>1 DEF IInv, QueuedOnce, RunningOnce, Progress, RunOnce,
     ReturnIsConsistent, TimeoutIsHonest

\* A step that leaves the queues alone and makes no caller idle again.
LEMMA QueuesFrame ==
  ASSUME TypeOK, QueuedOnce, UNCHANGED <<task_queue, node_queue, runs>>,
         \A t \in Tasks : waiter[t] # "idle" => waiter'[t] # "idle"
  PROVE  QueuedOnce'
<1>1. /\ \A i \in 1 .. Len(task_queue) : task_queue[i] \in Tasks
      /\ \A n \in Nodes : \A i \in 1 .. Len(node_queue[n]) : node_queue[n][i] \in Tasks
  BY DEF TypeOK
<1>2. /\ task_queue' = task_queue /\ node_queue' = node_queue /\ runs' = runs
  OBVIOUS
<1>3. ASSUME NEW i \in 1 .. Len(task_queue)
      PROVE  /\ waiter'[task_queue[i]] # "idle" /\ runs[task_queue[i]] = 0
             /\ \A j \in 1 .. Len(task_queue) : task_queue[i] = task_queue[j] => i = j
  BY <1>1 DEF QueuedOnce
<1>4. ASSUME NEW n \in Nodes, NEW i \in 1 .. Len(node_queue[n])
      PROVE  /\ waiter'[node_queue[n][i]] # "idle" /\ runs[node_queue[n][i]] = 0
             /\ node_queue[n][i] \in Supports[n]
             /\ \A j \in 1 .. Len(task_queue) : node_queue[n][i] # task_queue[j]
             /\ \A m \in Nodes : \A j \in 1 .. Len(node_queue[m]) :
                  node_queue[n][i] = node_queue[m][j] => n = m /\ i = j
  BY <1>1 DEF QueuedOnce
<1>5. QED
  BY <1>2, <1>3, <1>4 DEF QueuedOnce

\* A step that leaves a task alone.
LEMMA ProgressFrame ==
  ASSUME NEW t, Progress(t),
         waiter'[t] = waiter[t], runs'[t] = runs[t], finished'[t] = finished[t],
         result'[t] = result[t], state'[t] = state[t], checks'[t] = checks[t],
         got'[t] = got[t], LeftUndone(t) => LeftUndone(t)'
  PROVE  Progress(t)'
BY DEF Progress

\* A loop that died stays dead, and what it may have left undone stays so.
LEMMA LeftStaysLeft ==
  ASSUME \A n \in Nodes : loop[n] = "dead" => loop'[n] = "dead"
  PROVE  \A t : LeftUndone(t) => LeftUndone(t)'
BY DEF LeftUndone, Describes

\* A step that hands nothing back and gives no check to a caller that returned.
LEMMA ReturnsFrame ==
  ASSUME ReturnIsConsistent, got' = got,
         \A t \in Tasks : got[t] # None => checks'[t] = checks[t],
         \A t : LeftUndone(t) => LeftUndone(t)'
  PROVE  ReturnIsConsistent'
BY DEF ReturnIsConsistent

\* add_compute_node touches no task.
LEMMA AddNodeStep ==
  ASSUME IInv, NEW n \in Nodes, AddNode(n)
  PROVE  IInv'
<1> USE KernelAssumption, NoneIsNew DEF AddNode, IInv
<1>1. TypeOK'
  <2>1. nodes' \in Seq(Nodes)
    BY AppendFacts DEF TypeOK
  <2>2. QED
    BY <2>1 DEF TypeOK
<1>2. QueuedOnce'
  BY QueuesFrame
<1>3. RunningOnce'
  BY DEF RunningOnce, TypeOK
<1>u. \A u : LeftUndone(u) => LeftUndone(u)'
  BY LeftStaysLeft DEF RunningOnce, TypeOK
<1>4. \A t \in Tasks : Progress(t)'
  BY <1>u, ProgressFrame
<1>5. (RunOnce /\ TimeoutIsHonest)'
  BY DEF RunOnce, TimeoutIsHonest
<1>6. ReturnIsConsistent'
  BY <1>u, ReturnsFrame
<1>7. QED
  BY <1>1, <1>2, <1>3, <1>4, <1>5, <1>6

\* Starting the loop of the kernel touches nothing else.
LEMMA StartStep ==
  ASSUME IInv, Start
  PROVE  IInv'
<1> USE KernelAssumption, NoneIsNew DEF Start, IInv
<1>1. TypeOK'
  BY DEF TypeOK
<1>2. QueuedOnce'
  BY QueuesFrame
<1>3. RunningOnce'
  BY DEF RunningOnce
<1>u. \A u : LeftUndone(u) => LeftUndone(u)'
  BY LeftStaysLeft
<1>4. \A t \in Tasks : Progress(t)'
  BY <1>u, ProgressFrame
<1>5. (RunOnce /\ TimeoutIsHonest)'
  BY DEF RunOnce, TimeoutIsHonest
<1>6. ReturnIsConsistent'
  BY <1>u, ReturnsFrame
<1>7. QED
  BY <1>1, <1>2, <1>3, <1>4, <1>5, <1>6

\* A task that is submitted is in no queue yet.
LEMMA SubmitStep ==
  ASSUME IInv, NEW t \in Tasks, Submit(t)
  PROVE  IInv'
<1> USE KernelAssumption, NoneIsNew DEF Submit, IInv
<1>a. runs[t] = 0 /\ got[t] = None
  BY DEF Progress, TypeOK
<1>b. /\ waiter'[t] = "waiting"
      /\ \A u \in Tasks : u # t => waiter'[u] = waiter[u]
      /\ \A u \in Tasks : waiter[u] # "idle" => waiter'[u] = waiter[u]
  BY DEF TypeOK
<1>c. /\ task_queue' \in Seq(Tasks)
      /\ \A i \in 1 .. Len(task_queue') :
           \/ i \in 1 .. Len(task_queue) /\ task_queue'[i] = task_queue[i]
           \/ i = Len(task_queue) + 1 /\ task_queue'[i] = t
  BY AppendFacts DEF TypeOK
<1>d. /\ \A i \in 1 .. Len(task_queue) : task_queue[i] # t /\ task_queue[i] \in Tasks
      /\ \A n \in Nodes : \A i \in 1 .. Len(node_queue[n]) :
           node_queue[n][i] # t /\ node_queue[n][i] \in Tasks
  BY QueuesHoldTasks, IdleIsNotQueued
<1>e. UNCHANGED <<node_queue, runs>>
  OBVIOUS
<1>1. TypeOK'
  BY <1>c DEF TypeOK
<1>2. QueuedOnce'
  <2>1. ASSUME NEW i \in 1 .. Len(task_queue')
        PROVE  /\ waiter'[task_queue'[i]] # "idle" /\ runs[task_queue'[i]] = 0
               /\ \A j \in 1 .. Len(task_queue') :
                    task_queue'[i] = task_queue'[j] => i = j
    BY <1>a, <1>b, <1>c, <1>d DEF QueuedOnce
  <2>2. ASSUME NEW n \in Nodes, NEW i \in 1 .. Len(node_queue[n])
        PROVE  /\ waiter'[node_queue[n][i]] # "idle"
               /\ \A j \in 1 .. Len(task_queue') : node_queue[n][i] # task_queue'[j]
    BY <1>a, <1>b, <1>c, <1>d DEF QueuedOnce
  <2>3. QED
    BY <2>1, <2>2, <1>e DEF QueuedOnce
<1>3. RunningOnce'
  BY DEF RunningOnce
<1>u. \A u : LeftUndone(u) => LeftUndone(u)'
  BY LeftStaysLeft
<1>4. \A u \in Tasks : Progress(u)'
  <2> SUFFICES ASSUME NEW u \in Tasks PROVE Progress(u)'
    OBVIOUS
  <2>1. CASE u = t
    BY <2>1, <1>a, <1>b, <1>u DEF Progress
  <2>2. CASE u # t
    BY <2>2, <1>b, <1>u, ProgressFrame
  <2>3. QED
    BY <2>1, <2>2
<1>5. (RunOnce /\ TimeoutIsHonest)'
  BY DEF RunOnce, TimeoutIsHonest
<1>6. ReturnIsConsistent'
  BY <1>u, ReturnsFrame
<1>7. QED
  BY <1>1, <1>2, <1>3, <1>4, <1>5, <1>6

\* check_timer may only turn a task that has no answer into an ERROR.
LEMMA CheckStep ==
  ASSUME IInv, NEW t \in Tasks, Check(t)
  PROVE  IInv'
<1> USE KernelAssumption, NoneIsNew
<1>0. /\ TypeOK /\ QueuedOnce /\ RunningOnce /\ \A u \in Tasks : Progress(u)
      /\ RunOnce /\ ReturnIsConsistent /\ TimeoutIsHonest
  BY DEF IInv
<1>a. /\ \A u \in Tasks : u # t =>
           waiter'[u] = waiter[u] /\ state'[u] = state[u] /\ checks'[u] = checks[u]
      /\ waiter[t] = "waiting"
      /\ waiter'[t] \in {"waiting", "woken"}
      /\ \/ state'[t] = state[t]
         \/ state'[t] = "ERROR" /\ checks'[t] = CheckLimit /\ waiter'[t] = "woken"
            /\ state[t] \notin {"DONE", "ERROR"}
      /\ state[t] = "ERROR" => checks'[t] = checks[t] /\ waiter'[t] = "woken"
      /\ waiter'[t] = "woken" => state[t] \in {"DONE", "ERROR"} \/ checks'[t] = CheckLimit
  BY <1>0 DEF Check, TypeOK
<1>b. UNCHANGED <<nodes, offered, kernel, task_queue, node_queue, loop, running,
                  result, got, runs, finished>>
  BY DEF Check
<1>1. TypeOK'
  <2>1. state' \in [Tasks -> TaskState]
    BY <1>0 DEF TypeOK, Check, TaskState
  <2>2. waiter' \in [Tasks -> {"idle", "waiting", "woken", "returned"}]
    BY <1>0 DEF TypeOK, Check
  <2>3. checks' \in [Tasks -> 0 .. CheckLimit]
    <3>1. CASE checks[t] < CheckLimit /\ checks' = [checks EXCEPT ![t] = @ + 1]
      BY <1>0, <3>1 DEF TypeOK
    <3>2. CASE UNCHANGED checks
      BY <1>0, <3>2 DEF TypeOK
    <3>3. QED
      BY <3>1, <3>2 DEF Check
  <2>4. QED
    BY <1>0, <1>b, <2>1, <2>2, <2>3 DEF TypeOK
<1>2. QueuedOnce'
  BY <1>0, <1>a, <1>b, QueuesFrame
<1>3. RunningOnce'
  BY <1>0, <1>b DEF RunningOnce
<1>u. \A u : LeftUndone(u) => LeftUndone(u)'
  BY <1>b, LeftStaysLeft
<1>4. \A u \in Tasks : Progress(u)'
  <2> SUFFICES ASSUME NEW u \in Tasks PROVE Progress(u)'
    OBVIOUS
  <2>1. CASE u # t
    BY <1>0, <1>a, <1>b, <1>u, <2>1, ProgressFrame
  <2>2. Progress(t) /\ checks[t] \in Nat
    BY <1>0 DEF TypeOK
  <2>3. CASE u = t
    BY <2>2, <2>3, <1>a, <1>b, <1>u DEF Progress
  <2>4. QED
    BY <2>1, <2>3
<1>5. (RunOnce /\ TimeoutIsHonest)'
  BY <1>0, <1>b DEF RunOnce, TimeoutIsHonest
<1>6. ReturnIsConsistent'
  <2>1. \A u \in Tasks : got[u] # None => waiter[u] = "returned"
    BY <1>0 DEF Progress
  <2>2. got' = got /\ \A u \in Tasks : got[u] # None => checks'[u] = checks[u]
    BY <1>a, <1>b, <2>1
  <2>3. QED
    BY <1>0, <1>u, <2>2, ReturnsFrame
<1>7. QED
  BY <1>1, <1>2, <1>3, <1>4, <1>5, <1>6 DEF IInv

\* What is returned is what the caller finds, and Progress says what that can be.
LEMMA ReturnStep ==
  ASSUME IInv, NEW t \in Tasks, Return(t)
  PROVE  IInv'
<1> USE KernelAssumption, NoneIsNew
<1>0. /\ TypeOK /\ QueuedOnce /\ RunningOnce /\ \A u \in Tasks : Progress(u)
      /\ RunOnce /\ ReturnIsConsistent /\ TimeoutIsHonest
  BY DEF IInv
<1> DEFINE code == IF result[t] # None THEN result[t] ELSE "kernel TIMEOUT"
           snap == Snapshot(t, code)
<1>a. /\ waiter[t] = "woken"
      /\ waiter' = [waiter EXCEPT ![t] = "returned"]
      /\ result' = [result EXCEPT ![t] = code]
      /\ got' = [got EXCEPT ![t] = snap]
      /\ UNCHANGED <<nodes, offered, kernel, task_queue, node_queue, loop, running,
                     state, checks, runs, finished>>
  BY DEF Return
<1>b. /\ code \in Code
      /\ snap \in Returned
      /\ snap # None
      /\ snap.code = code /\ snap.state = state[t]
      /\ snap.finished = finished[t] /\ snap.runs = runs[t]
  <2>1. code \in Code
    BY <1>0 DEF TypeOK, Code
  <2>2. /\ state[t] \in TaskState /\ finished[t] \in Outcome /\ runs[t] \in Nat
    BY <1>0 DEF TypeOK
  <2>3. snap \in Returned
    BY <2>1, <2>2 DEF Returned, Snapshot
  <2>4. QED
    BY <2>1, <2>3 DEF Snapshot
<1>c. /\ waiter'[t] = "returned" /\ result'[t] = code /\ got'[t] = snap
      /\ \A u \in Tasks : u # t =>
           waiter'[u] = waiter[u] /\ result'[u] = result[u] /\ got'[u] = got[u]
  BY <1>0, <1>a DEF TypeOK
<1>d. code = result[t] \/ (result[t] = None /\ code = "kernel TIMEOUT")
  OBVIOUS
<1>p. Progress(t) /\ finished[t] \in Outcome /\ runs[t] \in Nat
  BY <1>0 DEF TypeOK
<1> HIDE DEF code, snap
<1>1. TypeOK'
  BY <1>0, <1>a, <1>b DEF TypeOK
<1>2. QueuedOnce'
  BY <1>0, <1>a, <1>c, QueuesFrame
<1>3. RunningOnce'
  BY <1>0, <1>a DEF RunningOnce
<1>u. \A u : LeftUndone(u) => LeftUndone(u)'
  BY <1>a, LeftStaysLeft
<1>4. \A u \in Tasks : Progress(u)'
  <2> SUFFICES ASSUME NEW u \in Tasks PROVE Progress(u)'
    OBVIOUS
  <2>1. CASE u # t
    BY <1>0, <1>a, <1>c, <1>u, <2>1, ProgressFrame
  <2>2. /\ waiter'[t] = "returned" /\ waiter[t] = "woken"
        /\ runs'[t] = runs[t] /\ finished'[t] = finished[t]
        /\ state'[t] = state[t] /\ checks'[t] = checks[t]
        /\ got'[t] # None /\ got'[t].finished = finished[t]
    BY <1>a, <1>b, <1>c
  <2>3. \/ result'[t] = result[t]
        \/ result[t] = None /\ result'[t] = "kernel TIMEOUT"
    BY <1>c, <1>d
  <2>4. CASE u = t
    <3>1. CASE result'[t] = result[t]
      BY <1>p, <1>u, <2>2, <2>4, <3>1 DEF Progress
    <3>2. CASE result[t] = None /\ result'[t] = "kernel TIMEOUT"
      BY <1>p, <1>u, <2>2, <2>4, <3>2, NoneIsNew DEF Progress, Code
    <3>3. QED
      BY <2>3, <3>1, <3>2
  <2>5. QED
    BY <2>1, <2>4
<1>6. RunOnce'
  BY <1>0, <1>a DEF RunOnce
<1>7. ReturnIsConsistent'
  <2>0. checks' = checks
    BY <1>a
  <2>1. ASSUME NEW u \in Tasks, got'[u] # None, u # t
        PROVE  /\ got'[u].code = "OK" =>
                    \/ got'[u].state = "DONE" /\ got'[u].finished = "ok"
                    \/ got'[u].state = "DONE" /\ got'[u].finished = "err" /\ u \in Pictures
                    \/ got'[u].finished = "no" /\ checks[u] = CheckLimit /\ LeftUndone(u)
               /\ got'[u].state = "DONE" =>
                    \/ got'[u].finished = "ok" /\ got'[u].code \in {"OK", "kernel OK"}
                    \/ /\ got'[u].finished = "err"
                       /\ got'[u].code = IF u \in Pictures THEN "OK" ELSE "ERROR"
    BY <1>0, <1>c, <2>1 DEF ReturnIsConsistent
  <2>2. /\ code = "OK" =>
             \/ state[t] = "DONE" /\ finished[t] = "ok"
             \/ state[t] = "DONE" /\ finished[t] = "err" /\ t \in Pictures
             \/ finished[t] = "no" /\ checks[t] = CheckLimit /\ LeftUndone(t)
        /\ state[t] = "DONE" =>
             \/ finished[t] = "ok" /\ code \in {"OK", "kernel OK"}
             \/ finished[t] = "err" /\ code = IF t \in Pictures THEN "OK" ELSE "ERROR"
    BY <1>a, <1>d, <1>p DEF Progress, Outcome, Code
  <2>3. \A u \in Tasks : LeftUndone(u) => LeftUndone(u)'
    BY <1>u
  <2>4. QED
    BY <1>b, <1>c, <2>0, <2>1, <2>2, <2>3 DEF ReturnIsConsistent
<1>8. TimeoutIsHonest'
  <2> SUFFICES ASSUME NEW u \in Tasks, got'[u] # None
               PROVE  TimeoutIsHonest!(u)'
    BY DEF TimeoutIsHonest
  <2>1. CASE u # t
    BY <1>0, <1>c, <2>1 DEF TimeoutIsHonest
  <2>2. CASE u = t
    BY <1>b, <1>c, <1>d, <1>p, <2>2 DEF Progress, Outcome, Code
  <2>3. QED
    BY <2>1, <2>2
<1>9. QED
  BY <1>1, <1>2, <1>3, <1>4, <1>6, <1>7, <1>8 DEF IInv

\* Two places in the queues of the nodes never hold the same task.
LEMMA NodeQueuesInjective ==
  ASSUME QueuedOnce,
         NEW m \in Nodes, NEW i \in 1 .. Len(node_queue[m]),
         NEW l \in Nodes, NEW j \in 1 .. Len(node_queue[l]),
         node_queue[m][i] = node_queue[l][j]
  PROVE  m = l /\ i = j
BY DEF QueuedOnce

\* A task in the queue of a node is waited for, has not started, is supported
\* there and is not in the queue of the kernel.
LEMMA NodeQueuedFacts ==
  ASSUME QueuedOnce, NEW m \in Nodes, NEW i \in 1 .. Len(node_queue[m])
  PROVE  /\ waiter[node_queue[m][i]] # "idle" /\ runs[node_queue[m][i]] = 0
         /\ node_queue[m][i] \in Supports[m]
         /\ \A j \in 1 .. Len(task_queue) : node_queue[m][i] # task_queue[j]
BY DEF QueuedOnce

\* The three parts of QueuedOnce after a step, put together.
LEMMA QueuedOnceNext ==
  ASSUME \A i \in 1 .. Len(task_queue') :
           /\ waiter'[task_queue'[i]] # "idle" /\ runs'[task_queue'[i]] = 0
           /\ \A j \in 1 .. Len(task_queue') : task_queue'[i] = task_queue'[j] => i = j,
         \A m \in Nodes : \A i \in 1 .. Len(node_queue'[m]) :
           /\ waiter'[node_queue'[m][i]] # "idle" /\ runs'[node_queue'[m][i]] = 0
           /\ node_queue'[m][i] \in Supports[m]
           /\ \A j \in 1 .. Len(task_queue') : node_queue'[m][i] # task_queue'[j],
         \A m \in Nodes : \A i \in 1 .. Len(node_queue'[m]) :
           \A l \in Nodes : \A j \in 1 .. Len(node_queue'[l]) :
             node_queue'[m][i] = node_queue'[l][j] => m = l /\ i = j
  PROVE  QueuedOnce'
BY DEF QueuedOnce

\* Taking a task from the queue of the kernel, whatever happens to it next.
LEMMA QueueTail ==
  ASSUME TypeOK, QueuedOnce, task_queue # <<>>, task_queue' = Tail(task_queue),
         NEW t, t = Head(task_queue)
  PROVE  /\ t \in Tasks /\ waiter[t] # "idle" /\ runs[t] = 0
         /\ task_queue' \in Seq(Tasks)
         /\ \A i \in 1 .. Len(task_queue') :
              /\ i + 1 \in 1 .. Len(task_queue)
              /\ task_queue'[i] = task_queue[i + 1]
              /\ task_queue'[i] \in Tasks /\ task_queue'[i] # t
         /\ \A n \in Nodes : \A i \in 1 .. Len(node_queue[n]) : node_queue[n][i] # t
<1>1. /\ t \in Tasks /\ t = task_queue[1] /\ 1 \in 1 .. Len(task_queue)
      /\ task_queue' \in Seq(Tasks)
      /\ \A i \in 1 .. Len(task_queue') :
           /\ i + 1 \in 1 .. Len(task_queue)
           /\ task_queue'[i] = task_queue[i + 1]
           /\ task_queue'[i] \in Tasks
  BY TailFacts DEF TypeOK
<1>2. /\ waiter[t] # "idle" /\ runs[t] = 0
      /\ \A i \in 1 .. Len(task_queue) : task_queue[i] = t => i = 1
      /\ \A n \in Nodes : \A i \in 1 .. Len(node_queue[n]) : node_queue[n][i] # t
  BY <1>1 DEF QueuedOnce
<1>3. \A i \in 1 .. Len(task_queue') : i + 1 # 1
  OBVIOUS
<1>4. QED
  BY <1>1, <1>2, <1>3

\* A task that is dropped leaves the queue and nothing else changes.
LEMMA DropStep ==
  ASSUME IInv, Drop
  PROVE  IInv'
<1> USE KernelAssumption, NoneIsNew
<1>0. /\ TypeOK /\ QueuedOnce /\ RunningOnce /\ \A u \in Tasks : Progress(u)
      /\ RunOnce /\ ReturnIsConsistent /\ TimeoutIsHonest
  BY DEF IInv
<1>a. /\ task_queue # <<>> /\ task_queue' = Tail(task_queue)
      /\ UNCHANGED <<nodes, offered, kernel, node_queue, loop, running, state,
                     result, waiter, checks, got, runs, finished>>
  BY DEF Drop
<1>1. TypeOK'
  BY <1>0, <1>a, QueueTail DEF TypeOK
<1>2. QueuedOnce'
  <2>1. node_queue' = node_queue /\ waiter' = waiter /\ runs' = runs
    BY <1>a
  <2>2. \A i \in 1 .. Len(task_queue') :
          i + 1 \in 1 .. Len(task_queue) /\ task_queue'[i] = task_queue[i + 1]
    BY <1>0, <1>a, QueueTail
  <2>3. ASSUME NEW i \in 1 .. Len(task_queue')
        PROVE  /\ waiter[task_queue'[i]] # "idle" /\ runs[task_queue'[i]] = 0
               /\ \A j \in 1 .. Len(task_queue') :
                    task_queue'[i] = task_queue'[j] => i = j
    <3>1. /\ waiter[task_queue[i + 1]] # "idle" /\ runs[task_queue[i + 1]] = 0
          /\ \A j \in 1 .. Len(task_queue) :
               task_queue[i + 1] = task_queue[j] => i + 1 = j
      BY <1>0, <2>2 DEF QueuedOnce
    <3>2. QED
      BY <2>2, <3>1
  <2>4. \A n \in Nodes : \A i \in 1 .. Len(node_queue[n]) :
          /\ waiter[node_queue[n][i]] # "idle" /\ runs[node_queue[n][i]] = 0
          /\ node_queue[n][i] \in Supports[n]
          /\ \A j \in 1 .. Len(task_queue') : node_queue[n][i] # task_queue'[j]
    BY <1>0, <2>2, NodeQueuedFacts
  <2>5. \A m \in Nodes : \A i \in 1 .. Len(node_queue[m]) :
          \A l \in Nodes : \A j \in 1 .. Len(node_queue[l]) :
            node_queue[m][i] = node_queue[l][j] => m = l /\ i = j
    BY <1>0, NodeQueuesInjective
  <2>6. \A i \in 1 .. Len(task_queue') :
          /\ waiter'[task_queue'[i]] # "idle" /\ runs'[task_queue'[i]] = 0
          /\ \A j \in 1 .. Len(task_queue') : task_queue'[i] = task_queue'[j] => i = j
    BY <2>1, <2>3
  <2>7. \A n \in Nodes : \A i \in 1 .. Len(node_queue'[n]) :
          /\ waiter'[node_queue'[n][i]] # "idle" /\ runs'[node_queue'[n][i]] = 0
          /\ node_queue'[n][i] \in Supports[n]
          /\ \A j \in 1 .. Len(task_queue') : node_queue'[n][i] # task_queue'[j]
    BY <2>1, <2>4
  <2>8. \A m \in Nodes : \A i \in 1 .. Len(node_queue'[m]) :
          \A l \in Nodes : \A j \in 1 .. Len(node_queue'[l]) :
            node_queue'[m][i] = node_queue'[l][j] => m = l /\ i = j
    BY <2>1, <2>5
  <2>9. QED
    BY <2>6, <2>7, <2>8, QueuedOnceNext
<1>3. RunningOnce'
  BY <1>0, <1>a DEF RunningOnce
<1>u. \A u : LeftUndone(u) => LeftUndone(u)'
  BY <1>a, LeftStaysLeft
<1>4. \A u \in Tasks : Progress(u)'
  BY <1>0, <1>a, <1>u, ProgressFrame
<1>5. (RunOnce /\ TimeoutIsHonest)'
  BY <1>0, <1>a DEF RunOnce, TimeoutIsHonest
<1>6. ReturnIsConsistent'
  BY <1>0, <1>a, <1>u, ReturnsFrame
<1>7. QED
  BY <1>1, <1>2, <1>3, <1>4, <1>5, <1>6 DEF IInv

\* A scheduled task moves to the queue of one node that supports it, or is lost.
LEMMA ScheduleStep ==
  ASSUME IInv, Schedule
  PROVE  IInv'
<1> USE KernelAssumption, NoneIsNew
<1>0. /\ TypeOK /\ QueuedOnce /\ RunningOnce /\ \A u \in Tasks : Progress(u)
      /\ RunOnce /\ ReturnIsConsistent /\ TimeoutIsHonest
  BY DEF IInv
<1>t. PICK t : t = Head(task_queue)
  OBVIOUS
<1>a. PICK i \in Support(t) :
        IF nodes[i] \in Fragile
        THEN kernel' = "dead" /\ UNCHANGED node_queue
        ELSE /\ node_queue' = [node_queue EXCEPT ![nodes[i]] = Append(@, t)]
             /\ UNCHANGED kernel
  BY <1>t DEF Schedule
<1>n. PICK n : n = nodes[i]
  OBVIOUS
<1>b. /\ task_queue # <<>> /\ task_queue' = Tail(task_queue)
      /\ UNCHANGED <<nodes, offered, loop, running, state, result, waiter, checks,
                     got, runs, finished>>
  BY DEF Schedule
<1>c. n \in Nodes /\ t \in Supports[n]
  BY <1>0, <1>t, <1>n DEF Support, TypeOK
<1>d. /\ t \in Tasks /\ waiter[t] # "idle" /\ runs[t] = 0
      /\ task_queue' \in Seq(Tasks)
      /\ \A j \in 1 .. Len(task_queue') :
           /\ j + 1 \in 1 .. Len(task_queue)
           /\ task_queue'[j] = task_queue[j + 1]
           /\ task_queue'[j] \in Tasks /\ task_queue'[j] # t
      /\ \A m \in Nodes : \A j \in 1 .. Len(node_queue[m]) : node_queue[m][j] # t
  BY <1>0, <1>b, <1>t, QueueTail
<1>e. /\ node_queue' \in [Nodes -> Seq(Tasks)]
      /\ \A m \in Nodes : \A j \in 1 .. Len(node_queue'[m]) :
           \/ j \in 1 .. Len(node_queue[m]) /\ node_queue'[m][j] = node_queue[m][j]
           \/ m = n /\ j = Len(node_queue[n]) + 1 /\ node_queue'[m][j] = t
  <2>1. CASE UNCHANGED node_queue
    BY <1>0, <2>1 DEF TypeOK
  <2>2. CASE node_queue' = [node_queue EXCEPT ![n] = Append(@, t)]
    <3>1. node_queue[n] \in Seq(Tasks)
      BY <1>0, <1>c DEF TypeOK
    <3>2. /\ Append(node_queue[n], t) \in Seq(Tasks)
          /\ Len(Append(node_queue[n], t)) = Len(node_queue[n]) + 1
          /\ \A k \in 1 .. Len(node_queue[n]) :
               Append(node_queue[n], t)[k] = node_queue[n][k]
          /\ Append(node_queue[n], t)[Len(node_queue[n]) + 1] = t
      BY <1>d, <3>1, AppendFacts
    <3>3. /\ node_queue' \in [Nodes -> Seq(Tasks)]
          /\ node_queue'[n] = Append(node_queue[n], t)
          /\ \A m \in Nodes : m # n => node_queue'[m] = node_queue[m]
      BY <1>0, <1>c, <2>2, <3>2 DEF TypeOK
    <3>4. Len(node_queue[n]) \in Nat
      BY <3>1
    <3>5. ASSUME NEW j \in 1 .. Len(node_queue'[n])
          PROVE  \/ j \in 1 .. Len(node_queue[n]) /\ node_queue'[n][j] = node_queue[n][j]
                 \/ j = Len(node_queue[n]) + 1 /\ node_queue'[n][j] = t
      BY <3>2, <3>3, <3>4
    <3>6. QED
      BY <3>3, <3>5
  <2>3. QED
    BY <1>a, <1>n, <2>1, <2>2
<1>g. ASSUME NEW m \in Nodes, NEW j \in 1 .. Len(node_queue'[m]),
             node_queue'[m][j] = t
      PROVE  m = n /\ j = Len(node_queue[n]) + 1
  <2>1. CASE j \in 1 .. Len(node_queue[m]) /\ node_queue'[m][j] = node_queue[m][j]
    BY <1>d, <1>g, <2>1
  <2>2. QED
    BY <1>e, <2>1
<1>f. kernel' \in {"off", "running", "dead"}
  BY <1>0, <1>a DEF TypeOK
<1>1. TypeOK'
  BY <1>0, <1>b, <1>d, <1>e, <1>f DEF TypeOK
<1>2. QueuedOnce'
  <2>1. ASSUME NEW k \in 1 .. Len(task_queue')
        PROVE  /\ waiter[task_queue'[k]] # "idle" /\ runs[task_queue'[k]] = 0
               /\ \A j \in 1 .. Len(task_queue') :
                    task_queue'[k] = task_queue'[j] => k = j
    <3>1. /\ k + 1 \in 1 .. Len(task_queue)
          /\ task_queue'[k] = task_queue[k + 1]
      BY <1>d
    <3>2. /\ waiter[task_queue[k + 1]] # "idle" /\ runs[task_queue[k + 1]] = 0
          /\ \A j \in 1 .. Len(task_queue) :
               task_queue[k + 1] = task_queue[j] => k + 1 = j
      BY <1>0, <3>1 DEF QueuedOnce
    <3>3. QED
      BY <1>d, <3>1, <3>2
  <2>2. ASSUME NEW m \in Nodes, NEW k \in 1 .. Len(node_queue'[m])
        PROVE  /\ waiter[node_queue'[m][k]] # "idle"
               /\ runs[node_queue'[m][k]] = 0
               /\ node_queue'[m][k] \in Supports[m]
               /\ \A j \in 1 .. Len(task_queue') : node_queue'[m][k] # task_queue'[j]
    <3>1. CASE k \in 1 .. Len(node_queue[m]) /\ node_queue'[m][k] = node_queue[m][k]
      <4>1. /\ waiter[node_queue[m][k]] # "idle" /\ runs[node_queue[m][k]] = 0
            /\ node_queue[m][k] \in Supports[m]
            /\ \A j \in 1 .. Len(task_queue) : node_queue[m][k] # task_queue[j]
        BY <1>0, <3>1, NodeQueuedFacts
      <4>2. QED
        BY <1>d, <3>1, <4>1
    <3>2. CASE m = n /\ node_queue'[m][k] = t
      BY <1>c, <1>d, <3>2
    <3>3. QED
      BY <1>e, <3>1, <3>2
  <2>3. ASSUME NEW m \in Nodes, NEW k \in 1 .. Len(node_queue'[m]),
               NEW l \in Nodes, NEW j \in 1 .. Len(node_queue'[l]),
               node_queue'[m][k] = node_queue'[l][j]
        PROVE  m = l /\ k = j
    <3>1. CASE /\ k \in 1 .. Len(node_queue[m]) /\ node_queue'[m][k] = node_queue[m][k]
               /\ j \in 1 .. Len(node_queue[l]) /\ node_queue'[l][j] = node_queue[l][j]
      <4>1. node_queue[m][k] = node_queue[l][j]
        BY <2>3, <3>1
      <4>2. k \in 1 .. Len(node_queue[m]) /\ j \in 1 .. Len(node_queue[l])
        BY <3>1
      <4>3. QED
        BY <1>0, <4>1, <4>2, NodeQueuesInjective
    <3>2. CASE node_queue'[m][k] = t
      <4>1. m = n /\ k = Len(node_queue[n]) + 1
        BY <1>g, <3>2
      <4>2. node_queue'[l][j] = t
        BY <2>3, <3>2
      <4>3. l = n /\ j = Len(node_queue[n]) + 1
        BY <1>g, <4>2
      <4>4. QED
        BY <4>1, <4>3
    <3>3. CASE node_queue'[l][j] = t
      <4>1. node_queue'[m][k] = t
        BY <2>3, <3>3
      <4>2. QED
        BY <3>2, <4>1
    <3>4. QED
      BY <1>e, <3>1, <3>2, <3>3
  <2>4. waiter' = waiter /\ runs' = runs
    BY <1>b
  <2>5. QED
    BY <2>1, <2>2, <2>3, <2>4 DEF QueuedOnce
<1>3. RunningOnce'
  BY <1>0, <1>b DEF RunningOnce
<1>u. \A u : LeftUndone(u) => LeftUndone(u)'
  BY <1>b, LeftStaysLeft
<1>4. \A u \in Tasks : Progress(u)'
  BY <1>0, <1>b, <1>u, ProgressFrame
<1>5. (RunOnce /\ TimeoutIsHonest)'
  BY <1>0, <1>b DEF RunOnce, TimeoutIsHonest
<1>6. ReturnIsConsistent'
  BY <1>0, <1>b, <1>u, ReturnsFrame
<1>7. QED
  BY <1>1, <1>2, <1>3, <1>4, <1>5, <1>6 DEF IInv

\* What is left in the queues when a node takes the head of its own: nothing
\* moves in the others, and in its own everything moves up by one.
LEMMA NodeQueueShift ==
  ASSUME TypeOK, NEW n \in Nodes, node_queue[n] # <<>>,
         node_queue' = [node_queue EXCEPT ![n] = Tail(@)]
  PROVE  /\ node_queue' \in [Nodes -> Seq(Tasks)]
         /\ Head(node_queue[n]) \in Tasks
         /\ Head(node_queue[n]) = node_queue[n][1]
         /\ 1 \in 1 .. Len(node_queue[n])
         /\ \A m \in Nodes : \A i \in 1 .. Len(node_queue'[m]) :
              \E k \in 1 .. Len(node_queue[m]) :
                /\ node_queue'[m][i] = node_queue[m][k]
                /\ m = n => k = i + 1
                /\ m # n => k = i
<1>1. \A m \in Nodes : node_queue[m] \in Seq(Tasks)
  BY DEF TypeOK
<1>2. /\ Head(node_queue[n]) \in Tasks
      /\ Head(node_queue[n]) = node_queue[n][1]
      /\ Len(node_queue[n]) \in Nat \ {0}
      /\ Tail(node_queue[n]) \in Seq(Tasks)
      /\ Len(Tail(node_queue[n])) = Len(node_queue[n]) - 1
      /\ \A i \in 1 .. Len(Tail(node_queue[n])) :
           Tail(node_queue[n])[i] = node_queue[n][i + 1]
  BY <1>1, TailFacts
<1>3. /\ node_queue'[n] = Tail(node_queue[n])
      /\ \A m \in Nodes : m # n => node_queue'[m] = node_queue[m]
      /\ node_queue' \in [Nodes -> Seq(Tasks)]
  BY <1>2 DEF TypeOK
<1>4. ASSUME NEW m \in Nodes, NEW i \in 1 .. Len(node_queue'[m])
      PROVE  \E k \in 1 .. Len(node_queue[m]) :
               /\ node_queue'[m][i] = node_queue[m][k]
               /\ m = n => k = i + 1
               /\ m # n => k = i
  <2>1. CASE m # n
    BY <1>3, <2>1
  <2>2. CASE m = n
    <3>1. i \in 1 .. Len(Tail(node_queue[n]))
      BY <1>3, <2>2
    <3>2. i + 1 \in 1 .. Len(node_queue[n])
      BY <1>2, <3>1
    <3>3. node_queue'[n][i] = node_queue[n][i + 1]
      BY <1>2, <1>3, <3>1
    <3>4. QED
      BY <2>2, <3>2, <3>3
  <2>3. QED
    BY <2>1, <2>2
<1>5. QED
  BY <1>2, <1>3, <1>4

\* A loop that waits for a task belongs to a node that was added and runs nothing.
LEMMA IdleRunsNothing ==
  ASSUME RunningOnce, NEW n \in Nodes, loop[n] = "idle"
  PROVE  n \in offered /\ running[n] = None
BY DEF RunningOnce

\* A task that runs has started once and has not ended, and runs nowhere else.
LEMMA RunningFacts ==
  ASSUME RunningOnce, NEW n \in Nodes, running[n] # None
  PROVE  /\ runs[running[n]] = 1 /\ finished[running[n]] = "no"
         /\ \A m \in Nodes : running[m] = running[n] => m = n
BY DEF RunningOnce

\* Taking a task from the queue of a node, and starting it.
LEMMA NodeQueueTail ==
  ASSUME IInv, NEW n \in Nodes, loop[n] = "idle", node_queue[n] # <<>>,
         NEW t, t = Head(node_queue[n]),
         node_queue' = [node_queue EXCEPT ![n] = Tail(@)],
         runs' = [runs EXCEPT ![t] = @ + 1],
         task_queue' = task_queue, waiter' = waiter
  PROVE  /\ t \in Tasks /\ waiter[t] # "idle" /\ t \in Supports[n]
         /\ runs[t] = 0 /\ runs'[t] = 1 /\ finished[t] = "no"
         /\ \A u \in Tasks : u # t => runs'[u] = runs[u]
         /\ n \in offered /\ running[n] = None
         /\ \A m \in Nodes : running[m] # t
         /\ node_queue' \in [Nodes -> Seq(Tasks)]
         /\ runs' \in [Tasks -> Nat]
         /\ QueuedOnce'
<1>0. TypeOK /\ QueuedOnce /\ RunningOnce /\ \A u \in Tasks : Progress(u)
  BY DEF IInv
<1>1. /\ t \in Tasks /\ t = node_queue[n][1] /\ 1 \in 1 .. Len(node_queue[n])
      /\ node_queue' \in [Nodes -> Seq(Tasks)]
  BY <1>0, NodeQueueShift
<1>2. \A m \in Nodes : \A i \in 1 .. Len(node_queue'[m]) :
        \E k \in 1 .. Len(node_queue[m]) :
          /\ node_queue'[m][i] = node_queue[m][k]
          /\ m = n => k = i + 1
          /\ m # n => k = i
  BY <1>0, NodeQueueShift
<1>3. /\ waiter[t] # "idle" /\ runs[t] = 0 /\ t \in Supports[n]
      /\ \A j \in 1 .. Len(task_queue) : task_queue[j] # t
  BY <1>0, <1>1, NodeQueuedFacts
<1>4. finished[t] = "no"
  BY <1>0, <1>1, <1>3 DEF Progress
<1>5. ASSUME NEW m \in Nodes, NEW i \in 1 .. Len(node_queue'[m])
      PROVE  node_queue'[m][i] \in Tasks /\ node_queue'[m][i] # t
  <2>1. PICK k \in 1 .. Len(node_queue[m]) :
          node_queue'[m][i] = node_queue[m][k] /\ (m = n => k = i + 1)
    BY <1>2
  <2>2. node_queue[m][k] \in Tasks
    BY <1>0, QueuesHoldTasks
  <2>3. ASSUME node_queue[m][k] = node_queue[n][1] PROVE FALSE
    <3>1. m = n /\ k = 1
      BY <1>0, <1>1, <2>3, NodeQueuesInjective
    <3>2. i >= 1 /\ i + 1 = 1
      BY <2>1, <3>1
    <3>3. QED
      BY <3>2
  <2>4. QED
    BY <1>1, <2>1, <2>2, <2>3
<1>6. /\ n \in offered /\ running[n] = None
      /\ \A m \in Nodes : running[m] # t
  <2>1. n \in offered /\ running[n] = None
    BY <1>0, IdleRunsNothing
  <2>2. ASSUME NEW m \in Nodes, running[m] = t PROVE FALSE
    <3>1. running[m] # None
      BY <1>1, <2>2, KernelAssumption
    <3>2. runs[running[m]] = 1
      BY <1>0, <3>1, RunningFacts
    <3>3. QED
      BY <1>3, <2>2, <3>2
  <2>3. QED
    BY <2>1, <2>2
<1>7. /\ runs'[t] = 1 /\ runs' \in [Tasks -> Nat]
      /\ \A u \in Tasks : u # t => runs'[u] = runs[u]
  BY <1>0, <1>1, <1>3 DEF TypeOK
<1>a. task_queue' = task_queue /\ waiter' = waiter
  OBVIOUS
<1>8. QueuedOnce'
  <2>1. ASSUME NEW i \in 1 .. Len(task_queue)
        PROVE  /\ waiter[task_queue[i]] # "idle" /\ runs'[task_queue[i]] = 0
               /\ \A j \in 1 .. Len(task_queue) : task_queue[i] = task_queue[j] => i = j
    <3>1. task_queue[i] \in Tasks /\ task_queue[i] # t
      BY <1>0, <1>3, QueuesHoldTasks
    <3>2. /\ waiter[task_queue[i]] # "idle" /\ runs[task_queue[i]] = 0
          /\ \A j \in 1 .. Len(task_queue) : task_queue[i] = task_queue[j] => i = j
      BY <1>0 DEF QueuedOnce
    <3>3. QED
      BY <1>7, <3>1, <3>2
  <2>2. ASSUME NEW m \in Nodes, NEW i \in 1 .. Len(node_queue'[m])
        PROVE  /\ waiter[node_queue'[m][i]] # "idle"
               /\ runs'[node_queue'[m][i]] = 0
               /\ node_queue'[m][i] \in Supports[m]
               /\ \A j \in 1 .. Len(task_queue) : node_queue'[m][i] # task_queue[j]
    <3>1. PICK k \in 1 .. Len(node_queue[m]) : node_queue'[m][i] = node_queue[m][k]
      BY <1>2
    <3>2. /\ waiter[node_queue[m][k]] # "idle" /\ runs[node_queue[m][k]] = 0
          /\ node_queue[m][k] \in Supports[m]
          /\ \A j \in 1 .. Len(task_queue) : node_queue[m][k] # task_queue[j]
      BY <1>0, NodeQueuedFacts
    <3>3. node_queue'[m][i] \in Tasks /\ node_queue'[m][i] # t
      BY <1>5
    <3>4. runs'[node_queue'[m][i]] = runs[node_queue'[m][i]]
      BY <1>7, <3>3
    <3>5. QED
      BY <3>1, <3>2, <3>4
  <2>3. ASSUME NEW m \in Nodes, NEW i \in 1 .. Len(node_queue'[m]),
               NEW l \in Nodes, NEW j \in 1 .. Len(node_queue'[l]),
               node_queue'[m][i] = node_queue'[l][j]
        PROVE  m = l /\ i = j
    <3>1. PICK k \in 1 .. Len(node_queue[m]) :
            /\ node_queue'[m][i] = node_queue[m][k]
            /\ m = n => k = i + 1
            /\ m # n => k = i
      BY <1>2
    <3>2. PICK h \in 1 .. Len(node_queue[l]) :
            /\ node_queue'[l][j] = node_queue[l][h]
            /\ l = n => h = j + 1
            /\ l # n => h = j
      BY <1>2
    <3>3. m = l /\ k = h
      BY <1>0, <2>3, <3>1, <3>2, NodeQueuesInjective
    <3>4. i \in Int /\ j \in Int
      OBVIOUS
    <3>5. QED
      BY <3>1, <3>2, <3>3, <3>4
  <2>4. \A i \in 1 .. Len(task_queue') :
          /\ waiter'[task_queue'[i]] # "idle" /\ runs'[task_queue'[i]] = 0
          /\ \A j \in 1 .. Len(task_queue') : task_queue'[i] = task_queue'[j] => i = j
    BY <1>a, <2>1
  <2>5. \A m \in Nodes : \A i \in 1 .. Len(node_queue'[m]) :
          /\ waiter'[node_queue'[m][i]] # "idle" /\ runs'[node_queue'[m][i]] = 0
          /\ node_queue'[m][i] \in Supports[m]
          /\ \A j \in 1 .. Len(task_queue') : node_queue'[m][i] # task_queue'[j]
    BY <1>a, <2>2
  <2>6. \A m \in Nodes : \A i \in 1 .. Len(node_queue'[m]) :
          \A l \in Nodes : \A j \in 1 .. Len(node_queue'[l]) :
            node_queue'[m][i] = node_queue'[l][j] => m = l /\ i = j
    BY <2>3
  <2>7. QED
    BY <2>4, <2>5, <2>6, QueuedOnceNext
<1>9. QED
  BY <1>1, <1>3, <1>4, <1>6, <1>7, <1>8

\* A chat or voice node starts a task that no node has started.
LEMMA TakeStep ==
  ASSUME IInv, NEW n \in Nodes, Take(n)
  PROVE  IInv'
<1> USE KernelAssumption, NoneIsNew
<1>0. /\ TypeOK /\ QueuedOnce /\ RunningOnce /\ \A u \in Tasks : Progress(u)
      /\ RunOnce /\ ReturnIsConsistent /\ TimeoutIsHonest
  BY DEF IInv
<1>t. PICK t : t = Head(node_queue[n])
  OBVIOUS
<1>a. /\ loop[n] = "idle" /\ node_queue[n] # <<>> /\ Kind[n] \in {"chat", "voice"}
      /\ ~Describes(n, t)
      /\ node_queue' = [node_queue EXCEPT ![n] = Tail(@)]
      /\ loop' = [loop EXCEPT ![n] = "busy"]
      /\ running' = [running EXCEPT ![n] = t]
      /\ state' = [state EXCEPT ![t] = "RUNNING"]
      /\ result' = IF Kind[n] = "chat" THEN [result EXCEPT ![t] = "ERROR"] ELSE result
      /\ runs' = [runs EXCEPT ![t] = @ + 1]
      /\ UNCHANGED <<nodes, offered, kernel, task_queue, waiter, checks, got, finished>>
  BY <1>t DEF Take
<1>b. /\ t \in Tasks /\ waiter[t] # "idle" /\ t \in Supports[n]
      /\ runs[t] = 0 /\ runs'[t] = 1 /\ finished[t] = "no"
      /\ \A u \in Tasks : u # t => runs'[u] = runs[u]
      /\ n \in offered /\ running[n] = None
      /\ \A m \in Nodes : running[m] # t
      /\ node_queue' \in [Nodes -> Seq(Tasks)]
      /\ runs' \in [Tasks -> Nat]
      /\ QueuedOnce'
  <2>1. /\ loop[n] = "idle" /\ node_queue[n] # <<>>
        /\ node_queue' = [node_queue EXCEPT ![n] = Tail(@)]
        /\ runs' = [runs EXCEPT ![t] = @ + 1]
        /\ task_queue' = task_queue /\ waiter' = waiter
    BY <1>a
  <2>2. QED
    BY <1>t, <2>1, NodeQueueTail
<1>c. /\ state'[t] = "RUNNING"
      /\ result'[t] = "ERROR" \/ (Kind[n] = "voice" /\ result'[t] = result[t])
      /\ \A u \in Tasks : u # t => state'[u] = state[u] /\ result'[u] = result[u]
      /\ state' \in [Tasks -> TaskState]
      /\ result' \in [Tasks -> Code \cup {None}]
  <2>1. /\ state'[t] = "RUNNING" /\ \A u \in Tasks : u # t => state'[u] = state[u]
        /\ state' \in [Tasks -> TaskState]
    BY <1>0, <1>a, <1>b DEF TypeOK, TaskState
  <2>2. CASE result' = [result EXCEPT ![t] = "ERROR"]
    BY <1>0, <1>b, <2>1, <2>2 DEF TypeOK, Code
  <2>3. CASE Kind[n] = "voice" /\ result' = result
    BY <1>0, <2>1, <2>3 DEF TypeOK
  <2>4. QED
    BY <1>a, <2>2, <2>3
<1>d. /\ running'[n] = t /\ loop'[n] = "busy"
      /\ \A m \in Nodes : m # n => running'[m] = running[m] /\ loop'[m] = loop[m]
  BY <1>0, <1>a DEF TypeOK
<1>1. TypeOK'
  <2>1. /\ loop' \in [Nodes -> {"off", "idle", "busy", "dead"}]
        /\ running' \in [Nodes -> Tasks \cup {None}]
    BY <1>0, <1>a, <1>b DEF TypeOK
  <2>2. QED
    BY <1>0, <1>a, <1>b, <1>c, <2>1 DEF TypeOK
<1>2. RunningOnce'
  <2> SUFFICES ASSUME NEW m \in Nodes PROVE RunningOnce!(m)'
    BY DEF RunningOnce
  <2>0. t # None /\ finished' = finished /\ offered' = offered
    BY <1>a, <1>b
  <2>1. CASE m = n
    <3>1. /\ n \in offered' /\ loop'[n] = "busy" /\ running'[n] = t
          /\ runs'[t] = 1 /\ finished'[t] = "no"
          /\ ~Describes(n, t)
      <4>1. n \in offered /\ runs'[t] = 1 /\ finished[t] = "no"
        BY <1>b
      <4>2. QED
        BY <1>a, <1>d, <2>0, <4>1
    <3>2. \A l \in Nodes : running'[l] = t => l = n
      <4>1. \A l \in Nodes : running[l] # t
        BY <1>b
      <4>2. \A l \in Nodes : l # n => running'[l] = running[l]
        BY <1>d
      <4>3. QED
        BY <4>1, <4>2
    <3>3. QED
      BY <2>0, <2>1, <3>1, <3>2 DEF Describes
  <2>2. CASE m # n
    <3>1. /\ m \notin offered => loop[m] = "off"
          /\ loop[m] = "busy" <=> running[m] # None
          /\ running[m] # None =>
               /\ runs[running[m]] = 1 /\ finished[running[m]] = "no"
               /\ ~Describes(m, running[m])
               /\ \A l \in Nodes : running[l] = running[m] => l = m
      BY <1>0 DEF RunningOnce
    <3>2. running[m] # t /\ running[m] \in Tasks \cup {None}
      BY <1>0, <1>b DEF TypeOK
    <3>3. QED
      BY <1>b, <1>d, <2>0, <2>2, <3>1, <3>2 DEF Describes
  <2>3. QED
    BY <2>1, <2>2
<1>u. \A u : LeftUndone(u) => LeftUndone(u)'
  BY <1>0, <1>a, <1>d, LeftStaysLeft DEF TypeOK
<1>3. \A u \in Tasks : Progress(u)'
  <2> SUFFICES ASSUME NEW u \in Tasks PROVE Progress(u)'
    OBVIOUS
  <2>1. CASE u # t
    BY <1>0, <1>a, <1>b, <1>c, <1>u, <2>1, ProgressFrame
  <2>2. CASE u = t
    <3>1. /\ waiter'[t] = waiter[t] /\ waiter[t] # "idle"
          /\ finished'[t] = "no" /\ finished[t] = "no"
          /\ checks'[t] = checks[t] /\ got'[t] = got[t]
          /\ runs[t] = 0 /\ runs'[t] # 0
          /\ state'[t] = "RUNNING"
      BY <1>a, <1>b, <1>c
    <3>2. Progress(t)
      BY <1>0, <1>b
    <3>3. /\ result'[t] \in {None, "kernel TIMEOUT", "ERROR"}
          /\ result'[t] \in {None, "kernel TIMEOUT"} =>
               \E m \in Nodes : Kind[m] = "voice" /\ t \in Supports[m]
      BY <1>b, <1>c, <3>1, <3>2 DEF Progress, Code
    <3>4. Progress(t)'
      BY <3>1, <3>2, <3>3 DEF Progress
    <3>5. QED
      BY <2>2, <3>4
  <2>3. QED
    BY <2>1, <2>2
<1>4. RunOnce'
  <2> SUFFICES ASSUME NEW u \in Tasks PROVE runs'[u] <= 1
    BY DEF RunOnce
  <2>1. runs[u] <= 1
    BY <1>0 DEF RunOnce
  <2>2. CASE u = t
    BY <1>b, <2>2
  <2>3. CASE u # t
    <3>1. runs'[u] = runs[u]
      BY <1>b, <2>3
    <3>2. QED
      BY <2>1, <3>1
  <2>4. QED
    BY <2>2, <2>3
<1>5. TimeoutIsHonest'
  BY <1>0, <1>a DEF TimeoutIsHonest
<1>6. ReturnIsConsistent'
  BY <1>0, <1>a, <1>u, ReturnsFrame
<1>7. QED
  BY <1>1, <1>b, <1>2, <1>3, <1>4, <1>5, <1>6 DEF IInv

\* A node ends the task its loop is running, with one of the ends of its kind.
LEMMA EndStep ==
  ASSUME IInv, NEW n \in Nodes, loop[n] = "busy",
         NEW s, NEW c, NEW o, End(n, s, c, o),
         \/ s = "DONE" /\ c \in {"OK", "kernel OK"} /\ o = "ok"
         \/ s = "DONE" /\ c = "ERROR" /\ o = "err" /\ Kind[n] = "chat"
         \/ s = "ERROR" /\ c = "kernel OK" /\ o = "err"
  PROVE  IInv'
<1>0. /\ TypeOK /\ QueuedOnce /\ RunningOnce /\ \A u \in Tasks : Progress(u)
      /\ RunOnce /\ ReturnIsConsistent /\ TimeoutIsHonest
  BY DEF IInv
<1>t. PICK t : t = running[n]
  OBVIOUS
<1>a. /\ state' = [state EXCEPT ![t] = s]
      /\ result' = [result EXCEPT ![t] = c]
      /\ finished' = [finished EXCEPT ![t] = o]
      /\ loop' = [loop EXCEPT ![n] = "idle"]
      /\ running' = [running EXCEPT ![n] = None]
      /\ UNCHANGED <<nodes, offered, kernel, task_queue, node_queue, waiter, checks,
                     got, runs>>
  BY <1>t DEF End
<1>b. /\ t \in Tasks /\ t # None /\ runs[t] = 1 /\ finished[t] = "no"
      /\ n \in offered /\ (Kind[n] = "chat" => t \notin Pictures)
      /\ \A m \in Nodes : m # n => running[m] # t
  BY <1>0, <1>t, KernelAssumption DEF RunningOnce, TypeOK, Describes
<1>z. runs[t] # 0
  BY <1>b, OneIsNotZero, Zenon
<1>c. /\ state'[t] = s /\ result'[t] = c /\ finished'[t] = o
      /\ \A u \in Tasks : u # t =>
           state'[u] = state[u] /\ result'[u] = result[u] /\ finished'[u] = finished[u]
  BY <1>0, <1>a, <1>b DEF TypeOK
<1>d. /\ running'[n] = None /\ loop'[n] = "idle"
      /\ \A m \in Nodes : m # n => running'[m] = running[m] /\ loop'[m] = loop[m]
  BY <1>0, <1>a DEF TypeOK
<1>1. TypeOK'
  <2>1. s \in TaskState /\ c \in Code /\ o \in Outcome
    BY DEF TaskState, Code, Outcome
  <2>2. /\ state' \in [Tasks -> TaskState]
        /\ result' \in [Tasks -> Code \cup {None}]
        /\ finished' \in [Tasks -> Outcome]
        /\ loop' \in [Nodes -> {"off", "idle", "busy", "dead"}]
        /\ running' \in [Nodes -> Tasks \cup {None}]
    BY <1>0, <1>a, <2>1 DEF TypeOK
  <2>3. QED
    BY <1>0, <1>a, <2>2 DEF TypeOK
<1>2. QueuedOnce'
  BY <1>0, <1>a, QueuesFrame
<1>3. RunningOnce'
  <2> SUFFICES ASSUME NEW m \in Nodes PROVE RunningOnce!(m)'
    BY DEF RunningOnce
  <2>0. runs' = runs /\ offered' = offered
    BY <1>a
  <2>1. CASE m = n
    BY <1>b, <1>d, <2>0, <2>1
  <2>2. CASE m # n
    <3>1. /\ m \notin offered => loop[m] = "off"
          /\ loop[m] = "busy" <=> running[m] # None
          /\ running[m] # None =>
               /\ runs[running[m]] = 1 /\ finished[running[m]] = "no"
               /\ ~Describes(m, running[m])
               /\ \A l \in Nodes : running[l] = running[m] => l = m
      BY <1>0 DEF RunningOnce
    <3>2. running[m] # t /\ running[m] \in Tasks \cup {None}
      BY <1>0, <1>b, <2>2 DEF TypeOK
    <3>3. QED
      BY <1>c, <1>d, <2>0, <2>2, <3>1, <3>2 DEF Describes
  <2>3. QED
    BY <2>1, <2>2
<1>u. \A u : LeftUndone(u) => LeftUndone(u)'
  BY <1>0, <1>d, LeftStaysLeft
<1>4. \A u \in Tasks : Progress(u)'
  <2> SUFFICES ASSUME NEW u \in Tasks PROVE Progress(u)'
    OBVIOUS
  <2>1. CASE u # t
    BY <1>0, <1>a, <1>c, <1>u, <2>1, ProgressFrame
  <2>2. CASE u = t
    <3>1. /\ waiter'[t] = waiter[t] /\ checks'[t] = checks[t] /\ got'[t] = got[t]
          /\ runs[t] # 0 /\ runs'[t] # 0 /\ finished[t] = "no"
          /\ state'[t] = s /\ result'[t] = c /\ finished'[t] = o
      BY <1>a, <1>b, <1>c, <1>z
    <3>2. Progress(t)
      BY <1>0, <1>b
    <3>3. Progress(t)'
      BY <1>b, <3>1, <3>2, NoneIsNew DEF Progress, Code
    <3>4. QED
      BY <2>2, <3>3
  <2>3. QED
    BY <2>1, <2>2
<1>5. (RunOnce /\ TimeoutIsHonest)'
  BY <1>0, <1>a DEF RunOnce, TimeoutIsHonest
<1>6. ReturnIsConsistent'
  BY <1>0, <1>a, <1>u, ReturnsFrame
<1>7. QED
  BY <1>1, <1>2, <1>3, <1>4, <1>5, <1>6 DEF IInv

\* A loop that dies leaves its task as it was.
LEMMA ChatRaisesStep ==
  ASSUME IInv, NEW n \in Nodes, ChatRaises(n)
  PROVE  IInv'
<1> USE KernelAssumption, NoneIsNew
<1>0. /\ TypeOK /\ QueuedOnce /\ RunningOnce /\ \A u \in Tasks : Progress(u)
      /\ RunOnce /\ ReturnIsConsistent /\ TimeoutIsHonest
  BY DEF IInv
<1>a. /\ loop[n] = "busy"
      /\ loop' = [loop EXCEPT ![n] = "dead"]
      /\ running' = [running EXCEPT ![n] = None]
      /\ UNCHANGED <<nodes, offered, kernel, task_queue, node_queue, state, result,
                     waiter, checks, got, runs, finished>>
  BY DEF ChatRaises
<1>1. TypeOK'
  BY <1>0, <1>a DEF TypeOK
<1>2. QueuedOnce'
  BY <1>0, <1>a, QueuesFrame
<1>3. RunningOnce'
  BY <1>0, <1>a DEF RunningOnce, TypeOK, Describes
<1>u. \A u : LeftUndone(u) => LeftUndone(u)'
  BY <1>0, <1>a, LeftStaysLeft DEF TypeOK
<1>4. \A u \in Tasks : Progress(u)'
  BY <1>0, <1>a, <1>u, ProgressFrame
<1>5. (RunOnce /\ TimeoutIsHonest)'
  BY <1>0, <1>a DEF RunOnce, TimeoutIsHonest
<1>6. ReturnIsConsistent'
  BY <1>0, <1>a, <1>u, ReturnsFrame
<1>7. QED
  BY <1>1, <1>2, <1>3, <1>4, <1>5, <1>6 DEF IInv

\* A local node, or one that describes a picture, starts and ends a task, or dies
\* of it, in one step.
LEMMA AtOnceStep ==
  ASSUME IInv, NEW n \in Nodes, RunLocal(n) \/ DescribePicture(n)
  PROVE  IInv'
<1> USE KernelAssumption, NoneIsNew
<1>0. /\ TypeOK /\ QueuedOnce /\ RunningOnce /\ \A u \in Tasks : Progress(u)
      /\ RunOnce /\ ReturnIsConsistent /\ TimeoutIsHonest
  BY DEF IInv
<1>t. PICK t : t = Head(node_queue[n])
  OBVIOUS
<1>a. /\ loop[n] = "idle" /\ node_queue[n] # <<>>
      /\ node_queue' = [node_queue EXCEPT ![n] = Tail(@)]
      /\ runs' = [runs EXCEPT ![t] = @ + 1]
      /\ UNCHANGED <<nodes, offered, kernel, task_queue, running, waiter, checks, got>>
  BY <1>t DEF RunLocal, DescribePicture
<1>b. /\ t \in Tasks /\ waiter[t] # "idle" /\ t \in Supports[n]
      /\ runs[t] = 0 /\ runs'[t] = 1 /\ finished[t] = "no"
      /\ \A u \in Tasks : u # t => runs'[u] = runs[u]
      /\ n \in offered /\ running[n] = None
      /\ \A m \in Nodes : running[m] # t
      /\ node_queue' \in [Nodes -> Seq(Tasks)]
      /\ runs' \in [Tasks -> Nat]
      /\ QueuedOnce'
  <2>1. /\ loop[n] = "idle" /\ node_queue[n] # <<>>
        /\ node_queue' = [node_queue EXCEPT ![n] = Tail(@)]
        /\ runs' = [runs EXCEPT ![t] = @ + 1]
        /\ task_queue' = task_queue /\ waiter' = waiter
    BY <1>a
  <2>2. QED
    BY <1>t, <2>1, NodeQueueTail
<1>c. PICK s \in TaskState, c \in {"OK", "ERROR"}, o \in Outcome :
        /\ state' = [state EXCEPT ![t] = s]
        /\ result' = [result EXCEPT ![t] = c]
        /\ finished' = [finished EXCEPT ![t] = o]
        /\ \/ s = "DONE" /\ c = "OK" /\ o = "ok"
           \/ s = "ERROR" /\ c = "ERROR" /\ o = "err"
           \/ s = "RUNNING" /\ c = "ERROR" /\ o = "no"
           \/ s = "DONE" /\ c = "OK" /\ o = "err" /\ Describes(n, t)
           \/ /\ s = "RUNNING" /\ c = "OK" /\ o = "no" /\ Describes(n, t)
              /\ loop' = [loop EXCEPT ![n] = "dead"]
  <2>1. CASE /\ state' = [state EXCEPT ![t] = "RUNNING"]
             /\ result' = [result EXCEPT ![t] = "ERROR"]
             /\ UNCHANGED finished
    <3>1. finished' = [finished EXCEPT ![t] = "no"]
      BY <1>0, <1>b, <2>1 DEF TypeOK
    <3>2. QED
      BY <2>1, <3>1 DEF TaskState, Outcome
  <2>2. CASE /\ state' = [state EXCEPT ![t] = "DONE"]
             /\ result' = [result EXCEPT ![t] = "OK"]
             /\ finished' = [finished EXCEPT ![t] = "ok"]
    BY <2>2 DEF TaskState, Outcome
  <2>3. CASE /\ state' = [state EXCEPT ![t] = "ERROR"]
             /\ result' = [result EXCEPT ![t] = "ERROR"]
             /\ finished' = [finished EXCEPT ![t] = "err"]
    BY <2>3 DEF TaskState, Outcome
  <2>4. CASE /\ state' = [state EXCEPT ![t] = "RUNNING"]
             /\ result' = [result EXCEPT ![t] = "OK"]
             /\ UNCHANGED finished /\ Describes(n, t)
             /\ loop' = [loop EXCEPT ![n] = "dead"]
    <3>1. finished' = [finished EXCEPT ![t] = "no"]
      BY <1>0, <1>b, <2>4 DEF TypeOK
    <3>2. QED
      BY <2>4, <3>1 DEF TaskState, Outcome
  <2>5. CASE /\ state' = [state EXCEPT ![t] = "DONE"]
             /\ result' = [result EXCEPT ![t] = "OK"]
             /\ finished' = [finished EXCEPT ![t] = "err"] /\ Describes(n, t)
    BY <2>5 DEF TaskState, Outcome
  <2>6. CASE RunLocal(n)
    BY <1>t, <2>1, <2>2, <2>3, <2>6 DEF RunLocal
  <2>7. CASE DescribePicture(n)
    BY <1>t, <2>2, <2>4, <2>5, <2>7 DEF DescribePicture
  <2>8. QED
    BY <2>6, <2>7
<1>d. loop' = [loop EXCEPT ![n] = "dead"] \/ loop' = loop
  BY DEF RunLocal, DescribePicture
<1>e. /\ state'[t] = s /\ result'[t] = c /\ finished'[t] = o
      /\ \A u \in Tasks : u # t =>
           state'[u] = state[u] /\ result'[u] = result[u] /\ finished'[u] = finished[u]
  BY <1>0, <1>b, <1>c DEF TypeOK
<1>1. TypeOK'
  <2>1. /\ state' \in [Tasks -> TaskState]
        /\ result' \in [Tasks -> Code \cup {None}]
        /\ finished' \in [Tasks -> Outcome]
        /\ loop' \in [Nodes -> {"off", "idle", "busy", "dead"}]
    BY <1>0, <1>c, <1>d DEF TypeOK, Code
  <2>2. QED
    BY <1>0, <1>a, <1>b, <2>1 DEF TypeOK
<1>2. RunningOnce'
  <2> SUFFICES ASSUME NEW m \in Nodes PROVE RunningOnce!(m)'
    BY DEF RunningOnce
  <2>1. /\ m \notin offered => loop[m] = "off"
        /\ loop[m] = "busy" <=> running[m] # None
        /\ running[m] # None =>
             /\ runs[running[m]] = 1 /\ finished[running[m]] = "no"
             /\ ~Describes(m, running[m])
             /\ \A l \in Nodes : running[l] = running[m] => l = m
    BY <1>0 DEF RunningOnce
  <2>2. running[m] # t /\ running[m] \in Tasks \cup {None}
    BY <1>0, <1>b DEF TypeOK
  <2>3. loop'[m] = loop[m] \/ (m = n /\ loop'[m] = "dead")
    BY <1>0, <1>d DEF TypeOK
  <2>4. running' = running /\ offered' = offered
    BY <1>a
  <2>5. QED
    BY <1>a, <1>b, <1>e, <2>1, <2>2, <2>3, <2>4 DEF Describes
<1>u. \A u : LeftUndone(u) => LeftUndone(u)'
  BY <1>0, <1>a, <1>b, <1>d, LeftStaysLeft DEF TypeOK
<1>3. \A u \in Tasks : Progress(u)'
  <2> SUFFICES ASSUME NEW u \in Tasks PROVE Progress(u)'
    OBVIOUS
  <2>1. CASE u # t
    BY <1>0, <1>a, <1>b, <1>e, <1>u, <2>1, ProgressFrame
  <2>2. CASE u = t
    <3>1. /\ waiter'[t] = waiter[t] /\ waiter[t] # "idle"
          /\ checks'[t] = checks[t] /\ got'[t] = got[t]
          /\ runs[t] = 0 /\ runs'[t] # 0 /\ finished[t] = "no"
          /\ state'[t] = s /\ result'[t] = c /\ finished'[t] = o
      BY <1>a, <1>b, <1>e
    <3>2. Progress(t)
      BY <1>0, <1>b
    <3>3. Describes(n, t) => t \in Pictures
      BY DEF Describes
    <3>4. Describes(n, t) /\ loop' = [loop EXCEPT ![n] = "dead"] => LeftUndone(t)'
      BY <1>0, <1>b DEF LeftUndone, Describes, TypeOK
    <3>5. Progress(t)'
      BY <1>c, <3>1, <3>2, <3>3, <3>4 DEF Progress, Code
    <3>6. QED
      BY <2>2, <3>5
  <2>3. QED
    BY <2>1, <2>2
<1>4. RunOnce'
  <2> SUFFICES ASSUME NEW u \in Tasks PROVE runs'[u] <= 1
    BY DEF RunOnce
  <2>1. runs[u] <= 1
    BY <1>0 DEF RunOnce
  <2>2. CASE u = t
    BY <1>b, <2>2
  <2>3. CASE u # t
    <3>1. runs'[u] = runs[u]
      BY <1>b, <2>3
    <3>2. QED
      BY <2>1, <3>1
  <2>4. QED
    BY <2>2, <2>3
<1>5. TimeoutIsHonest'
  BY <1>0, <1>a DEF TimeoutIsHonest
<1>6. ReturnIsConsistent'
  BY <1>0, <1>a, <1>u, ReturnsFrame
<1>7. QED
  BY <1>1, <1>b, <1>2, <1>3, <1>4, <1>5, <1>6 DEF IInv

\* The step of a node in any of its forms.
LEMMA NodeStepStep ==
  ASSUME IInv, NEW n \in Nodes, NodeStep(n)
  PROVE  IInv'
<1>1. CASE ChatEnds(n)
  BY <1>1, EndStep DEF ChatEnds
<1>2. CASE VoiceEnds(n)
  BY <1>2, EndStep DEF VoiceEnds
<1>3. QED
  BY <1>1, <1>2, TakeStep, ChatRaisesStep, AtOnceStep DEF NodeStep

\* A stuttering step.
LEMMA StutterStep ==
  ASSUME IInv, UNCHANGED vars
  PROVE  IInv'
<1>0. /\ TypeOK /\ QueuedOnce /\ RunningOnce /\ \A u \in Tasks : Progress(u)
      /\ RunOnce /\ ReturnIsConsistent /\ TimeoutIsHonest
  BY DEF IInv
<1>1. TypeOK' /\ QueuedOnce' /\ RunningOnce'
  BY <1>0, QueuesFrame DEF vars, TypeOK, RunningOnce
<1>u. \A u : LeftUndone(u) => LeftUndone(u)'
  BY LeftStaysLeft DEF vars
<1>2. \A u \in Tasks : Progress(u)'
  BY <1>0, <1>u, ProgressFrame DEF vars
<1>3. (RunOnce /\ TimeoutIsHonest)'
  BY <1>0 DEF vars, RunOnce, TimeoutIsHonest
<1>4. ReturnIsConsistent'
  BY <1>0, <1>u, ReturnsFrame DEF vars
<1>5. QED
  BY <1>1, <1>2, <1>3, <1>4 DEF IInv

\* IInv is inductive: every step of the kernel, a node or a caller preserves it.
THEOREM NextIInv == IInv /\ [Next]_vars => IInv'
<1> SUFFICES ASSUME IInv, [Next]_vars PROVE IInv'
  OBVIOUS
<1>1. CASE UNCHANGED vars
  BY <1>1, StutterStep
<1>2. ASSUME NEW n \in Nodes, AddNode(n) \/ NodeStep(n) PROVE IInv'
  BY <1>2, AddNodeStep, NodeStepStep
<1>3. ASSUME NEW t \in Tasks, Submit(t) \/ Check(t) \/ Return(t) PROVE IInv'
  BY <1>3, SubmitStep, CheckStep, ReturnStep
<1>4. CASE Start \/ Drop \/ Schedule
  BY <1>4, StartStep, DropStep, ScheduleStep
<1>5. QED
  BY <1>1, <1>2, <1>3, <1>4 DEF Next

\* The inductive invariant holds in every reachable state of the kernel.
THEOREM Invariance == Spec => []IInv
<1>1. Init => IInv
  BY InitIInv
<1>2. IInv /\ [Next]_vars => IInv'
  BY NextIInv
<1>3. QED
  BY <1>1, <1>2, PTL DEF Spec

\* Type correctness of the kernel in every reachable state.
THEOREM TypeCorrect == Spec => []TypeOK
BY Invariance, PTL DEF IInv

\* No task is run twice, whatever its caller and the loops do.
THEOREM NoDoubleRun == Spec => []RunOnce
BY Invariance, PTL DEF IInv

\* What a call returns agrees with the state of its task and with what happened.
THEOREM ReturnsAreConsistent == Spec => []ReturnIsConsistent
BY Invariance, PTL DEF IInv

\* A TIMEOUT is only returned for a task nobody has answered.
THEOREM TimeoutsAreHonest == Spec => []TimeoutIsHonest
BY Invariance, PTL DEF IInv

\* A task runs once at most, and what is returned is what happened to it.
THEOREM OutcomesHold == Spec => []Outcomes
BY NoDoubleRun, ReturnsAreConsistent, TimeoutsAreHonest, PTL DEF Outcomes

-----------------------------------------------------------------------------
(* _schedule.  What the loop adds up is defined by recursion: that it is   *)
(* defined at all, and what follows from it, is shown by the least place   *)
(* at which it could fail.                                                 *)

LEMMA LeastExists ==
  ASSUME NEW S \in SUBSET Nat, S # {}
  PROVE  \E j \in S : \A k \in S : j <= k
PROOF
<1> DEFINE R == {ss \in Nat \X Nat : ss[1] < ss[2]}
<1>1. IsWellFoundedOn(R, Nat)
  BY NatLessThanWellFounded DEF OpToRel
<1> HIDE DEF R
<1>2. PICK x \in S : \A y \in S : ~ (<<y, x>> \in R)
  BY <1>1, WFMin
<1>3. ASSUME NEW y \in S
      PROVE  x <= y
  <2>1. x \in Nat /\ y \in Nat /\ ~ (<<y, x>> \in R)
    BY <1>2
  <2>2. ~ (y < x)
    BY <2>1 DEF R
  <2> QED BY <2>1, <2>2
<1> QED BY <1>2, <1>3

\* What holds at 0 and goes on from each number to the next holds up to N.
LEMMA UpTo ==
  ASSUME NEW N \in Nat, NEW S, 0 \in S,
         \A k \in 0 .. N - 1 : k \in S => k + 1 \in S
  PROVE  \A k \in 0 .. N : k \in S
PROOF
<1> SUFFICES ASSUME (0 .. N) \ S # {} PROVE FALSE
  OBVIOUS
<1>1. PICK j \in (0 .. N) \ S : \A k \in (0 .. N) \ S : j <= k
  <2>1. (0 .. N) \ S \in SUBSET Nat
    OBVIOUS
  <2> QED BY <2>1, LeastExists
<1>2. j # 0 /\ j - 1 \in 0 .. N - 1 /\ j - 1 + 1 = j
  BY <1>1
<1>3. j - 1 \in S
  BY <1>1, <1>2
<1> QED BY <1>1, <1>2, <1>3

\* Sums exist.
LEMMA SumsExist ==
  ASSUME NEW N \in Nat, NEW w \in [1 .. N -> Nat]
  PROVE  \E f \in [0 .. N -> Nat] :
           f[0] = 0 /\ \A i \in 1 .. N : f[i] = f[i - 1] + w[i]
PROOF
<1> DEFINE Sums(k, f) == /\ f \in [0 .. k -> Nat]
                         /\ f[0] = 0 /\ \A i \in 1 .. k : f[i] = f[i - 1] + w[i]
           S == {k \in 0 .. N : \E f : Sums(k, f)}
<1>1. 0 \in S
  <2> DEFINE z == [i \in 0 .. 0 |-> 0]
  <2>1. Sums(0, z)
    OBVIOUS
  <2>2. 0 \in 0 .. N
    OBVIOUS
  <2> HIDE DEF z, Sums
  <2> QED BY <2>1, <2>2
<1>2. ASSUME NEW k \in 0 .. N - 1, k \in S
      PROVE  k + 1 \in S
  <2>1. PICK f : Sums(k, f)
    BY <1>2
  <2> DEFINE g == [i \in 0 .. k + 1 |-> IF i = k + 1 THEN f[k] + w[k + 1] ELSE f[i]]
  <2>2. f[k] \in Nat /\ w[k + 1] \in Nat /\ f[k] + w[k + 1] \in Nat
    BY <2>1
  <2>3. g \in [0 .. k + 1 -> Nat] /\ g[0] = 0
    BY <2>1, <2>2
  <2>4. ASSUME NEW i \in 1 .. k + 1
        PROVE  g[i] = g[i - 1] + w[i]
    <3>1. CASE i = k + 1
      <4>1. i - 1 = k /\ k \in 0 .. k + 1 /\ k + 1 \in 0 .. k + 1 /\ k # k + 1
        BY <3>1
      <4> QED BY <3>1, <4>1
    <3>2. CASE i # k + 1
      <4>1. i \in 1 .. k /\ i - 1 \in 0 .. k + 1 /\ i - 1 # k + 1 /\ i \in 0 .. k + 1
        BY <3>2
      <4> QED BY <2>1, <3>2, <4>1
    <3> QED BY <3>1, <3>2
  <2>5. Sums(k + 1, g)
    BY <2>3, <2>4
  <2>6. k + 1 \in 0 .. N
    OBVIOUS
  <2> HIDE DEF g, Sums
  <2> QED BY <2>5, <2>6
<1>3. N \in S
  <2> HIDE DEF S
  <2>1. \A k \in 0 .. N : k \in S
    BY <1>1, <1>2, UpTo
  <2> QED BY <2>1
<1> QED BY <1>3

\* The weight of a node counts where the node supports the task.
LEMMA TotalsFacts ==
  ASSUME TypeOK, NEW t \in Tasks
  PROVE  /\ Totals(t) \in [0 .. Len(nodes) -> Nat]
         /\ Totals(t)[0] = 0
         /\ \A i \in 1 .. Len(nodes) :
              /\ i \in Support(t) => /\ Weight[nodes[i]] \in Nat \ {0}
                                     /\ Totals(t)[i] = Totals(t)[i - 1] + Weight[nodes[i]]
              /\ i \notin Support(t) => Totals(t)[i] = Totals(t)[i - 1]
PROOF
<1> DEFINE N == Len(nodes)
           w == [i \in 1 .. N |-> IF t \in Supports[nodes[i]] THEN Weight[nodes[i]] ELSE 0]
           Eq(f) == f = [i \in 0 .. N |->
                      IF i = 0 THEN 0
                      ELSE f[i - 1] + (IF t \in Supports[nodes[i]] THEN Weight[nodes[i]] ELSE 0)]
<1>1. N \in Nat /\ \A i \in 1 .. N : nodes[i] \in Nodes
  BY DEF TypeOK
<1>2. \A i \in 1 .. N : Weight[nodes[i]] \in Nat \ {0}
  BY <1>1, KernelAssumption
<1>3. w \in [1 .. N -> Nat]
  BY <1>2
<1>4. PICK f \in [0 .. N -> Nat] : f[0] = 0 /\ \A i \in 1 .. N : f[i] = f[i - 1] + w[i]
  BY <1>1, <1>3, SumsExist
<1>5. Eq(f)
  BY <1>1, <1>4
<1>6. Totals(t) = CHOOSE g : Eq(g)
  BY DEF Totals
<1>7. Eq(Totals(t))
  BY <1>5, <1>6
<1> DEFINE T == Totals(t)
<1>8. /\ T[0] = 0 /\ DOMAIN T = 0 .. N
      /\ \A i \in 1 .. N : T[i] = T[i - 1] + w[i]
  BY <1>1, <1>7
<1> DEFINE S == {k \in 0 .. N : T[k] \in Nat}
<1>9. \A k \in 0 .. N : k \in S
  <2> HIDE DEF T
  <2>1. 0 \in S
    BY <1>1, <1>8
  <2>2. ASSUME NEW k \in 0 .. N - 1, k \in S
        PROVE  k + 1 \in S
    <3>1. k + 1 \in 1 .. N /\ k + 1 - 1 = k /\ T[k] \in Nat
      BY <1>1, <2>2
    <3>2. T[k + 1] = T[k] + w[k + 1] /\ w[k + 1] \in Nat
      BY <1>3, <1>8, <3>1
    <3> QED BY <3>1, <3>2
  <2> HIDE DEF S
  <2> QED BY <1>1, <2>1, <2>2, UpTo
<1>10. T = [k \in 0 .. N |-> T[k]]
  BY <1>7
<1>11. T \in [0 .. N -> Nat]
  BY <1>9, <1>10
<1>12. ASSUME NEW i \in 1 .. N
       PROVE  /\ i \in Support(t) => Weight[nodes[i]] \in Nat \ {0} /\ T[i] = T[i - 1] + Weight[nodes[i]]
              /\ i \notin Support(t) => T[i] = T[i - 1]
  <2>1. i - 1 \in 0 .. N /\ T[i - 1] \in Nat
    BY <1>1, <1>11
  <2>2. i \in Support(t) <=> t \in Supports[nodes[i]]
    BY DEF Support
  <2>3. T[i] = T[i - 1] + w[i]
    BY <1>8
  <2> HIDE DEF T
  <2> QED BY <1>2, <2>1, <2>2, <2>3
<1> QED BY <1>8, <1>11, <1>12

\* The line grows from node to node.
LEMMA TotalsGrow ==
  ASSUME TypeOK, NEW t \in Tasks
  PROVE  \A j \in 0 .. Len(nodes) : \A i \in 0 .. j : Totals(t)[i] <= Totals(t)[j]
PROOF
<1> DEFINE N == Len(nodes)
           T == Totals(t)
           S == {k \in 0 .. N : \A i \in 0 .. k : T[i] <= T[k]}
<1>1. N \in Nat
  BY DEF TypeOK
<1>2. /\ T \in [0 .. N -> Nat]
      /\ \A i \in 1 .. N : T[i] >= T[i - 1]
  <2>1. T \in [0 .. N -> Nat]
    BY TotalsFacts
  <2>2. ASSUME NEW i \in 1 .. N
        PROVE  T[i] >= T[i - 1]
    <3>1. T[i] \in Nat /\ T[i - 1] \in Nat
      BY <1>1, <2>1
    <3>2. \/ Weight[nodes[i]] \in Nat /\ T[i] = T[i - 1] + Weight[nodes[i]]
          \/ T[i] = T[i - 1]
      BY TotalsFacts
    <3> HIDE DEF T
    <3> QED BY <3>1, <3>2
  <2> QED BY <2>1, <2>2
<1> HIDE DEF T
<1>3. 0 \in S
  BY <1>1, <1>2
<1>4. ASSUME NEW k \in 0 .. N - 1, k \in S
      PROVE  k + 1 \in S
  <2>1. k + 1 \in 1 .. N /\ k + 1 - 1 = k
    BY <1>1
  <2>2. T[k + 1] >= T[k] /\ T[k] \in Nat /\ T[k + 1] \in Nat
    BY <1>1, <1>2, <2>1
  <2>3. ASSUME NEW i \in 0 .. k + 1
        PROVE  T[i] <= T[k + 1]
    <3>1. CASE i = k + 1
      BY <2>2, <3>1
    <3>2. CASE i # k + 1
      <4>1. i \in 0 .. k
        BY <3>2
      <4>2. T[i] <= T[k] /\ T[i] \in Nat
        BY <1>1, <1>2, <1>4, <4>1
      <4> QED BY <2>2, <4>2
    <3> QED BY <3>1, <3>2
  <2> QED BY <2>1, <2>3
<1>5. \A k \in 0 .. N : k \in S
  <2> HIDE DEF S
  <2> QED BY <1>1, <1>3, <1>4, UpTo
<1> QED BY <1>5 DEF T

\* No node lies before its rank: every one that supports the task has a weight.
LEMMA RankFacts ==
  ASSUME TypeOK, NEW t \in Tasks, NEW i \in 1 .. Len(nodes)
  PROVE  Cardinality(Before(t, i)) \in Nat /\ Cardinality(Before(t, i)) <= Pos(t, i)
PROOF
<1> DEFINE N == Len(nodes)
           T == Totals(t)
           B(k) == {j \in Support(t) : j <= k}
           S == {k \in 0 .. N : IsFiniteSet(B(k)) /\ Cardinality(B(k)) <= T[k]}
<1>1. N \in Nat
  BY DEF TypeOK
<1>2. T \in [0 .. N -> Nat] /\ T[0] = 0
  BY TotalsFacts
<1>3. 0 \in S
  <2>1. B(0) = {}
    BY <1>1 DEF Support
  <2>2. IsFiniteSet({}) /\ Cardinality({}) = 0
    BY FS_EmptySet
  <2> QED BY <1>1, <1>2, <2>1, <2>2
<1>4. ASSUME NEW k \in 0 .. N - 1, k \in S
      PROVE  k + 1 \in S
  <2>1. k + 1 \in 1 .. N /\ k + 1 \in 0 .. N /\ k \in 0 .. N
    BY <1>1
  <2>2. T[k] \in Nat /\ T[k + 1] \in Nat /\ Cardinality(B(k)) \in Nat
    BY <1>2, <1>4, <2>1, FS_CardinalityType
  <2>3. CASE k + 1 \in Support(t)
    <3>1. B(k + 1) = B(k) \cup {k + 1} /\ k + 1 \notin B(k)
      BY <1>1, <2>3 DEF Support
    <3>2. IsFiniteSet(B(k + 1)) /\ Cardinality(B(k + 1)) = Cardinality(B(k)) + 1
      <4>1. IsFiniteSet(B(k))
        BY <1>4
      <4> HIDE DEF B
      <4> QED BY <3>1, <4>1, FS_AddElement
    <3>3. T[k + 1] = T[k] + Weight[nodes[k + 1]] /\ Weight[nodes[k + 1]] \in Nat \ {0}
      <4>1. k + 1 - 1 = k
        BY <1>1
      <4> QED BY <2>1, <2>3, <4>1, TotalsFacts
    <3>4. Cardinality(B(k)) <= T[k]
      BY <1>4
    <3> HIDE DEF B, T
    <3>5. Cardinality(B(k)) + 1 <= T[k + 1]
      BY <2>2, <3>3, <3>4
    <3> QED BY <2>1, <3>2, <3>5
  <2>4. CASE k + 1 \notin Support(t)
    <3>1. B(k + 1) = B(k)
      BY <1>1, <2>4 DEF Support
    <3>2. T[k + 1] = T[k]
      <4>1. k + 1 - 1 = k
        BY <1>1
      <4> QED BY <2>1, <2>4, <4>1, TotalsFacts
    <3> QED BY <1>4, <2>1, <3>1, <3>2
  <2> QED BY <2>3, <2>4
<1>5. \A k \in 0 .. N : k \in S
  <2> HIDE DEF S
  <2> QED BY <1>1, <1>3, <1>4, UpTo
<1>6. i - 1 \in 0 .. N /\ Before(t, i) = B(i - 1)
  BY <1>1 DEF Before, Support
<1>7. IsFiniteSet(B(i - 1)) /\ Cardinality(B(i - 1)) <= T[i - 1]
  BY <1>5, <1>6
<1>8. Cardinality(B(i - 1)) \in Nat
  BY <1>7, FS_CardinalityType
<1> QED BY <1>6, <1>7, <1>8 DEF Pos

\* The node in whose stretch a position lies is the last that begins before it.
LEMMA HitFacts ==
  ASSUME TypeOK, NEW t \in Tasks, NEW hit \in 0 .. TotalWeight(t) - 1
  PROVE  \E i \in Support(t) : /\ IsHit(t, hit, i)
                               /\ Pos(t, i) <= hit
                               /\ hit < Pos(t, i) + Weight[nodes[i]]
PROOF
<1> DEFINE N == Len(nodes)
           T == Totals(t)
           Behind == {k \in 0 .. N : hit < T[k]}
<1>1. N \in Nat /\ T \in [0 .. N -> Nat] /\ T[0] = 0
  BY TotalsFacts DEF TypeOK
<1>2. hit \in Nat /\ hit < T[N]
  <2>1. T[N] \in Nat
    BY <1>1
  <2> QED BY <2>1 DEF TotalWeight
<1>3. PICK i \in Behind : \A k \in Behind : i <= k
  <2>1. N \in Behind /\ Behind \in SUBSET Nat
    BY <1>1, <1>2
  <2> QED BY <2>1, LeastExists
<1>4. i \in 1 .. N /\ hit < T[i]
  BY <1>1, <1>2, <1>3
<1>5. T[i - 1] \in Nat /\ T[i] \in Nat /\ T[i - 1] <= hit
  <2>1. i - 1 \in 0 .. N /\ ~(i <= i - 1)
    BY <1>1, <1>4
  <2>2. i - 1 \notin Behind
    BY <1>3, <2>1
  <2>3. T[i - 1] \in Nat /\ T[i] \in Nat
    BY <1>1, <1>4, <2>1
  <2> QED BY <1>2, <2>1, <2>2, <2>3
<1>6. i \in Support(t) /\ T[i] = T[i - 1] + Weight[nodes[i]]
  <2>1. T[i] # T[i - 1]
    BY <1>2, <1>4, <1>5
  <2> QED BY <1>4, <2>1, TotalsFacts
<1>7. i \in Candidates(t, hit)
  <2>1. Cardinality(Before(t, i)) \in Nat /\ Cardinality(Before(t, i)) <= T[i - 1]
    BY <1>4, RankFacts DEF Pos
  <2>2. Cardinality(Before(t, i)) <= hit
    BY <1>2, <1>5, <2>1
  <2> QED BY <1>5, <1>6, <2>2 DEF Candidates, Pos
<1>8. ASSUME NEW j \in Candidates(t, hit)
      PROVE  j <= i
  <2>1. j \in 1 .. N /\ T[j - 1] <= hit
    BY DEF Candidates, Support, Pos
  <2>2. SUFFICES ASSUME j > i PROVE FALSE
    BY <1>1, <1>4, <2>1
  <2>3. j - 1 \in 0 .. N /\ i \in 0 .. j - 1
    BY <1>1, <1>4, <2>1, <2>2
  <2>4. T[i] <= T[j - 1] /\ T[j - 1] \in Nat
    BY <1>1, <2>3, TotalsGrow
  <2> QED BY <1>2, <1>4, <1>5, <2>1, <2>4
<1>9. IsHit(t, hit, i)
  BY <1>7, <1>8 DEF IsHit
<1> QED BY <1>4, <1>5, <1>6, <1>9 DEF Pos

\* _schedule is proportional: each node is hit from the positions of its own stretch,
\* which is as long as its weight, whatever nodes were added and support the task.
THEOREM ScheduleIsProportional == Spec => []HitsAreProportional
PROOF
<1>1. TypeOK => HitsAreProportional
  BY HitFacts DEF HitsAreProportional
<1> QED BY <1>1, TypeCorrect, PTL

-----------------------------------------------------------------------------
(* The states DONE and ERROR are final, ERROR as far as the timeout allows. *)

\* A node that starts or ends a task finds a task no node has ended.
LEMMA NodeChangesUnended ==
  ASSUME IInv, NEW n \in Nodes, NodeStep(n), NEW t \in Tasks, state'[t] # state[t]
  PROVE  finished[t] = "no"
<1>0. TypeOK /\ QueuedOnce /\ RunningOnce /\ \A u \in Tasks : Progress(u)
  BY DEF IInv
<1>1. ASSUME NEW k, NEW s, state' = [state EXCEPT ![k] = s] PROVE t = k
  BY <1>0, <1>1 DEF TypeOK
<1>2. CASE Take(n) \/ RunLocal(n) \/ DescribePicture(n)
  <2>1. PICK k : k = Head(node_queue[n])
    OBVIOUS
  <2>2. /\ loop[n] = "idle" /\ node_queue[n] # <<>>
        /\ node_queue' = [node_queue EXCEPT ![n] = Tail(@)]
        /\ runs' = [runs EXCEPT ![k] = @ + 1]
        /\ UNCHANGED <<task_queue, waiter>>
        /\ \E s : state' = [state EXCEPT ![k] = s]
    BY <1>2, <2>1 DEF Take, RunLocal, DescribePicture
  <2>3. finished[k] = "no"
    BY <1>0, <2>1, <2>2, NodeQueueTail
  <2>4. QED
    BY <1>1, <2>2, <2>3
<1>3. CASE ChatEnds(n) \/ VoiceEnds(n)
  <2>1. loop[n] = "busy" /\ \E s : state' = [state EXCEPT ![running[n]] = s]
    BY <1>3 DEF ChatEnds, VoiceEnds, End
  <2>2. finished[running[n]] = "no"
    BY <1>0, <2>1 DEF RunningOnce
  <2>3. QED
    BY <1>1, <2>1, <2>2
<1>4. CASE ChatRaises(n)
  BY <1>4 DEF ChatRaises
<1>5. QED
  BY <1>2, <1>3, <1>4 DEF NodeStep

\* DONE is never left; ERROR is only left when it came from a timeout.
THEOREM EndsAreFinal == Spec => EndIsFinal
<1> DEFINE Final == \A t \in Tasks :
             /\ state[t] = "DONE" => state'[t] = "DONE"
             /\ state[t] = "ERROR" /\ state'[t] # "ERROR" =>
                  checks[t] = CheckLimit /\ waiter[t] \in {"woken", "returned"}
<1>1. IInv /\ [Next]_vars => Final
  <2> SUFFICES ASSUME IInv, [Next]_vars, NEW t \in Tasks, state'[t] # state[t]
               PROVE  /\ state[t] # "DONE"
                      /\ state[t] = "ERROR" =>
                           checks[t] = CheckLimit /\ waiter[t] \in {"woken", "returned"}
    OBVIOUS
  <2>1. CASE finished[t] = "no"
    BY <2>1 DEF IInv, Progress
  <2>2. ASSUME NEW u \in Tasks, Check(u) PROVE state[t] \notin {"DONE", "ERROR"}
    BY <2>2 DEF Check, IInv, TypeOK
  <2>3. CASE UNCHANGED vars
    BY <2>3 DEF vars
  <2>4. ASSUME NEW u \in Tasks, Submit(u) \/ Return(u) PROVE FALSE
    BY <2>4 DEF Submit, Return
  <2>5. CASE Start \/ Drop \/ Schedule
    BY <2>5 DEF Start, Drop, Schedule
  <2>6. ASSUME NEW n \in Nodes, AddNode(n) PROVE FALSE
    BY <2>6 DEF AddNode
  <2>7. ASSUME NEW n \in Nodes, NodeStep(n) PROVE finished[t] = "no"
    BY <2>7, NodeChangesUnended
  <2>8. QED
    BY <2>1, <2>2, <2>3, <2>4, <2>5, <2>6, <2>7 DEF Next
<1>2. QED
  BY <1>1, Invariance, PTL DEF Spec, EndIsFinal

-----------------------------------------------------------------------------
(* The kernel implements RequestReply.                                     *)

\* Steps that move no caller and end no task are stutters of the promise.
LEMMA PromiseFrame ==
  ASSUME UNCHANGED <<waiter, got, finished>>
  PROVE  UNCHANGED Promise!vars
BY DEF Promise!vars, CallerOf

\* The end of a task is the Answer to it, also when its caller has given up.
LEMMA EndAnswers ==
  ASSUME IInv, NEW t \in Tasks, waiter[t] # "idle",
         finished[t] = "no", UNCHANGED <<waiter, got>>,
         NEW o \in {"ok", "err"}, finished' = [finished EXCEPT ![t] = o]
  PROVE  Promise!Answer(t)
<1>0. TypeOK /\ Progress(t)
  BY DEF IInv
<1>1. waiter[t] \in {"waiting", "woken", "returned"}
  BY <1>0 DEF TypeOK
<1>2. waiter[t] = "returned" => got[t].finished = "no"
  BY <1>0 DEF Progress
<1>3. CallerOf(t) \in {"waiting", "gaveup"}
  BY <1>1, <1>2 DEF CallerOf
<1>4. \A u \in Tasks : CallerOf(u)' = CallerOf(u)
  BY DEF CallerOf
<1>5. /\ t \notin {u \in Tasks : finished[u] # "no"}
      /\ {u \in Tasks : finished'[u] # "no"} = {u \in Tasks : finished[u] # "no"} \cup {t}
  BY <1>0 DEF TypeOK
<1>6. QED
  BY <1>3, <1>4, <1>5 DEF Promise!Answer

\* A step of one caller changes one caller of the promise.
LEMMA CallerStep ==
  ASSUME IInv, NEW t \in Tasks, Submit(t) \/ Check(t) \/ Return(t)
  PROVE  [Promise!Next]_(Promise!vars)
<1> USE DEF Promise!Next
<1>0. TypeOK /\ Progress(t)
  BY DEF IInv
<1>1. ASSUME NEW u \in Tasks, u # t PROVE CallerOf(u)' = CallerOf(u)
  <2>1. /\ waiter'[u] = waiter[u] /\ got'[u] = got[u]
    BY <1>0, <1>1 DEF Submit, Check, Return, TypeOK
  <2>2. QED
    BY <2>1 DEF CallerOf
<1>2. finished' = finished
  BY DEF Submit, Check, Return
<1>3. CASE Submit(t)
  <2>1. CallerOf(t) = "idle" /\ CallerOf(t)' = "waiting"
    BY <1>0, <1>3 DEF Submit, CallerOf, TypeOK
  <2>2. Promise!Ask(t)
    BY <1>1, <1>2, <2>1 DEF Promise!Ask
  <2>3. QED
    BY <2>2
<1>4. CASE Check(t)
  <2>1. CallerOf(t) = "waiting" /\ CallerOf(t)' = "waiting"
    BY <1>0, <1>4 DEF Check, CallerOf, TypeOK
  <2>2. QED
    BY <1>1, <1>2, <2>1 DEF Promise!vars
<1>5. CASE Return(t)
  <2>1. /\ waiter[t] = "woken" /\ waiter'[t] = "returned"
        /\ got'[t].finished = finished[t]
    BY <1>0, <1>5 DEF Return, Snapshot, TypeOK
  <2>2. CASE finished[t] = "no"
    <3>1. CallerOf(t) = "waiting" /\ CallerOf(t)' = "gaveup"
      BY <2>1, <2>2 DEF CallerOf
    <3>2. Promise!GiveUp(t)
      BY <1>1, <1>2, <3>1 DEF Promise!GiveUp
    <3>3. QED
      BY <3>2
  <2>3. CASE finished[t] # "no"
    <3>1. CallerOf(t) = "waiting" /\ CallerOf(t)' = "returned"
      BY <2>1, <2>3 DEF CallerOf
    <3>2. Promise!Return(t)
      BY <1>1, <1>2, <2>3, <3>1 DEF Promise!Return
    <3>3. QED
      BY <3>2
  <2>4. QED
    BY <2>2, <2>3
<1>6. QED
  BY <1>3, <1>4, <1>5

\* A step of a node is an Answer or no step of the promise.
LEMMA NodeRefines ==
  ASSUME IInv, NEW n \in Nodes, NodeStep(n)
  PROVE  [Promise!Next]_(Promise!vars)
<1> USE DEF Promise!Next
<1>0. TypeOK /\ QueuedOnce /\ RunningOnce /\ \A u \in Tasks : Progress(u)
  BY DEF IInv
<1>1. CASE UNCHANGED <<waiter, got, finished>>
  BY <1>1, PromiseFrame
<1>2. CASE ChatEnds(n) \/ VoiceEnds(n)
  <2>1. PICK t : t = running[n]
    OBVIOUS
  <2>2. /\ t \in Tasks /\ waiter[t] # "idle" /\ finished[t] = "no"
    <3>1. t \in Tasks /\ runs[t] = 1 /\ finished[t] = "no"
      BY <1>0, <1>2, <2>1 DEF ChatEnds, VoiceEnds, RunningOnce, TypeOK
    <3>2. runs[t] # 0
      BY <3>1
    <3>3. Progress(t)
      BY <1>0, <3>1
    <3>4. QED
      BY <3>1, <3>2, <3>3 DEF Progress
  <2>3. PICK o \in {"ok", "err"} : finished' = [finished EXCEPT ![t] = o]
    BY <1>2, <2>1 DEF ChatEnds, VoiceEnds, End
  <2>4. UNCHANGED <<waiter, got>>
    BY <1>2 DEF ChatEnds, VoiceEnds, End
  <2>5. Promise!Answer(t)
    BY <2>2, <2>3, <2>4, EndAnswers
  <2>6. QED
    BY <2>2, <2>5
<1>3. CASE (RunLocal(n) \/ DescribePicture(n)) /\ ~UNCHANGED <<waiter, got, finished>>
  <2>1. PICK t : t = Head(node_queue[n])
    OBVIOUS
  <2>2. /\ loop[n] = "idle" /\ node_queue[n] # <<>>
        /\ node_queue' = [node_queue EXCEPT ![n] = Tail(@)]
        /\ runs' = [runs EXCEPT ![t] = @ + 1]
        /\ UNCHANGED <<task_queue, waiter, got>>
    BY <1>3, <2>1 DEF RunLocal, DescribePicture
  <2>3. t \in Tasks /\ waiter[t] # "idle" /\ finished[t] = "no"
    BY <1>0, <2>1, <2>2, NodeQueueTail
  <2>4. PICK o \in {"ok", "err"} : finished' = [finished EXCEPT ![t] = o]
    BY <1>3, <2>1, <2>2 DEF RunLocal, DescribePicture
  <2>5. Promise!Answer(t)
    BY <2>2, <2>3, <2>4, EndAnswers
  <2>6. QED
    BY <2>3, <2>5
<1>4. QED
  BY <1>1, <1>2, <1>3 DEF NodeStep, Take, ChatRaises

\* Every behaviour of the kernel is a behaviour of RequestReply: initial states
\* map to initial states and every step to a step or a stutter.
THEOREM KeepsPromise == Spec => PromiseSpec
<1>1. Init => Promise!Init
  BY DEF Init, Promise!Init, CallerOf
<1>2. IInv /\ [Next]_vars => [Promise!Next]_(Promise!vars)
  <2> SUFFICES ASSUME IInv, [Next]_vars PROVE [Promise!Next]_(Promise!vars)
    OBVIOUS
  <2>1. CASE UNCHANGED vars
    BY <2>1, PromiseFrame DEF vars
  <2>2. ASSUME NEW n \in Nodes, AddNode(n) PROVE UNCHANGED Promise!vars
    BY <2>2, PromiseFrame DEF AddNode
  <2>3. CASE Start \/ Drop \/ Schedule
    BY <2>3, PromiseFrame DEF Start, Drop, Schedule
  <2>4. QED
    BY <2>1, <2>2, <2>3, CallerStep, NodeRefines DEF Next
<1>3. QED
  BY <1>1, <1>2, Invariance, PTL DEF Spec, PromiseSpec, Promise!Spec
=============================================================================
