--------------------------- MODULE ComputeKernel ---------------------------
(***************************************************************************)
(* The compute kernel, src/src/aios/frame/compute_kernel.py, with the      *)
(* nodes it schedules tasks on (frame/queue_compute_node.py and            *)
(* the nodes under component) and the callers that wait for a task, the    *)
(* do_llm_completion, do_text_embedding, ... of the kernel.                *)
(*                                                                         *)
(* Three kinds of coroutine share a ComputeTask and its state and result   *)
(* fields: the caller, through a check_timer that looks at the state twice *)
(* a second and gives up after a timeout; the loop of the kernel; and the  *)
(* loop of the node.  Nothing tells the node that the caller gave up, and  *)
(* nothing tells the caller that a loop died of an exception.              *)
(*                                                                         *)
(* The nodes come in three kinds, by how their loop ends a task.           *)
(*   "chat"   (OpenAI, the test node): asynchronous; an ERROR result is    *)
(*            attached when the task starts; whatever result comes back,   *)
(*            of an error too, is stored with state DONE; an exception     *)
(*            ends the loop.  For a picture to be described, the code of   *)
(*            that result is set to OK before the call, which blocks the   *)
(*            event loop, and stays OK when the service refuses or the     *)
(*            call raises.                                                 *)
(*   "voice"  (Whisper, the speech nodes): asynchronous; no result before  *)
(*            the end; an exception is caught and stored as state ERROR    *)
(*            with a fresh result, whose code nobody sets.                 *)
(*   "local"  (llama, DALL-E, Stability): the call blocks the event loop,  *)
(*            so the task starts and ends in one step; the state follows   *)
(*            the code; an exception ends the loop.                        *)
(***************************************************************************)
EXTENDS Integers, Sequences, FiniteSets

CONSTANTS
  Nodes,       \* node objects
  Tasks,
  None,
  Kind,        \* Kind[n] \in {"chat", "voice", "local"}
  NodeId,      \* NodeId[n]: node.node_id, the key of compute_nodes
  Supports,    \* Supports[n]: the tasks n.is_support accepts
  Pictures,    \* the tasks of type IMAGE_2_TEXT
  Weight,      \* Weight[n]: n.weight(), 1 unless a node overrides it
  Fragile,     \* nodes whose push_task raises (a test node without a load)
  CheckLimit,  \* check_timer gives up after timeout * 2 checks
  MaxNodes,    \* bound: nodes offered
  MaxCalls     \* bound: calls of do_*

ASSUME KernelAssumption ==
  /\ Kind \in [Nodes -> {"chat", "voice", "local"}]
  /\ Supports \in [Nodes -> SUBSET Tasks]
  /\ Pictures \subseteq Tasks
  /\ Weight \in [Nodes -> Nat \ {0}]
  /\ CheckLimit \in Nat /\ MaxNodes \in Nat /\ MaxCalls \in Nat
  /\ None \notin Nodes \cup Tasks

VARIABLES
  nodes,       \* compute_nodes, in insertion order
  offered,     \* the nodes add_compute_node was called with, each once
  kernel,      \* the task loop of the kernel: "off", "running" or "dead"
  task_queue,  \* ComputeKernel.task_queue
  node_queue,  \* node_queue[n]: the task_queue of n
  loop,        \* loop[n]: the task loop of n
  running,     \* running[n]: the task that loop is running
  state,       \* state[t]: ComputeTask.state
  result,      \* result[t]: the code of ComputeTask.result
  waiter,      \* waiter[t]: where the do_* call of t stands
  checks,      \* checks[t]: check_times
  got,         \* got[t]: what that call returned, and what was true then
  runs,        \* runs[t]: how often a node started t (observation)
  finished     \* finished[t]: how a node ended t (observation)

vars == <<nodes, offered, kernel, task_queue, node_queue, loop, running, state,
          result, waiter, checks, got, runs, finished>>

\* Nodes set codes of proto/compute_task (what package aios exports); the kernel
\* and the default of a fresh result are codes of proto/compute_task_test, and
\* members of different enums are never equal.
Code == {"OK", "ERROR", "kernel OK", "kernel TIMEOUT"}

TaskState == {"INIT", "RUNNING", "DONE", "ERROR"}

Outcome == {"no", "ok", "err"}

Returned == [code : Code, state : TaskState, finished : Outcome, runs : Nat]

ASSUME NoneIsNew == None \notin Code /\ None \notin Returned

TypeOK ==
  /\ nodes \in Seq(Nodes)
  /\ offered \subseteq Nodes
  /\ kernel \in {"off", "running", "dead"}
  /\ task_queue \in Seq(Tasks)
  /\ node_queue \in [Nodes -> Seq(Tasks)]
  /\ loop \in [Nodes -> {"off", "idle", "busy", "dead"}]
  /\ running \in [Nodes -> Tasks \cup {None}]
  /\ state \in [Tasks -> TaskState]
  /\ result \in [Tasks -> Code \cup {None}]
  /\ waiter \in [Tasks -> {"idle", "waiting", "woken", "returned"}]
  /\ checks \in [Tasks -> 0 .. CheckLimit]
  /\ got \in [Tasks -> Returned \cup {None}]
  /\ runs \in [Tasks -> Nat]
  /\ finished \in [Tasks -> Outcome]

Init ==
  /\ nodes = <<>>
  /\ offered = {}
  /\ kernel = "off"
  /\ task_queue = <<>>
  /\ node_queue = [n \in Nodes |-> <<>>]
  /\ loop = [n \in Nodes |-> "off"]
  /\ running = [n \in Nodes |-> None]
  /\ state = [t \in Tasks |-> "INIT"]
  /\ result = [t \in Tasks |-> None]
  /\ waiter = [t \in Tasks |-> "idle"]
  /\ checks = [t \in Tasks |-> 0]
  /\ got = [t \in Tasks |-> None]
  /\ runs = [t \in Tasks |-> 0]
  /\ finished = [t \in Tasks |-> "no"]

-----------------------------------------------------------------------------
(* Nodes join; the kernel starts.                                          *)

\* A node starts its loop, then add_compute_node refuses it if its id is taken.
AddNode(n) ==
  /\ n \notin offered /\ Cardinality(offered) < MaxNodes
  /\ offered' = offered \cup {n}
  /\ loop' = [loop EXCEPT ![n] = "idle"]
  /\ nodes' = IF \E i \in 1 .. Len(nodes) : NodeId[nodes[i]] = NodeId[n]
             THEN nodes ELSE Append(nodes, n)
  /\ UNCHANGED <<kernel, task_queue, node_queue, running, state, result, waiter,
                 checks, got, runs, finished>>

Start ==
  /\ kernel = "off"
  /\ kernel' = "running"
  /\ UNCHANGED <<nodes, offered, task_queue, node_queue, loop, running, state,
                 result, waiter, checks, got, runs, finished>>

-----------------------------------------------------------------------------
(* _schedule: a random position on a line where the nodes that support the *)
(* task lie one after the other, each as long as its weight.               *)

Support(t) == {i \in 1 .. Len(nodes) : t \in Supports[nodes[i]]}

\* total_weights after each node.
Totals(t) ==
  LET total[i \in 0 .. Len(nodes)] ==
        IF i = 0 THEN 0
        ELSE total[i - 1] + (IF t \in Supports[nodes[i]] THEN Weight[nodes[i]] ELSE 0)
  IN  total

Pos(t, i) == Totals(t)[i - 1]

TotalWeight(t) == Totals(t)[Len(nodes)]

Before(t, i) == {j \in Support(t) : j < i}

\* Mutant: the backward loop returns the first node it looks at.
CandidatesByRank(t, hit) == {i \in Support(t) : Cardinality(Before(t, i)) <= hit}

\* The backward loop starts at min(len - 1, hit_pos).
Candidates(t, hit) ==
  {i \in Support(t) : Cardinality(Before(t, i)) <= hit /\ Pos(t, i) <= hit}

IsHit(t, hit, i) ==
  /\ i \in Candidates(t, hit)
  /\ \A j \in Candidates(t, hit) : j <= i

-----------------------------------------------------------------------------
(* The caller.                                                             *)

\* do_*: is_task_support is always true, so run queues the task unseen.
Submit(t) ==
  /\ waiter[t] = "idle" /\ Cardinality({u \in Tasks : waiter[u] # "idle"}) < MaxCalls
  /\ waiter' = [waiter EXCEPT ![t] = "waiting"]
  /\ task_queue' = Append(task_queue, t)
  /\ UNCHANGED <<nodes, offered, kernel, node_queue, loop, running, state,
                 result, checks, got, runs, finished>>

\* Mutant: check_times > timeout * 2.
CheckOffByOne(t) ==
  /\ waiter[t] = "waiting"
  /\ IF state[t] \in {"DONE", "ERROR"} \/ checks[t] > CheckLimit
     THEN waiter' = [waiter EXCEPT ![t] = "woken"] /\ UNCHANGED checks
     ELSE checks' = [checks EXCEPT ![t] = @ + 1] /\ UNCHANGED waiter
  /\ UNCHANGED <<nodes, offered, kernel, task_queue, node_queue, loop, running,
                 state, result, got, runs, finished>>

\* Mutant: the timeout is looked at before the state.
CheckTimeFirst(t) ==
  /\ waiter[t] = "waiting"
  /\ IF checks[t] >= CheckLimit
     THEN /\ state' = [state EXCEPT ![t] = "ERROR"]
          /\ waiter' = [waiter EXCEPT ![t] = "woken"]
          /\ UNCHANGED checks
     ELSE /\ checks' = [checks EXCEPT ![t] = @ + 1]
          /\ UNCHANGED <<state, waiter>>
  /\ UNCHANGED <<nodes, offered, kernel, task_queue, node_queue, loop, running,
                 result, got, runs, finished>>

\* Mutant: check_timer has no timeout.
CheckNoTimeout(t) ==
  /\ waiter[t] = "waiting"
  /\ state[t] \in {"DONE", "ERROR"}
  /\ waiter' = [waiter EXCEPT ![t] = "woken"]
  /\ UNCHANGED <<nodes, offered, kernel, task_queue, node_queue, loop, running,
                 state, checks, result, got, runs, finished>>

\* One round of check_timer.
Check(t) ==
  /\ waiter[t] = "waiting"
  /\ \/ /\ state[t] \in {"DONE", "ERROR"}
        /\ waiter' = [waiter EXCEPT ![t] = "woken"]
        /\ UNCHANGED <<state, checks>>
     \/ /\ state[t] \notin {"DONE", "ERROR"}
        /\ checks[t] >= CheckLimit
        /\ state' = [state EXCEPT ![t] = "ERROR"]
        /\ waiter' = [waiter EXCEPT ![t] = "woken"]
        /\ UNCHANGED checks
     \/ /\ state[t] \notin {"DONE", "ERROR"}
        /\ checks[t] < CheckLimit
        /\ checks' = [checks EXCEPT ![t] = @ + 1]
        /\ UNCHANGED <<state, waiter>>
  /\ UNCHANGED <<nodes, offered, kernel, task_queue, node_queue, loop, running,
                 result, got, runs, finished>>

\* What a return hands over and what was true at that moment.
Snapshot(t, code) ==
  [code |-> code, state |-> state[t], finished |-> finished[t], runs |-> runs[t]]

\* Mutant: a task that timed out is queued again.
ReturnRetries(t) ==
  LET code == IF result[t] # None THEN result[t] ELSE "kernel TIMEOUT" IN
  /\ waiter[t] = "woken"
  /\ waiter' = [waiter EXCEPT ![t] = "returned"]
  /\ result' = [result EXCEPT ![t] = code]
  /\ got' = [got EXCEPT ![t] = Snapshot(t, code)]
  /\ task_queue' = IF code = "kernel TIMEOUT" THEN Append(task_queue, t) ELSE task_queue
  /\ UNCHANGED <<nodes, offered, kernel, node_queue, loop, running, state,
                 checks, runs, finished>>

\* Mutant: every ERROR is returned as a TIMEOUT.
ReturnErrorAsTimeout(t) ==
  LET code == IF state[t] = "DONE" THEN result[t] ELSE "kernel TIMEOUT" IN
  /\ waiter[t] = "woken"
  /\ waiter' = [waiter EXCEPT ![t] = "returned"]
  /\ result' = [result EXCEPT ![t] = code]
  /\ got' = [got EXCEPT ![t] = Snapshot(t, code)]
  /\ UNCHANGED <<nodes, offered, kernel, task_queue, node_queue, loop, running,
                 state, checks, runs, finished>>

\* Mutant: a call that timed out returns a second time when the answer comes.
ReturnAgain(t) ==
  LET code == IF result[t] # None THEN result[t] ELSE "kernel TIMEOUT" IN
  /\ waiter[t] \in {"woken", "returned"}
  /\ waiter' = [waiter EXCEPT ![t] = "returned"]
  /\ result' = [result EXCEPT ![t] = code]
  /\ got' = [got EXCEPT ![t] = Snapshot(t, code)]
  /\ UNCHANGED <<nodes, offered, kernel, task_queue, node_queue, loop, running,
                 state, checks, runs, finished>>

\* _wait_task resumes after check_timer has ended, a step of its own: it returns
\* the result it finds then, or attaches and returns a TIMEOUT.
Return(t) ==
  LET code == IF result[t] # None THEN result[t] ELSE "kernel TIMEOUT" IN
  /\ waiter[t] = "woken"
  /\ waiter' = [waiter EXCEPT ![t] = "returned"]
  /\ result' = [result EXCEPT ![t] = code]
  /\ got' = [got EXCEPT ![t] = Snapshot(t, code)]
  /\ UNCHANGED <<nodes, offered, kernel, task_queue, node_queue, loop, running,
                 state, checks, runs, finished>>

-----------------------------------------------------------------------------
(* The loop of the kernel.                                                 *)

\* Mutant: a task no node supports is put back.
DropRequeues ==
  /\ kernel = "running"
  /\ task_queue # <<>>
  /\ Support(Head(task_queue)) = {}
  /\ task_queue' = Append(Tail(task_queue), Head(task_queue))
  /\ UNCHANGED <<nodes, offered, kernel, node_queue, loop, running, state,
                 result, waiter, checks, got, runs, finished>>

\* No node supports the task: it is dropped and its caller not told.
Drop ==
  /\ kernel = "running"
  /\ task_queue # <<>>
  /\ Support(Head(task_queue)) = {}
  /\ task_queue' = Tail(task_queue)
  /\ UNCHANGED <<nodes, offered, kernel, node_queue, loop, running, state,
                 result, waiter, checks, got, runs, finished>>

\* push_task puts the task in the queue of the node, or raises, and then the
\* task and the loop of the kernel are lost.
Schedule ==
  /\ kernel = "running"
  /\ task_queue # <<>>
  /\ task_queue' = Tail(task_queue)
  /\ \E i \in Support(Head(task_queue)) :
       /\ \E hit \in 0 .. TotalWeight(Head(task_queue)) - 1 : IsHit(Head(task_queue), hit, i)
       /\ IF nodes[i] \in Fragile
          THEN kernel' = "dead" /\ UNCHANGED node_queue
          ELSE /\ node_queue' = [node_queue EXCEPT
                                  ![nodes[i]] = Append(@, Head(task_queue))]
               /\ UNCHANGED kernel
  /\ UNCHANGED <<nodes, offered, loop, running, state, result, waiter, checks,
                 got, runs, finished>>

-----------------------------------------------------------------------------
(* The loops of the nodes.                                                 *)

\* The node is asked to describe a picture.
Describes(n, t) == Kind[n] = "chat" /\ t \in Pictures

\* Mutant: the result attached at the start has the default code.
TakeDefaultOk(n) ==
  LET t == Head(node_queue[n]) IN
  /\ loop[n] = "idle"
  /\ node_queue[n] # <<>>
  /\ Kind[n] # "local" /\ ~Describes(n, t)
  /\ node_queue' = [node_queue EXCEPT ![n] = Tail(@)]
  /\ loop' = [loop EXCEPT ![n] = "busy"]
  /\ running' = [running EXCEPT ![n] = t]
  /\ state' = [state EXCEPT ![t] = "RUNNING"]
  /\ result' = [result EXCEPT ![t] = "OK"]
  /\ runs' = [runs EXCEPT ![t] = @ + 1]
  /\ UNCHANGED <<nodes, offered, kernel, task_queue, waiter, checks, got, finished>>

\* A chat or voice node takes a task and suspends in the call of its service.
Take(n) ==
  LET t == Head(node_queue[n]) IN
  /\ loop[n] = "idle"
  /\ node_queue[n] # <<>>
  /\ Kind[n] # "local" /\ ~Describes(n, t)
  /\ node_queue' = [node_queue EXCEPT ![n] = Tail(@)]
  /\ loop' = [loop EXCEPT ![n] = "busy"]
  /\ running' = [running EXCEPT ![n] = t]
  /\ state' = [state EXCEPT ![t] = "RUNNING"]
  /\ result' = IF Kind[n] = "chat" THEN [result EXCEPT ![t] = "ERROR"] ELSE result
  /\ runs' = [runs EXCEPT ![t] = @ + 1]
  /\ UNCHANGED <<nodes, offered, kernel, task_queue, waiter, checks, got, finished>>

\* The task of n ended: s and c are stored whether anybody still waits or not.
End(n, s, c, o) ==
  /\ state' = [state EXCEPT ![running[n]] = s]
  /\ result' = [result EXCEPT ![running[n]] = c]
  /\ finished' = [finished EXCEPT ![running[n]] = o]
  /\ loop' = [loop EXCEPT ![n] = "idle"]
  /\ running' = [running EXCEPT ![n] = None]
  /\ UNCHANGED <<nodes, offered, kernel, task_queue, node_queue, waiter, checks,
                 got, runs>>

ChatEnds(n) ==
  /\ loop[n] = "busy"
  /\ Kind[n] = "chat"
  /\ End(n, "DONE", "OK", "ok") \/ End(n, "DONE", "ERROR", "err")

VoiceEnds(n) ==
  /\ loop[n] = "busy"
  /\ Kind[n] = "voice"
  /\ End(n, "DONE", "kernel OK", "ok") \/ End(n, "ERROR", "kernel OK", "err")

ChatRaises(n) ==
  /\ loop[n] = "busy"
  /\ Kind[n] = "chat"
  /\ loop' = [loop EXCEPT ![n] = "dead"]
  /\ running' = [running EXCEPT ![n] = None]
  /\ UNCHANGED <<nodes, offered, kernel, task_queue, node_queue, state, result,
                 waiter, checks, got, runs, finished>>

\* A local node takes a task and ends it, or dies of it, before anybody else runs.
RunLocal(n) ==
  LET t == Head(node_queue[n]) IN
  /\ loop[n] = "idle"
  /\ node_queue[n] # <<>>
  /\ Kind[n] = "local"
  /\ node_queue' = [node_queue EXCEPT ![n] = Tail(@)]
  /\ runs' = [runs EXCEPT ![t] = @ + 1]
  /\ \/ /\ state' = [state EXCEPT ![t] = "DONE"]
        /\ result' = [result EXCEPT ![t] = "OK"]
        /\ finished' = [finished EXCEPT ![t] = "ok"]
        /\ UNCHANGED loop
     \/ /\ state' = [state EXCEPT ![t] = "ERROR"]
        /\ result' = [result EXCEPT ![t] = "ERROR"]
        /\ finished' = [finished EXCEPT ![t] = "err"]
        /\ UNCHANGED loop
     \/ /\ state' = [state EXCEPT ![t] = "RUNNING"]
        /\ result' = [result EXCEPT ![t] = "ERROR"]
        /\ loop' = [loop EXCEPT ![n] = "dead"]
        /\ UNCHANGED finished
  /\ UNCHANGED <<nodes, offered, kernel, task_queue, running, waiter, checks, got>>

\* _image_2_text posts its request without an await: a description, an answer that
\* is none, or an exception that ends the loop, all with the code OK.
DescribePicture(n) ==
  LET t == Head(node_queue[n]) IN
  /\ loop[n] = "idle"
  /\ node_queue[n] # <<>>
  /\ Describes(n, t)
  /\ node_queue' = [node_queue EXCEPT ![n] = Tail(@)]
  /\ runs' = [runs EXCEPT ![t] = @ + 1]
  /\ result' = [result EXCEPT ![t] = "OK"]
  /\ \/ /\ state' = [state EXCEPT ![t] = "DONE"]
        /\ \E o \in {"ok", "err"} : finished' = [finished EXCEPT ![t] = o]
        /\ UNCHANGED loop
     \/ /\ state' = [state EXCEPT ![t] = "RUNNING"]
        /\ loop' = [loop EXCEPT ![n] = "dead"]
        /\ UNCHANGED finished
  /\ UNCHANGED <<nodes, offered, kernel, task_queue, running, waiter, checks, got>>

NodeStep(n) ==
  \/ Take(n) \/ ChatEnds(n) \/ VoiceEnds(n) \/ ChatRaises(n)
  \/ RunLocal(n) \/ DescribePicture(n)

-----------------------------------------------------------------------------
Next ==
  \/ \E n \in Nodes : AddNode(n) \/ NodeStep(n)
  \/ Start
  \/ \E t \in Tasks : Submit(t) \/ Check(t) \/ Return(t)
  \/ Drop
  \/ Schedule

Spec == Init /\ [][Next]_vars

(* asyncio runs every ready task: sleeps end, non-empty queues are read,   *)
(* and the clients the nodes call have timeouts of their own.              *)
Fairness ==
  /\ WF_vars(Start)
  /\ WF_vars(Drop \/ Schedule)
  /\ \A t \in Tasks : WF_vars(Check(t)) /\ WF_vars(Return(t))
  /\ \A n \in Nodes : WF_vars(NodeStep(n))

FairSpec == Spec /\ Fairness

-----------------------------------------------------------------------------
(* Properties.                                                             *)

\* However a caller times out and a task waits, no two nodes run a task and no
\* node runs it twice.
RunOnce == \A t \in Tasks : runs[t] <= 1

\* A loop that died may have died of describing t.
LeftUndone(t) == \E n \in Nodes : Describes(n, t) /\ t \in Supports[n] /\ loop[n] = "dead"

\* What do_* hands back agrees with itself and with what happened, whatever the
\* order of the late answer, the timeout and the return: DONE, which
\* do_text_embedding and the speech calls go by, is of a task a node ended, with the
\* code of that end; a node's OK is of a task that succeeded.  The exceptions are
\* pictures: the OK of one may be of a task that failed, or that a loop died of, and
\* then its caller waited until it had no checks left.
ReturnIsConsistent ==
  \A t \in Tasks : got[t] # None =>
    /\ got[t].code = "OK" =>
         \/ got[t].state = "DONE" /\ got[t].finished = "ok"
         \/ got[t].state = "DONE" /\ got[t].finished = "err" /\ t \in Pictures
         \/ got[t].finished = "no" /\ checks[t] = CheckLimit /\ LeftUndone(t)
    /\ got[t].state = "DONE" =>
         \/ got[t].finished = "ok" /\ got[t].code \in {"OK", "kernel OK"}
         \/ got[t].finished = "err" /\ got[t].code = IF t \in Pictures THEN "OK" ELSE "ERROR"

\* TIMEOUT is only returned for a task without an answer, and if a node has
\* started the task, then the node is one that attaches no result at the start.
TimeoutIsHonest ==
  \A t \in Tasks : got[t] # None /\ got[t].code = "kernel TIMEOUT" =>
    /\ got[t].finished = "no"
    /\ got[t].runs > 0 => \E n \in Nodes : Kind[n] = "voice" /\ t \in Supports[n]

\* What a caller gets: its task is run once at most, and what is returned is what
\* happened to it.
Outcomes == RunOnce /\ ReturnIsConsistent /\ TimeoutIsHonest

\* DONE is final, and ERROR is final unless it only meant that the caller had
\* used up its checks.
EndIsFinal ==
  [][\A t \in Tasks :
       /\ state[t] = "DONE" => state'[t] = "DONE"
       /\ state[t] = "ERROR" /\ state'[t] # "ERROR" =>
            checks[t] = CheckLimit /\ waiter[t] \in {"woken", "returned"}]_vars

\* _schedule is proportional: the position hit lies in the stretch of the node
\* chosen, for every task and every set of nodes added so far.
HitsAreProportional ==
  \A t \in Tasks :
    \A hit \in 0 .. TotalWeight(t) - 1 :
      \E i \in Support(t) :
        /\ IsHit(t, hit, i)
        /\ Pos(t, i) <= hit
        /\ hit < Pos(t, i) + Weight[nodes[i]]

\* Every do_* call comes back, also when the loops it depends on are dead.
CallsReturn == \A t \in Tasks : waiter[t] = "waiting" ~> waiter[t] = "returned"

\* A queued task leaves its queue unless the loop that serves it dies.
QueuesDrain ==
  /\ task_queue # <<>> ~> (task_queue = <<>> \/ kernel = "dead")
  /\ \A n \in Nodes : node_queue[n] # <<>> ~> (node_queue[n] = <<>> \/ loop[n] = "dead")

\* Nobody waits for ever, neither a caller nor, while its loop lives, a task.
CallsAndQueuesEnd == CallsReturn /\ QueuesDrain

\* Where the caller of the abstract promise stands.
CallerOf(t) ==
  CASE waiter[t] = "idle" -> "idle"
    [] waiter[t] \in {"waiting", "woken"} -> "waiting"
    [] OTHER -> IF got[t].finished = "no" THEN "gaveup" ELSE "returned"

Promise == INSTANCE RequestReply WITH
  Requests <- Tasks,
  caller   <- [t \in Tasks |-> CallerOf(t)],
  answered <- {t \in Tasks : finished[t] # "no"}

\* The kernel keeps the promise of RequestReply to every caller of do_*.
PromiseSpec == Promise!Spec

-----------------------------------------------------------------------------
(* What the safety properties rest on: where a task can be, and how far.   *)

\* A queued task is in one queue, once, was submitted and has not started.
QueuedOnce ==
  /\ \A i \in 1 .. Len(task_queue) :
       /\ waiter[task_queue[i]] # "idle" /\ runs[task_queue[i]] = 0
       /\ \A j \in 1 .. Len(task_queue) : task_queue[i] = task_queue[j] => i = j
  /\ \A n \in Nodes : \A i \in 1 .. Len(node_queue[n]) :
       /\ waiter[node_queue[n][i]] # "idle" /\ runs[node_queue[n][i]] = 0
       /\ node_queue[n][i] \in Supports[n]
       /\ \A j \in 1 .. Len(task_queue) : node_queue[n][i] # task_queue[j]
       /\ \A m \in Nodes : \A j \in 1 .. Len(node_queue[m]) :
            node_queue[n][i] = node_queue[m][j] => n = m /\ i = j

\* A loop is busy exactly while it runs a task, which no other loop runs, and
\* only after its node was added.
RunningOnce ==
  \A n \in Nodes :
    /\ n \notin offered => loop[n] = "off"
    /\ loop[n] = "busy" <=> running[n] # None
    /\ running[n] # None =>
         /\ runs[running[n]] = 1 /\ finished[running[n]] = "no"
         /\ ~Describes(n, running[n])
         /\ \A m \in Nodes : running[m] = running[n] => m = n

\* How state and result follow from how far a task is.
Progress(t) ==
  /\ waiter[t] = "idle" => runs[t] = 0
  /\ runs[t] = 0 => finished[t] = "no" /\ result[t] \in {None, "kernel TIMEOUT"}
  /\ finished[t] = "no" =>
       /\ state[t] # "DONE"
       /\ \/ result[t] \in {None, "kernel TIMEOUT", "ERROR"}
          \/ result[t] = "OK" /\ LeftUndone(t)
       /\ state[t] = "ERROR" =>
            checks[t] = CheckLimit /\ waiter[t] \in {"woken", "returned"}
       /\ waiter[t] \in {"woken", "returned"} => checks[t] = CheckLimit
  /\ finished[t] = "ok" => state[t] = "DONE" /\ result[t] \in {"OK", "kernel OK"}
  /\ finished[t] = "err" =>
       \/ state[t] = "DONE" /\ result[t] = IF t \in Pictures THEN "OK" ELSE "ERROR"
       \/ state[t] = "ERROR" /\ result[t] \in {"ERROR", "kernel OK"}
  /\ runs[t] > 0 /\ result[t] \in {None, "kernel TIMEOUT"} =>
       \E n \in Nodes : Kind[n] = "voice" /\ t \in Supports[n]
  /\ got[t] # None <=> waiter[t] = "returned"
  /\ got[t] # None /\ finished[t] = "no" => got[t].finished = "no"

IInv ==
  /\ TypeOK
  /\ QueuedOnce
  /\ RunningOnce
  /\ \A t \in Tasks : Progress(t)
  /\ RunOnce
  /\ ReturnIsConsistent
  /\ TimeoutIsHonest

=============================================================================
