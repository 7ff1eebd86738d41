------------------------------- MODULE AIBus -------------------------------
(***************************************************************************)
(* The message bus of the agents, src/src/aios/frame/bus.py, with the code *)
(* that registers on it and sends through it: the shell, the tunnels, and  *)
(* the message functions of an agent's workspace.                          *)
(*                                                                         *)
(* The program is one asyncio loop, so a step below is the code between    *)
(* two suspension points of one coroutine.  A handler is registered by     *)
(* name; registering a name again replaces the AIBusHandler OBJECT, while  *)
(* coroutines that hold the old object (its worker, a send_message that    *)
(* polls it) keep using it.  A handler object is therefore a pair          *)
(* <<name, incarnation>>.                                                  *)
(*                                                                         *)
(* A name stands for every address it is the prefix of: post_message and   *)
(* send_message cut an address at its first dot before they use it.  A     *)
(* reply is identified with the message it replies to (rely_msg_id).       *)
(***************************************************************************)
EXTENDS Naturals, Sequences, FiniteSets

CONSTANTS
  Users,      \* names registered by the shell or a tunnel, once per message sent
  Groups,     \* names of chat groups a tunnel registers
  Agents,     \* names of agents and workflows
  Known,      \* names _handle_no_target_msg can find a handler for
  Msgs,       \* message ids
  None,
  PollLimit,  \* send_message gives up after more than this many sleeps (1200)
  MaxGen      \* bound: registrations of one name

ASSUME BusAssumption ==
  /\ PollLimit \in Nat
  /\ MaxGen \in Nat
  /\ Known \subseteq Users \cup Groups \cup Agents
  /\ None \notin Msgs

Names   == Users \cup Groups \cup Agents
Handler == Names \X (1 .. MaxGen)

ASSUME NoneNotHandler == None \notin Handler /\ None \notin Names

VARIABLES
  gen,      \* gen[n]: the incarnation AIBus.handlers holds for n, 0 if none
  queue,    \* queue[h]: AIBusHandler.queue
  results,  \* results[h]: the messages h.results holds a reply to
  worker,   \* worker[h]: the process_queue task started for h
  current,  \* current[h]: the message that task is handling
  sender,   \* sender[m]: AgentMsg.sender
  wait,     \* wait[m]: where the send_message (or post_message) of m stands
  pollOn,   \* pollOn[m]: sender_handler, the object send_message polls
  nested,   \* nested[m]: the handler object whose handler called send_message
  polls,    \* polls[m]: retry_times
  pending,  \* post_message calls suspended in unhandle_handler
  handled,  \* handled[m]: how often a handler was called with m (observation)
  replied,  \* messages whose reply reached some results table (observation)
  failed    \* messages whose handler raised (observation)

vars == <<gen, queue, results, worker, current, sender, wait, pollOn, nested,
          polls, pending, handled, replied, failed>>

WaitState == {"idle", "fired", "posting", "waiting", "answered", "gaveup"}

\* A suspended post_message: message m (or the reply to it) on its way to a name.
Post == [msg : Msgs, reply : BOOLEAN, to : Names]

TypeOK ==
  /\ gen \in [Names -> 0 .. MaxGen]
  /\ queue \in [Handler -> Seq(Msgs)]
  /\ results \in [Handler -> SUBSET Msgs]
  /\ worker \in [Handler -> {"none", "idle", "busy", "dead"}]
  /\ current \in [Handler -> Msgs \cup {None}]
  /\ sender \in [Msgs -> Names \cup {None}]
  /\ wait \in [Msgs -> WaitState]
  /\ pollOn \in [Msgs -> Handler \cup {None}]
  /\ nested \in [Msgs -> Handler \cup {None}]
  /\ polls \in [Msgs -> 0 .. PollLimit + 1]
  /\ pending \subseteq Post
  /\ handled \in [Msgs -> Nat]
  /\ replied \subseteq Msgs
  /\ failed \subseteq Msgs

Init ==
  /\ gen = [n \in Names |-> 0]
  /\ queue = [h \in Handler |-> <<>>]
  /\ results = [h \in Handler |-> {}]
  /\ worker = [h \in Handler |-> "none"]
  /\ current = [h \in Handler |-> None]
  /\ sender = [m \in Msgs |-> None]
  /\ wait = [m \in Msgs |-> "idle"]
  /\ pollOn = [m \in Msgs |-> None]
  /\ nested = [m \in Msgs |-> None]
  /\ polls = [m \in Msgs |-> 0]
  /\ pending = {}
  /\ handled = [m \in Msgs |-> 0]
  /\ replied = {}
  /\ failed = {}

-----------------------------------------------------------------------------
(* The pieces of post_message and register_message_handler.                *)

Current(n, g) == <<n, g[n]>>

\* register_message_handler replaces whatever object the name had.
Registered(ns) == [n \in Names |-> IF n \in ns THEN gen[n] + 1 ELSE gen[n]]

CanRegister(ns) == \A n \in ns : gen[n] < MaxGen

\* Mutant: start_process is not called.
StartProcessNever(h) == worker

\* start_process creates a worker once per object, and never replaces a dead one.
StartProcess(h) == [worker EXCEPT ![h] = IF @ = "none" THEN "idle" ELSE @]

\* A message without rely_msg_id is queued and its handler's worker started.
Enqueue(m, h) ==
  /\ queue' = [queue EXCEPT ![h] = Append(@, m)]
  /\ worker' = StartProcess(h)

\* Mutant: the table keeps one reply only.
DepositAlone(m, h) ==
  /\ results' = [results EXCEPT ![h] = {m}]
  /\ replied' = replied \cup {m}

\* A reply is only put in the results of the object registered for its target.
Deposit(m, h) ==
  /\ results' = [results EXCEPT ![h] = @ \cup {m}]
  /\ replied' = replied \cup {m}

-----------------------------------------------------------------------------
(* send_message and post_message.                                          *)

(* send_message of m from s to t, after the names ns have been registered  *)
(* in the same step.  `on' is the sender whose results are polled          *)
(* (real_sender if given), w the handler object whose handler is calling.  *)
Send(m, s, t, on, ns, w) ==
  LET g == Registered(ns) IN
  /\ wait[m] = "idle"
  /\ CanRegister(ns)
  /\ gen' = g
  /\ sender' = [sender EXCEPT ![m] = s]
  /\ IF g[on] = 0
     THEN /\ wait' = [wait EXCEPT ![m] = "gaveup"]   \* sender not registered
          /\ UNCHANGED <<queue, worker, pollOn, nested, pending>>
     ELSE /\ pollOn' = [pollOn EXCEPT ![m] = Current(on, g)]
          /\ nested' = [nested EXCEPT ![m] = w]
          /\ IF g[t] > 0
             THEN /\ Enqueue(m, Current(t, g))
                  /\ wait' = [wait EXCEPT ![m] = "waiting"]
                  /\ UNCHANGED pending
             ELSE /\ wait' = [wait EXCEPT ![m] = "posting"]
                  /\ pending' = pending \cup {[msg |-> m, reply |-> FALSE, to |-> t]}
                  /\ UNCHANGED <<queue, worker>>
  /\ UNCHANGED <<results, current, polls, handled, replied, failed>>

\* The shell and the tunnels register the human sender before every message.
UserSend(m) ==
  \E u \in Users, t \in Agents : Send(m, u, t, u, {u}, None)

\* The Telegram tunnel sends a group message in the name of its human author
\* but polls the results of the group.
GroupSend(m) ==
  \E u \in Users, c \in Groups, t \in Agents : Send(m, u, t, c, {u, c}, None)

\* Mutant: the handler is not resumed when its send_message returns.
BlockedByAny(h) == \E m \in Msgs : nested[m] = h

\* A handler object that waits for the reply to a message of its own.
Blocked(h) ==
  \E m \in Msgs : nested[m] = h /\ wait[m] \in {"posting", "waiting"}

\* The handler of h is suspended in post_message, posting its reply.
Replying(h) ==
  \E p \in pending : p.reply /\ p.msg = current[h]

Running(h) == worker[h] = "busy" /\ ~Blocked(h) /\ ~Replying(h)

\* The send_message function an agent calls while it handles a message.
AgentSend(m) ==
  \E h \in Handler, t \in Names :
    /\ h[1] \in Agents
    /\ Running(h)
    /\ Send(m, h[1], t, h[1], {}, h)

\* The same function called from the agent's timer, outside any handler.
TimerSend(m) ==
  \E a \in Agents, t \in Names : Send(m, a, t, a, {}, None)

\* The post_message function: nobody waits for the reply.
AgentPost(m) ==
  \E a \in Agents, t \in Names :
    /\ wait[m] = "idle"
    /\ wait' = [wait EXCEPT ![m] = "fired"]
    /\ sender' = [sender EXCEPT ![m] = a]
    /\ IF gen[t] > 0
       THEN Enqueue(m, Current(t, gen)) /\ UNCHANGED pending
       ELSE /\ pending' = pending \cup {[msg |-> m, reply |-> FALSE, to |-> t]}
            /\ UNCHANGED <<queue, worker>>
    /\ UNCHANGED <<gen, results, current, pollOn, nested, polls, handled,
                   replied, failed>>

\* Mutant: the loop does not end when retry_times reaches its limit.
WakeUnlimited(m) ==
  /\ wait[m] = "waiting"
  /\ polls[m] <= PollLimit
  /\ polls' = [polls EXCEPT ![m] = @ + 1]
  /\ wait' = IF m \in results[pollOn[m]] THEN [wait EXCEPT ![m] = "answered"] ELSE wait
  /\ results' = [results EXCEPT ![pollOn[m]] = @ \ {m}]
  /\ UNCHANGED <<gen, queue, worker, current, sender, pollOn, nested, pending,
                 handled, replied, failed>>

\* Mutant: retry_times is compared before it is counted.
WakeOffByOne(m) ==
  /\ wait[m] = "waiting"
  /\ polls' = [polls EXCEPT ![m] = @ + 1]
  /\ wait' = IF polls[m] > PollLimit THEN [wait EXCEPT ![m] = "gaveup"]
             ELSE IF m \in results[pollOn[m]]
                  THEN [wait EXCEPT ![m] = "answered"] ELSE wait
  /\ results' = IF polls[m] > PollLimit THEN results
                ELSE [results EXCEPT ![pollOn[m]] = @ \ {m}]
  /\ UNCHANGED <<gen, queue, worker, current, sender, pollOn, nested, pending,
                 handled, replied, failed>>

\* Mutant: the reply is returned and stays in the table.
WakeKeepsResult(m) ==
  /\ wait[m] = "waiting"
  /\ polls' = [polls EXCEPT ![m] = @ + 1]
  /\ wait' = IF polls[m] + 1 > PollLimit
             THEN [wait EXCEPT ![m] = "gaveup"]
             ELSE IF m \in results[pollOn[m]]
                  THEN [wait EXCEPT ![m] = "answered"] ELSE wait
  /\ UNCHANGED <<gen, queue, results, worker, current, sender, pollOn, nested,
                 pending, handled, replied, failed>>

\* send_message wakes from its sleep: it counts first and looks afterwards.
Wake(m) ==
  /\ wait[m] = "waiting"
  /\ polls' = [polls EXCEPT ![m] = @ + 1]
  /\ \/ /\ polls[m] + 1 > PollLimit
        /\ wait' = [wait EXCEPT ![m] = "gaveup"]
        /\ UNCHANGED results
     \/ /\ polls[m] + 1 <= PollLimit
        /\ m \in results[pollOn[m]]
        /\ wait' = [wait EXCEPT ![m] = "answered"]
        /\ results' = [results EXCEPT ![pollOn[m]] = @ \ {m}]
     \/ /\ polls[m] + 1 <= PollLimit
        /\ m \notin results[pollOn[m]]
        /\ UNCHANGED <<wait, results>>
  /\ UNCHANGED <<gen, queue, worker, current, sender, pollOn, nested, pending,
                 handled, replied, failed>>

-----------------------------------------------------------------------------
(* The unhandled-message handler of the shell, and the post retried after  *)
(* it.  It looks its target up asynchronously, so several posts to one     *)
(* unregistered name may be suspended at once; each registers the name.    *)

\* Mutant: every suspended post is taken for a send_message.
AfterPostAll(p, ok) ==
  /\ wait' = IF p.reply THEN wait
             ELSE [wait EXCEPT ![p.msg] = IF ok THEN "waiting" ELSE "gaveup"]
  /\ pending' = pending \ {p}

AfterPost(p, ok) ==
  /\ wait' = IF ~p.reply /\ wait[p.msg] = "posting"
             THEN [wait EXCEPT ![p.msg] = IF ok THEN "waiting" ELSE "gaveup"]
             ELSE wait
  /\ pending' = pending \ {p}

\* handle_message is over: the worker waits for its next message.
Release(m) ==
  /\ worker' = [h \in Handler |->
                 IF worker[h] = "busy" /\ current[h] = m THEN "idle" ELSE worker[h]]
  /\ current' = [h \in Handler |-> IF current[h] = m THEN None ELSE current[h]]

ResolveFound(p) ==
  /\ p.to \in Known
  /\ CanRegister({p.to})
  /\ LET g == Registered({p.to}) IN
     /\ gen' = g
     /\ IF p.reply
        THEN /\ Deposit(p.msg, Current(p.to, g))
             /\ Release(p.msg)
             /\ UNCHANGED queue
        ELSE /\ Enqueue(p.msg, Current(p.to, g))
             /\ UNCHANGED <<results, replied, current>>
  /\ AfterPost(p, TRUE)
  /\ UNCHANGED <<sender, pollOn, nested, polls, handled, failed>>

ResolveUnknown(p) ==
  /\ p.to \notin Known
  /\ IF p.reply THEN Release(p.msg) ELSE UNCHANGED <<worker, current>>
  /\ AfterPost(p, FALSE)
  /\ UNCHANGED <<gen, queue, results, sender, pollOn, nested, polls, handled,
                 replied, failed>>

Resolve(p) == ResolveFound(p) \/ ResolveUnknown(p)

-----------------------------------------------------------------------------
(* process_queue and AIBusHandler.handle_message.                          *)

Take(h) ==
  /\ worker[h] = "idle"
  /\ queue[h] # <<>>
  /\ worker' = [worker EXCEPT ![h] = "busy"]
  /\ current' = [current EXCEPT ![h] = Head(queue[h])]
  /\ queue' = [queue EXCEPT ![h] = Tail(@)]
  /\ handled' = [handled EXCEPT ![Head(queue[h])] = @ + 1]
  /\ UNCHANGED <<gen, results, sender, wait, pollOn, nested, polls, pending,
                 replied, failed>>

\* Mutant: the reply is put in the results of the handler itself.
HandlerReplySelf(h) ==
  /\ Running(h)
  /\ h[1] \in Agents
  /\ Deposit(current[h], h)
  /\ worker' = [worker EXCEPT ![h] = "idle"]
  /\ current' = [current EXCEPT ![h] = None]
  /\ UNCHANGED <<gen, queue, sender, wait, pollOn, nested, polls, pending,
                 handled, failed>>

\* The handler returned a reply; handle_message posts it to the sender.
HandlerReply(h) ==
  LET m == current[h]
      to == sender[m] IN
  /\ Running(h)
  /\ h[1] \in Agents
  /\ IF gen[to] > 0
     THEN /\ Deposit(m, Current(to, gen))
          /\ worker' = [worker EXCEPT ![h] = "idle"]
          /\ current' = [current EXCEPT ![h] = None]
          /\ UNCHANGED pending
     ELSE /\ pending' = pending \cup {[msg |-> m, reply |-> TRUE, to |-> to]}
          /\ UNCHANGED <<results, replied, worker, current>>
  /\ UNCHANGED <<gen, queue, sender, wait, pollOn, nested, polls, handled, failed>>

\* The handler returned None (an ignored message, a message for a human).
HandlerSilent(h) ==
  /\ Running(h)
  /\ worker' = [worker EXCEPT ![h] = "idle"]
  /\ current' = [current EXCEPT ![h] = None]
  /\ UNCHANGED <<gen, queue, results, sender, wait, pollOn, nested, polls,
                 pending, handled, replied, failed>>

\* Mutant: the line that puts the message back is not commented out.
HandlerRaiseRequeues(h) ==
  /\ Running(h)
  /\ worker' = [worker EXCEPT ![h] = "idle"]
  /\ current' = [current EXCEPT ![h] = None]
  /\ queue' = [queue EXCEPT ![h] = Append(@, current[h])]
  /\ failed' = failed \cup {current[h]}
  /\ UNCHANGED <<gen, results, sender, wait, pollOn, nested, polls, pending,
                 handled, replied>>

\* The handler raised: process_queue raises too and its task is over, while
\* working_task stays set.
HandlerRaise(h) ==
  /\ Running(h)
  /\ worker' = [worker EXCEPT ![h] = "dead"]
  /\ current' = [current EXCEPT ![h] = None]
  /\ failed' = failed \cup {current[h]}
  /\ UNCHANGED <<gen, queue, results, sender, wait, pollOn, nested, polls,
                 pending, handled, replied>>

Finish(h) == HandlerReply(h) \/ HandlerSilent(h) \/ HandlerRaise(h)

-----------------------------------------------------------------------------
Next ==
  \/ \E m \in Msgs :
       \/ UserSend(m) \/ GroupSend(m) \/ AgentSend(m) \/ TimerSend(m)
       \/ AgentPost(m)
       \/ Wake(m)
  \/ \E p \in pending : Resolve(p)
  \/ \E h \in Handler : Take(h) \/ Finish(h)

Spec == Init /\ [][Next]_vars

(* asyncio runs every ready task: a sleeping send_message wakes, a worker  *)
(* takes the next message, a lookup ends, and a handler, which waits only  *)
(* for calls that have a timeout of their own, ends.                       *)
Fairness ==
  /\ \A m \in Msgs : WF_vars(Wake(m))
  /\ \A h \in Handler : WF_vars(Take(h)) /\ WF_vars(Finish(h))
  /\ \A m \in Msgs, r \in BOOLEAN, n \in Names :
       LET p == [msg |-> m, reply |-> r, to |-> n] IN
       WF_vars(p \in pending /\ Resolve(p))

FairSpec == Spec /\ Fairness

-----------------------------------------------------------------------------
(* Properties.                                                             *)

\* A message is handed to a handler at most once, whatever is re-registered,
\* resolved concurrently or raised in between.
DeliveredOnce == \A m \in Msgs : handled[m] <= 1

\* A send_message that returned a reply returned one a handler really gave to
\* that message, and took it away: no results table holds it any more.
AnswerIsReply ==
  \A m \in Msgs :
    wait[m] = "answered" =>
      m \in replied /\ \A h \in Handler : m \notin results[h]

\* A reply is never handed to anybody but the sender: it sits under the name
\* of the sender of its message, in an object that name has or had.
ReplyUnderSender ==
  \A h \in Handler : \A m \in results[h] :
    h[1] = sender[m] /\ h[2] <= gen[h[1]]

\* As long as the sender has not been registered again since the call, a reply
\* that was posted is there when its send_message wakes.
ReplyVisible ==
  \A m \in Msgs :
    /\ wait[m] = "waiting"
    /\ m \in replied
    /\ pollOn[m] = Current(sender[m], gen)
    => m \in results[pollOn[m]]

\* A queue that holds a message has a worker, started by the post itself even
\* when the object was registered a moment ago by somebody else's lookup.
QueueHasWorker ==
  \A h \in Handler : queue[h] # <<>> => worker[h] # "none"

\* What a handler gets: every message once, and a worker for every queue.
Delivery == DeliveredOnce /\ QueueHasWorker

\* What a sender gets: replies to its own messages alone, taken away when they are
\* returned, and found as long as its handler object is the one it polls.
Replies == AnswerIsReply /\ ReplyUnderSender /\ ReplyVisible

\* A message in a queue is handed to its handler unless an earlier message
\* made that handler raise.
QueueDrains ==
  \A h \in Handler :
    queue[h] # <<>> ~> (queue[h] = <<>> \/ worker[h] = "dead")

\* Where the caller of the abstract promise stands when its message does at w.
CallerOf(w) ==
  CASE w \in {"posting", "waiting"} -> "waiting"
    [] w = "answered" -> "returned"
    [] OTHER -> w

Promise == INSTANCE RequestReply WITH
  Requests <- Msgs,
  caller   <- [m \in Msgs |-> CallerOf(wait[m])],
  answered <- replied

\* The bus keeps the promise of RequestReply to every caller of send_message
\* and post_message: nobody is answered twice or before asking, and a reply is
\* returned only to a call that is still waiting.
PromiseSpec == Promise!Spec

\* With the fairness of the loop, also the promise that a call comes back.
PromiseFairSpec == Promise!FairSpec

\* Every send_message returns, also when two handlers wait for each other, an
\* agent writes to itself, or the worker that has the message is dead; and queues
\* drain unless a handler has raised.
SendsAndQueuesEnd == PromiseFairSpec /\ QueueDrains

-----------------------------------------------------------------------------
(* What the safety properties rest on: where a message can be.             *)

Queued(m, h) == \E i \in 1 .. Len(queue[h]) : queue[h][i] = m

\* A message has a sender from the moment it is sent; nobody handles it before.
SentHasSender ==
  \A m \in Msgs :
    /\ wait[m] # "idle" => sender[m] # None
    /\ wait[m] = "idle" => handled[m] = 0

\* A message that is in a queue, or on its way to one, is there once and has
\* not been handled.
QueuedOnce ==
  \A h \in Handler : \A i \in 1 .. Len(queue[h]) :
    /\ wait[queue[h][i]] # "idle"
    /\ handled[queue[h][i]] = 0
    /\ \A k \in Handler : \A j \in 1 .. Len(queue[k]) :
         queue[h][i] = queue[k][j] => h = k /\ i = j

PendingOnce ==
  \A p \in pending :
    /\ wait[p.msg] # "idle"
    /\ ~p.reply => handled[p.msg] = 0 /\ \A h \in Handler : ~Queued(p.msg, h)
    /\ p.reply => /\ p.to = sender[p.msg]
                  /\ handled[p.msg] = 1
                  /\ p.msg \notin replied
    /\ \A q \in pending : q.msg = p.msg => q = p

\* A message that is being handled is being handled by one worker and has no
\* reply yet; a worker is busy exactly while it has a message.
HandledBySelf ==
  \A h \in Handler :
    /\ (worker[h] = "busy") <=> (current[h] # None)
    /\ current[h] # None =>
         /\ wait[current[h]] # "idle"
         /\ handled[current[h]] = 1
         /\ current[h] \notin replied
         /\ \A k \in Handler : current[k] = current[h] => k = h

\* A reply exists once: in one results table, until its sender takes it.
RepliedOnce ==
  /\ \A m \in replied : wait[m] # "idle" /\ handled[m] = 1
  /\ \A h, k \in Handler : \A m \in results[h] :
       m \in replied /\ (m \in results[k] => h = k)

\* A send_message polls an object its name has or had, and only so often.
PollsKnownObject ==
  \A m \in Msgs :
    /\ wait[m] # "gaveup" => polls[m] <= PollLimit
    /\ wait[m] \in {"posting", "waiting"} => pollOn[m] # None
    /\ pollOn[m] # None => pollOn[m][2] <= gen[pollOn[m][1]]

IInv ==
  /\ TypeOK
  /\ SentHasSender
  /\ QueuedOnce
  /\ PendingOnce
  /\ HandledBySelf
  /\ RepliedOnce
  /\ PollsKnownObject
  /\ DeliveredOnce
  /\ AnswerIsReply
  /\ ReplyUnderSender
  /\ ReplyVisible
  /\ QueueHasWorker

-----------------------------------------------------------------------------
(* A statement of the repository the code does not live up to.              *)

\* "If an error occurs, put the message back into the queue" (bus.py:128).
FailedMessageKept ==
  \A m \in failed : \E h \in Handler :
    \E i \in 1 .. Len(queue[h]) : queue[h][i] = m
=============================================================================
