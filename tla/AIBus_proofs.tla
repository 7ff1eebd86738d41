---------------------------- MODULE AIBus_proofs ----------------------------
(***************************************************************************)
(* Proofs about AIBus, for every set of names and messages and every bound *)
(* on polls and registrations.  IInv is inductive; the safety properties   *)
(* are conjuncts of it.                                                    *)
(***************************************************************************)
EXTENDS AIBus, TLAPS

\* What Append does to a queue.
LEMMA AppendFacts ==
  ASSUME NEW S, NEW q \in Seq(S), NEW e \in S
  PROVE  /\ Append(q, e) \in Seq(S)
         /\ Len(Append(q, e)) = Len(q) + 1
         /\ \A i \in 1 .. Len(q) : Append(q, e)[i] = q[i]
         /\ Append(q, e)[Len(q) + 1] = e
  OBVIOUS

\* What Head and Tail do to a queue that is not empty.
LEMMA TailFacts ==
  ASSUME NEW S, NEW q \in Seq(S), q # <<>>
  PROVE  /\ Head(q) \in S
         /\ Head(q) = q[1]
         /\ Len(q) \in Nat \ {0}
         /\ Tail(q) \in Seq(S)
         /\ Len(Tail(q)) = Len(q) - 1
         /\ \A i \in 1 .. Len(Tail(q)) : Tail(q)[i] = q[i + 1]
  OBVIOUS

\* The bus without handlers and messages satisfies the inductive invariant.
THEOREM InitIInv == Init => IInv
<1> SUFFICES ASSUME Init PROVE IInv
  OBVIOUS
<1> USE BusAssumption, NoneNotHandler DEF Init
<1>1. TypeOK
  BY DEF TypeOK, WaitState
<1>2. QED
  BY <1>1 DEF IInv, SentHasSender, QueuedOnce, PendingOnce, HandledBySelf,
     RepliedOnce, PollsKnownObject, DeliveredOnce,
     AnswerIsReply, ReplyUnderSender, ReplyVisible, QueueHasWorker

\* send_message wakes: it takes its own reply or none, and gives up once.
LEMMA WakeStep ==
  ASSUME IInv, NEW m \in Msgs, Wake(m)
  PROVE  IInv'
<1> USE BusAssumption, NoneNotHandler DEF Wake, IInv
<1>a. pollOn[m] \in Handler
  BY DEF PollsKnownObject, TypeOK
<1>b. /\ \A h \in Handler : results'[h] \subseteq results[h]
      /\ \A h \in Handler : \A k \in results[h] : k # m => k \in results'[h]
      /\ wait'[m] = "answered" => m \in results[pollOn[m]] /\ m \notin results'[pollOn[m]]
      /\ wait'[m] = "waiting" => results' = results
  <2>1. CASE results' = results /\ wait'[m] # "answered"
    BY <2>1
  <2>2. CASE /\ wait' = [wait EXCEPT ![m] = "answered"]
             /\ m \in results[pollOn[m]]
             /\ results' = [results EXCEPT ![pollOn[m]] = @ \ {m}]
    <3>1. results'[pollOn[m]] = results[pollOn[m]] \ {m}
      BY <1>a, <2>2 DEF TypeOK
    <3>2. \A h \in Handler : h # pollOn[m] => results'[h] = results[h]
      BY <1>a, <2>2 DEF TypeOK
    <3>3. wait'[m] = "answered"
      BY <2>2 DEF TypeOK
    <3>4. QED
      BY <2>2, <3>1, <3>2, <3>3
  <2>3. QED
    BY <2>1, <2>2 DEF TypeOK
<1>c. polls[m] <= PollLimit /\ polls[m] \in Nat
  BY DEF PollsKnownObject, TypeOK
<1>d. /\ wait'[m] \in {"waiting", "answered", "gaveup"}
      /\ \A k \in Msgs : k # m => wait'[k] = wait[k]
  BY DEF TypeOK
<1>1. TypeOK'
  <2>1. results' \in [Handler -> SUBSET Msgs]
    BY <1>a DEF TypeOK
  <2>2. polls' \in [Msgs -> 0 .. PollLimit + 1]
    BY <1>c DEF TypeOK
  <2>3. wait' \in [Msgs -> WaitState]
    BY DEF TypeOK, WaitState
  <2>4. QED
    BY <2>1, <2>2, <2>3 DEF TypeOK
<1>2. SentHasSender'
  BY DEF SentHasSender, TypeOK
<1>3. QueuedOnce'
  BY DEF QueuedOnce, TypeOK
<1>4. PendingOnce'
  <2> SUFFICES ASSUME NEW p \in pending' PROVE PendingOnce!(p)'
    BY DEF PendingOnce
  <2>1. p \in pending /\ p.msg \in Msgs
    BY DEF TypeOK, Post
  <2>2. QED
    BY <2>1, <1>d DEF PendingOnce, TypeOK, Queued
<1>5. HandledBySelf'
  BY DEF HandledBySelf, TypeOK
<1>6. RepliedOnce'
  BY DEF RepliedOnce, TypeOK
<1>7. PollsKnownObject'
  BY <1>c DEF PollsKnownObject, TypeOK
<1>8. DeliveredOnce'
  BY DEF DeliveredOnce
<1>9. AnswerIsReply'
  BY <1>a, <1>b, <1>d DEF AnswerIsReply, RepliedOnce, TypeOK
<1>10. ReplyUnderSender'
  BY <1>b DEF ReplyUnderSender
<1>11. ReplyVisible'
  <2> SUFFICES ASSUME NEW k \in Msgs, wait'[k] = "waiting", k \in replied,
                      pollOn[k] = Current(sender[k], gen)
               PROVE  k \in results'[pollOn[k]]
    BY DEF ReplyVisible, Current
  <2>1. wait[k] = "waiting" /\ pollOn[k] \in Handler
    BY <1>d DEF PollsKnownObject, TypeOK
  <2>2. k \in results[pollOn[k]]
    BY <2>1 DEF ReplyVisible
  <2>3. QED
    BY <1>b, <2>1, <2>2
<1>12. QueueHasWorker'
  BY DEF QueueHasWorker
<1>13. QED
  BY <1>1, <1>2, <1>3, <1>4, <1>5, <1>6, <1>7, <1>8, <1>9, <1>10, <1>11,
     <1>12

\* The worker takes the head of its queue, which nobody else has.
LEMMA TakeStep ==
  ASSUME IInv, NEW h \in Handler, Take(h)
  PROVE  IInv'
<1> USE BusAssumption, NoneNotHandler DEF Take, IInv
<1> DEFINE m == Head(queue[h])
           At(k, i) == IF k = h THEN i + 1 ELSE i
<1>a. /\ m \in Msgs
      /\ m = queue[h][1]
      /\ 1 \in 1 .. Len(queue[h])
      /\ queue' \in [Handler -> Seq(Msgs)]
  BY TailFacts DEF TypeOK
<1>b. \A k \in Handler : \A i \in 1 .. Len(queue'[k]) :
        /\ At(k, i) \in 1 .. Len(queue[k])
        /\ At(k, i) > 1 \/ k # h
        /\ queue'[k][i] = queue[k][At(k, i)]
  BY TailFacts DEF TypeOK
<1>c. /\ wait[m] # "idle" /\ handled[m] = 0 /\ m \notin replied
      /\ \A k \in Handler : current[k] # m
      /\ \A p \in pending : p.msg = m => FALSE
  <2>1. wait[m] # "idle" /\ handled[m] = 0
    BY <1>a DEF QueuedOnce
  <2>2. \A p \in pending : p.msg = m => FALSE
    BY <1>a, <2>1 DEF PendingOnce, Queued
  <2>3. QED
    BY <1>a, <2>1, <2>2 DEF RepliedOnce, HandledBySelf, TypeOK
<1>d. \A k \in Handler : \A i \in 1 .. Len(queue'[k]) :
        queue'[k][i] # m /\ queue'[k][i] \in Msgs
  BY <1>a, <1>b DEF QueuedOnce, TypeOK
<1>e. /\ handled' = [handled EXCEPT ![m] = @ + 1]
      /\ handled'[m] = 1
      /\ \A n \in Msgs : n # m => handled'[n] = handled[n]
  BY <1>a, <1>c DEF TypeOK
<1>f. /\ current[h] = None
      /\ current'[h] = m /\ worker'[h] = "busy"
      /\ \A k \in Handler : k # h => current'[k] = current[k] /\ worker'[k] = worker[k]
  BY DEF HandledBySelf, TypeOK
<1> HIDE DEF m
<1>1. TypeOK'
  <2>1. /\ handled' \in [Msgs -> Nat]
        /\ current' \in [Handler -> Msgs \cup {None}]
        /\ worker' \in [Handler -> {"none", "idle", "busy", "dead"}]
    BY <1>a, <1>e DEF TypeOK, m
  <2>2. QED
    BY <1>a, <2>1 DEF TypeOK
<1>2. SentHasSender'
  BY <1>c, <1>e DEF SentHasSender, TypeOK
<1>3. QueuedOnce'
  <2> SUFFICES ASSUME NEW k \in Handler, NEW i \in 1 .. Len(queue'[k])
               PROVE  /\ wait[queue'[k][i]] # "idle"
                      /\ handled'[queue'[k][i]] = 0
                      /\ \A l \in Handler : \A j \in 1 .. Len(queue'[l]) :
                           queue'[k][i] = queue'[l][j] => k = l /\ i = j
    BY DEF QueuedOnce
  <2>1. wait[queue'[k][i]] # "idle" /\ handled'[queue'[k][i]] = 0
    BY <1>b, <1>d, <1>e DEF QueuedOnce
  <2>2. ASSUME NEW l \in Handler, NEW j \in 1 .. Len(queue'[l]),
               queue'[k][i] = queue'[l][j]
        PROVE  k = l /\ i = j
    <3>1. k = l /\ At(k, i) = At(l, j)
      BY <1>b, <2>2 DEF QueuedOnce
    <3>2. QED
      BY <3>1, <1>a DEF TypeOK
  <2>3. QED
    BY <2>1, <2>2
<1>4. PendingOnce'
  <2> SUFFICES ASSUME NEW p \in pending PROVE PendingOnce!(p)'
    BY DEF PendingOnce
  <2>1. p.msg \in Msgs /\ p.msg # m
    BY <1>c DEF TypeOK, Post
  <2>2. \A k \in Handler : Queued(p.msg, k)' => Queued(p.msg, k)
    BY <1>b DEF Queued
  <2>3. QED
    BY <2>1, <2>2, <1>e DEF PendingOnce
<1>5. HandledBySelf'
  BY <1>a, <1>c, <1>e, <1>f DEF HandledBySelf, TypeOK
<1>6. RepliedOnce'
  BY <1>c, <1>e DEF RepliedOnce, TypeOK
<1>7. PollsKnownObject'
  BY DEF PollsKnownObject, TypeOK
<1>8. DeliveredOnce'
  BY <1>e DEF DeliveredOnce, TypeOK
<1>9. AnswerIsReply'
  BY DEF AnswerIsReply
<1>10. ReplyUnderSender'
  BY DEF ReplyUnderSender
<1>11. ReplyVisible'
  BY DEF ReplyVisible, Current
<1>12. QueueHasWorker'
  BY <1>f, <1>b DEF QueueHasWorker, TypeOK
<1>13. QED
  BY <1>1, <1>2, <1>3, <1>4, <1>5, <1>6, <1>7, <1>8, <1>9, <1>10, <1>11,
     <1>12

\* A handler that returns nothing only frees its worker.
LEMMA SilentStep ==
  ASSUME IInv, NEW h \in Handler, HandlerSilent(h)
  PROVE  IInv'
<1> USE BusAssumption, NoneNotHandler DEF HandlerSilent, Running, IInv
<1>1. TypeOK'
  BY DEF TypeOK, WaitState, Post
<1>2. SentHasSender'
  BY DEF SentHasSender, TypeOK
<1>3. QueuedOnce'
  BY DEF QueuedOnce, TypeOK
<1>4. PendingOnce'
  BY DEF PendingOnce, TypeOK, Queued, Post
<1>5. HandledBySelf'
  BY DEF HandledBySelf, TypeOK
<1>6. RepliedOnce'
  BY DEF RepliedOnce, TypeOK
<1>7. PollsKnownObject'
  BY DEF PollsKnownObject, TypeOK
<1>8. DeliveredOnce'
  BY DEF DeliveredOnce, TypeOK
<1>9. AnswerIsReply'
  BY DEF AnswerIsReply, RepliedOnce, HandledBySelf, TypeOK
<1>10. ReplyUnderSender'
  BY DEF ReplyUnderSender, TypeOK
<1>11. ReplyVisible'
  BY DEF ReplyVisible, Current, TypeOK
<1>12. QueueHasWorker'
  BY DEF QueueHasWorker, TypeOK
<1>13. QED
  BY <1>1, <1>2, <1>3, <1>4, <1>5, <1>6, <1>7, <1>8, <1>9, <1>10, <1>11,
     <1>12

\* A handler that raises only kills its worker.
LEMMA RaiseStep ==
  ASSUME IInv, NEW h \in Handler, HandlerRaise(h)
  PROVE  IInv'
<1> USE BusAssumption, NoneNotHandler DEF HandlerRaise, Running, IInv
<1>1. TypeOK'
  BY DEF HandledBySelf, TypeOK
<1>2. SentHasSender'
  BY DEF SentHasSender, TypeOK
<1>3. QueuedOnce'
  BY DEF QueuedOnce, TypeOK
<1>4. PendingOnce'
  BY DEF PendingOnce, TypeOK, Queued, Post
<1>5. HandledBySelf'
  BY DEF HandledBySelf, TypeOK
<1>6. RepliedOnce'
  BY DEF RepliedOnce, TypeOK
<1>7. PollsKnownObject'
  BY DEF PollsKnownObject, TypeOK
<1>8. DeliveredOnce'
  BY DEF DeliveredOnce, TypeOK
<1>9. AnswerIsReply'
  BY DEF AnswerIsReply, RepliedOnce, HandledBySelf, TypeOK
<1>10. ReplyUnderSender'
  BY DEF ReplyUnderSender, TypeOK
<1>11. ReplyVisible'
  BY DEF ReplyVisible, Current, TypeOK
<1>12. QueueHasWorker'
  BY DEF QueueHasWorker, TypeOK
<1>13. QED
  BY <1>1, <1>2, <1>3, <1>4, <1>5, <1>6, <1>7, <1>8, <1>9, <1>10, <1>11,
     <1>12

\* handle_message posts the one reply to the message it handled.
LEMMA ReplyStep ==
  ASSUME IInv, NEW h \in Handler, HandlerReply(h)
  PROVE  IInv'
<1> USE BusAssumption, NoneNotHandler DEF IInv
<1> DEFINE m == current[h]
           to == sender[m]
           d  == Current(to, gen)
<1>a. /\ m \in Msgs
      /\ wait[m] # "idle" /\ handled[m] = 1 /\ m \notin replied
      /\ worker[h] = "busy"
      /\ \A k \in Handler : current[k] = m => k = h
      /\ \A p \in pending : p.msg # m
  <2>1. worker[h] = "busy" /\ m # None /\ m \in Msgs
    BY DEF HandlerReply, Running, HandledBySelf, TypeOK
  <2>2. handled[m] = 1
    BY <2>1 DEF HandledBySelf
  <2>3. ASSUME NEW p \in pending, p.msg = m PROVE FALSE
    <3>1. CASE p.reply
      BY <2>3, <3>1 DEF HandlerReply, Running, Replying
    <3>2. CASE ~p.reply
      BY <2>2, <2>3, <3>2 DEF PendingOnce
    <3>3. QED
      BY <3>1, <3>2
  <2>4. QED
    BY <2>1, <2>2, <2>3 DEF HandledBySelf
<1>b. to \in Names /\ gen[to] \in 0 .. MaxGen
  BY <1>a DEF SentHasSender, TypeOK
<1>c. UNCHANGED <<gen, queue, sender, wait, pollOn, nested, polls, handled, failed>>
  BY DEF HandlerReply
<1>1. CASE gen[to] > 0
  <2>a. /\ results' = [results EXCEPT ![d] = @ \cup {m}]
        /\ replied' = replied \cup {m}
        /\ worker' = [worker EXCEPT ![h] = "idle"]
        /\ current' = [current EXCEPT ![h] = None]
        /\ pending' = pending
    BY <1>1 DEF HandlerReply, Deposit
  <2>b. d \in Handler /\ d[1] = to /\ d[2] = gen[to]
    BY <1>1, <1>b DEF Handler, Current
  <2>c. /\ results'[d] = results[d] \cup {m}
        /\ \A k \in Handler : k # d => results'[k] = results[k]
    BY <2>a, <2>b DEF TypeOK
  <2>d. \A k \in Handler : m \notin results[k]
    BY <1>a DEF RepliedOnce
  <2> HIDE DEF m, to, d
  <2>1. TypeOK'
    BY <1>a, <1>c, <2>a DEF TypeOK
  <2>2. SentHasSender'
    BY <1>c DEF SentHasSender
  <2>3. QueuedOnce'
    BY <1>c DEF QueuedOnce
  <2>4. PendingOnce'
    BY <1>a, <1>c, <2>a DEF PendingOnce, Queued, TypeOK
  <2>5. HandledBySelf'
    BY <1>a, <1>c, <2>a DEF HandledBySelf, TypeOK, m
  <2>6. RepliedOnce'
    BY <1>a, <1>c, <2>a, <2>b, <2>c, <2>d DEF RepliedOnce, TypeOK
  <2>7. PollsKnownObject'
    BY <1>c DEF PollsKnownObject
  <2>8. DeliveredOnce'
    BY <1>c DEF DeliveredOnce
  <2>9. AnswerIsReply'
    BY <1>a, <1>c, <2>a, <2>b, <2>c DEF AnswerIsReply
  <2>10. ReplyUnderSender'
    <3> SUFFICES ASSUME NEW k \in Handler, NEW n \in results'[k]
                 PROVE  k[1] = sender[n] /\ k[2] <= gen[k[1]]
      BY <1>c DEF ReplyUnderSender
    <3>1. CASE n \in results[k]
      BY <3>1 DEF ReplyUnderSender
    <3>2. CASE n \notin results[k]
      <4>1. k = d /\ n = m
        BY <3>2, <2>c
      <4>2. QED
        BY <4>1, <2>b, <1>b DEF to
    <3>3. QED
      BY <3>1, <3>2
  <2>11. ReplyVisible'
    <3> SUFFICES ASSUME NEW k \in Msgs, wait[k] = "waiting", k \in replied',
                        pollOn[k] = Current(sender[k], gen)
                 PROVE  k \in results'[pollOn[k]]
      BY <1>c DEF ReplyVisible, Current
    <3>1. pollOn[k] \in Handler
      BY DEF PollsKnownObject, TypeOK
    <3>2. CASE k = m
      BY <3>2, <2>c DEF d, to
    <3>3. CASE k # m
      BY <3>1, <3>3, <2>a, <2>c DEF ReplyVisible
    <3>4. QED
      BY <3>2, <3>3
  <2>12. QueueHasWorker'
    BY <1>c, <2>a DEF QueueHasWorker, TypeOK
  <2>13. QED
    BY <2>1, <2>2, <2>3, <2>4, <2>5, <2>6, <2>7, <2>8, <2>9, <2>10, <2>11,
       <2>12
<1>2. CASE ~(gen[to] > 0)
  <2>a. /\ pending' = pending \cup {[msg |-> m, reply |-> TRUE, to |-> to]}
        /\ UNCHANGED <<results, replied, worker, current>>
    BY <1>2 DEF HandlerReply
  <2> DEFINE r == [msg |-> m, reply |-> TRUE, to |-> to]
  <2>b. r \in Post /\ r.msg = m /\ r.reply /\ r.to = to
    BY <1>a, <1>b DEF Post
  <2> HIDE DEF m, to, r
  <2>1. TypeOK'
    BY <1>c, <2>a, <2>b DEF TypeOK, r
  <2>4. PendingOnce'
    <3> SUFFICES ASSUME NEW p \in pending' PROVE PendingOnce!(p)'
      BY DEF PendingOnce
    <3>1. CASE p = r
      BY <3>1, <1>a, <1>c, <2>a, <2>b DEF PendingOnce, to, r
    <3>2. CASE p \in pending
      BY <3>2, <1>a, <1>c, <2>a, <2>b DEF PendingOnce, Queued, r
    <3>3. QED
      BY <3>1, <3>2, <2>a DEF r
  <2>5. QED
    BY <1>c, <2>a, <2>1, <2>4 DEF SentHasSender, QueuedOnce, HandledBySelf,
       RepliedOnce, PollsKnownObject, DeliveredOnce, AnswerIsReply,
       ReplyUnderSender, ReplyVisible, Current, QueueHasWorker
<1>3. QED
  BY <1>1, <1>2

-----------------------------------------------------------------------------
(* Registration and enqueueing, shared by the sends and the retried posts. *)

\* What register_message_handler does to the incarnations.
LEMMA RegisteredFacts ==
  ASSUME IInv, NEW ns \in SUBSET Names, CanRegister(ns), gen' = Registered(ns)
  PROVE  /\ gen' \in [Names -> 0 .. MaxGen]
         /\ \A n \in Names : gen[n] <= gen'[n]
         /\ \A n \in ns : gen'[n] > 0
         /\ \A n \in Names : gen'[n] > 0 => Current(n, gen') \in Handler
BY BusAssumption DEF IInv, TypeOK, CanRegister, Registered, Current, Handler

\* Registering names keeps what relates objects to the current incarnations.
LEMMA RegisterKeeps ==
  ASSUME IInv, NEW k \in Msgs,
         gen' \in [Names -> 0 .. MaxGen],
         \A n \in Names : gen[n] <= gen'[n]
  PROVE  /\ wait[k] = "waiting" /\ k \in replied
              /\ pollOn[k] = Current(sender[k], gen')
            => k \in results[pollOn[k]]
         /\ pollOn[k] # None => pollOn[k][2] <= gen'[pollOn[k][1]]
         /\ \A h \in Handler : k \in results[h] =>
              h[1] = sender[k] /\ h[2] <= gen'[h[1]]
<1> USE BusAssumption DEF IInv
<1>1. pollOn[k] # None => /\ pollOn[k] \in Handler
                          /\ pollOn[k][1] \in Names
                          /\ pollOn[k][2] \in Nat
                          /\ pollOn[k][2] <= gen[pollOn[k][1]]
  BY DEF TypeOK, PollsKnownObject, Handler
<1>2. pollOn[k] # None => pollOn[k][2] <= gen'[pollOn[k][1]]
  BY <1>1 DEF TypeOK
<1>3. ASSUME wait[k] = "waiting", k \in replied,
             pollOn[k] = Current(sender[k], gen')
      PROVE  k \in results[pollOn[k]]
  <2>1. pollOn[k] # None
    BY <1>3 DEF PollsKnownObject
  <2>2. pollOn[k][1] = sender[k] /\ pollOn[k][2] = gen'[sender[k]]
    BY <1>3 DEF Current
  <2>3. gen'[sender[k]] = gen[sender[k]]
    BY <1>1, <2>1, <2>2 DEF TypeOK
  <2>4. pollOn[k] = Current(sender[k], gen)
    BY <1>3, <2>3 DEF Current
  <2>5. QED
    BY <1>3, <2>4 DEF ReplyVisible
<1>4. ASSUME NEW h \in Handler, k \in results[h]
      PROVE  h[1] = sender[k] /\ h[2] <= gen'[h[1]]
  <2>1. h[1] \in Names /\ h[2] \in Nat /\ h[1] = sender[k] /\ h[2] <= gen[h[1]]
    BY <1>4 DEF ReplyUnderSender, Handler
  <2>2. QED
    BY <2>1 DEF TypeOK
<1>5. QED
  BY <1>2, <1>3, <1>4

\* What queueing a message that is nowhere yet does to queues and workers.
LEMMA EnqueueFacts ==
  ASSUME IInv, NEW m \in Msgs, NEW d \in Handler, Enqueue(m, d),
         UNCHANGED handled, handled[m] = 0, wait'[m] # "idle",
         \A k \in Msgs : wait[k] # "idle" => wait'[k] # "idle",
         \A h \in Handler : ~Queued(m, h)
  PROVE  /\ queue' \in [Handler -> Seq(Msgs)]
         /\ worker' \in [Handler -> {"none", "idle", "busy", "dead"}]
         /\ QueuedOnce'
         /\ QueueHasWorker'
         /\ \A k \in Msgs, h \in Handler :
              k # m => (Queued(k, h)' <=> Queued(k, h))
         /\ \A h \in Handler : (worker'[h] = "busy") <=> (worker[h] = "busy")
<1> USE DEF IInv, Enqueue
<1> DEFINE q == queue[d]
<1>a. /\ q \in Seq(Msgs) /\ Len(q) \in Nat
      /\ queue'[d] = Append(q, m)
      /\ \A h \in Handler : h # d => queue'[h] = queue[h]
  BY DEF TypeOK
<1>b. /\ Append(q, m) \in Seq(Msgs)
      /\ Len(Append(q, m)) = Len(q) + 1
      /\ \A i \in 1 .. Len(q) : Append(q, m)[i] = q[i]
      /\ Append(q, m)[Len(q) + 1] = m
  BY <1>a, AppendFacts
<1>c. \A h \in Handler : \A i \in 1 .. Len(queue'[h]) :
        \/ h = d /\ i = Len(q) + 1 /\ queue'[h][i] = m
        \/ i \in 1 .. Len(queue[h]) /\ queue'[h][i] = queue[h][i] /\ queue[h][i] # m
  BY <1>a, <1>b DEF Queued
<1>d. \A h \in Handler : \A i \in 1 .. Len(queue[h]) : queue[h][i] \in Msgs
  BY DEF TypeOK
<1>1. queue' \in [Handler -> Seq(Msgs)]
  BY <1>a, <1>b DEF TypeOK
<1>2. worker' \in [Handler -> {"none", "idle", "busy", "dead"}]
  BY DEF TypeOK, StartProcess
<1>3. QueuedOnce'
  <2> SUFFICES ASSUME NEW h \in Handler, NEW i \in 1 .. Len(queue'[h])
               PROVE  /\ wait'[queue'[h][i]] # "idle"
                      /\ handled[queue'[h][i]] = 0
                      /\ \A k \in Handler : \A j \in 1 .. Len(queue'[k]) :
                           queue'[h][i] = queue'[k][j] => h = k /\ i = j
    BY DEF QueuedOnce
  <2>1. wait'[queue'[h][i]] # "idle" /\ handled[queue'[h][i]] = 0
    BY <1>c, <1>d DEF QueuedOnce
  <2>2. QED
    BY <2>1, <1>c DEF QueuedOnce
<1>4. QueueHasWorker'
  BY <1>c DEF QueueHasWorker, StartProcess, TypeOK
<1>5. \A k \in Msgs, h \in Handler : k # m => (Queued(k, h)' <=> Queued(k, h))
  BY <1>a, <1>b, <1>c DEF Queued
<1>6. \A h \in Handler : (worker'[h] = "busy") <=> (worker[h] = "busy")
  BY DEF TypeOK, StartProcess
<1>7. QED
  BY <1>1, <1>2, <1>3, <1>4, <1>5, <1>6

-----------------------------------------------------------------------------
(* The sends.                                                              *)

\* A message that has not been sent is nowhere.
LEMMA IdleNowhere ==
  ASSUME IInv, NEW m \in Msgs, wait[m] = "idle"
  PROVE  /\ handled[m] = 0
         /\ m \notin replied
         /\ \A h \in Handler : ~Queued(m, h) /\ current[h] # m /\ m \notin results[h]
         /\ \A p \in pending : p.msg # m
BY NoneNotHandler, BusAssumption DEF IInv, SentHasSender, RepliedOnce, Queued, QueuedOnce,
   HandledBySelf, PendingOnce

\* send_message, with the registrations made just before it.
LEMMA SendStep ==
  ASSUME IInv, NEW m \in Msgs, NEW s \in Names, NEW t \in Names,
         NEW on \in Names, NEW ns \in SUBSET Names,
         NEW w \in Handler \cup {None}, Send(m, s, t, on, ns, w)
  PROVE  IInv'
<1> USE BusAssumption, NoneNotHandler DEF IInv
<1>a. /\ wait[m] = "idle"
      /\ gen' = Registered(ns) /\ CanRegister(ns)
      /\ sender' = [sender EXCEPT ![m] = s]
      /\ UNCHANGED <<results, current, polls, handled, replied, failed>>
  BY DEF Send
<1>b. /\ gen' \in [Names -> 0 .. MaxGen]
      /\ \A n \in Names : gen[n] <= gen'[n]
      /\ \A n \in Names : gen'[n] > 0 => Current(n, gen') \in Handler
  BY <1>a, RegisteredFacts
<1>c. /\ handled[m] = 0
      /\ m \notin replied
      /\ \A h \in Handler : ~Queued(m, h) /\ current[h] # m /\ m \notin results[h]
      /\ \A p \in pending : p.msg # m
  BY <1>a, IdleNowhere
<1>d. /\ wait' \in [Msgs -> WaitState]
      /\ wait'[m] \in {"waiting", "posting", "gaveup"}
      /\ \A k \in Msgs : k # m => wait'[k] = wait[k]
      /\ sender' \in [Msgs -> Names \cup {None}]
      /\ sender'[m] = s
      /\ \A k \in Msgs : k # m => sender'[k] = sender[k]
  <2>1. /\ sender' \in [Msgs -> Names \cup {None}]
        /\ sender'[m] = s
        /\ \A k \in Msgs : k # m => sender'[k] = sender[k]
    BY <1>a DEF TypeOK
  <2>2. \E v \in {"waiting", "posting", "gaveup"} : wait' = [wait EXCEPT ![m] = v]
    <3>1. CASE gen'[on] = 0
      BY <3>1, <1>a DEF Send
    <3>2. CASE gen'[on] # 0 /\ gen'[t] > 0
      BY <3>2, <1>a DEF Send
    <3>3. CASE gen'[on] # 0 /\ ~(gen'[t] > 0)
      BY <3>3, <1>a DEF Send
    <3>4. QED
      BY <3>1, <3>2, <3>3
  <2>3. PICK v \in {"waiting", "posting", "gaveup"} : wait' = [wait EXCEPT ![m] = v]
    BY <2>2
  <2>4. /\ wait' \in [Msgs -> WaitState]
        /\ wait'[m] = v
        /\ \A k \in Msgs : k # m => wait'[k] = wait[k]
    BY <2>3 DEF TypeOK, WaitState
  <2>5. QED
    BY <2>1, <2>4
<1>e. \/ wait'[m] = "gaveup" /\ UNCHANGED <<pollOn, nested>>
      \/ /\ Current(on, gen') \in Handler
         /\ pollOn' = [pollOn EXCEPT ![m] = Current(on, gen')]
         /\ nested' = [nested EXCEPT ![m] = w]
  <2>1. CASE gen'[on] = 0
    BY <2>1, <1>a DEF Send, TypeOK
  <2>2. CASE gen'[on] # 0
    <3>1. Current(on, gen') \in Handler
      BY <2>2, <1>b
    <3>2. QED
      BY <2>2, <3>1, <1>a DEF Send
  <2>3. QED
    BY <2>1, <2>2
<1>f. /\ pollOn' \in [Msgs -> Handler \cup {None}]
      /\ nested' \in [Msgs -> Handler \cup {None}]
      /\ \A k \in Msgs : k # m => pollOn'[k] = pollOn[k]
      /\ wait'[m] \in {"posting", "waiting"} => pollOn'[m] # None
  <2>1. CASE wait'[m] = "gaveup" /\ UNCHANGED <<pollOn, nested>>
    BY <2>1 DEF TypeOK
  <2>2. CASE /\ Current(on, gen') \in Handler
             /\ pollOn' = [pollOn EXCEPT ![m] = Current(on, gen')]
             /\ nested' = [nested EXCEPT ![m] = w]
    BY <2>2 DEF TypeOK
  <2>3. QED
    BY <2>1, <2>2, <1>e
<1>g. \/ UNCHANGED <<queue, worker, pending>>
      \/ Current(t, gen') \in Handler /\ Enqueue(m, Current(t, gen')) /\ UNCHANGED pending
      \/ /\ UNCHANGED <<queue, worker>>
         /\ pending' = pending \cup {[msg |-> m, reply |-> FALSE, to |-> t]}
  <2>1. gen'[t] > 0 => Current(t, gen') \in Handler
    BY <1>b
  <2>2. QED
    BY <2>1, <1>a DEF Send
<1>h. /\ queue' \in [Handler -> Seq(Msgs)]
      /\ worker' \in [Handler -> {"none", "idle", "busy", "dead"}]
      /\ QueuedOnce'
      /\ QueueHasWorker'
      /\ \A k \in Msgs, h \in Handler : k # m => (Queued(k, h)' <=> Queued(k, h))
      /\ \A h \in Handler : (worker'[h] = "busy") <=> (worker[h] = "busy")
      /\ pending' # pending => \A h \in Handler : ~Queued(m, h)'
  <2>1. CASE UNCHANGED <<queue, worker>>
    <3>1. QueuedOnce'
      BY <2>1, <1>a, <1>d DEF QueuedOnce, TypeOK
    <3>2. QED
      BY <2>1, <3>1, <1>c DEF TypeOK, QueueHasWorker, Queued
  <2>2. CASE Current(t, gen') \in Handler /\ Enqueue(m, Current(t, gen')) /\ UNCHANGED pending
    <3>1. \A k \in Msgs : wait[k] # "idle" => wait'[k] # "idle"
      BY <1>a, <1>d
    <3>2. wait'[m] # "idle" /\ UNCHANGED handled
      BY <1>a, <1>d
    <3>3. QED
      BY <2>2, <3>1, <3>2, <1>c, EnqueueFacts
  <2>3. QED
    BY <2>1, <2>2, <1>g
<1>i. pending' = pending \/
      pending' = pending \cup {[msg |-> m, reply |-> FALSE, to |-> t]}
  BY <1>g
<1> DEFINE r == [msg |-> m, reply |-> FALSE, to |-> t]
<1>j. r \in Post /\ r.msg = m /\ ~r.reply
  BY DEF Post
<1> HIDE DEF r
<1>k. pending' = pending \/ pending' = pending \cup {r}
  BY <1>i DEF r
<1>1. TypeOK'
  <2>1. pending' \subseteq Post
    BY <1>j, <1>k DEF TypeOK
  <2>2. QED
    BY <2>1, <1>a, <1>b, <1>d, <1>f, <1>h DEF TypeOK
<1>2. SentHasSender'
  BY <1>a, <1>d DEF SentHasSender, TypeOK
<1>4. PendingOnce'
  <2> SUFFICES ASSUME NEW p \in pending' PROVE PendingOnce!(p)'
    BY DEF PendingOnce
  <2>1. CASE p \in pending
    <3>1. p.msg \in Msgs /\ p.msg # m
      BY <2>1, <1>c DEF TypeOK, Post
    <3>2. QED
      BY <2>1, <3>1, <1>a, <1>d, <1>h, <1>j, <1>k DEF PendingOnce
  <2>2. CASE p \notin pending
    <3>1. p = r /\ pending' # pending /\ pending' = pending \cup {r}
      BY <2>2, <1>k
    <3>2. \A q \in pending' : q.msg = m => q = p
      BY <3>1, <1>c
    <3>3. QED
      BY <3>1, <3>2, <1>a, <1>c, <1>d, <1>h, <1>j DEF PendingOnce
  <2>3. QED
    BY <2>1, <2>2
<1>5. HandledBySelf'
  BY <1>a, <1>c, <1>d, <1>h DEF HandledBySelf, TypeOK
<1>6. RepliedOnce'
  BY <1>a, <1>c, <1>d DEF RepliedOnce, TypeOK
<1>7. PollsKnownObject'
  <2> SUFFICES ASSUME NEW k \in Msgs PROVE PollsKnownObject!(k)'
    BY DEF PollsKnownObject
  <2>1. pollOn[k] # None => pollOn[k][2] <= gen'[pollOn[k][1]]
    BY <1>b, RegisterKeeps
  <2>2. polls[m] <= PollLimit
    BY <1>a DEF PollsKnownObject
  <2>3. CASE pollOn'[k] = pollOn[k] /\ k # m
    BY <2>1, <2>3, <1>a, <1>d DEF PollsKnownObject
  <2>4. CASE k = m
    <3>1. pollOn'[m] # None => pollOn'[m][2] <= gen'[pollOn'[m][1]]
      BY <2>1, <2>4, <1>b, <1>e DEF Current, TypeOK
    <3>2. QED
      BY <2>2, <2>4, <3>1, <1>a, <1>f
  <2>5. QED
    BY <2>3, <2>4, <1>f
<1>8. DeliveredOnce'
  BY <1>a DEF DeliveredOnce
<1>9. AnswerIsReply'
  BY <1>a, <1>d DEF AnswerIsReply
<1>10. ReplyUnderSender'
  <2> SUFFICES ASSUME NEW h \in Handler, NEW k \in results[h]
               PROVE  h[1] = sender'[k] /\ h[2] <= gen'[h[1]]
    BY <1>a DEF ReplyUnderSender
  <2>1. k \in Msgs /\ k # m
    BY <1>c DEF TypeOK
  <2>2. QED
    BY <2>1, <1>b, <1>d, RegisterKeeps
<1>11. ReplyVisible'
  <2> SUFFICES ASSUME NEW k \in Msgs, wait'[k] = "waiting", k \in replied,
                      pollOn'[k] = Current(sender'[k], gen')
               PROVE  k \in results[pollOn'[k]]
    BY <1>a DEF ReplyVisible, Current
  <2>1. k # m
    BY <1>c
  <2>2. QED
    BY <2>1, <1>b, <1>d, <1>f, RegisterKeeps
<1>13. QED
  BY <1>1, <1>2, <1>4, <1>5, <1>6, <1>7, <1>8, <1>9, <1>10, <1>11, <1>h

\* The post_message function of an agent.
LEMMA PostStep ==
  ASSUME IInv, NEW m \in Msgs, AgentPost(m)
  PROVE  IInv'
<1> USE BusAssumption, NoneNotHandler DEF IInv
<1> PICK a \in Agents, t \in Names :
      /\ wait[m] = "idle"
      /\ wait' = [wait EXCEPT ![m] = "fired"]
      /\ sender' = [sender EXCEPT ![m] = a]
      /\ IF gen[t] > 0
         THEN Enqueue(m, Current(t, gen)) /\ UNCHANGED pending
         ELSE /\ pending' = pending \cup {[msg |-> m, reply |-> FALSE, to |-> t]}
              /\ UNCHANGED <<queue, worker>>
      /\ UNCHANGED <<gen, results, current, pollOn, nested, polls, handled,
                     replied, failed>>
  BY DEF AgentPost
<1> DEFINE r == [msg |-> m, reply |-> FALSE, to |-> t]
<1>a. a \in Names /\ r \in Post /\ r.msg = m /\ ~r.reply
  BY DEF Names, Post
<1>b. /\ sender' \in [Msgs -> Names \cup {None}] /\ wait' \in [Msgs -> WaitState]
      /\ wait'[m] = "fired" /\ sender'[m] = a
      /\ \A k \in Msgs : k # m => wait'[k] = wait[k] /\ sender'[k] = sender[k]
  BY <1>a DEF TypeOK, WaitState
<1>c. /\ handled[m] = 0
      /\ m \notin replied
      /\ \A h \in Handler : ~Queued(m, h) /\ current[h] # m /\ m \notin results[h]
      /\ \A p \in pending : p.msg # m
  BY IdleNowhere
<1>d. pending' = pending \/ pending' = pending \cup {r}
  OBVIOUS
<1>h. /\ queue' \in [Handler -> Seq(Msgs)]
      /\ worker' \in [Handler -> {"none", "idle", "busy", "dead"}]
      /\ QueuedOnce'
      /\ QueueHasWorker'
      /\ \A k \in Msgs, h \in Handler : k # m => (Queued(k, h)' <=> Queued(k, h))
      /\ \A h \in Handler : (worker'[h] = "busy") <=> (worker[h] = "busy")
      /\ pending' # pending => \A h \in Handler : ~Queued(m, h)'
  <2>1. CASE ~(gen[t] > 0)
    <3>1. UNCHANGED <<queue, worker>>
      BY <2>1
    <3>2. QueuedOnce'
      BY <3>1, <1>b DEF QueuedOnce, TypeOK
    <3>3. QED
      BY <3>1, <3>2, <1>c DEF TypeOK, QueueHasWorker, Queued
  <2>2. CASE gen[t] > 0
    <3>1. Current(t, gen) \in Handler
      BY <2>2 DEF Current, Handler, TypeOK
    <3>2. \A k \in Msgs : wait[k] # "idle" => wait'[k] # "idle"
      BY <1>b
    <3>3. wait'[m] # "idle" /\ UNCHANGED <<handled, pending>> /\ Enqueue(m, Current(t, gen))
      BY <2>2, <1>b
    <3>4. QED
      BY <3>1, <3>2, <3>3, <1>c, EnqueueFacts
  <2>3. QED
    BY <2>1, <2>2
<1> HIDE DEF r
<1>1. TypeOK'
  <2>1. pending' \subseteq Post
    BY <1>a, <1>d DEF TypeOK
  <2>2. QED
    BY <2>1, <1>b, <1>h DEF TypeOK
<1>2. SentHasSender'
  BY <1>a, <1>b DEF SentHasSender, TypeOK
<1>4. PendingOnce'
  <2> SUFFICES ASSUME NEW p \in pending' PROVE PendingOnce!(p)'
    BY DEF PendingOnce
  <2>1. CASE p \in pending
    <3>1. p.msg \in Msgs /\ p.msg # m
      BY <2>1, <1>c DEF TypeOK, Post
    <3>2. QED
      BY <2>1, <3>1, <1>a, <1>b, <1>d, <1>h DEF PendingOnce
  <2>2. CASE p \notin pending
    <3>1. p = r /\ pending' # pending /\ pending' = pending \cup {r}
      BY <2>2, <1>d
    <3>2. \A q \in pending' : q.msg = m => q = p
      BY <3>1, <1>c
    <3>3. QED
      BY <3>1, <3>2, <1>a, <1>b, <1>c, <1>h DEF PendingOnce
  <2>3. QED
    BY <2>1, <2>2
<1>5. HandledBySelf'
  BY <1>b, <1>c, <1>h DEF HandledBySelf, TypeOK
<1>6. RepliedOnce'
  BY <1>b, <1>c DEF RepliedOnce, TypeOK
<1>7. PollsKnownObject'
  BY <1>b DEF PollsKnownObject
<1>8. DeliveredOnce'
  BY DEF DeliveredOnce
<1>9. AnswerIsReply'
  BY <1>b DEF AnswerIsReply
<1>10. ReplyUnderSender'
  BY <1>b, <1>c DEF ReplyUnderSender, TypeOK
<1>11. ReplyVisible'
  BY <1>b DEF ReplyVisible, Current
<1>13. QED
  BY <1>1, <1>2, <1>4, <1>5, <1>6, <1>7, <1>8, <1>9, <1>10, <1>11, <1>h

-----------------------------------------------------------------------------
(* The retried posts.                                                      *)

\* A suspended post ends: its send_message goes on, nothing else changes.
LEMMA AfterPostFacts ==
  ASSUME IInv, NEW p \in pending, NEW ok \in BOOLEAN, AfterPost(p, ok)
  PROVE  /\ p \in Post
         /\ wait' \in [Msgs -> WaitState]
         /\ pending' \subseteq Post
         /\ \A k \in Msgs : wait'[k] # wait[k] =>
              /\ ~p.reply /\ k = p.msg /\ wait[k] = "posting"
              /\ wait'[k] = IF ok THEN "waiting" ELSE "gaveup"
         /\ \A q \in pending' : q \in pending /\ q.msg # p.msg
<1> USE DEF IInv
<1>1. p \in Post /\ p.msg \in Msgs
  BY DEF TypeOK, Post
<1>2. \A q \in pending' : q \in pending /\ q.msg # p.msg
  BY DEF AfterPost, PendingOnce
<1>3. pending' \subseteq Post
  BY <1>2 DEF TypeOK
<1>4. /\ wait' \in [Msgs -> WaitState]
      /\ \A k \in Msgs : wait'[k] # wait[k] =>
           /\ ~p.reply /\ k = p.msg /\ wait[k] = "posting"
           /\ wait'[k] = IF ok THEN "waiting" ELSE "gaveup"
  <2>1. CASE ~p.reply /\ wait[p.msg] = "posting"
    <3>1. wait' = [wait EXCEPT ![p.msg] = IF ok THEN "waiting" ELSE "gaveup"]
      BY <2>1 DEF AfterPost
    <3>2. QED
      BY <2>1, <3>1, <1>1 DEF TypeOK, WaitState
  <2>2. CASE ~(~p.reply /\ wait[p.msg] = "posting")
    <3>1. wait' = wait
      BY <2>2 DEF AfterPost
    <3>2. QED
      BY <3>1 DEF TypeOK
  <2>3. QED
    BY <2>1, <2>2
<1>5. QED
  BY <1>1, <1>2, <1>3, <1>4

\* The worker that handled a message is idle again, the others as before.
LEMMA ReleaseFacts ==
  ASSUME IInv, NEW m \in Msgs, Release(m)
  PROVE  /\ worker' \in [Handler -> {"none", "idle", "busy", "dead"}]
         /\ current' \in [Handler -> Msgs \cup {None}]
         /\ \A h \in Handler :
              /\ current[h] = m => current'[h] = None /\ worker'[h] = "idle"
              /\ current[h] # m => current'[h] = current[h] /\ worker'[h] = worker[h]
BY NoneNotHandler, BusAssumption DEF IInv, TypeOK, Release, HandledBySelf

\* A post the shell finds no handler for ends its call.
LEMMA ResolveUnknownStep ==
  ASSUME IInv, NEW p \in pending, ResolveUnknown(p)
  PROVE  IInv'
<1> USE BusAssumption, NoneNotHandler DEF IInv
<1>a. /\ p \in Post
      /\ wait' \in [Msgs -> WaitState]
      /\ pending' \subseteq Post
      /\ \A k \in Msgs : wait'[k] # wait[k] =>
           /\ k = p.msg /\ wait[k] = "posting" /\ wait'[k] = "gaveup"
      /\ \A q \in pending' : q \in pending /\ q.msg # p.msg
  BY AfterPostFacts DEF ResolveUnknown
<1>b. UNCHANGED <<gen, queue, results, sender, pollOn, nested, polls, handled,
                  replied, failed>>
  BY DEF ResolveUnknown
<1>c. /\ worker' \in [Handler -> {"none", "idle", "busy", "dead"}]
      /\ current' \in [Handler -> Msgs \cup {None}]
      /\ \A h \in Handler :
           \/ current'[h] = None /\ worker'[h] = "idle"
           \/ current'[h] = current[h] /\ worker'[h] = worker[h]
  <2>1. CASE p.reply
    <3>1. p.msg \in Msgs /\ Release(p.msg)
      BY <2>1, <1>a DEF ResolveUnknown, Post
    <3>2. QED
      BY <3>1, ReleaseFacts
  <2>2. CASE ~p.reply
    BY <2>2 DEF ResolveUnknown, TypeOK
  <2>3. QED
    BY <2>1, <2>2
<1>1. TypeOK'
  BY <1>a, <1>b, <1>c DEF TypeOK
<1>2. SentHasSender'
  BY <1>a, <1>b DEF SentHasSender
<1>3. QueuedOnce'
  BY <1>a, <1>b DEF QueuedOnce, TypeOK
<1>4. PendingOnce'
  <2> SUFFICES ASSUME NEW q \in pending' PROVE PendingOnce!(q)'
    BY DEF PendingOnce
  <2>1. q \in pending /\ q.msg \in Msgs
    BY <1>a DEF Post
  <2>2. QED
    BY <2>1, <1>a, <1>b DEF PendingOnce, Queued
<1>5. HandledBySelf'
  <2> SUFFICES ASSUME NEW h \in Handler PROVE HandledBySelf!(h)'
    BY DEF HandledBySelf
  <2>1. CASE current'[h] = None /\ worker'[h] = "idle"
    BY <2>1
  <2>2. CASE current'[h] = current[h] /\ worker'[h] = worker[h]
    <3>1. current[h] # None => wait[current[h]] # "idle" /\ current[h] \in Msgs
      BY DEF HandledBySelf, TypeOK
    <3>2. current[h] # None => wait'[current[h]] # "idle"
      BY <3>1, <1>a
    <3>3. \A k \in Handler : current'[k] = None \/ current'[k] = current[k]
      BY <1>c
    <3>4. QED
      BY <2>2, <3>2, <3>3, <1>b DEF HandledBySelf
  <2>3. QED
    BY <2>1, <2>2, <1>c
<1>6. RepliedOnce'
  BY <1>a, <1>b DEF RepliedOnce, TypeOK
<1>7. PollsKnownObject'
  BY <1>a, <1>b DEF PollsKnownObject
<1>8. DeliveredOnce'
  BY <1>b DEF DeliveredOnce
<1>9. AnswerIsReply'
  BY <1>a, <1>b DEF AnswerIsReply
<1>10. ReplyUnderSender'
  BY <1>b DEF ReplyUnderSender
<1>11. ReplyVisible'
  BY <1>a, <1>b DEF ReplyVisible, Current
<1>12. QueueHasWorker'
  BY <1>b, <1>c DEF QueueHasWorker
<1>13. QED
  BY <1>1, <1>2, <1>3, <1>4, <1>5, <1>6, <1>7, <1>8, <1>9, <1>10, <1>11,
     <1>12

\* A post retried after the shell registered its target.
LEMMA ResolveFoundStep ==
  ASSUME IInv, NEW p \in pending, ResolveFound(p)
  PROVE  IInv'
<1> USE BusAssumption, NoneNotHandler DEF IInv
<1> DEFINE m == p.msg
           d == Current(p.to, gen')
<1>a. /\ p \in Post
      /\ wait' \in [Msgs -> WaitState]
      /\ pending' \subseteq Post
      /\ \A k \in Msgs : wait'[k] # wait[k] =>
           /\ ~p.reply /\ k = m /\ wait[k] = "posting" /\ wait'[k] = "waiting"
      /\ \A q \in pending' : q \in pending /\ q.msg # m
  BY AfterPostFacts DEF ResolveFound
<1>b. m \in Msgs /\ p.to \in Names
  BY <1>a DEF Post
<1>c. /\ gen' = Registered({p.to}) /\ CanRegister({p.to})
      /\ UNCHANGED <<sender, pollOn, nested, polls, handled, failed>>
  BY DEF ResolveFound
<1>d. /\ gen' \in [Names -> 0 .. MaxGen]
      /\ \A n \in Names : gen[n] <= gen'[n]
      /\ d \in Handler /\ d[1] = p.to /\ d[2] = gen'[p.to]
  <2>1. {p.to} \in SUBSET Names
    BY <1>b
  <2>2. /\ gen' \in [Names -> 0 .. MaxGen]
        /\ \A n \in Names : gen[n] <= gen'[n]
        /\ gen'[p.to] > 0
        /\ gen'[p.to] > 0 => d \in Handler
    BY <2>1, <1>b, <1>c, RegisteredFacts
  <2>3. QED
    BY <2>2 DEF Current
<1>e. \A k \in Msgs :
        /\ wait'[k] # "idle" <=> wait[k] # "idle"
        /\ wait'[k] = "answered" <=> wait[k] = "answered"
        /\ wait'[k] = "gaveup" <=> wait[k] = "gaveup"
        /\ wait'[k] \in {"posting", "waiting"} <=> wait[k] \in {"posting", "waiting"}
  BY <1>a
<1>1. SentHasSender'
  BY <1>c, <1>e DEF SentHasSender
<1>2. PollsKnownObject'
  BY <1>c, <1>d, <1>e, RegisterKeeps DEF PollsKnownObject
<1>3. DeliveredOnce'
  BY <1>c DEF DeliveredOnce
<1>4. CASE ~p.reply
  <2>a. Enqueue(m, d) /\ UNCHANGED <<results, replied, current>>
    BY <1>4, <1>c DEF ResolveFound
  <2>b. /\ wait[m] # "idle" /\ handled[m] = 0 /\ m \notin replied
        /\ \A h \in Handler : ~Queued(m, h)
    BY <1>4, <1>b DEF PendingOnce, RepliedOnce
  <2>c. wait'[m] # "idle" /\ UNCHANGED handled
        /\ \A k \in Msgs : wait[k] # "idle" => wait'[k] # "idle"
    BY <2>b, <1>b, <1>c, <1>e
  <2>d. /\ queue' \in [Handler -> Seq(Msgs)]
        /\ worker' \in [Handler -> {"none", "idle", "busy", "dead"}]
        /\ QueuedOnce'
        /\ QueueHasWorker'
        /\ \A k \in Msgs, h \in Handler : k # m => (Queued(k, h)' <=> Queued(k, h))
        /\ \A h \in Handler : (worker'[h] = "busy") <=> (worker[h] = "busy")
    BY <1>b, <1>d, <2>a, <2>b, <2>c, EnqueueFacts
  <2> HIDE DEF m, d
  <2>1. TypeOK'
    BY <1>a, <1>c, <1>d, <2>a, <2>d DEF TypeOK
  <2>2. PendingOnce'
    <3> SUFFICES ASSUME NEW q \in pending' PROVE PendingOnce!(q)'
      BY DEF PendingOnce
    <3>1. q \in pending /\ q.msg \in Msgs /\ q.msg # m
      BY <1>a DEF Post
    <3>2. QED
      BY <3>1, <1>a, <1>c, <1>e, <2>a, <2>d DEF PendingOnce
  <2>3. HandledBySelf'
    BY <1>c, <1>e, <2>a, <2>d DEF HandledBySelf, TypeOK
  <2>4. RepliedOnce'
    BY <1>c, <1>e, <2>a DEF RepliedOnce, TypeOK
  <2>5. AnswerIsReply'
    BY <1>e, <2>a DEF AnswerIsReply
  <2>6. ReplyUnderSender'
    <3> SUFFICES ASSUME NEW h \in Handler, NEW k \in results[h]
                 PROVE  h[1] = sender[k] /\ h[2] <= gen'[h[1]]
      BY <1>c, <2>a DEF ReplyUnderSender
    <3>1. k \in Msgs
      BY DEF TypeOK
    <3>2. QED
      BY <3>1, <1>d, RegisterKeeps
  <2>7. ReplyVisible'
    <3> SUFFICES ASSUME NEW k \in Msgs, wait'[k] = "waiting", k \in replied,
                        pollOn[k] = Current(sender[k], gen')
                 PROVE  k \in results[pollOn[k]]
      BY <1>c, <2>a DEF ReplyVisible, Current
    <3>1. k # m
      BY <2>b
    <3>2. wait[k] = "waiting"
      BY <3>1, <1>a
    <3>3. QED
      BY <3>2, <1>d, RegisterKeeps
  <2>8. QED
    BY <1>1, <1>2, <1>3, <2>1, <2>2, <2>3, <2>4, <2>5, <2>6, <2>7, <2>d
<1>5. CASE p.reply
  <2>a. Deposit(m, d) /\ Release(m) /\ UNCHANGED queue
    BY <1>5, <1>c DEF ResolveFound
  <2>b. /\ wait[m] # "idle" /\ handled[m] = 1 /\ m \notin replied
        /\ p.to = sender[m]
    BY <1>5, <1>b DEF PendingOnce
  <2>c. /\ worker' \in [Handler -> {"none", "idle", "busy", "dead"}]
        /\ current' \in [Handler -> Msgs \cup {None}]
        /\ \A h \in Handler :
             /\ current[h] = m => current'[h] = None /\ worker'[h] = "idle"
             /\ current[h] # m => current'[h] = current[h] /\ worker'[h] = worker[h]
    BY <1>b, <2>a, ReleaseFacts
  <2>d. wait' = wait
    BY <1>5 DEF ResolveFound, AfterPost
  <2>e. /\ results'[d] = results[d] \cup {m}
        /\ results' \in [Handler -> SUBSET Msgs]
        /\ \A h \in Handler : h # d => results'[h] = results[h]
        /\ replied' = replied \cup {m}
    BY <1>b, <1>d, <2>a DEF Deposit, TypeOK
  <2>f. \A h \in Handler : m \notin results[h]
    BY <2>b DEF RepliedOnce
  <2> HIDE DEF m, d
  <2>1. TypeOK'
    BY <1>a, <1>b, <1>c, <1>d, <2>a, <2>c, <2>e DEF TypeOK
  <2>2. PendingOnce'
    <3> SUFFICES ASSUME NEW q \in pending' PROVE PendingOnce!(q)'
      BY DEF PendingOnce
    <3>1. q \in pending /\ q.msg # m
      BY <1>a
    <3>2. QED
      BY <3>1, <1>a, <1>c, <2>a, <2>d, <2>e DEF PendingOnce, Queued
  <2>3. QueuedOnce'
    BY <1>c, <2>a, <2>d DEF QueuedOnce
  <2>4. HandledBySelf'
    <3> SUFFICES ASSUME NEW h \in Handler PROVE HandledBySelf!(h)'
      BY DEF HandledBySelf
    <3>1. CASE current[h] = m
      BY <3>1, <2>c
    <3>2. CASE current[h] # m
      BY <3>2, <1>c, <2>c, <2>d, <2>e DEF HandledBySelf
    <3>3. QED
      BY <3>1, <3>2
  <2>5. RepliedOnce'
    BY <1>c, <2>b, <2>d, <2>e, <2>f DEF RepliedOnce
  <2>6. AnswerIsReply'
    <3>1. wait[m] # "answered"
      BY <1>b, <2>b DEF AnswerIsReply
    <3>2. QED
      BY <3>1, <2>d, <2>e DEF AnswerIsReply
  <2>7. ReplyUnderSender'
    <3> SUFFICES ASSUME NEW h \in Handler, NEW k \in results'[h]
                 PROVE  h[1] = sender[k] /\ h[2] <= gen'[h[1]]
      BY <1>c DEF ReplyUnderSender
    <3>1. CASE k \in results[h]
      <4>1. k \in Msgs
        BY <3>1 DEF TypeOK
      <4>2. QED
        BY <3>1, <4>1, <1>d, RegisterKeeps
    <3>2. CASE k \notin results[h]
      <4>1. k = m /\ h = d
        BY <3>2, <2>e
      <4>2. gen'[p.to] <= gen'[p.to]
        BY <1>b, <1>d
      <4>3. QED
        BY <4>1, <4>2, <1>d, <2>b
    <3>3. QED
      BY <3>1, <3>2
  <2>8. ReplyVisible'
    <3> SUFFICES ASSUME NEW k \in Msgs, wait[k] = "waiting", k \in replied',
                        pollOn[k] = Current(sender[k], gen')
                 PROVE  k \in results'[pollOn[k]]
      BY <1>c, <2>d DEF ReplyVisible, Current
    <3>1. pollOn[k] \in Handler
      BY DEF PollsKnownObject, TypeOK
    <3>2. CASE k = m
      BY <3>2, <2>b, <2>e DEF d
    <3>3. CASE k # m
      <4>1. k \in replied
        BY <3>3, <2>e
      <4>2. k \in results[pollOn[k]]
        BY <4>1, <1>d, RegisterKeeps
      <4>3. QED
        BY <4>2, <3>1, <2>e
    <3>4. QED
      BY <3>2, <3>3
  <2>9. QueueHasWorker'
    <3> SUFFICES ASSUME NEW h \in Handler, queue[h] # <<>> PROVE worker'[h] # "none"
      BY <2>a DEF QueueHasWorker
    <3>1. QED
      BY <2>c DEF QueueHasWorker
  <2>10. QED
    BY <1>1, <1>2, <1>3, <2>1, <2>2, <2>3, <2>4, <2>5, <2>6, <2>7, <2>8, <2>9
<1>6. QED
  BY <1>4, <1>5

-----------------------------------------------------------------------------
(* The theorems.                                                           *)

\* A stuttering step.
LEMMA StutterStep ==
  ASSUME IInv, UNCHANGED vars
  PROVE  IInv'
BY DEF vars, IInv, TypeOK, SentHasSender, QueuedOnce, PendingOnce, Queued,
   HandledBySelf, RepliedOnce, PollsKnownObject, DeliveredOnce, AnswerIsReply,
   ReplyUnderSender, ReplyVisible, Current, QueueHasWorker

\* The steps of one message, together.
LEMMA MessageStep ==
  ASSUME IInv, NEW m \in Msgs,
         UserSend(m) \/ GroupSend(m) \/ AgentSend(m) \/ TimerSend(m)
           \/ AgentPost(m) \/ Wake(m)
  PROVE  IInv'
<1>1. CASE UserSend(m)
  <2>1. PICK u \in Users, t \in Agents : Send(m, u, t, u, {u}, None)
    BY <1>1 DEF UserSend
  <2>2. u \in Names /\ t \in Names /\ {u} \in SUBSET Names
    BY DEF Names
  <2>3. QED
    BY <2>1, <2>2, SendStep
<1>2. CASE GroupSend(m)
  <2>1. PICK u \in Users, c \in Groups, t \in Agents :
          Send(m, u, t, c, {u, c}, None)
    BY <1>2 DEF GroupSend
  <2>2. u \in Names /\ c \in Names /\ t \in Names /\ {u, c} \in SUBSET Names
    BY DEF Names
  <2>3. QED
    BY <2>1, <2>2, SendStep
<1>3. CASE AgentSend(m)
  <2>1. PICK h \in Handler, t \in Names :
          h[1] \in Agents /\ Send(m, h[1], t, h[1], {}, h)
    BY <1>3 DEF AgentSend
  <2>2. h[1] \in Names /\ {} \in SUBSET Names
    BY <2>1 DEF Names
  <2>3. QED
    BY <2>1, <2>2, SendStep
<1>4. CASE TimerSend(m)
  <2>1. PICK a \in Agents, t \in Names : Send(m, a, t, a, {}, None)
    BY <1>4 DEF TimerSend
  <2>2. a \in Names /\ {} \in SUBSET Names
    BY DEF Names
  <2>3. QED
    BY <2>1, <2>2, SendStep
<1>5. CASE AgentPost(m)
  BY <1>5, PostStep
<1>6. CASE Wake(m)
  BY <1>6, WakeStep
<1>7. QED
  BY <1>1, <1>2, <1>3, <1>4, <1>5, <1>6

\* IInv is inductive: every step of a sender, a lookup or a worker preserves it.
THEOREM NextIInv == IInv /\ [Next]_vars => IInv'
<1> SUFFICES ASSUME IInv, [Next]_vars PROVE IInv'
  OBVIOUS
<1>1. CASE UNCHANGED vars
  BY <1>1, StutterStep
<1>2. ASSUME NEW m \in Msgs,
             UserSend(m) \/ GroupSend(m) \/ AgentSend(m) \/ TimerSend(m)
               \/ AgentPost(m) \/ Wake(m)
      PROVE  IInv'
  BY <1>2, MessageStep
<1>3. ASSUME NEW p \in pending, Resolve(p) PROVE IInv'
  BY <1>3, ResolveFoundStep, ResolveUnknownStep DEF Resolve
<1>4. ASSUME NEW h \in Handler, Take(h) \/ Finish(h) PROVE IInv'
  BY <1>4, TakeStep, ReplyStep, SilentStep, RaiseStep DEF Finish
<1>5. QED
  BY <1>1, <1>2, <1>3, <1>4 DEF Next

\* The inductive invariant holds in every reachable state of the bus.
THEOREM Invariance == Spec => []IInv
<1>1. Init => IInv
  BY InitIInv
<1>2. IInv /\ [Next]_vars => IInv'
  BY NextIInv
<1>3. QED
  BY <1>1, <1>2, PTL DEF Spec

\* Type correctness of the bus in every reachable state.
THEOREM TypeCorrect == Spec => []TypeOK
BY Invariance, PTL DEF IInv

\* No message is handed to a handler twice, whatever is registered again,
\* resolved concurrently or raised.
THEOREM NoDoubleDelivery == Spec => []DeliveredOnce
BY Invariance, PTL DEF IInv

\* An answered send_message got a reply a handler gave to its message, and no
\* results table keeps that reply.
THEOREM AnswersAreReplies == Spec => []AnswerIsReply
BY Invariance, PTL DEF IInv

\* Replies only ever sit under the name of the sender of their message.
THEOREM RepliesGoToSender == Spec => []ReplyUnderSender
BY Invariance, PTL DEF IInv

\* A sender that was not registered again finds a posted reply when it wakes.
THEOREM RepliesAreVisible == Spec => []ReplyVisible
BY Invariance, PTL DEF IInv

\* A queue with a message has had a worker started for it.
THEOREM QueuesAreServed == Spec => []QueueHasWorker
BY Invariance, PTL DEF IInv

\* Every message is handled once at most, by a worker that its queue has.
THEOREM DeliveryHolds == Spec => []Delivery
BY NoDoubleDelivery, QueuesAreServed, PTL DEF Delivery

\* A sender gets replies to its own messages, and finds them where it polls.
THEOREM RepliesHold == Spec => []Replies
BY AnswersAreReplies, RepliesGoToSender, RepliesAreVisible, PTL DEF Replies

-----------------------------------------------------------------------------
(* The bus implements RequestReply.                                        *)

\* Moving one message moves one caller of the promise.
LEMMA CallerStep ==
  ASSUME TypeOK, NEW m \in Msgs, NEW v, wait' = [wait EXCEPT ![m] = v]
  PROVE  [k \in Msgs |-> CallerOf(wait'[k])]
           = [[k \in Msgs |-> CallerOf(wait[k])] EXCEPT ![m] = CallerOf(v)]
BY DEF TypeOK

\* A send is an Ask, or a Refuse when its sender is not registered.
LEMMA SendAsks ==
  ASSUME TypeOK, NEW m \in Msgs, NEW s, NEW t, NEW on, NEW ns, NEW w,
         Send(m, s, t, on, ns, w)
  PROVE  Promise!Ask(m) \/ Promise!Refuse(m)
<1>1. PICK v \in {"waiting", "posting", "gaveup"} : wait' = [wait EXCEPT ![m] = v]
  BY DEF Send
<1>2. wait[m] = "idle" /\ replied' = replied
  BY DEF Send
<1>3. CASE v = "gaveup"
  BY <1>1, <1>2, <1>3, CallerStep DEF Promise!Refuse, CallerOf
<1>4. CASE v # "gaveup"
  BY <1>1, <1>2, <1>4, CallerStep DEF Promise!Ask, CallerOf
<1>5. QED
  BY <1>3, <1>4

\* A step of a sender is a step of its caller or a stutter.
LEMMA MessageRefines ==
  ASSUME IInv, NEW m \in Msgs,
         UserSend(m) \/ GroupSend(m) \/ AgentSend(m) \/ TimerSend(m)
           \/ AgentPost(m) \/ Wake(m)
  PROVE  [Promise!Next]_(Promise!vars)
<1> USE DEF IInv, Promise!Next
<1>1. CASE UserSend(m) \/ GroupSend(m) \/ AgentSend(m) \/ TimerSend(m)
  BY <1>1, SendAsks DEF UserSend, GroupSend, AgentSend, TimerSend
<1>2. CASE AgentPost(m)
  <2>1. wait[m] = "idle" /\ wait' = [wait EXCEPT ![m] = "fired"] /\ replied' = replied
    BY <1>2 DEF AgentPost
  <2>2. Promise!Fire(m)
    BY <2>1, CallerStep DEF Promise!Fire, CallerOf
  <2>3. QED
    BY <2>2
<1>3. CASE Wake(m)
  <2>1. wait[m] = "waiting" /\ replied' = replied
    BY <1>3 DEF Wake
  <2>2. CASE wait' = [wait EXCEPT ![m] = "gaveup"]
    <3>1. Promise!GiveUp(m)
      BY <2>1, <2>2, CallerStep DEF Promise!GiveUp, CallerOf
    <3>2. QED
      BY <3>1
  <2>3. CASE wait' = [wait EXCEPT ![m] = "answered"] /\ m \in results[pollOn[m]]
    <3>1. m \in replied
      BY <2>1, <2>3 DEF RepliedOnce, PollsKnownObject, TypeOK
    <3>2. Promise!Return(m)
      BY <2>1, <2>3, <3>1, CallerStep DEF Promise!Return, CallerOf
    <3>3. QED
      BY <3>2
  <2>4. CASE wait' = wait
    BY <2>1, <2>4 DEF Promise!vars
  <2>5. QED
    BY <1>3, <2>2, <2>3, <2>4 DEF Wake
<1>4. QED
  BY <1>1, <1>2, <1>3

\* A reply to a message that was sent and not answered yet is an Answer.
LEMMA ReplyAnswers ==
  ASSUME IInv, NEW m \in Msgs, wait[m] # "idle", m \notin replied,
         UNCHANGED wait, replied' = replied \cup {m}
  PROVE  Promise!Answer(m)
<1>1. wait[m] \in {"fired", "posting", "waiting", "gaveup"}
  BY DEF IInv, TypeOK, WaitState, AnswerIsReply
<1>2. CallerOf(wait[m]) \in {"fired", "waiting", "gaveup"}
  BY <1>1 DEF CallerOf
<1>3. QED
  BY <1>2 DEF Promise!Answer

\* A retried post is an Answer, a GiveUp or a stutter.
LEMMA ResolveRefines ==
  ASSUME IInv, NEW p \in pending, Resolve(p)
  PROVE  [Promise!Next]_(Promise!vars)
<1> USE DEF Promise!Next
<1>1. p \in Post /\ p.msg \in Msgs
  BY DEF IInv, TypeOK, Post
<1>2. CASE p.reply /\ ResolveFound(p)
  <2>1. UNCHANGED wait /\ replied' = replied \cup {p.msg}
    BY <1>2 DEF ResolveFound, AfterPost, Deposit
  <2>2. wait[p.msg] # "idle" /\ p.msg \notin replied
    BY <1>2 DEF IInv, PendingOnce
  <2>3. Promise!Answer(p.msg)
    BY <1>1, <2>1, <2>2, ReplyAnswers
  <2>4. QED
    BY <1>1, <2>3
<1>3. CASE UNCHANGED <<wait, replied>>
  BY <1>3 DEF Promise!vars
<1>4. CASE wait' # wait /\ replied' = replied
  <2>1. /\ ~p.reply /\ wait[p.msg] = "posting"
        /\ \E v \in {"waiting", "gaveup"} : wait' = [wait EXCEPT ![p.msg] = v]
    BY <1>4 DEF Resolve, ResolveFound, ResolveUnknown, AfterPost
  <2>2. CASE wait' = [wait EXCEPT ![p.msg] = "gaveup"]
    <3>1. Promise!GiveUp(p.msg)
      BY <1>1, <1>4, <2>1, <2>2, CallerStep DEF Promise!GiveUp, CallerOf, IInv
    <3>2. QED
      BY <1>1, <3>1
  <2>3. CASE wait' = [wait EXCEPT ![p.msg] = "waiting"]
    <3>1. \A k \in Msgs : CallerOf(wait'[k]) = CallerOf(wait[k])
      BY <1>1, <2>1, <2>3 DEF CallerOf, IInv, TypeOK
    <3>2. QED
      BY <1>4, <3>1 DEF Promise!vars
  <2>4. QED
    BY <2>1, <2>2, <2>3
<1>5. QED
  BY <1>2, <1>3, <1>4 DEF Resolve, ResolveFound, ResolveUnknown, AfterPost

\* A step of a worker is an Answer or a stutter.
LEMMA HandlerRefines ==
  ASSUME IInv, NEW h \in Handler, Take(h) \/ Finish(h)
  PROVE  [Promise!Next]_(Promise!vars)
<1> USE DEF Promise!Next
<1>1. CASE UNCHANGED <<wait, replied>>
  BY <1>1 DEF Promise!vars
<1>2. CASE HandlerReply(h) /\ replied' # replied
  <2>1. UNCHANGED wait /\ replied' = replied \cup {current[h]} /\ worker[h] = "busy"
    BY <1>2 DEF HandlerReply, Deposit, Running
  <2>2. /\ current[h] \in Msgs /\ wait[current[h]] # "idle"
        /\ current[h] \notin replied
    BY <2>1 DEF IInv, HandledBySelf, TypeOK
  <2>3. Promise!Answer(current[h])
    BY <2>1, <2>2, ReplyAnswers
  <2>4. QED
    BY <2>2, <2>3
<1>3. QED
  BY <1>1, <1>2 DEF Take, Finish, HandlerReply, HandlerSilent, HandlerRaise

\* Every behaviour of the bus is a behaviour of RequestReply: initial states
\* map to initial states and every step to a step or a stutter.
THEOREM KeepsPromise == Spec => PromiseSpec
<1>1. Init => Promise!Init
  BY DEF Init, Promise!Init, CallerOf
<1>2. IInv /\ [Next]_vars => [Promise!Next]_(Promise!vars)
  <2> SUFFICES ASSUME IInv, [Next]_vars PROVE [Promise!Next]_(Promise!vars)
    OBVIOUS
  <2>1. CASE UNCHANGED vars
    BY <2>1 DEF vars, Promise!vars
  <2>2. CASE Next
    BY <2>2, MessageRefines, ResolveRefines, HandlerRefines DEF Next
  <2>3. QED
    BY <2>1, <2>2
<1>3. QED
  BY <1>1, <1>2, Invariance, PTL DEF Spec, PromiseSpec, Promise!Spec
=============================================================================
