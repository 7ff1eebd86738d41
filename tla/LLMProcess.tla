----------------------------- MODULE LLMProcess -----------------------------
(***************************************************************************)
(* The LLM processes of one agent, src/src/aios/agent/llm_process.py and   *)
(* llm_do_task.py, over its chat sessions (module ChatSession).            *)
(*                                                                         *)
(* Two coroutines run processes at the same time: the worker of the bus    *)
(* calls llm_process_msg for one message after the other, the timer of the *)
(* agent runs self thinking and the task processes.  A step is the code    *)
(* between two suspension points: an answer of the compute kernel, an      *)
(* inner function, an action that waits.                                   *)
(*                                                                         *)
(* Prompts are not modelled, except which messages self thinking shows.    *)
(***************************************************************************)
EXTENDS ChatSession, FiniteSetsExt

CONSTANTS
  Groups,       \* the topics that are those of groups
  Kinds,        \* "text", "audio": to the agent; "mention", "group": in a group
  Codes,        \* result codes the compute kernel gives back, see Answer
  Tools,        \* functions registered in GlobaToolsLibrary
  Configs,      \* configurations of actions: names to enable, names to disable
  TaskNames,    \* the task processes that are configured
  MaxMsgs,      \* bound: messages that arrive
  MaxTasks,     \* bound: task processes
  MaxRestarts   \* bound: restarts of the program

ASSUME LLMAssumption ==
  /\ Kinds \subseteq {"text", "audio", "mention", "group"}
  /\ Codes \subseteq {"OK", "plain OK", "failed"}
  /\ TaskNames \subseteq {"triage_tasks", "plan_task", "do", "check", "review_task"}
  /\ MaxMsgs \in Nat /\ MaxTasks \in Nat /\ MaxRestarts \in Nat

Procs == {"worker", "timer"}

(* load_action_set_from_config.  A name that is not registered, or one to  *)
(* disable that is not enabled, makes the result None; load_from_config    *)
(* then returns False, which nobody looks at.                              *)
LoadActionSet(c) ==
  LET on  == Range(c.enable)
      off == Range(c.disable)
  IN IF on \subseteq Tools /\ off \subseteq on THEN on \ off ELSE None

\* What is remembered about a message.
Message == [id : Nat, topic : Topics, kind : Kinds]

VARIABLES
  ctx,       \* SimpleLLMContext.actions: the enabled actions, or None
  clock,     \* time.time(), advanced by every message that is made
  inbox,     \* AIBusHandler.queue of the agent
  job,       \* what a coroutine works on: a message, the name of a process, None
  pc,        \* where it is suspended
  says,      \* how the answer it got was parsed
  reply,     \* resp_msg of post_llm_process, by its creation time
  shown,     \* the messages of each session that the prompt of a thinking shows
  worklog,   \* the table worklog
  restarts, arrived,
  returned,  \* what llm_process_msg returned for which message (observation)
  posted     \* task processes that reached post_llm_process and were not cut off there

llmVars == <<ctx, clock, inbox, job, pc, says, reply, shown, worklog, restarts,
             arrived, returned, posted>>
vars == <<chat, llmVars>>

NothingShown == [s \in Sids |-> {}]

Init ==
  /\ chat = NoChat
  /\ ctx \in {LoadActionSet(c) : c \in Configs}
  /\ clock = 0
  /\ inbox = <<>>
  /\ job = [p \in Procs |-> None]
  /\ pc = [p \in Procs |-> "idle"]
  /\ says = [p \in Procs |-> "nothing"]
  /\ reply = 0
  /\ shown = NothingShown
  /\ worklog = <<>>
  /\ restarts = 0 /\ arrived = 0
  /\ returned = {}
  /\ posted = <<>>

\* Coroutine p has finished its process; llm_process_msg returns what.
End(p, what) ==
  /\ job' = [job EXCEPT ![p] = None]
  /\ pc' = [pc EXCEPT ![p] = "idle"]
  /\ says' = [says EXCEPT ![p] = "nothing"]
  /\ returned' = IF p = "worker"
                 THEN returned \cup {[msg |-> job[p], what |-> what]} ELSE returned

\* Mutant: what the answer said outlives the process.
RaiseKeeps(p) ==
  /\ pc' = [pc EXCEPT ![p] = IF p = "worker" THEN "dead" ELSE "idle"]
  /\ job' = [job EXCEPT ![p] = None]
  /\ UNCHANGED <<says, returned>>

(* An exception leaves process().  _on_timer logs it and goes on; nothing  *)
(* around llm_process_msg catches it, and it ends the worker of the bus.   *)
Raise(p) ==
  /\ pc' = [pc EXCEPT ![p] = IF p = "worker" THEN "dead" ELSE "idle"]
  /\ job' = [job EXCEPT ![p] = None]
  /\ says' = [says EXCEPT ![p] = "nothing"]
  /\ UNCHANGED returned

-----------------------------------------------------------------------------
(* Messages, up to the first completion.                                   *)

\* A group is the topic of the messages sent to it.
KindsOf(topic) == IF topic \in Groups THEN Kinds \cap {"mention", "group"}
                                      ELSE Kinds \cap {"text", "audio"}

Arrive(topic, kind) ==
  /\ arrived < MaxMsgs
  /\ arrived' = arrived + 1
  /\ clock' = clock + 1
  /\ inbox' = Append(inbox, [id |-> clock + 1, topic |-> topic, kind |-> kind])
  /\ UNCHANGED <<chat, ctx, job, pc, says, reply, shown, worklog, restarts, returned, posted>>

(* prepare_prompt of a message: get_action_desc raises if the actions were *)
(* not loaded, load_chatlogs looks the session up.                         *)
Prepare(c, m) ==
  IF ctx = None
  THEN Raise("worker") /\ chat' = c
  ELSE /\ chat' \in LookUps(c, m.topic)
       /\ job' = [job EXCEPT !["worker"] = m]
       /\ pc' = [pc EXCEPT !["worker"] = "ask"]
       /\ UNCHANGED <<says, returned>>

\* A message to a group that does not mention the agent is kept, not processed.
TakeGroupMessage ==
  /\ pc["worker"] = "idle"
  /\ inbox # <<>>
  /\ Head(inbox).kind = "group"
  /\ \E d \in LookUps(chat, Head(inbox).topic) :
       chat' \in Appends(d, Head(inbox).topic, <<Head(inbox).id>>)
  /\ returned' = returned \cup {[msg |-> Head(inbox), what |-> "kept"]}
  /\ inbox' = Tail(inbox)
  /\ UNCHANGED <<ctx, clock, job, pc, says, reply, shown, worklog, restarts, arrived, posted>>

\* llm_process_msg and process; an audio message is first sent to a speech node.
TakeMessage ==
  /\ pc["worker"] = "idle"
  /\ inbox # <<>>
  /\ inbox' = Tail(inbox)
  /\ LET m == Head(inbox) IN
       \/ /\ m.kind = "text"
          /\ Prepare(chat, m)
       \/ /\ m.kind = "mention"
          /\ \E d \in LookUps(chat, m.topic) : Prepare(d, m)
       \/ /\ m.kind = "audio"
          /\ job' = [job EXCEPT !["worker"] = m]
          /\ pc' = [pc EXCEPT !["worker"] = "hear"]
          /\ UNCHANGED <<chat, says, returned>>
  /\ UNCHANGED <<ctx, clock, reply, shown, worklog, restarts, arrived, posted>>

\* An error of the speech node takes the place of the prompt, and raises there.
Heard(code) ==
  /\ pc["worker"] = "hear"
  /\ IF code = "OK" THEN Prepare(chat, job["worker"])
                    ELSE Raise("worker") /\ UNCHANGED chat
  /\ UNCHANGED <<ctx, clock, inbox, reply, shown, worklog, restarts, arrived, posted>>

-----------------------------------------------------------------------------
(* The processes of the timer, up to the first completion.                 *)

\* Messages of s that no thinking has counted since its object was loaded.
Ahead(s) == LET h == History(chat, s) IN SubSeq(h, GetById(chat, s).cache[s].pos + 1, Len(h))

\* The object of s is the one get_session made: its summary, None, has no tokens.
IsFresh(s) == GetById(chat, s).cache[s].summary = None

\* Mutant: the position is set behind all messages, as if none had been counted.
CountedTwice(s, last, n) ==
  CASE s > last -> Len(History(chat, s)) [] s = last -> n [] s < last -> 0

(* _load_chat_history reads the sessions newest first, that is from the    *)
(* highest number down, until the token limit: at the message n of session *)
(* last, or before it has read any (n = 0).  last = 0: it never is.        *)
Counted(s, last, n) ==
  CASE s > last -> Len(Ahead(s)) [] s = last -> n [] s < last -> 0

\* The message at the limit is counted, but not shown.
Seen(s, last, n) ==
  CASE s > last -> Range(Ahead(s))
    [] s = last -> Range(SubSeq(Ahead(s), 1, n - 1))
    [] s < last -> {}

\* The last session it looks at: the one after the limit ends the loop.
LookedUp(last, n) == IF n > 0 /\ last > 1 THEN last - 1 ELSE last

\* Mutant: the position is the number of messages read, not moved on by it.
AfterReadingSet(last, n, big) ==
  [chat EXCEPT !.cache = [s \in Sids |->
     IF s \in big THEN [GetById(chat, s).cache[s] EXCEPT !.pos = Counted(s, last, n)]
     ELSE IF s \in DOMAIN chat.rows /\ s >= LookedUp(last, n) THEN GetById(chat, s).cache[s]
     ELSE @[s]]]

(* Objects are loaded; the positions of the sessions with more than        *)
(* chat_summary_token_len to show (big) move on, in the objects only.      *)
AfterReading(last, n, big) ==
  [chat EXCEPT !.cache = [s \in Sids |->
     IF s \in big THEN [GetById(chat, s).cache[s] EXCEPT !.pos = @ + Counted(s, last, n)]
     ELSE IF s \in DOMAIN chat.rows /\ s >= LookedUp(last, n) THEN GetById(chat, s).cache[s]
     ELSE @[s]]]

(* llm_self_think.  Less than two messages in all make no prompt, a fresh  *)
(* session raises; the positions that were moved stay moved.               *)
Think ==
  /\ pc["timer"] = "idle"
  /\ ctx # None
  /\ chat.rows # <<>>
  /\ \E last \in 0 .. Len(chat.rows), n \in 0 .. 2 * MaxMsgs :
       LET end    == LookedUp(last, n)
           total  == MapThenSumSet(LAMBDA s : Counted(s, last, n), DOMAIN chat.rows)
           raises == end > 0 /\ IsFresh(end)
           none   == (last = 0 \/ (last = 1 /\ n > 0)) /\ total < 2
       IN
       /\ n > 0 => last > 0 /\ n <= Len(Ahead(last)) /\ ~IsFresh(last)
       /\ \A s \in DOMAIN chat.rows : s > end => ~IsFresh(s)
       /\ \E big \in SUBSET {s \in DOMAIN chat.rows : Seen(s, last, n) # {}} :
            /\ chat' = AfterReading(last, n, big)
            /\ IF raises \/ none
               THEN UNCHANGED <<job, pc, shown>>
               ELSE /\ job' = [job EXCEPT !["timer"] = "think"]
                    /\ pc' = [pc EXCEPT !["timer"] = "ask"]
                    /\ shown' = [s \in Sids |-> IF s \in big THEN Seen(s, last, n) ELSE {}]
  /\ UNCHANGED <<ctx, clock, inbox, says, reply, worklog, restarts, arrived, returned, posted>>

(* The task processes.  Each makes one entry in the work log: its kind, and *)
(* whose id it is filed under: nobody's, that of the task or of the todo.   *)
Triage   == [type |-> "triage",   owner |-> "nobody"]
Plan     == [type |-> "tackling", owner |-> "task"]
Do       == [type |-> "do",       owner |-> "todo"]
Check    == [type |-> "check",    owner |-> "todo"]
Review   == [type |-> "review",   owner |-> "task"]

LogOf == [triage_tasks |-> Triage, plan_task |-> Plan, do |-> Do, check |-> Check,
          review_task |-> Review]

\* A process for a task, a todo or the list of tasks.
StartTask(name) ==
  /\ pc["timer"] = "idle"
  /\ ctx # None
  /\ Len(posted) < MaxTasks
  /\ job' = [job EXCEPT !["timer"] = name]
  /\ pc' = [pc EXCEPT !["timer"] = "ask"]
  /\ UNCHANGED <<chat, ctx, clock, inbox, says, reply, shown, worklog, restarts, arrived,
                 returned, posted>>

-----------------------------------------------------------------------------
(* Completions, and what is made of their answers.                         *)

(* post_llm_process, up to the first action: the reply to a message is     *)
(* made, and so gets its time, before any action runs.                     *)
Post(p, what) ==
  /\ pc' = [pc EXCEPT ![p] = "act"]
  /\ says' = [says EXCEPT ![p] = what]
  /\ IF p = "worker"
     THEN clock' = clock + 1 /\ reply' = clock + 1 /\ UNCHANGED posted
     ELSE /\ posted' = IF job[p] = "think" THEN posted ELSE Append(posted, LogOf[job[p]])
          /\ UNCHANGED <<clock, reply>>
  /\ UNCHANGED <<job, returned>>

\* The text of an answer: a JSON object, "**IGNORE**", or anything else.
Texts == {"json", "plain", "ignore"}

(* The end of the first completion.  The code of a node's success differs  *)
(* from the OK this file compares with ("plain OK"): it counts as an error *)
(* (noted as "refused").                                                   *)
Answer(p, code) ==
  /\ pc[p] = "ask"
  /\ IF code # "OK"
     THEN /\ End(p, IF code = "plain OK" THEN "refused" ELSE "error")
          /\ UNCHANGED <<clock, reply, posted>>
     ELSE \/ \E what \in Texts : Post(p, what)
          \/ /\ pc' = [pc EXCEPT ![p] = "function"]
             /\ UNCHANGED <<job, says, returned, clock, reply, posted>>
          \/ /\ Raise(p)        \* a function_call without tool_calls
             /\ UNCHANGED <<clock, reply, posted>>
  /\ UNCHANGED <<chat, ctx, inbox, shown, worklog, restarts, arrived>>

\* Mutant: the function is called again with what it returned.
FunctionEndsAgain(p, how) ==
  /\ pc[p] = "function"
  /\ how = "string"
  /\ UNCHANGED vars

(* The end of the inner function.  What it raises becomes a string, what   *)
(* is no string raises; a prompt that is then too long is given up, and    *)
(* the missing answer is parsed as "ignore".                               *)
FunctionEnds(p, how) ==
  /\ pc[p] = "function"
  /\ \/ /\ how = "string"
        /\ pc' = [pc EXCEPT ![p] = "again"]
        /\ UNCHANGED <<job, says, returned, clock, reply, posted>>
     \/ /\ how = "too long"
        /\ Post(p, "ignore")
     \/ /\ how = "no string"
        /\ Raise(p)
        /\ UNCHANGED <<clock, reply, posted>>
  /\ UNCHANGED <<chat, ctx, inbox, shown, worklog, restarts, arrived>>

(* The end of the completion after it.  Its code is not looked at again:   *)
(* what came with an error is parsed, a failure came with no text.  No     *)
(* function is offered; one that is called all the same is run.            *)
AnswerAgain(p, code) ==
  /\ pc[p] = "again"
  /\ \/ Post(p, "ignore")
     \/ /\ code # "failed"
        /\ \E what \in Texts : Post(p, what)
     \/ /\ code = "OK"
        /\ pc' = [pc EXCEPT ![p] = "function"]
        /\ UNCHANGED <<job, says, returned, clock, reply, posted>>
     \/ /\ code = "OK"
        /\ Raise(p)        \* a function_call without tool_calls
        /\ UNCHANGED <<clock, reply, posted>>
  /\ UNCHANGED <<chat, ctx, inbox, shown, worklog, restarts, arrived>>

-----------------------------------------------------------------------------
(* Actions, and what comes after them.                                     *)

(* An action update_chat_summary of a thinking.  The model knows the ids   *)
(* of the sessions it was shown; of another id it raises (see Acted).      *)
Summarise(s) ==
  /\ pc["timer"] = "act"
  /\ job["timer"] = "think"
  /\ says["timer"] = "json"
  /\ "update_chat_summary" \in ctx
  /\ shown[s] # {}
  /\ \E saved \in BOOLEAN : chat' = UpdateSummary(chat, s, saved)
  /\ UNCHANGED <<ctx, clock, inbox, job, pc, says, reply, shown, worklog, restarts, arrived,
                 returned, posted>>

\* How _execute_actions may end for what the answer said.
Endings(what) ==
  CASE what = "ignore" -> {"all"}
    [] what = "plain"  -> {"all", "not found"}
    [] what = "json"   -> {"all", "not found"} \cup (IF ctx = {} THEN {} ELSE {"raises"})

\* Mutant: the reply is kept in the log, the message is not.
MessageActedReplyOnly(how) ==
  /\ pc["worker"] = "act"
  /\ how \in Endings(says["worker"])
  /\ IF how = "raises"
     THEN Raise("worker") /\ UNCHANGED chat
     ELSE /\ chat' = AppendTo(chat, job["worker"].topic, <<reply>>, <<reply>>)
          /\ End("worker", "answered")
  /\ UNCHANGED <<ctx, clock, inbox, reply, shown, worklog, restarts, arrived, posted>>

(* The actions of a message end: an exception ends the worker, an unknown  *)
(* action only the list.  Message and reply are logged, if their rows can  *)
(* be written; what is returned ("answered") is the logged reply, a second *)
(* one of the same text, or None.                                          *)
MessageActed(how) ==
  /\ pc["worker"] = "act"
  /\ how \in Endings(says["worker"])
  /\ IF how = "raises"
     THEN Raise("worker") /\ UNCHANGED chat
     ELSE /\ chat' \in Appends(chat, job["worker"].topic, <<job["worker"].id, reply>>)
          /\ End("worker", "answered")
  /\ UNCHANGED <<ctx, clock, inbox, reply, shown, worklog, restarts, arrived, posted>>

\* The actions of a thinking end.  What they raise is caught and forgotten.
ThinkingActed ==
  /\ pc["timer"] = "act"
  /\ job["timer"] = "think"
  /\ End("timer", "done")
  /\ shown' = NothingShown
  /\ UNCHANGED <<chat, ctx, clock, inbox, reply, worklog, restarts, arrived, posted>>

\* append_worklog, which does not suspend, and what it does if the row is stored.
AppendWorklog(how) ==
  /\ worklog' = Append(worklog, [log |-> LogOf[job["timer"]],
                                 result |-> IF how = "all" THEN "OK" ELSE "failed"])
  /\ End("timer", "done")
  /\ UNCHANGED posted

\* A row that cannot be written raises, and the timer goes on without it.
WorklogFails ==
  /\ Raise("timer")
  /\ posted' = SubSeq(posted, 1, Len(worklog))
  /\ UNCHANGED worklog

\* Mutant: an exception of an action is not caught.
TaskActedRaises(how) ==
  /\ pc["timer"] = "act"
  /\ job["timer"] \in DOMAIN LogOf
  /\ how \in Endings(says["timer"])
  /\ IF how = "raises" THEN Raise("timer") /\ UNCHANGED <<worklog, posted>>
     ELSE AppendWorklog(how)
  /\ UNCHANGED <<chat, ctx, clock, inbox, reply, shown, restarts, arrived>>

\* The actions of a task process end, and the work log is written.
TaskActed(how) ==
  /\ pc["timer"] = "act"
  /\ job["timer"] \in DOMAIN LogOf
  /\ how \in Endings(says["timer"])
  /\ AppendWorklog(how) \/ WorklogFails
  /\ UNCHANGED <<chat, ctx, clock, inbox, reply, shown, restarts, arrived>>

\* The program ends and is started again; what is not in a table is gone.
Restart ==
  /\ restarts < MaxRestarts
  /\ restarts' = restarts + 1
  /\ chat' = Reopened(chat)
  /\ inbox' = <<>>
  /\ job' = [p \in Procs |-> None]
  /\ pc' = [p \in Procs |-> "idle"]
  /\ says' = [p \in Procs |-> "nothing"]
  /\ shown' = NothingShown
  /\ posted' = SubSeq(posted, 1, Len(worklog))
  /\ UNCHANGED <<ctx, clock, reply, worklog, arrived, returned>>

Next ==
  \/ \E t \in Topics : \E k \in KindsOf(t) : Arrive(t, k)
  \/ TakeGroupMessage
  \/ TakeMessage
  \/ \E c \in {"OK", "failed"} : Heard(c)
  \/ Think
  \/ \E name \in TaskNames : StartTask(name)
  \/ \E p \in Procs, c \in Codes : Answer(p, c) \/ AnswerAgain(p, c)
  \/ \E p \in Procs, how \in {"string", "no string", "too long"} : FunctionEnds(p, how)
  \/ \E s \in Sids : Summarise(s)
  \/ \E how \in {"all", "not found", "raises"} : MessageActed(how) \/ TaskActed(how)
  \/ ThinkingActed
  \/ Restart

Spec == Init /\ [][Next]_vars

(* Completions have timeouts and inner functions end, as do actions; the   *)
(* loop runs every coroutine that is ready.  A model that calls functions  *)
(* again and again makes its prompt longer each time, until it is given up.*)
WorkerStep ==
  \/ TakeGroupMessage
  \/ TakeMessage
  \/ \E c \in {"OK", "failed"} : Heard(c)
  \/ \E c \in Codes : Answer("worker", c) \/ AnswerAgain("worker", c)
  \/ \E how \in {"string", "no string", "too long"} : FunctionEnds("worker", how)
  \/ \E how \in {"all", "not found", "raises"} : MessageActed(how)

FairSpec == Spec /\ WF_vars(WorkerStep) /\ SF_vars(FunctionEnds("worker", "too long"))

-----------------------------------------------------------------------------
(* Properties.                                                             *)

TypeOK ==
  /\ ChatTypeOK
  /\ clock \in Nat /\ reply \in Nat
  /\ \A i \in DOMAIN inbox : inbox[i] \in Message
  /\ job["worker"] \in Message \cup {None}
  /\ job["timer"] \in {"think", None} \cup TaskNames
  /\ pc \in [Procs -> {"idle", "hear", "ask", "function", "again", "act", "dead"}]
  /\ says \in [Procs -> Texts \cup {"nothing"}]
  /\ \A p \in Procs : (says[p] # "nothing") <=> (pc[p] = "act")
  /\ shown \in [Sids -> SUBSET Nat]
  /\ restarts \in 0 .. MaxRestarts /\ arrived \in 0 .. MaxMsgs

\* The entries of the log that m, a message, has made, and the ids it tried to log.
Entries(m) == {i \in DOMAIN chat.messages : chat.messages[i].to = m.id}
Lost(m)    == {l.id : l \in {k \in chat.lost : k.to = m.id}}
Tried(m)   == {chat.messages[i].id : i \in Entries(m)} \cup Lost(m)

\* The message comes first, its reply next, in the session of the topic, and
\* nothing that is there counts as lost.
EntriesInOrder(m) ==
  /\ \A i, j \in Entries(m) :
       i < j => j = i + 1 /\ chat.messages[i].id < chat.messages[j].id
  /\ \A i \in Entries(m) :
       /\ chat.messages[i].id \notin Lost(m)
       /\ chat.rows[chat.messages[i].sid].topic = m.topic

\* A message that was answered or deliberately left unanswered is logged once,
\* with one reply, in the session of its topic, up to rows that could not be
\* written, which nobody is told of; one that met an error is not.
AnsweredIsLogged ==
  \A r \in returned :
    /\ EntriesInOrder(r.msg)
    /\ CASE r.what = "answered" ->
              \E n \in Tried(r.msg) : n > r.msg.id /\ Tried(r.msg) = {r.msg.id, n}
         [] r.what = "kept" -> Tried(r.msg) = {r.msg.id}
         [] r.what \in {"refused", "error"} -> Tried(r.msg) = {}

\* Every task process whose model gave an answer leaves one entry in the work log,
\* in order, whatever its actions did, unless the program ended meanwhile or the
\* entry itself could not be written.
WorkIsLogged ==
  LET logs == [i \in DOMAIN worklog |-> worklog[i].log] IN
  IF pc["timer"] = "act" /\ job["timer"] # "think"
  THEN posted = Append(logs, LogOf[job["timer"]])
  ELSE posted = logs

\* What is known of sessions in memory, in the table and in prompts agrees, through
\* second objects of a row, thinkings that fail or overlap messages, and restarts.
SessionsAgree == TypeOK /\ OneSessionPerTopic /\ CacheNotBehind /\ PosInHistory

\* What an agent has done is in its log once: messages in the chat log of their
\* topic, task processes in the work log.  Only a failing write loses an entry.
DoneIsLogged == AnsweredIsLogged /\ WorkIsLogged

\* The saved position of a session never goes back: nothing is summarised twice.
PosNeverBack ==
  [][\A s \in DOMAIN chat.rows : chat'.rows[s].pos >= chat.rows[s].pos]_vars

\* The worker comes back from every message, alive or dead.
MessageEnds == (pc["worker"] \notin {"idle", "dead"}) ~> (pc["worker"] \in {"idle", "dead"})

\* The messages that become part of a summary were shown to the model writing it.
SummarisedWasShown ==
  [][\A s \in DOMAIN chat.rows :
       Range(SubSeq(History(chat, s), chat.rows[s].pos + 1, chat'.rows[s].pos))
         \subseteq shown[s]]_vars

\* No answer a node gave is turned down.
OKIsUsed == \A r \in returned : r.what # "refused"
=============================================================================
