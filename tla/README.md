# Verification of OpenDAN

OpenDAN (`src/src`) runs personal AI agents: agents and workflows exchange
messages with humans and with each other over a bus, ask language models and
other services for results through a compute kernel, and keep tasks, memories,
chat histories and documents on disk. All of it is one Python process with one
asyncio event loop. There are no locks; whatever one coroutine reads before an
`await` another may have changed after it. This directory holds TLA+ models of
the parts where that matters, the TLC configurations that check them, and proofs
that TLAPS checks.

    tlc -config MC_AIBus.cfg MC_AIBus          # model-check one run
    tlapm AIBus_proofs.tla                     # check the proofs of one module

`PROJECT.json` lists components, runs, the mutants each property was tried
against, the lines every definition stands for, findings and hazards.

## 1. Inventory

Paths are relative to `src/src`.

| Part | State | Operations | What makes it hard | Correct if |
|---|---|---|---|---|
| Message bus `aios/frame/bus.py` | handler objects by name; each has a queue, a table of replies, a worker task | register, post, send and wait, look up an unknown name, handle | names are registered again while calls hold the old object; lookups suspend; handlers send; handlers raise | a message is handled once; replies reach their sender; every call returns |
| Senders `service/aios_shell/aios_shell.py`, `component/*_tunnel.py`, `aios/agent/workspace.py` | what they registered | send for a human, for a group, from a handler, from a timer; post | registration per message | as above |
| Compute kernel `aios/frame/compute_kernel.py` | task queue, nodes by id | run, schedule, wait with a timeout | late answers race timeouts; nobody cancels; the loop may die | a task runs once; what is returned agrees with what happened; every call returns |
| Compute nodes `component/*_node`, `aios/frame/queue_compute_node.py` | queue, loop; state and result of the task, shared with the waiting caller | push, run | three conventions for storing the end of a task; loops that die | as above |
| Agent timer `aios/agent/agent.py` | energy, time of recovery | triage, plan, do, check, review, think every 30 s | several timers per agent; tasks change while an LLM process runs; energy | a task is worked on by its state; the loop gives way |
| Task store `aios/agent/workspace.py`, `aios/proto/agent_task.py` | a directory and a file per task, a file per todo, an index in SQLite | create, get, list, update, set todos, files | files truncated and written in separate steps; index rows never removed | no update lost, no half-written task read, index and files agree |
| LLM process `aios/agent/llm_process.py`, `llm_do_task.py` | prompt | completion, inner functions, actions afterwards | result codes, depth limit | actions run exactly when the completion succeeded |
| Workflow `aios/agent/workflow.py`, `role.py` | roles, sub workflows, sessions | route a message, post and send between roles, calls | recursion; delivery to roles, sub workflows and the bus | one receiver per message |
| Chat session `aios/agent/chatsession.py`, memory `agent_memory.py` | SQLite tables, objects cached by id | get, append, read, summarise | two objects for one session | one history per topic |
| Agent manager `component/agent_manager` | cache of agents (never filled) | get | an agent object, and a timer, per lookup | each object and timer is accounted for |
| Knowledge pipelines `component/knowledge_manager` | list of pipelines, journals | run each in turn | one that raises ends all; restart in the middle | no input passed over |
| Mail and issues `component/mail_environment` | directories and rows of mails, tree of issues in memory and in a file | search, download, hand on, attach to an issue | directory, row and journal are three writes; the file of issues is its only copy | what is journaled is stored; a mail reaches its issue |
| Knowledge store `aios/knowledge` (chunks, objects, relations) | chunk files by hash, positions and relations in SQLite | cut, build, read, relate | chunks are shared; writes in place | what is stored is read; relations lead to every document |
| Knowledge graph and object storage `aios/knowledge/knowledge_base.py`, `aios/storage/objfs.py` | objects and paths in SQLite, a registry, `meta.json` | methods, tools of the model, prompts | several memories register one id; answers differ from what was done | paths lead to what they led to |
| Local documents `component/common_environment/local_document.py` | parse states in SQLite | scan, parse, resume | not reached (see 16) | - |
| Package manager `aios/package_manager` | package directories, lock file | load, install with dependencies | versions, cycles | a consistent set of packages |
| Tunnels, contacts `aios/frame/tunnel.py`, `contact*.py`, `component/*_tunnel.py` | offsets, marks, chats, contacts in memory and in a file | fetch, convert, hand on, reply; edit contacts | an update is fetched again after an error; a dialogue edits what a tunnel uses | a message is handed on once; one contact per account |
| Shell and settings `service/aios_shell`, `aios/storage/storage.py` | settings, tunnels, local nodes, each in a file | start, commands | files truncated and written later; what one run leaves decides the next start | what was set is there again; a start ends |
| Environments, AI functions, net, utilities | little | calls of libraries | - | - |

The parts interact by calls in the loop: the shell and the tunnels put a
human's message on the bus; the worker of an agent runs the agent's `on_message`
process; that process waits for completions of the compute kernel, and its
actions read and write the task store or send further messages, which suspends
the worker inside its own handler. An agent's timer does the same without a
message. The only other thread of control is the pool that `aiofiles` uses.

## 2. Modules and plan

| Module | Content | Stands on | Run | Proofs |
|---|---|---|---|---|
| `RequestReply` | what a caller of a request is promised | - | implemented by the next two | - |
| `AIBus` | bus and its senders | implements `RequestReply` | `bus`, `bus_raise` | `AIBus_proofs` |
| `ComputeKernel` | kernel, nodes, callers | implements `RequestReply` | `kernel` | `ComputeKernel_proofs` |
| `TaskStore` | task files, the functions that change them, their writes step by step, crashes | - | `tasks` | `Agents_proofs` |
| `AgentLoop` | the timers of an agent | extends and implements `TaskStore` | `agent` | `Agents_proofs` |
| `ChatSession` | sessions: table, objects, cache | - | through `LLMProcess` | `LLMProcess_proofs` |
| `LLMProcess` | the processes of an agent, worker and timer at a time | extends `ChatSession` | `llm` | `LLMProcess_proofs` |
| `Contacts` | contacts, their file, the dialogue that edits them | - | through `Tunnels` | `Tunnels_proofs` |
| `Tunnels` | Telegram, Slack, Discord, mail | extends `Contacts` | `tunnels` | `Tunnels_proofs` |
| `UserConfig` | settings and their file | - | through `Shell` | `Shell_proofs` |
| `Shell` | start of the program, commands, tunnels file, local nodes | extends `UserConfig` | `shell` | `Shell_proofs` |
| `TextSplit` | how texts are cut | - | through `KnowledgeStore` | `Knowledge_proofs` |
| `KnowledgeStore` | chunks, positions, relations, builders, reader | extends `TextSplit` | `knowledge` | `Knowledge_proofs` |
| `ObjFS` | objects and paths of a graph | - | through `KnowledgeGraph` | `Knowledge_proofs` |
| `KnowledgeGraph` | registry, methods, tools, memories of agents | extends `ObjFS` | `graph` | `Knowledge_proofs` |
| `Mails`, `Issues` | mail store and pipelines; tree of issues | - | through `MailIssues` | `MailIssues_proofs` |
| `MailIssues` | mails that are sorted into issues | extends `Mails`, `Issues` | `mail` | `MailIssues_proofs` |
| `Workflow` | lookup, loading, addressing, completions of roles | - | `workflow` | `Agents_proofs` |

`MC_X` instantiates `X`: constants in the `.cfg`, anything TLC's configurations
cannot express (functions, sequences) in the `.tla`.

What a property of a run says is often a conjunction of named parts (`Delivery ==
DeliveredOnce /\ ...`), each of which is stated and commented where it is defined,
so that a counterexample tells which one failed.

Left for later: `LocalDocument`, should something make one again; the part of `Workflow`
behind a parsed completion, should it become reachable.

## 3. The message bus: `AIBus`

A step is the code between two suspension points of one coroutine. A handler
object is `<<name, incarnation>>`: `register_message_handler` makes a new
incarnation (`gen`), while workers and waiting calls keep the old one.

| Code | Model |
|---|---|
| `AIBus.handlers` | `gen[n]`, the incarnation registered for `n` |
| `AIBusHandler.queue`, `.results`, `.working_task` | `queue[h]`, `results[h]` (a reply is named by the message it answers), `worker[h]` with `current[h]` |
| `send_message`: post, then poll | `Send` up to the first sleep, `Wake` per poll; `wait`, `pollOn` (the object polled), `polls` (`retry_times`), `nested` (the handler that called) |
| `post_message` on an unknown name | an element of `pending`, resolved by `ResolveFound` (lookup, registration and the retried post, without a suspension in between) or `ResolveUnknown` |
| `process_queue`, `handle_message` | `Take`, then `HandlerReply`, `HandlerSilent` or `HandlerRaise`; while the handler waits for a message of its own it is `Blocked`, while its reply is looked up it is `Replying` |
| shell and tunnels | `UserSend` registers its human first, `GroupSend` human and group and polls the group |
| agents | `AgentSend` inside a handler, `TimerSend` outside, `AgentPost` without waiting |

`handled`, `replied` and `failed` are observations that no guard reads.

What the runs show:

* `bus` (`MC_AIBus.cfg`, about 75 thousand states): one human, a group, two agents
  that can be looked up and one that cannot, two messages, up to four registrations
  of a name, two polls. That is enough for nested sends, an agent writing to itself,
  two lookups of one name at a time, a human who writes twice, and handlers that
  wait in a circle. `Delivery`: no message is handled twice and no queue is without
  a worker. `Replies`: a reply that a call returned was given by a handler and is
  gone from every table, replies lie under the sender's name, and a posted reply is
  visible to its sender as long as the sender was not registered again.
  `SendsAndQueuesEnd`: every `send_message` returns - in circular waits through the
  timeout - and every queue drains unless its worker is dead. The bus implements
  `RequestReply` (`PromiseSpec`), with its fairness (`PromiseFairSpec`, the first
  half of `SendsAndQueuesEnd`).
* `bus_raise`: see the findings.

Bounds. `PollLimit` is 2 instead of 1200: the code compares a counter with a
constant, and 2 has polls before the limit, one at it, and the one that gives
up. `MaxGen` bounds registrations; a name needs two objects for the stale one to
exist and a third for the stale one not to be the first.

Fairness (`FairSpec`): weak fairness of every wake-up, worker step, lookup and end
of a handler. The event loop runs every ready coroutine; lookups read local
files; a handler waits only for calls that have a timeout of their own. A handler
that waits for a reply is not ready until the send returns, which `Blocked` models.

## 4. The compute kernel: `ComputeKernel`

| Code | Model |
|---|---|
| `compute_nodes`, `task_queue` | `nodes` in insertion order, `task_queue`; `kernel` says whether the loop is off, runs or died |
| a node's queue and loop | `node_queue[n]`, `loop[n]`, `running[n]` |
| `ComputeTask.state`, `.result` | `state[t]`, `result[t]` (only the code) |
| `do_*`, `_wait_task`, `check_timer` | `Submit`, `Check` per half second, `Return`; `waiter`, `checks` |
| `_schedule` | `Support`, `Totals`, `Pos`, `Candidates`, `IsHit` over every random position |
| the loop of the kernel | `Schedule` or `Drop` |
| the loops of the nodes | `Take`, `ChatEnds`, `VoiceEnds`, `ChatRaises`; `RunLocal` for nodes that block the event loop, `DescribePicture` for the one request of the OpenAI node that does |

The program has two enums named `ComputeTaskResultCode`: nodes set codes of the
one that package `aios` exports, the kernel and every fresh result use the other.
Members of different enums are never equal, so the model keeps them apart
(`"OK"` and `"kernel OK"`). `got[t]` records what the call returned together with
state and end of the task at that moment; `runs` and `finished` are observations.

What the run shows: `kernel` (`MC_ComputeKernel.cfg`, about 230 thousand states)
has a chat node, one more whose `push_task` raises, a voice node and two llama nodes
with one id, the first of weight 2; any three of them join (`MaxNodes`), and two of a
completion, a speech task and a picture are asked for (`MaxCalls`). `Outcomes`: a task
starts once although it may be scheduled after its caller gave up; what a call
returns agrees with itself and with what happened, in every order of late answer,
timeout and return; `TIMEOUT` is honest. `EndIsFinal`: ends are final except the
`ERROR` a timeout set. `HitsAreProportional`: scheduling is proportional to weight.
`CallsAndQueuesEnd`: every call returns, also when every loop is dead, and queues
drain unless their loop died. The kernel implements `RequestReply`.

Three nodes are one more than a position needs to fall between, and two with one id can
be among them; two tasks let one wait behind the other. Theorems cover all numbers.
`CheckLimit` is 1 instead of 120 (60 s, two checks a second): there is a check before
the limit, one at it, and one that gives up. Fairness is that of the event loop, and of the
clients of the services, which have timeouts of their own.

`ReturnIsConsistent` also records two limits. A state `DONE` may come with an error
(`"err"`, code `ERROR`), because the chat nodes store `DONE` over the `ERROR` of
a failed request. Callers that look at the state alone take it for a success. And for
pictures (`IMAGE_2_TEXT`) the OpenAI node sets the code `OK` before it makes the request
(`open_ai_node.py:188`): when the service refuses, the task is `DONE` with `OK` and no
description; when the request raises, the loop of the node ends, and the caller, after its
timeout, gets `OK` for a task that never ended. The invariant says that this happens to
pictures only, and the second only after the timeout and with a loop dead.

## 5. The task store: `TaskStore`

A task is a directory with a file `detail`, a todo a file `#<step> <title>.todo`
in it, and a table in SQLite maps ids to paths. Reads and the table are
synchronous. A write is not: `aiofiles` opens the file in a thread, which
truncates it, hands the text to the file object, and a thread writes it when the
file is closed; between these steps every other coroutine runs.

| Code | Model |
|---|---|
| table `obj_list` | `taskPath[t]`, a pair of parent and title |
| files | `disk[f]`: length, and what a reader makes of the text (`None` if it cannot be parsed) |
| `get_task` | `Found`, `Get` |
| `create_task` | `CreateTask`, then `Open`, `Flush`, `Resume` |
| `cancel_task`, `confirm_task`, `update_task` | `ChangeTask` with `Cancelled`, `Confirmed`, `Updated`, then the same steps |
| `set_todos` | `SetTodos` deletes the old files, then the same steps for one todo after the other; `GiveUp` if `to_dict` raises |
| a writer whose file is deleted | `pc = "unlinked"`: it writes into a file without a name |
| two writers of one file | `Over`: a text over a longer one leaves the end of that behind |
| the process ends | `Crash`: files and table stay as they are |

`hurt`, `plan` and `mixed` are observations that no guard reads, and so is the
field `read` of a call. Reads while a thread writes see the file as the last step
left it. `expiration_time` and the other optional dates are not set.

What the run shows: `tasks` (`MC_TaskStore.cfg`, about 2.2 million states, calls
and tasks being symmetric) has two calls at a time, two tasks and lists of up to
two todos, one of which cannot be written. `TasksAreRead`: `get_task` finds the
task that was asked for; one that cannot be read is being written, or was written
by two calls at a time, or by one that a crash cut off. `TodosAreTheLastSet`: the
readable todos of a task are those of the last list, in order, up to the first
that could not be written, unless two `set_todos` overlapped or a crash cut one off.

Two calls are enough for what the properties speak of: they name a writer and the
one that got in its way. Lengths are those of the names of the states, so that an
update may be longer or shorter than the text it meets. Titles contain no
characters that `glob` or a path would read in another way.

## 6. The timers of an agent: `AgentLoop`

`AgentLoop` extends `TaskStore`: functions are called, by the LLM processes of a
timer or by anybody else, at any time the event loop runs. `timer[a]` says where
`_on_timer` of object `a` is suspended and the rest of its task list, `energy[a]`
is `agent_energy`.

| Code | Model |
|---|---|
| `AgentManager.get`, `initial`, `wake_up` | `Load`: any number of objects of one agent |
| the sleep is over; energy is recovered | `Wake` |
| `continue` with low energy | `pc = "spin"`, `Spin`; while a timer spins no coroutine goes on (`LoopFree`), only the threads that write files |
| the body up to the next LLM process | `StartBody`, `StartPass`, `GoOn`, `Stop`, `Reach` |
| an LLM process ends, raises | `TriageEnds`, `PlanEnds`, `ReviewEnds`, `ThinkEnds`, `PromptRaises` |
| `get_sub_todos` | `TodosRead` |
| restart | `Restart`: `Crash`, and no object is left |

`GoOn` is a set of places, because a pass looks at one task after the other
without a suspension until one of them stops it. Doing and checking todos are not
in the model because the code never gets there: for the first todo it calls
`get_todo_by_id`, which does not exist.

What the run shows: `agent` (`MC_AgentLoop.cfg`, about 29 thousand states) has a
timer and a call at a time on a task with a todo, and a second task that may take
its place. `EnergyBound`: the energy is overdrawn by three at most - by the last
task, planned and reviewed with one unit left, and by thinking about it.
`PromptFitsTask`: a task is planned or reviewed in the state it has at that moment.
`PassEnds`, `FunctionsReturn`: every pass ends and every function returns.

Bounds. Energy starts at 3 instead of 15 and never exceeds 4 (`MaxEnergy`), a minute
recovers up to two units (`MaxRecover`): what matters
is whether it is above 1, above 0, or below, and 3 is what triage costs. In the
code energy has fractions; the model rounds it up. The code compares it with whole
numbers only and spends whole numbers, so no comparison changes, and the -3 of
`EnergyBound` stands for anything above -4.

Fairness (`LoopFairSpec`): strong fairness of the steps of every timer and every
call. Weak fairness would not do: a timer that spins time and again disables the
others each time. The event loop keeps ready coroutines in the order in which they
became ready, and serves them in that order once the timer sleeps; the thread pool
is not disturbed at all. LLM processes end because the kernel's calls have timeouts.

## 7. The processes of an agent: `ChatSession`, `LLMProcess`

The worker of the bus runs `llm_process_msg` for one message after the other while
the timer thinks and works on tasks; both use the agent's sessions and its log. No
method of a session suspends, so `ChatSession` defines them as operators on one
variable `chat`; `LLMProcess` says when they run.

| Code | Model |
|---|---|
| tables `ChatSessions`, `Messages`; `AIChatSession._sessions` | `chat.rows`, `chat.messages`; `chat.cache` |
| `get_session`, `get_session_by_id`, `append`, `update_summary` | `GetSession`, `GetById`, `AppendTo`, `UpdateSummary` |
| a row that cannot be written (`sqlite3.Error`, caught and logged; in the work log not caught) | `LookUps`, `Appends`, `UpdateSummary(.., FALSE)`; `WorklogFails` |
| `_load_chat_history` of a thinking | `Counted`, `Seen`, `AfterReading`: sessions newest first, up to a token limit anywhere |
| `load_action_set_from_config` | `LoadActionSet`, over configurations that name unknown actions |
| `llm_process_msg`, audio and group messages | `TakeMessage`, `Heard`, `TakeGroupMessage` |
| the completion, inner functions, the completion after | `Answer`, `FunctionEnds`, `AnswerAgain` |
| `post_llm_process`, `_execute_actions` | `Post`, `Summarise`, `MessageActed`, `ThinkingActed`, `TaskActed` |
| exceptions | `Raise`: ends the worker, not the timer |
| end and start of the program | `Restart`: the tables stay |

`get_session` caches a new session without its topic. The next call therefore misses
it, finds the row and loads a second object for it: two objects of one session, of
which the second replaces the first in the cache. `SessionsAgree` says why that does
no harm: still one row per topic (`OneSessionPerTopic`), no object behind its row
(`CacheNotBehind`), no summary of messages the session does not have
(`PosInHistory`), also when a thinking that moved a position in memory fails and
while messages are appended under it. `PosNeverBack`: nothing is summarised twice.
`DoneIsLogged`: a message that was answered has one entry and one reply in the
session of its topic, and a task process one line in the work log. Every write may
fail. `ChatSessionDB` catches `sqlite3.Error` and returns -1, which no caller looks at:
the message is answered and its row is missing, and a session whose row was not
written takes messages that no topic leads to. Such messages are kept in `chat.lost`,
and `DoneIsLogged` says that a message returned was logged or lost, in order, once, and
never both. `append_worklog` catches nothing: the timer goes on without the entry.
Reads of the tables do not fail in the model. `MessageEnds`: the worker comes back from
every message, alive or dead.

Run `llm` (`MC_LLMProcess.cfg`): two topics, one of them a group, two messages of
any kind, a task process, thinkings at any time, one restart. Two messages in a
session are needed for a position in the middle; two topics for a reading that stops
in the second session. Fairness: weak fairness of the worker's steps, each of which
waits for a call of the kernel with a timeout, or for a function. A model that calls
functions again and again makes its prompt longer with each, and a prompt that is too
long is given up: strong fairness of that end (`FunctionEnds("worker", "too long")`).

In this commit every node reports success with a member of the enum in
`compute_task.py`, and `llm_process.py` compares it with the other one, so that
every completion is refused. The configuration keeps a matching code as well
(`"OK"` beside `"plain OK"`): most of the file, and all that can go wrong in it, is
about completions that are accepted.

## 8. Contacts and tunnels: `Contacts`, `Tunnels`

| Code | Model |
|---|---|
| `Contact` objects, the list, `contacts.toml` | `cards`, `contacts`, `saved`; tunnels and shell hold objects |
| `/contact` | `dialog`: `AskContact` ... `AskEmail`, `UpdateOrRemove` with `Without`, `Abort`; it edits the object in the list while it waits |
| `load_all_tunnels_from_config`, the `start` of each tunnel | `File`, `loaded`: `StartBot`, `StartChat`, `StartMail`, one after the other in the order of the file; `StartFails` leaves the rest of it (`abandoned`) |
| `TelegramTunnel`: the loop, `on_message` | `Fetch`, `Converted`, `Answered`, `Replied`, `SendRaises`, `Exception`; `offset`, `marked`, `chatOf` |
| updates the service keeps until an offset confirms them | `updates`, `confirmed` |
| Slack, Discord | one `event` each: `EventArrives`, `SlackTaken`, `DiscordTaken`, `SlackReplied`, `DiscordReplied`, `EventFails` |
| `check_email` | `Search`, `FetchMail`, `MailReplied`, `MailRaises`; `readNums` are sequence numbers, which a deletion shifts (`MailDeleted`) |
| messages of agents to contacts | `AgentPosts`, `PostRaises` |

`HandedAndAccounted`: a message is handed to an agent once in a run of the program
although it is fetched again after every exception (`HandedOnce`), the service only
forgets what was taken up, has the number of something taken up, or was stepped over
by a `Forbidden` error (`Accounted`), and no mail is handed on twice, restarts
included (`MailOnce`). `ContactsAgree`: a bot that is the active tunnel of a contact
knows a chat to write to, tunnels never make a second contact of an account, two bots
at a time included, and the file has every contact, with its account unless a dialogue
that was not finished changed it. `InputsEnd`: no update waits for ever unless its
coroutine died or was never started, and no mail unless `check_email` died or was never
started, or the mail has come under a number that was read before. These exceptions are
real losses in the code: a bot whose `get_me` fails (`tg_tunnel.py:81`) keeps `is_start`
and has no loop, the exception leaves the loop over the file (`tunnel.py:20-40`), so no
tunnel behind it starts, and the shell only logs it (`aios_shell.py:250-255`). The tunnels
before it are not excused (`NeverStarts`).

Run `tunnels` (`MC_Tunnels.cfg`): a file with a bot, Slack, mail, the other bot and
Discord, two people, one supergroup, a Slack and a Discord event, two mails, two inputs
and one failure, restart, dialogue or message of an agent in all. Two inputs are what an
order or a repetition needs; the trouble stands between them or in the start. Fairness:
weak fairness of the starts, of each bot and of the mail coroutine, as the event loop runs
every coroutine and a service answers or fails, by a timeout at least; it promises no
start that succeeds, as `StartFails` may take its place. Events are not waited for, as
the code does not retry them.

## 9. Settings and shell: `UserConfig`, `Shell`

| Code | Model |
|---|---|
| `config_table`, `system.cfg.toml` of the user | `conf`, `confFile` |
| `set_value`, `save_to_user_config` | `SetValue`, `BeginSave` (truncates), `Write` or `WriteFails` later |
| `load_value_from_file` | `Loaded`; an unreadable file is loaded as nothing |
| `main`, `initial`, `load_all_tunnels_from_config` | `Boot`, `AskUser`, `Initial`, `LoadTunnel`, `Ready` |
| `proxy.apply_storage`, called by `main` after `initial` whether or not that succeeded | `ProxyRaises` in `Initial` and `Ready` |
| `ContactManager.load_data`, `save_data`: whether `contacts.toml` parses | `contactsSpoilt`, read by `Boot`, repaired by `Initial` and `ContactsSaved` |
| `/set_config`, `/enable`, `/disable`, `/open`, `/connect` | `SetConfig`, `SwitchFeature`, `Open`, `Connect`, `Connected` |
| `/node add`, `rm`, `create` | `NodeAdd`, `NodeRm`, `NodeCreate` and the dialogue `ModelPath` ... `RunService` |
| an exception of a command, which nothing catches | `CommandRaises` |
| the process ends, a file is damaged by hand | `Crash`, `Spoil` |

`SettingsKept`: what the user has set and connected is in the files and in force after
any number of restarts, unless a write was cut off, failed or the file was spoilt
(`SettingsSurvive`, `SettingsInForce`, `ConnectedComesBack`). `LocalNodesWork`: the
nodes of the file serve while the program is ready, none is lost by the next save, and
a container is only run for a model that is there. `Starts`: every start ends, and one
that fails is explained by what is in the files. The list of explanations,
`StartExplained`, is long, and each of its cases occurs: `feature.llama` switched on,
`/node rm` when there was no node, a node file that was cut off, an agent opened
without a topic, a proxy that has no host and port (`/set_config proxy` takes any value,
and `apply_storage` unpacks it without a guard, `proxy.py:32-39`), damaged settings, and
a `contacts.toml` that does not parse: `load_data` catches only that the file is missing
(`contact_manager.py:49-55`) and is the first thing the start does. Such a file is
written anew when it was spoilt under a running program that then saves a contact.

Run `shell` (`MC_Shell.cfg`): the four settings the start reads, two tunnels and one
of an unknown type, one node, one fault, five commands or starts: set, use, start,
damage, start.  Fairness: weak fairness of what the program does on its own; the user
need not do anything.

## 10. The knowledge store: `TextSplit`, `KnowledgeStore`

| Code | Model |
|---|---|
| `split_text`, `_split_text_with_regex`, `_merge_splits` | `SplitText`, `CutPieces`, `PiecesOf`, `MergeSplits` with `Popped`; a piece is a stretch of the text, a loop is a function of the number of its rounds |
| chunk files, named by their hash | `blobs`: `Open` truncates, `Write` completes |
| `ChunkTracker` | `positions`: `Track` before the chunk is written; `FirstPositions` is what `get_position` finds |
| `ObjectRelationStore` | `relations`: `RelateChunk`, `Relate`; `RootsOf` walks them (`Walk`, one `WalkOn` for each object of the list) |
| builders of documents, images, videos | `BuildDocument`, `BuildImage`, `BuildVideo`, `Chunked`, `Insert`, `Inserted` |
| the builder raises or the process ends; the user edits a file | `Interrupt`, `Edit` |

`CutIsRight`: no letter of a text is lost when it is cut, no chunk begins or ends before
the one in front of it, and chunks are never too long and overlap by no more than they
may. Two chunks may begin at the same letter: when all that is popped is blank, a chunk "x"
is followed by "x y" (`MCTexts` has such a text). `StoredIsRead`: what was stored is
read from the store, whatever is edited or stored since, and copies outlive their
originals - but for the one file a write that was cut short has truncated. `Open` writes
in place (`blob.py:37`), under a name that is a hash: a build of something else that is
interrupted there takes the chunk from every object that shares it, and building one object
again that is interrupted at its own file takes that object, although it was stored and
read before. `Hurt` names these files, the one being written and the history `cutShort`
of those whose last write did not end; nothing else may be unreadable, and a build that
goes through its chunks repairs them (`RebuildRepairs`). `RelationsLead`:
from a chunk the relations lead to every document that shares it, and the walk to the
roots comes to the end of its list and finds what a reference definition (`Reachable`)
finds. `Walk` stops after three rounds for each object it starts from, the longest way
there is along the relations; that the list has ended by then is part of the property.

`fetchmany()` without an argument gives one row, the first in the order of the primary
key, which is text: `Rank` models that order, and `StoredIsRead` depends on it. Run
`knowledge` (`MC_KnowledgeStore.cfg`): eight texts chosen to be cut at every separator,
with and without an overlap, two of which share chunks; an image with an absolute path
and a video; two builds and two faults.

## 11. Knowledge graphs: `ObjFS`, `KnowledgeGraph`

| Code | Model |
|---|---|
| tables of `ObjFS` | `objects`, `links` |
| `add_obj`, `update_obj`, `add_path`, `remove_path`, `remove_obj`, `list`, `tree` | operators of the same names; `Like` evaluates the pattern, with its escapes |
| `_all_knowledge_bases`, `_default_kb` | `registry`, `default`: `AddKb`, `RemoveKb`, `NewMemory` |
| methods of `BaseKnowledgeGraph` | `KbAddObj` ... `KbUnlink` |
| tools of the model | `ToolList` ... `ToolUnlink`, each with what it answers (`answer`) |
| `meta.json`, the prompt | `meta`, `memory`, `PromptedKbs` |

`GraphsLead`: a path that leads to an id leads to an object that is stored, the default
is a graph that is known, every graph a prompt names is found by the tools although an
agent may be loaded twice, and the root lists every absolute path. `GraphsKeep`: a path in use
never comes to lead elsewhere; a call of the model that is refused or raises has
changed nothing (`RefusedLeavesNoTrace`; `remove` is answered as a failure when its path is
gone); and an object the model names by an id it has read some calls ago does not come back
by being set, when it was removed since (`StaleIdsStayGone`). Run `graph`
(`MC_KnowledgeGraph.cfg`): two memories of one agent and a pipeline's graph over one
database, two contents, so that an update shows, restarts and a torn `meta.json`. That the
model's writes and links come to nothing, although the tools say that they store and link,
is no property but a finding (section 15). Today no caller makes a memory with a graph; the
model has those that do.

## 12. Mails and issues: `Mails`, `Issues`, `MailIssues`

| Code | Model |
|---|---|
| directory of a mail, table `mails` | `disk`, `rows` |
| `EmailSpider.__init__`: the IMAP client | `connected`, `ConnectionLost` |
| `EmailSpider.next` | `SpiderSearch`, `SpiderFetch`, `GoesOn`, `GivesUp`, `SpiderFails` |
| `LocalEmail.next`, `watch_root` | `LocalNext`, `Watch`; `Place` is the user |
| the manager's loop over the pipelines | `turn`, `Pending`, `Raised`, `Parsed` |
| `IssueStorage` | `OpenIssues` with `Configured`, `AddIssue`, `UpdateIssue`, `CloseIssues` |
| ids of issues, hashes that contain the id of the parent | triples; the root notes `NoId` |
| `IssueParser` | `IssueOf`, `ParseEnds`, `ParserRaises` |

`KnowledgePipeline` itself is missing from the repository; what its inputs and the
manager take for granted is modelled and marked external. `MailsKept`: what the spider
journaled is stored and whole, a torn mail is fetched again, the local input passes
nothing over but what comes in below a mail put there by hand, and no pipeline runs
twice. A configuration lists at least one of the two pipelines (`MailsAreKnown`), and the
issues of one are a tree (`IssuesAssumption`). `IssuesAgree`: a reply goes to the issue of the mail it answers, a call that
returned is saved, issues stand under their parents also when ids collide.
`SpiderGetsOn`: every mail that arrives is stored, unless an exception ended the
manager (`Ended`), the connection of the spider is lost, which it makes once and never
again (`Lost`), a mail that is no later cannot be downloaded whatever happens, as the
spider does not pass over it (`Blocked`), the process ended between a row and its journal
entry (`Stuck`), or two equal mails make the local input go in a circle (`Circles`).
Without any one of the five TLC finds the property violated.

Run `mail` (`MC_MailIssues.cfg`): three uids on the server, the last of a mail that can
never be downloaded, two by hand between and above them, two of the mails equal, two
faults, three issues. A fault is an error of the network, the disk or a parser, a
connection that is lost or cannot be made, or an end of the process. Fairness
(`MailFairness`): the pipelines run, mails that are sent arrive, and over a connection
that stays a fetch that is tried again and again succeeds if the mail is one that can be
downloaded (strong fairness; otherwise only the network would be refuted). Nothing is
assumed of a connection that is lost.

## 13. Workflows: `Workflow`

| Code | Model |
|---|---|
| the shell's lookup of an unknown name | `LookUpAgent`, `LookUpWorkflow`, `LoadRole` per role, `LookUpContact` |
| `PackageEnv.load` | `Source`, `Loaded`, `NameRaises`: the user's package hides the system's, broken or not |
| `_process_msg`, sub workflows by dotted names | `Routed`, `WorkflowProcesses`, `RoleProcesses` |
| `role_process_msg`, `_role_execute_func` | `Ask`, `Signature`, `Fails`, `Succeeds` |
| the kernel as a role sees it | `KernelTakes`, `NodeEnds`, `AnswerComes` |
| a workflow without roles; a message without a topic | registered as it is; `TopicRaises`, which ends the worker |
| the user changes packages | `Edit` |
| `/open`, `/history`, `/think`, `/wakeup`: `AgentManager.get` outside the bus | `ShellLooksUp`: one more agent, and timer, that no handler refers to |

`RolesAnswer`: only workflows whose agents were all loaded, at every depth, are served,
from the package that counts; and where an address names a role, that role answers or
nobody does. `CostsAreBounded`: a message costs at most six functions
(`FunctionsAreBounded`), the loop of the kernel ends only of a role's request while the
OpenAI node is there (`LoopEndsOfRolesOnly`), and every timer that runs is accounted for
by a handler, a load that goes on, a replaced handler, an abandoned load or a command of
the shell (`TimersAreAccounted`). What two timers of one agent then do to its tasks is in
`AgentLoop`.
`MessageEnds`: every message ends unless the worker it waits for is dead.

The run (`MC_Workflow.cfg`, about 330 thousand states) has a workflow with two roles
and two sub workflows, three that are broken in different ways and one without roles, two
messages over a dozen addresses, one change or one command by the user (`MaxActs`); `StackLimit` is 1 instead of 5. `CodesAgree`
lets nodes answer with the code this file compares with: with the enum they use, the
first completion is always an error, and nothing behind it could be checked. Fairness:
kernel loop, lookups, handlers and waits with timeouts; nodes may never answer.

What a reader should know: the token limit of an agent is handed over as the model
name, and `OpenAI_ComputeNode.is_support` asks a number how it starts, which ends
the loop of the kernel for all agents; the workflows in this repository never load
(`math_school` has a section `enviroment`, for which the code calls a `set_value` that
raises; the agents of `story_maker` have no behaviour), those of a user do; a failed load leaves the timers of
the agents it had loaded running. After a completion that succeeded the code always
raises - `LLMResult` has no `post_msgs` - so that lines 411 to 472, with the messages
and calls between roles, cannot be reached and are not modelled.

## 14. What is proved

`RequestReply` is the promise both parts make; the proofs are in `AIBus_proofs`
and `ComputeKernel_proofs`, for arbitrary sets of names, messages, nodes and
tasks, any weights and any limits. They assume only the named assumptions of the
modules: limits are natural numbers, weights are positive, the names that can be
looked up are names, and `None` is none of the values it stands beside.

*Bus.* `DeliveredOnce` is not inductive: one needs to know where a message can
be. `IInv` says that a message on its way to a queue or in one is there once and
unhandled (`QueuedOnce`, `PendingOnce`), that one being handled has one worker and
no reply (`HandledBySelf`), that a reply exists in one place (`RepliedOnce`), that
only sent messages have any of this (`SentHasSender`), and that a call polls an
object its name has or had (`PollsKnownObject`). `NextIInv` shows that every action
keeps all of it, with one lemma per action and the helpers `Enqueue` and `Deposit`
proved once. `TypeCorrect`, `NoDoubleDelivery`, `AnswersAreReplies`,
`RepliesGoToSender`, `RepliesAreVisible` and `QueuesAreServed` follow, and with
them `DeliveryHolds` and `RepliesHold`, which are the invariants of the run;
`KeepsPromise` maps each step to a step of `RequestReply` or to a stutter, with
`IInv` giving that a reply is deposited only once.

*Kernel.* `RunOnce` rests on where a task is (`QueuedOnce`, `RunningOnce`), and
`ReturnIsConsistent` on `Progress`, which says for each task how state and result
follow from how far it got; the delicate part is that the end of a node and the
two steps of a timeout may come in any order. `TypeCorrect`, `NoDoubleRun`,
`ReturnsAreConsistent`, `TimeoutsAreHonest`, together `OutcomesHold`, as well as
`EndsAreFinal` and `KeepsPromise` follow. `ScheduleIsProportional` is arithmetic about
one state. The summed weights never fall (`Totals` is a recursive function of the
position), they are at least as many as nodes, as a weight is at least one, so that the
bound `min(len - 1, hit)` of the code cuts no candidate off; and the stretches between
the sums lie side by side. Which of them a random position falls into is found as the
first position that is too far.

*Task store* (`Agents_proofs`, any calls, tasks, titles, todos and lengths).
That `get_task` finds the right task needs more than unique directories
(`DirsDiffer`): every file must hold the task its directory belongs to
(`DetailsOwned`), and so must every call that is about to write one
(`CallsOwned`); with `WritersHaveFile`, a file that is being written exists, this
is inductive (`IInv`, theorem `EverythingOwned`). `TypeCorrect` and
`TasksAreTheirOwn` follow. `TasksAreReadable` rests on one more invariant,
`CleanWriter`: where only one call writes a file that nobody hurt, the file is
still empty, so that its text replaces everything. Both together are
`TasksStayReadable`. `TodosAreThoseSetLast` needs to know which files a running
`set_todos` has written so far. For a directory in which nothing was mixed, `DirInv` says
that one call at most sets todos; that this call has what is left of the list in hand and
the readable todos are those it has passed (`OnPlan`); and that without such a call the
list was set to its end or to the first todo that cannot be written (`Ended`). A todo file
that no call has in hand is left alone by every other function, a task or a directory not
being one.

*Timers* (`Agents_proofs` as well, any number of objects and tasks). `LoopImplementsStore`
maps every step to one of `TaskStore` or to a stutter, so that the theorems about
the store hold with timers at work (`TimersReadOwnTask`). `EnergyBound` is not
inductive: `TimersSound` gives the least energy with which a timer can be in each
place (2 when triaging, 1 when planning, 0 when reviewing, -1 when thinking), and
`GoOnFacts` shows that a pass that goes on keeps it, wherever it stops. The same
lemma says that a prompt is made for a task in the right state, which gives
`PromptsFitTasks`.

*Shell* (`Shell_proofs`, any settings, values, tunnels, files and nodes). Settings,
tunnels and nodes have an inductive invariant each, as they share nothing but the phase
the program is in. For the settings, `SettingsSurvive` speaks of a program that is down;
what makes it inductive is `ConfIsSettled`, that a program that is up would save just what
was saved last, which needs a save to be over before the next command (`SavingIsShort`)
and a value to have come from the user (`ValuesAreTheUsers`). For the tunnels, a promised
one is in the file (`PromisedAreWritten`) and runs or stands in the part that is yet to be
loaded (`PromisedComeBack`); `StartsCounted` bounds its instances. For the nodes, what
would be saved is what is in the file and all of it serves (`NodesAgree`). `KeepsSettings`
and `NodesWork` are the invariants of the run; `FailuresAreExplained` is the safety part
of `Starts`, with `ListIsMissed` for the start that fails at the nodes.

*Knowledge graphs* (`Knowledge_proofs`, any databases, paths, ids, contents, agents).
One lemma for each method of the store says that it keeps `IdsLead`, keeps what a path in
use leads to (`PathsKept`) and, for those that update and remove, adds nothing
(`NothingAdded`); what the tools answer is set against it in `AnswerHolds`. With
`DefaultIsKnown` and `MemoriesAreKnown` - a memory's graph is registered - this is `KgIInv`.
`GraphsAreKept` is the action property of the run, and `EverythingLeads` its invariant.
Its last part, `RootListsAll`, is a fact about the pattern of the root, in which one slash
escapes the other: the recursive function of `Unescaped` is unfolded for its three
characters, and what is left matches every path that begins with a slash.

*Texts and the knowledge store* (`Knowledge_proofs` as well, any texts, files, chunk size,
overlap, builds and faults). That a text is cut right is a chain of lemmas, one for each
loop of the code. Pieces cover their stretch of the text without a gap (`Partition`);
`_merge_splits` makes of them chunks (`Chunks`: all letters, in order, not too long, no more
shared than the overlap), as after each round `current_doc` is a run of pieces that fits and
the chunks so far hold everything in front of it; where `split_text` goes on with what is
too long, chunks of one stretch and of the next are chunks of both. The separators are gone
through from the last one, which cuts every character, to the first. `KsIInv` then follows a
build: what it has passed of its list is recorded, copied and related (`CopiedOK`,
`RelatedOK`), which is what `StoredOK` says of the object it becomes; that nothing leaves a
chunk or an object torn but a write of just this file that was cut short is `TornOK` and
`PartOK`. A position of a copy comes before one in a
file of the user in the order of the rows (`FirstIsCopy`), which is why a stored document
is read from the store. `RelationsDoLead` rests on the rungs of the relations - chunk,
document or file, rich text, e-mail (`RelationsOK`): above the first rung everything has at
most one object next to it, so that the list of a walk has at most as many objects on each
rung as it started with (`Shape`), and the walk has ended after three times as many rounds.

*Tunnels* (`Tunnels_proofs`, any bots, people, groups and mails). `HandedOnce` alone says
nothing about a message that is fetched again. `BotIInv` says for each bot that whatever is
confirmed or lies before the offset was taken up, is of no use, shares its number with
something taken up or was stepped over (`PassedIsHandled`), that a number is marked for
something taken up (`MarkedWasEntered`), that whatever the bus was given has its number
marked (`HandedIsMarked`), and that the update in work is not with the bus before it is
converted (`InWork`). The start stays inside the file (`LoadIInv`). For the mails, what was handed over is marked on the server, and
what a search has found is not, until it comes to it (`MailsIInv`). Together they give
`HandsOverOnce`, the first invariant of the run. The second, `TunnelsAgree`, has two
halves. For the contacts (`ContactsIInv`), `OneContactPerAccount` counts, and is not
inductive: a dialogue that has not ended may still add a contact, and an owner that was
removed comes back with the next start. `DialogsPay` charges both to the dialogues begun
so far, for the list and for the file, which may lag behind. `remove_contact` is a
recursive function along the list (`Without`), and what it keeps stands in the order it
had. For the chats (`ReachIInv`), a bot writes itself into a contact only after it noted
the chat, and an object that is new is of no bot.

*Processes and sessions* (`LLMProcess_proofs`, any topics, messages, tasks and numbers of
restarts). `ChatOK` says of an object of a session, cached or not, that its position is
between that of its row and the length of the history and that its summary is that of
its row or of what it has not read (`ObjectOK`); each method of a session keeps it and makes
only later sessions (`Later`), which are then all that `SessionsDoAgree` and `PosGoesOn` need
of the steps of the processes. `DoneGetsLogged` follows a message: while it waits or is
worked on nothing in the log belongs to it, or was lost of it (`Open`), its number is one
that was given (`DoneIInv`), and once it was returned its entries lie side by side in one
session and are, with what was lost, the message and its reply (`LoggedAs`,
`AddedLogs`), which appending never changes (`GrowsBy`). The work log is a copy of what
was posted but for the task in its last step (`WorkIInv`), which a restart or a failing
write makes forgotten (`WorkForgotten`).

*Mails* (`MailIssues_proofs`, any uids, mails, configurations and faults). `MailsKept` says
little of a spider that is in the middle of its list. `MailIInv` adds that mails arrive
in the order of their uids (`InboxIsBefore`), that nothing lies between the mail that is
parsed and the last one journaled (`ItemIsNext`), that what is left of a search is all that
lies ahead of it but for later arrivals (`LeftIsAhead`), that rows are inserted in order
(`RowsInOrder`), that only the spider leaves rows without files (`TornAreDownloads`), and
that a reader at a mail has seen all before it unless they came in below one put there by
hand (`LocalPassed`, for the journal and for the item in work). `MailsStay` is its
invariance, `MailsAreKept` the invariant of the run; that no pipeline is loaded twice is
a fact about the recursive function `Loaded`.

*Issues* (`MailIssues_proofs`, any configuration and bound). `IssueIInv`: in memory and in
a file that is whole there is an `IssueTree`, in which each issue has an id made of what it
says and notes the id of the one above it. For a lookup to find an issue at all, the
order of the search has to have a first element in every finite set of places
(`BehindOrders`, `FirstExists`); a new issue is put where there was none, because the
children of an issue are numbered without a gap (`AddedTree`). `WaysLeadUp` is the core of
`IssuesDoAgree`: an id contains that of the parent, so issues that share an id are equally
deep (`IdDepth`), and going up by ids takes as many steps as the issue is deep, whichever
of its equals a lookup finds.

*Workflows* (`Agents_proofs`, any names, messages, addresses, packages, changes of them and
configs with finitely many parts). Neither invariant of the run is inductive. `WorkflowIInv`
adds where a message is: before its lookup has ended nothing is registered for it
(`LookupsAreNew`), a load gets only what its config lists (`LoadsAreOfConfigs`), a name is
served by a lookup of that name (`HandlersServe`), a message is once in one queue
(`QueuedOnce`), and one worker waits for the answer to it (`AskedByOne`). `RolesDoAnswer`
then follows the role: `RolesAreRight` says that the role asked for a message is a role of
the workflow whose worker has it and, if the address names a role, that one.
That `Routed` finds the role that is addressed is an induction over the length of paths,
from the longest path of the config down (`RouteExists`, then the equation of the function).
`CostsHold` has three parts. A completion is counted when the role asks again, so the count
is bounded. A task with a number for a model belongs to a role whose agent has a limit
(`NumbersAreRoles`), so the loop of the kernel ends of no other. The timers are counted by
what refers to them: a step changes the references of one message (`Accounted`), and a
union over messages loses or gains just what that message does; a command of the shell
changes no reference and makes one timer that is counted as wasted (`CommandAccounted`). For this the state
of a served workflow has the roles that were loaded, which `ServedAreManned` shows to be all.

The proofs assume the named assumptions of the modules and nothing else:
`ConfigAssumption` (defaults are values of their settings, `NoValue` and `Unreadable` are
not), `ShellAssumption`, `TunnelAssumption` (the files TLC starts with are files),
`BoundAssumption`, `KbsAreMade`, `ContentsAreNoIds` (ids are generated, contents are not),
`TimesAreNumbers`, `PeopleAssumption`, `FileAssumption` (a file lists known tunnels), `OwnerAssumption` (the owner of the settings has a
name, and an account or none), `SessionsAssumption` (as many rows as topics fit into the bound),
`LLMAssumption`, `MailsAreKnown` (finitely many uids, which are positive numbers; every
configuration lists a pipeline), `IssuesAssumption` (a configuration of issues is a finite
tree within the bound), `WorkflowAssumption` (finitely many messages, addresses that are not
empty; a config is finite, has a root, and its roles have agents), `SplitAssumption` (a
chunk has room, and an overlap is shorter than a chunk), `KsAssumption` (texts are sequences
of characters, no file has the empty path), besides those of the first
four modules. TLC evaluates each of them in the runs.

Induction is over numbers only, and by the least counterexample: a set of numbers with an
element has a least one (`LeastExists`, `UpTo`). A recursive function is shown to be
defined the same way - one exists up to each number - before its equation is used. What
recurses is therefore written as a function in the modules that have proofs.

Only model-checked: liveness (`SendsAndQueuesEnd`, `CallsAndQueuesEnd`, `PassEnds`,
`FunctionsReturn`, `MessageEnds`, `InputsEnd`, `StartEnds` in `Starts`, `SpiderGetsOn`),
which is outside the prover's reach. Every invariant and every action property
of the passing runs has its theorem.

## 15. Findings

* `FailedMessageKept` (run `bus_raise`): `bus.py:128` says "If an error occurs, put the
  message back into the queue"; the code drops it and ends the worker for good.

Further statements of the repository that the code does not keep. Each has a
configuration of its own, whose counterexample is the explanation
(`tlc -config MC_X_y.cfg MC_X`). These configurations stand beside the runs: they are
started by hand, and `PROJECT.json` does not list them. The one that has two properties is
started with `-continue`, which shows both.

| Configuration | Property | Says | Does |
|---|---|---|---|
| `MC_TaskStore_lost` | `CancelSticks` | `workspace.py:543` "canncel task ok" | a function that had read the task before writes the old state over the new one |
| `MC_AgentLoop_spin` | `CallsGoOn` | `agent.py:374` "energy is too low!, goto sleep!" | `continue` skips the sleep: the event loop stands still for up to a minute |
| `MC_AgentLoop_doing` | `ConfirmedIsPlanned` | `agent.py:395` "DO or Check Todo" | a task being done that has todos ends every pass at a method that does not exist; the tasks behind it starve |
| `MC_LLMProcess_code` | `OKIsUsed` | nodes report `OK`, callers compare with `OK` | two enums of one name: every completion counts as an error |
| `MC_LLMProcess_summary` | `SummarisedWasShown` | the summary is that of the messages shown | positions move on before the model is asked, and stay there when it fails: what was never shown counts as summarised |
| `MC_Shell_llama` | `LlamaStarts` | `aios_shell.py:778` "Enable llama (Local LLM Kernel) : /enable llama" | the next start, and each after it, ends with a `TypeError` |
| `MC_KnowledgeGraph_tools` | `ListFindsPaths` | `knowledge_base.py:101` "list all the sub-paths of a path through the LIST operation" | the pattern escapes its own slashes: only `/`, or a relative path with a slash at its end, finds anything |
| `MC_KnowledgeGraph_tools` | `WritesAreStored` | `knowledge_base.py:302` "write:{'path':$path,'obj_json':$obj_json}", `agent_memory.py:56` "Use the following ways to store information" | the id of a new object is a UUID and no text, so that its insert always fails; links and unlinks are answered OK and do nothing; an object of JSON given to `set_obj` ends in an exception |
| `MC_MailIssues_stuck` | `EveryMailIsStored` | `doc/knowledge_pipeline.md:5`: a mailbox is scanned and watched, and an object is stored for every mail | one fault is enough: a connection that is lost is not made again, and after a crash between the row of a mail and its journal entry every later attempt fails at the row |

The properties that hold have their exceptions, which show what else a reader of the
code should know: a reply is hidden from a call whose sender was registered again
(`ReplyVisible`; the shell registers its user for every message); a state `DONE` may come
with an error (`ReturnIsConsistent`); a task that two calls wrote at once may be unreadable
for good (`ReadableUnlessHurt`); a task no node supports is queued and dropped; of several
llama nodes, which share one id, only the first is served; every lookup of an agent, by the
bus or by a command of the shell, makes one more object with a timer of its own (`Load`,
`ShellLooksUp`, `TimersAreAccounted`); a mail may get a
sequence number that counts as read (`MailsAreRead`); a tunnel that fails to start keeps
every tunnel behind it in the file from starting, until the next run of the program
(`NeverStarts`); a chunk or an object of the knowledge store is written in place, so that a
write that is cut short destroys what was stored there before, until a build goes through it
again (`Hurt`); numbers of supergroups may collide, so
that a message is ignored (`Accounted`); what a dialogue of `/contact` changed before it was
aborted reaches the file with the next save (`FileHoldsContacts`); a mail put into the store
by hand makes the local input skip later mails with lower uids (`NothingSkipped`); a spider
whose connection was lost fails until the next start, and one mail that cannot be downloaded
keeps every later one out (`Lost`, `Blocked`); a message
that was answered may be missing in the chat log, as nobody looks at what its insertion
returns (`AnsweredIsLogged`).

## 16. Not modelled

* The contents of messages, prompts and results; access rules and formats of the services.
* Environments (`aios/environment`, `component/common_environment`): event handlers are a
  map without concurrency, the rest calls libraries. Local documents in particular: their
  import, the registration of their environment and of their pipeline input and parser are
  commented out in the shell (`aios_shell.py:50, 153, 237, 238`), nothing makes one.
* AI functions, net and named data, image and video utilities, the vector store: calls of
  libraries and services.
* The installer of packages, which calls methods of `PackageEnv` that do not exist and which
  nothing calls; the drafts of a new LLM protocol, which nothing imports; `src/PoC`.
* `disable_compute_node`, `resp_message`, `update_message_status`, removal of chunks and
  relations, work logs and sub-task lists of the task store: nothing calls them. The builder
  of e-mail objects raises before it does anything.
* Crashes in `AIBus`, `ComputeKernel` and `Workflow`, which persist nothing; the rows of todos
  in the task index, which only a function without effect reads; the files of tasks, which lie
  elsewhere.
