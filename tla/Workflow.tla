------------------------------ MODULE Workflow ------------------------------
(***************************************************************************)
(* Workflows, src/src/aios/agent/workflow.py and role.py, from the message *)
(* to a name nobody serves to the reply of a role.                         *)
(*                                                                         *)
(* The bus asks the shell for a handler; the shell asks the agent manager, *)
(* the workflow manager and the contacts, in that order; both managers     *)
(* load a package (package_manager/env.py) of the user, or one of the      *)
(* system.  A workflow is loaded with one new agent, and one new timer,    *)
(* for each of its roles.  Its roles are reached by dotted names, at any   *)
(* depth of its sub workflows, and ask the kernel for completions, for     *)
(* which they hand over the token limit of their agent as the model name.  *)
(*                                                                         *)
(* A config is a function from the path of a sub workflow (the keys from   *)
(* the root, << >> for the root itself) to its part of the config.  A      *)
(* handler of the bus is named by the message whose lookup registered it.  *)
(* Nothing is ever appended to the session of a workflow, so the history a *)
(* role reads is empty and sessions are left out.                          *)
(***************************************************************************)
EXTENDS Naturals, Sequences, FiniteSets, SequencesExt

CONSTANTS
  Names,      \* first parts of addresses; agents of roles
  Msgs,
  Mails,      \* Mails[m]: what message m may be, [target, body, mentioned]
  Config,     \* Config[c]: a workflow config that can be loaded
  Contacts,   \* names find_contact_by_name finds
  Hashes,     \* Hashes[n]: how many "#" name n has; Plain[n]: what precedes them
  Plain,
  Limitless,  \* agents with max_token_size 0
  StackLimit, \* stack_limit of _role_execute_func (5)
  CodesAgree, \* whether the kernel's nodes set the codes this file compares with
  Packages,   \* the packages at the start
  Editable,   \* packages the user may change, and what to
  MaxActs,    \* bound: changes and commands of the user
  Nothing

Kinds == {"agents", "workflows"}
Envs  == {"user", "system"}

VARIABLES
  pkgs,     \* pkgs[<<kind, env, name>>]: what that package directory holds
  acts,     \* what the user has done
  timers,   \* timers[a]: agent objects of a that run _on_timer
  wasted,   \* wasted[a]: those no handler refers to (observation)
  handler,  \* AIBus.handlers: the lookup that registered n, or Nothing
  serves,   \* serves[m]: the object the lookup of m registered
  queue,    \* queue[h]: AIBusHandler.queue
  worker,   \* worker[h]: "free", "dead", or the message process_queue handles
  mail,     \* mail[m]: the message
  at,       \* at[m]: where its coroutine stands
  load,     \* load[m]: the workflow get_workflow is loading for m
  role,     \* role[m]: <<path, key>> of the role that processes m
  calls,    \* calls[m]: inner functions executed for m
  reply,    \* reply[m]: sender of the reply
  kernel,   \* the loop of the compute kernel: "running" or "dead"
  openai,   \* whether the OpenAI node is one of its nodes
  tasks,    \* ComputeKernel.task_queue: [msg, call, model]
  running,  \* tasks a node has
  result    \* result[m]: the result of its last task

loading == <<load, timers, wasted>>
computing == <<kernel, openai, tasks, running, result>>
bus  == <<handler, serves, queue, worker>>
workflowVars == <<pkgs, acts, loading, bus, mail, at, role, calls, reply, computing>>

EndSteps == {"replied", "silent", "raised", "unknown", "passed"}

Steps == {"idle", "agent", "workflow", "roles", "contact", "queued", "asking"} \cup EndSteps

-----------------------------------------------------------------------------
(* Configs and ids.                                                        *)

Slots(c) == UNION {{p} \X DOMAIN Config[c][p].roles : p \in DOMAIN Config[c]}

AgentOf(c, s) == Config[c][s[1]].roles[s[2]]

\* workflow_id: the names, not the keys, from the root to the sub workflow.
WorkflowId(c, path) == [i \in 1 .. Len(path) + 1 |-> Config[c][SubSeq(path, 1, i - 1)].name]

RoleId(c, s) == Append(WorkflowId(c, s[1]), s[2])

\* What may be registered as a handler; manned are the roles that have their agent.
Object ==
  [kind : {"contact"}] \cup [kind : {"agent"}, name : Names]
  \cup UNION {[kind : {"workflow"}, config : {c}, manned : SUBSET Slots(c)] : c \in DOMAIN Config}

\* A config has a root and finitely many roles, whose agents have names.  What a
\* package of a workflow holds is nothing, something broken or a config.
ASSUME WorkflowAssumption ==
  /\ StackLimit \in Nat /\ MaxActs \in Nat
  /\ IsFiniteSet(Msgs) /\ Msgs \cap {Nothing, "free", "dead"} = {}
  /\ Nothing \notin Object
  /\ Plain \in [Names -> Names]
  /\ \A m \in Msgs : \A x \in Mails[m] :
       x.target \in Seq(STRING) \ {<< >>} /\ Head(x.target) \in Names
  /\ \A c \in DOMAIN Config :
       /\ << >> \in DOMAIN Config[c]
       /\ DOMAIN Config[c] \subseteq Seq(STRING) /\ IsFiniteSet(DOMAIN Config[c])
       /\ IsFiniteSet(Slots(c)) /\ Nothing \notin Slots(c)
       /\ \A s \in Slots(c) : AgentOf(c, s) \in Names
  /\ \A k \in Kinds, e \in Envs, n \in Names : <<k, e, Plain[n]>> \in DOMAIN Packages
  /\ \A e \in Envs, n \in Names :
       Packages[<<"workflows", e, Plain[n]>>] \in {"none", "broken"} \cup DOMAIN Config
  /\ \A x \in Editable :
       x.package[1] = "workflows" => x.to \in {"none", "broken"} \cup DOMAIN Config

\* Mutant: a sub workflow comes before a role of the same name.
RoutedSubFirst(c, keys) ==
  LET routed[path \in DOMAIN Config[c]] ==
        LET owner == path \o Front(keys)
            sub   == path \o keys
        IN CASE owner \notin DOMAIN Config[c] -> Nothing
             [] owner \in DOMAIN Config[c] /\ sub \in DOMAIN Config[c] -> routed[sub]
             [] owner \in DOMAIN Config[c] /\ sub \notin DOMAIN Config[c] ->
                  IF Last(keys) \in DOMAIN Config[c][owner].roles
                  THEN <<owner, Last(keys)>> ELSE Nothing
  IN  routed[<< >>]

\* _forword_msg.  A sub workflow named by the last key processes the message
\* with its whole target, and so looks for the same keys in itself.
Routed(c, keys) ==
  LET routed[path \in DOMAIN Config[c]] ==
        LET owner == path \o Front(keys)
            sub   == path \o keys
        IN IF owner \notin DOMAIN Config[c] THEN Nothing
           ELSE IF Last(keys) \in DOMAIN Config[c][owner].roles THEN <<owner, Last(keys)>>
           ELSE IF sub \in DOMAIN Config[c] THEN routed[sub]
           ELSE Nothing
  IN  routed[<< >>]

-----------------------------------------------------------------------------
(* Packages.                                                               *)

Package(kind, env, n) == pkgs[<<kind, env, Plain[n]>>]

\* Mutant: the system's package comes first.
SourceSystemFirst(kind, n) ==
  CASE Package(kind, "system", n) # "none" -> "system"
    [] Package(kind, "system", n) = "none" /\ Hashes[n] = 0
         /\ Package(kind, "user", n) # "none" -> "user"
    [] OTHER -> "nowhere"

\* PackageEnv.load: the user's directory of that name, else the system's.  With
\* a version and an id, the user's object directory is tried (nothing is ever
\* installed in it), then the system's plain name.
Source(kind, n) ==
  CASE Hashes[n] = 0 /\ Package(kind, "user", n) # "none" -> "user"
    [] (Hashes[n] = 2 \/ Package(kind, "user", n) = "none")
         /\ Package(kind, "system", n) # "none" -> "system"
    [] OTHER -> "nowhere"

Loaded(kind, n) ==
  IF Source(kind, n) = "nowhere" THEN "none" ELSE Package(kind, Source(kind, n), n)

\* parse_pkg_name of "a#1" uses a name it does not define; of "a#1#id#x" it makes
\* None, which has no parts when the system's packages are asked for it.
NameRaises(n) == Hashes[n] \notin {0, 2}

\* AgentManager.get: a custom agent has no method initial.  A directory that holds
\* no agent ends the search with None.
AgentGot(n) ==
  CASE NameRaises(n) \/ Loaded("agents", n) = "custom" -> "raises"
    [] ~NameRaises(n) /\ Loaded("agents", n) = "agent" -> "agent"
    [] OTHER -> "none"

\* Workflow.load_from_config, for the workflow and its sub workflows: a part
\* without a name or roles, or with a role without an agent, is refused; a value
\* for the environment and a connected environment raise, which is caught.
Loads(c) == \A p \in DOMAIN Config[c] : Config[c][p].section = "fine"

-----------------------------------------------------------------------------

WorkflowInit ==
  /\ pkgs = Packages
  /\ acts = 0
  /\ timers = [n \in Names |-> 0]
  /\ wasted = [n \in Names |-> 0]
  /\ handler = [n \in Names |-> Nothing]
  /\ serves = [m \in Msgs |-> Nothing]
  /\ queue = [m \in Msgs |-> <<>>]
  /\ worker = [m \in Msgs |-> "free"]
  /\ mail = [m \in Msgs |-> Nothing]
  /\ at = [m \in Msgs |-> "idle"]
  /\ load = [m \in Msgs |-> Nothing]
  /\ role = [m \in Msgs |-> Nothing]
  /\ calls = [m \in Msgs |-> 0]
  /\ reply = [m \in Msgs |-> Nothing]
  /\ kernel = "running"
  /\ openai \in BOOLEAN
  /\ tasks = <<>>
  /\ running = {}
  /\ result = [m \in Msgs |-> "none"]

Name(m) == Head(mail[m].target)

\* The user installs, changes or removes a package.
Edit ==
  /\ acts < MaxActs
  /\ \E e \in Editable :
       /\ pkgs[e.package] # e.to
       /\ pkgs' = [pkgs EXCEPT ![e.package] = e.to]
  /\ acts' = acts + 1
  /\ UNCHANGED <<loading, bus, mail, at, role, calls, reply, computing>>

\* /open, /think, /wakeup and /history look for the agent they name and load it
\* themselves, with a timer of its own, whether or not the bus has a handler.
ShellLooksUp(n) ==
  /\ acts < MaxActs
  /\ AgentGot(n) = "agent"
  /\ acts' = acts + 1
  /\ timers' = [timers EXCEPT ![Plain[n]] = @ + 1]
  /\ wasted' = [wasted EXCEPT ![Plain[n]] = @ + 1]
  /\ UNCHANGED <<pkgs, load, bus, mail, at, role, calls, reply, computing>>

\* post_message: a handler's queue, or a lookup of the name.
Send(m) ==
  /\ at[m] = "idle"
  /\ \E x \in Mails[m] :
       /\ mail' = [mail EXCEPT ![m] = x]
       /\ LET h == handler[Head(x.target)] IN
          IF h # Nothing
          THEN /\ at' = [at EXCEPT ![m] = "queued"]
               /\ queue' = [queue EXCEPT ![h] = Append(@, m)]
          ELSE /\ at' = [at EXCEPT ![m] = "agent"]
               /\ UNCHANGED queue
  /\ UNCHANGED <<pkgs, acts, loading, handler, serves, worker, role, calls, reply, computing>>

\* The agents named a that a handler holds, by their roles; an agent that is its own
\* handler has none.
Held(object, a) ==
  IF object = Nothing THEN {}
  ELSE IF object.kind = "workflow"
       THEN {s \in Slots(object.config) : AgentOf(object.config, s) = a}
  ELSE IF object.kind = "agent" /\ object.name = a THEN {Nothing}
  ELSE {}

\* register_message_handler, and post_message again.  A handler another lookup
\* registered in the meantime is replaced.
Registered(m, object) ==
  LET old == handler[Name(m)] IN
  /\ serves' = [serves EXCEPT ![m] = object]
  /\ handler' = [handler EXCEPT ![Name(m)] = m]
  /\ queue' = [queue EXCEPT ![m] = Append(@, m)]
  /\ at' = [at EXCEPT ![m] = "queued"]
  /\ wasted' = [a \in Names |->
                  wasted[a] + (IF old = Nothing THEN 0 ELSE Cardinality(Held(serves[old], a)))]
  /\ UNCHANGED worker

LookupGoesTo(m, step) ==
  /\ at' = [at EXCEPT ![m] = step]
  /\ UNCHANGED bus

\* AgentManager.get returns to _handle_no_target_msg.
LookUpAgent(m) ==
  /\ at[m] = "agent"
  /\ CASE AgentGot(Name(m)) = "raises" ->
            LookupGoesTo(m, "raised") /\ UNCHANGED <<timers, wasted>>
       [] AgentGot(Name(m)) = "none" ->
            LookupGoesTo(m, "workflow") /\ UNCHANGED <<timers, wasted>>
       [] AgentGot(Name(m)) = "agent" ->
            /\ timers' = [timers EXCEPT ![Plain[Name(m)]] = @ + 1]
            /\ Registered(m, [kind |-> "agent", name |-> Plain[Name(m)]])
  /\ UNCHANGED <<pkgs, acts, load, mail, role, calls, reply, computing>>

\* get_workflow: loaded_workflow is never filled, so it is read from its package.
\* One without roles is registered as it is.
LookUpWorkflow(m) ==
  /\ at[m] = "workflow"
  /\ LET c == Loaded("workflows", Name(m)) IN
     IF c \in {"none", "broken"} \/ ~Loads(c)
     THEN LookupGoesTo(m, "contact") /\ UNCHANGED <<load, wasted>>
     ELSE IF Slots(c) = {}
     THEN Registered(m, [kind |-> "workflow", config |-> c, manned |-> {}]) /\ UNCHANGED load
     ELSE /\ LookupGoesTo(m, "roles")
          /\ load' = [load EXCEPT ![m] = [config |-> c, left |-> Slots(c)]]
          /\ UNCHANGED wasted
  /\ UNCHANGED <<pkgs, acts, timers, mail, role, calls, reply, computing>>

Got(l) == Slots(l.config) \ l.left

\* What a load that is given up leaves behind: its agents, and their timers.
GivenUp(m) ==
  /\ wasted' = [a \in Names |->
       wasted[a] + Cardinality({s \in Got(load[m]) : AgentOf(load[m].config, s) = a})]
  /\ load' = [load EXCEPT ![m] = Nothing]
  /\ UNCHANGED timers

\* Mutant: only the roles of the workflow itself get their agents.
RolesOfRootOnly(m) ==
  /\ at[m] = "roles"
  /\ \E s \in {r \in load[m].left : r[1] = << >>} :
     LET a == AgentOf(load[m].config, s)
         left == {r \in load[m].left : r[1] = << >>} \ {s}
     IN CASE AgentGot(a) = "raises" -> LookupGoesTo(m, "raised") /\ GivenUp(m)
          [] AgentGot(a) = "none" -> LookupGoesTo(m, "contact") /\ GivenUp(m)
          [] AgentGot(a) = "agent" ->
               /\ timers' = [timers EXCEPT ![a] = @ + 1]
               /\ IF left = {}
                  THEN /\ Registered(m, [kind |-> "workflow", config |-> load[m].config,
                                         manned |-> Slots(load[m].config) \ (load[m].left \ {s})])
                       /\ load' = [load EXCEPT ![m] = Nothing]
                  ELSE /\ load' = [load EXCEPT ![m].left = @ \ {s}]
                       /\ UNCHANGED <<bus, at, wasted>>
  /\ UNCHANGED <<pkgs, acts, mail, role, calls, reply, computing>>

\* Mutant: is_exist is asked before get.
RoleAskedTwice(m) ==
  /\ at[m] = "roles"
  /\ \E s \in load[m].left :
     LET a == AgentOf(load[m].config, s) IN
     CASE AgentGot(a) = "raises" -> LookupGoesTo(m, "raised") /\ GivenUp(m)
       [] AgentGot(a) = "none" -> LookupGoesTo(m, "contact") /\ GivenUp(m)
       [] AgentGot(a) = "agent" ->
            /\ timers' = [timers EXCEPT ![a] = @ + 2]
            /\ IF load[m].left = {s}
               THEN /\ Registered(m, [kind |-> "workflow", config |-> load[m].config,
                                      manned |-> Got(load[m]) \cup {s}])
                    /\ load' = [load EXCEPT ![m] = Nothing]
               ELSE /\ load' = [load EXCEPT ![m].left = @ \ {s}]
                    /\ UNCHANGED <<bus, at, wasted>>
  /\ UNCHANGED <<pkgs, acts, mail, role, calls, reply, computing>>

\* _load_workflow_agents: one role of the workflow or of a sub workflow.  They
\* come in the order of the file, which is any order here.
LoadRole(m) ==
  /\ at[m] = "roles"
  /\ \E s \in load[m].left :
     LET a == AgentOf(load[m].config, s) IN
     CASE AgentGot(a) = "raises" -> LookupGoesTo(m, "raised") /\ GivenUp(m)
       [] AgentGot(a) = "none" -> LookupGoesTo(m, "contact") /\ GivenUp(m)
       [] AgentGot(a) = "agent" ->
            /\ timers' = [timers EXCEPT ![a] = @ + 1]
            /\ IF load[m].left = {s}
               THEN /\ Registered(m, [kind |-> "workflow", config |-> load[m].config,
                                      manned |-> Got(load[m]) \cup {s}])
                    /\ load' = [load EXCEPT ![m] = Nothing]
               ELSE /\ load' = [load EXCEPT ![m].left = @ \ {s}]
                    /\ UNCHANGED <<bus, at, wasted>>
  /\ UNCHANGED <<pkgs, acts, mail, role, calls, reply, computing>>

LookUpContact(m) ==
  /\ at[m] = "contact"
  /\ IF Name(m) \in Contacts
     THEN Registered(m, [kind |-> "contact"])
     ELSE LookupGoesTo(m, "unknown") /\ UNCHANGED wasted
  /\ UNCHANGED <<pkgs, acts, load, timers, mail, role, calls, reply, computing>>

-----------------------------------------------------------------------------
(* The worker of a handler.                                                *)

\* do_llm_completion: a task for the kernel, and a wait for its result.
Ask(m, call, model) ==
  /\ tasks' = Append(tasks, [msg |-> m, call |-> call, model |-> model])
  /\ result' = [result EXCEPT ![m] = "none"]
  /\ at' = [at EXCEPT ![m] = "asking"]
  /\ UNCHANGED <<kernel, openai, running>>

\* Mutant: the agent's id is the name of the model.
RoleModelIsAgent(c, s) == AgentOf(c, s)

\* The model name of the task of a role: resp_mode is left out of the call, so
\* the name is in its place, and the token limit in the place of the name.
RoleModel(c, s) == IF AgentOf(c, s) \in Limitless THEN "none" ELSE "number"

\* The message h handles ends; an exception ends its process_queue as well.
EndsWith(h, m, step, sender) ==
  /\ at' = [at EXCEPT ![m] = step]
  /\ reply' = [reply EXCEPT ![m] = sender]
  /\ worker' = [worker EXCEPT ![h] = IF step = "raised" THEN "dead" ELSE "free"]

\* format_map substitutes None for every {name}, as the environment of a workflow
\* has no values, and raises at other braces.
FormatRaises(m) == mail[m].body = "braces"

\* role_process_msg up to its first completion.
RoleProcesses(h, m, s) ==
  IF FormatRaises(m)
  THEN EndsWith(h, m, "raised", Nothing) /\ UNCHANGED <<role, computing>>
  ELSE /\ Ask(m, 0, RoleModel(serves[h].config, s))
       /\ role' = [role EXCEPT ![m] = s]
       /\ worker' = [worker EXCEPT ![h] = m]
       /\ UNCHANGED reply

\* The topic, when the message has none, is no text to put the name of a session
\* together with; that is done once a workflow, and no role yet, has been found.
TopicRaises(c, m) ==
  LET keys == Tail(mail[m].target) IN
  /\ mail[m].body = "no topic"
  /\ IF keys = << >> THEN ~mail[m].mentioned ELSE Front(keys) \in DOMAIN Config[c]

\* Workflow._process_msg.  None as an answer is no answer.
WorkflowProcesses(h, m) ==
  LET c    == serves[h].config
      root == Config[c][<< >>]
      silent == EndsWith(h, m, "silent", Nothing) /\ UNCHANGED <<role, computing>>
      error  == EndsWith(h, m, "replied", mail[m].target) /\ UNCHANGED <<role, computing>>
      keys == Tail(mail[m].target)
  IN IF TopicRaises(c, m)
     THEN EndsWith(h, m, "raised", Nothing) /\ UNCHANGED <<role, computing>>
     ELSE
     CASE keys # << >> /\ Routed(c, keys) = Nothing -> silent
       [] keys # << >> /\ Routed(c, keys) # Nothing ->
            RoleProcesses(h, m, Routed(c, keys))
       [] keys = << >> /\ (mail[m].mentioned \/ root.filter = "no filter") -> error
       [] keys = << >> /\ ~mail[m].mentioned /\ root.filter # "no filter" ->
            IF root.filter \in DOMAIN root.roles
            THEN RoleProcesses(h, m, << << >>, root.filter>>)
            ELSE silent

\* process_queue takes a message.  An agent's process is in LLMProcess, a
\* contact's in Tunnels: one asks the kernel, the other passes the message on.
Handle(h) ==
  /\ worker[h] = "free"
  /\ queue[h] # <<>>
  /\ LET m == Head(queue[h]) IN
     CASE serves[h].kind = "workflow" -> WorkflowProcesses(h, m)
       [] serves[h].kind = "agent" ->
            /\ Ask(m, 0, "name")
            /\ worker' = [worker EXCEPT ![h] = m]
            /\ UNCHANGED <<reply, role>>
       [] serves[h].kind = "contact" ->
            EndsWith(h, m, "passed", Nothing) /\ UNCHANGED <<role, computing>>
  /\ queue' = [queue EXCEPT ![h] = Tail(@)]
  /\ UNCHANGED calls
  /\ UNCHANGED <<pkgs, acts, loading, handler, serves, mail>>

HandlerOf(m) == CHOOSE h \in Msgs : worker[h] = m

IsRole(m) == role[m] # Nothing

\* role_process_msg changes the target to the id of the role, and the reply is
\* from its target; for an agent that is its name.
Signature(m) ==
  IF IsRole(m) THEN RoleId(serves[HandlerOf(m)].config, role[m]) ELSE <<Name(m)>>

\* A completion without success, of another code or too late: an error reply.
Fails(m) ==
  /\ EndsWith(HandlerOf(m), m, "replied", Signature(m))
  /\ UNCHANGED <<calls, computing>>

\* Mutant: a call of the function does not count.
SucceedsUncounted(m) ==
  \/ /\ EndsWith(HandlerOf(m), m, "raised", Nothing)
     /\ UNCHANGED <<calls, computing>>
  \/ /\ calls[m] <= StackLimit + 1
     /\ calls' = [calls EXCEPT ![m] = @ + 1]
     /\ Ask(m, calls[m] + 1, RoleModel(serves[HandlerOf(m)].config, role[m]))
     /\ UNCHANGED <<worker, reply>>

\* A success.  Without a function call the text is parsed into an LLMResult,
\* which has no post_msgs; without a message, and after the last function the
\* stack limit allows, inner_func_call_node is unbound: these raise.  A function
\* is never found, as the environment of a workflow has none, and the next
\* completion is told so.
Succeeds(m) ==
  \/ /\ EndsWith(HandlerOf(m), m, "raised", Nothing)
     /\ UNCHANGED <<calls, computing>>
  \/ /\ calls[m] <= StackLimit
     /\ calls' = [calls EXCEPT ![m] = @ + 1]
     /\ Ask(m, calls[m] + 1, RoleModel(serves[HandlerOf(m)].config, role[m]))
     /\ UNCHANGED <<worker, reply>>

\* Mutant: a wait lasts until there is a result.
AnswerComesPatient(m) ==
  /\ at[m] = "asking"
  /\ result[m] # "none"
  /\ IF IsRole(m)
     THEN IF result[m] = "ok" /\ CodesAgree THEN Succeeds(m) ELSE Fails(m)
     ELSE Fails(m)
  /\ UNCHANGED <<pkgs, acts, loading, handler, serves, queue, mail, role>>

\* _wait_task returns, with the result or after its timeout.  (What an agent
\* makes of a result is not told apart here.)
AnswerComes(m) ==
  /\ at[m] = "asking"
  /\ IF IsRole(m) /\ result[m] = "ok" /\ CodesAgree THEN Succeeds(m) ELSE Fails(m)
  /\ UNCHANGED <<pkgs, acts, loading, handler, serves, queue, mail, role>>

-----------------------------------------------------------------------------
(* The compute kernel, as far as these tasks can tell.                     *)

Awaited(t) == at[t.msg] = "asking" /\ calls[t.msg] = t.call

\* Mutant: _schedule draws a position although no node supports the task.
KernelTakesUnchecked ==
  /\ kernel = "running"
  /\ tasks # <<>>
  /\ LET t == Head(tasks) IN
     IF t.model = "number"
     THEN kernel' = "dead" /\ UNCHANGED running
     ELSE /\ running' = {u \in running \cup {t} : Awaited(u)}
          /\ UNCHANGED kernel
  /\ tasks' = Tail(tasks)
  /\ UNCHANGED <<pkgs, acts, loading, bus, mail, at, role, calls, reply, openai, result>>

\* is_support of the OpenAI node asks a number how it starts.
SupportRaises(t) == openai /\ t.model = "number"

\* _run_task_loop asks its nodes which of them supports the task; an exception
\* ends it.  Other nodes compare, refuse the number, and the task is forgotten.
KernelTakes ==
  /\ kernel = "running"
  /\ tasks # <<>>
  /\ LET t == Head(tasks) IN
     IF t.model = "number"
     THEN /\ kernel' = IF SupportRaises(t) THEN "dead" ELSE kernel
          /\ UNCHANGED running
     ELSE /\ running' = {u \in running \cup {t} : Awaited(u)}
          /\ UNCHANGED kernel
  /\ tasks' = Tail(tasks)
  /\ UNCHANGED <<pkgs, acts, loading, bus, mail, at, role, calls, reply, openai, result>>

\* A node ends a task.  What it does with a task nobody waits for any more is
\* lost, and left out.
NodeEnds(t) ==
  /\ t \in running
  /\ Awaited(t)
  /\ running' = {u \in running : Awaited(u)} \ {t}
  /\ \E r \in {"ok", "err"} : result' = [result EXCEPT ![t.msg] = r]
  /\ UNCHANGED <<pkgs, acts, loading, bus, mail, at, role, calls, reply, kernel, openai, tasks>>

-----------------------------------------------------------------------------

Lookup(m) == LookUpAgent(m) \/ LookUpWorkflow(m) \/ LoadRole(m) \/ LookUpContact(m)

WorkflowNext ==
  \/ Edit
  \/ \E n \in Names : ShellLooksUp(n)
  \/ KernelTakes
  \/ \E m \in Msgs : Send(m) \/ Lookup(m) \/ Handle(m) \/ AnswerComes(m)
  \/ \E t \in running : NodeEnds(t)

WorkflowSpec == WorkflowInit /\ [][WorkflowNext]_workflowVars

\* The event loop gives every coroutine its turn, file reads return, and a wait
\* for the kernel has a timeout; nodes may never answer.
WorkflowFairSpec ==
  /\ WorkflowSpec
  /\ WF_workflowVars(KernelTakes)
  /\ \A m \in Msgs : /\ WF_workflowVars(Lookup(m))
                      /\ WF_workflowVars(Handle(m))
                      /\ WF_workflowVars(AnswerComes(m))

-----------------------------------------------------------------------------
(* What workflows promise.                                                 *)

WorkflowTypeOK ==
  /\ acts \in 0 .. MaxActs
  /\ timers \in [Names -> Nat] /\ wasted \in [Names -> Nat]
  /\ handler \in [Names -> Msgs \cup {Nothing}]
  /\ serves \in [Msgs -> Object \cup {Nothing}]
  /\ queue \in [Msgs -> Seq(Msgs)]
  /\ worker \in [Msgs -> Msgs \cup {"free", "dead"}]
  /\ \A m \in Msgs : mail[m] \in Mails[m] \cup {Nothing}
  /\ at \in [Msgs -> Steps]
  /\ calls \in [Msgs -> Nat]
  /\ kernel \in {"running", "dead"}
  /\ result \in [Msgs -> {"none", "ok", "err"}]
  /\ \A t \in Range(tasks) \cup running : t.model \in {"name", "number", "none"}

Workflows == {h \in Msgs : serves[h] # Nothing /\ serves[h].kind = "workflow"}

\* A role that processes a message has its agent, at whatever depth it is: nothing
\* is sent to a workflow before all its agents have been loaded.
ServedAreManned == \A h \in Workflows : serves[h].manned = Slots(serves[h].config)

\* The role a full address names, in the workflow that handles the message.
Addressed(c, target) ==
  LET keys == Tail(target) IN
  IF keys = << >> THEN << << >>, Config[c][<< >>].filter>> ELSE <<Front(keys), Last(keys)>>

\* A message whose address names a role of the workflow is answered by that role
\* or not at all, and by its own id, although the id is made of names and the
\* address of keys, a sub workflow may have the key of a role, and a message is
\* handed from one workflow to the next with its address unchanged.
RepliesComeFromTheAddressed ==
  \A m \in Msgs :
    reply[m] # Nothing /\ role[m] # Nothing =>
      \E h \in Workflows :
        LET c == serves[h].config IN
        /\ reply[m] = RoleId(c, role[m])
        /\ Addressed(c, mail[m].target) \in Slots(c) => role[m] = Addressed(c, mail[m].target)

\* A model that always wants another function gets six of them (StackLimit + 1) and
\* no more, whatever it is answered.
FunctionsAreBounded == \A m \in Msgs : calls[m] <= StackLimit + 1

\* The loop of the kernel, on which every completion of every agent depends, ends
\* only of a role's request, and only while the OpenAI node is there.
LoopEndsOfRolesOnly ==
  kernel = "dead" =>
    /\ openai
    /\ \E m \in Msgs, h \in Workflows :
         /\ role[m] \in Slots(serves[h].config)
         /\ AgentOf(serves[h].config, role[m]) \notin Limitless

\* The agents named a that were made for a lookup and that its load, or a handler
\* of the bus, refers to.
Referred(m, a) ==
  (IF at[m] = "roles" THEN {s \in Got(load[m]) : AgentOf(load[m].config, s) = a} ELSE {})
  \cup (IF \E n \in Names : handler[n] = m THEN Held(serves[m], a) ELSE {})

\* Every lookup of an agent runs another timer on its tasks.  Those that no
\* handler refers to come from replaced handlers, commands of the shell and
\* abandoned loads alone: one for each role whose agent had been loaded, in a
\* workflow that failed later.
TimersAreAccounted ==
  \A a \in Names :
    timers[a] = wasted[a] + Cardinality(UNION {{m} \X Referred(m, a) : m \in Msgs})

\* What a message may use up: a number of completions, the loop of the kernel only
\* where a role asked without a limit, and a timer for every agent loaded for it.
CostsAreBounded == FunctionsAreBounded /\ LoopEndsOfRolesOnly /\ TimersAreAccounted

\* What serves a name is the user's package when there was one, a broken one too,
\* in which case nothing serves it, and the system's when there was none.
UserPackageWins ==
  [][\A m \in Msgs :
       at[m] = "workflow" /\ at'[m] \in {"roles", "queued"} =>
         (IF at'[m] = "roles" THEN load'[m] ELSE serves'[m]).config =
           IF Hashes[Name(m)] = 0 /\ Package("workflows", "user", Name(m)) # "none"
           THEN Package("workflows", "user", Name(m))
           ELSE Package("workflows", "system", Name(m))]_workflowVars

\* The right role answers, of a whole workflow, from the package that counts.
RolesAnswer ==
  [](WorkflowTypeOK /\ ServedAreManned /\ RepliesComeFromTheAddressed) /\ UserPackageWins

Stuck(m) == \E h \in Msgs : worker[h] = "dead" /\ m \in Range(queue[h])

\* A message ends, in a reply or without one, whatever the kernel does, unless an
\* exception ended the worker it waits for.
MessageEnds == \A m \in Msgs : at[m] # "idle" ~> at[m] \in EndSteps \/ Stuck(m)
=============================================================================
