----------------------------- MODULE AgentLoop -----------------------------
(***************************************************************************)
(* The timer of an agent, AIAgent._on_timer in src/src/aios/agent/agent.py: *)
(* every pass triages new tasks, plans confirmed ones, works on todos,     *)
(* reviews, and ends with the agent thinking about itself, as far as its   *)
(* energy goes.  The tasks are those of TaskStore, which the AI functions  *)
(* of this module's LLM processes and of others change all the time.       *)
(*                                                                         *)
(* AgentManager.get makes a new AIAgent, with a timer and energy of its    *)
(* own, whenever the agent is looked up.                                   *)
(*                                                                         *)
(* A step is the code between two suspensions.  Energy is rounded up to    *)
(* whole units, which changes no comparison.  The optional expiration_time *)
(* and next_attention_time of tasks are not set, so that is_finish and     *)
(* can_plan look at the state.                                             *)
(***************************************************************************)
EXTENDS TaskStore, Integers

CONSTANTS
  Agents,       \* AIAgent objects of this agent
  Behaviors,    \* the LLM processes it is configured with
  StartEnergy,  \* agent_energy of a new object (15)
  MaxEnergy,    \* bound on agent_energy, which has none
  MaxRecover,   \* bound on what is recovered at a time
  MayRaise      \* whether LLM processes may raise

Prompts == {"triage", "plan", "review", "think"}

ASSUME LoopAssumption ==
  /\ IsFiniteSet(Tasks)
  /\ Behaviors \subseteq Prompts
  /\ StartEnergy \in Nat /\ MaxEnergy \in Nat /\ StartEnergy <= MaxEnergy
  /\ MaxRecover \in Nat
  /\ MayRaise \in BOOLEAN

VARIABLES
  timer,    \* timer[a]: where _on_timer stands
  energy    \* energy[a]: agent_energy

vars == <<store, timer, energy>>

\* "spin" is the loop that goes round without sleeping, "todos" reading the todos.
TimerState ==
  [pc   : Prompts \cup {"off", "asleep", "spin", "todos"},
   list : Seq(Tasks)]    \* task_list from the current task on

LoopTypeOK ==
  /\ TypeOK
  /\ timer \in [Agents -> TimerState]
  /\ energy \in [Agents -> Int]

Off == [pc |-> "off", list |-> <<>>]

Asleep == [pc |-> "asleep", list |-> <<>>]

LoopInit ==
  /\ Init
  /\ timer = [a \in Agents |-> Off]
  /\ energy = [a \in Agents |-> StartEnergy]

-----------------------------------------------------------------------------
(* Where a pass gets to before it is suspended next.                       *)

RootTasks == {t \in Tasks : taskPath[t] # None /\ taskPath[t][1] = "root" /\ Found(t)}

\* list_task with a state, and without.
WithState(s) == {t \in RootTasks : Get(t).state = s}

Finished == {"done", "cancel", "expired", "failed"}

Unfinished == {t \in RootTasks : Get(t).state \notin Finished}

\* The tasks of S in any order, as os.scandir returns directories.
Orders(S) ==
  {s \in [1 .. Cardinality(S) -> S] : \A t \in S : \E i \in DOMAIN s : s[i] = t}

HasTodos(t) == \E f \in Files : f.dir = taskPath[t] /\ IsTodo(f) /\ disk[f] # None

Plannable == {"confirmed", "check_failed"}

\* Mutant: task_list is trusted, and can_plan not asked again.
StopStale(t, stage) ==
  CASE ~Found(t) -> "raise"
    [] Found(t) /\ stage = 1 /\ Get(t).state \notin {"doing", "wait_review"}
         /\ "plan" \in Behaviors -> "plan"
    [] Found(t) /\ stage < 3 /\ Get(t).state = "doing" /\ HasTodos(t) -> "todos"
    [] Found(t) /\ Get(t).state = "wait_review" /\ "review" \in Behaviors -> "review"
    [] OTHER -> "none"

\* What stops the pass at task t: stage 1 is the start of the loop's body, 2 is
\* after the task was planned, 3 after its todos.  get_task returns None for a task
\* that cannot be read, and the next line raises.
Stop(t, stage) ==
  CASE ~Found(t) -> "raise"
    [] Found(t) /\ stage = 1 /\ Get(t).state \in Plannable /\ "plan" \in Behaviors -> "plan"
    [] Found(t) /\ stage < 3 /\ Get(t).state = "doing" /\ HasTodos(t) -> "todos"
    [] Found(t) /\ Get(t).state = "wait_review" /\ "review" \in Behaviors -> "review"
    [] OTHER -> "none"

\* Mutant: the energy is not looked at before each task.
ReachIgnoresEnergy(list, stage, e) == Len(list)

\* The tasks that are reached: the energy is looked at before each one.
Reach(list, stage, e) == IF e > 0 THEN Len(list) ELSE IF stage > 1 THEN 1 ELSE 0

\* Where the timer may be after it went on with list at a stage of its first task:
\* at the first task that stops it, or at the end of the pass.
GoOn(list, stage, e) ==
  LET StopAt(i) == Stop(list[i], IF i = 1 THEN stage ELSE 1)
      first == {i \in 1 .. Reach(list, stage, e) :
                  /\ StopAt(i) # "none"
                  /\ \A j \in 1 .. i - 1 : StopAt(j) = "none"}
      Place(i) == IF StopAt(i) = "raise" THEN Asleep
                  ELSE [pc |-> StopAt(i), list |-> SubSeq(list, i, Len(list))]
      end == IF "think" \in Behaviors THEN [pc |-> "think", list |-> <<>>] ELSE Asleep
  IN
  IF first # {} THEN {Place(i) : i \in first} ELSE {end}

\* A pass over the unfinished tasks.
StartPass(e) == UNION {GoOn(list, 1, e) : list \in Orders(Unfinished)}

\* The places the body of the loop can get to with energy e.
StartBody(e) ==
  IF e <= 1 THEN {[pc |-> "spin", list |-> <<>>]}
  ELSE IF "triage" \in Behaviors /\ WithState("wait_assign") # {}
       THEN {[pc |-> "triage", list |-> <<>>]}
       ELSE StartPass(e)

-----------------------------------------------------------------------------
(* The steps of a timer.                                                   *)

\* A timer that spins never lets another coroutine run.
LoopFree == \A a \in Agents : timer[a].pc # "spin"

\* AgentManager.get: it never keeps the object it makes.
Load(a) ==
  /\ timer[a].pc = "off"
  /\ LoopFree
  /\ timer' = [timer EXCEPT ![a] = Asleep]
  /\ UNCHANGED <<energy, store>>

\* asyncio.sleep returns, and if a minute has gone by energy is recovered.
Wake(a) ==
  \E r \in 0 .. MaxRecover :
    /\ timer[a].pc = "asleep"
    /\ LoopFree
    /\ energy[a] + r <= MaxEnergy
    /\ energy' = [energy EXCEPT ![a] = @ + r]
    /\ \E next \in StartBody(energy[a] + r) : timer' = [timer EXCEPT ![a] = next]
    /\ UNCHANGED store

\* Mutant: the time of recovery is set in every round, so that a minute never goes by.
SpinForever(a) ==
  /\ timer[a].pc = "spin"
  /\ UNCHANGED vars

\* `continue`: the loop goes round until a minute has gone by.
Spin(a) ==
  \E r \in 1 .. MaxRecover :
    /\ timer[a].pc = "spin"
    /\ energy[a] + r <= MaxEnergy
    /\ energy' = [energy EXCEPT ![a] = @ + r]
    /\ \E next \in StartBody(energy[a] + r) : timer' = [timer EXCEPT ![a] = next]
    /\ UNCHANGED store

\* An LLM process ends at cost and the pass goes on at one of the places nexts.
Ends(a, prompt, cost, nexts) ==
  /\ timer[a].pc = prompt
  /\ LoopFree
  /\ energy' = [energy EXCEPT ![a] = @ - cost]
  /\ \E next \in nexts : timer' = [timer EXCEPT ![a] = next]
  /\ UNCHANGED store

TriageEnds(a) == Ends(a, "triage", 3, StartPass(energy[a] - 3))

PlanEnds(a) == Ends(a, "plan", 1, GoOn(timer[a].list, 2, energy[a] - 1))

ReviewEnds(a) == Ends(a, "review", 1, GoOn(Tail(timer[a].list), 1, energy[a] - 1))

ThinkEnds(a) == Ends(a, "think", 2, {Asleep})

\* An LLM process raises, and costs nothing.
PromptRaises(a) ==
  /\ MayRaise
  /\ timer[a].pc \in Prompts
  /\ LoopFree
  /\ timer' = [timer EXCEPT ![a] = Asleep]
  /\ UNCHANGED <<energy, store>>

\* get_sub_todos returns, or raises because a todo is gone or cannot be parsed.
\* With energy left the first todo is looked up by get_todo_by_id, which the task
\* store does not have: that raises too.
TodosRead(a) ==
  /\ timer[a].pc = "todos"
  /\ LoopFree
  /\ \E next \in {Asleep} \cup IF energy[a] > 0 THEN {}
                                 ELSE GoOn(timer[a].list, 3, energy[a]) :
       timer' = [timer EXCEPT ![a] = next]
  /\ UNCHANGED <<energy, store>>

\* The process ends: agents are loaded again with new energy.
Restart ==
  /\ Crash
  /\ timer' = [a \in Agents |-> Off]
  /\ energy' = [a \in Agents |-> StartEnergy]

\* A function is called, by an LLM process of this agent or of another.
Request(c) ==
  /\ LoopFree
  /\ Function(c)
  /\ UNCHANGED <<timer, energy>>

\* A call goes on: its threads while the timers spin, its coroutine when they do not.
CallStep(c) ==
  /\ \/ Open(c) \/ Flush(c)
     \/ LoopFree /\ (GiveUp(c) \/ Resume(c))
  /\ UNCHANGED <<timer, energy>>

TimerStep(a) ==
  \/ Wake(a) \/ Spin(a) \/ TodosRead(a) \/ PromptRaises(a)
  \/ TriageEnds(a) \/ PlanEnds(a) \/ ReviewEnds(a) \/ ThinkEnds(a)

LoopNext ==
  \/ \E a \in Agents : Load(a) \/ TimerStep(a)
  \/ \E c \in Calls : Request(c) \/ CallStep(c)
  \/ Restart

LoopSpec == LoopInit /\ [][LoopNext]_vars

\* Every sleep is over some time, a minute goes by, LLM processes have timeouts.
\* The event loop runs ready coroutines in the order in which they became ready, so
\* that none waits for ever although timers spin time and again.
LoopFairSpec ==
  /\ LoopSpec
  /\ \A a \in Agents : SF_vars(TimerStep(a))
  /\ \A c \in Calls : SF_vars(CallStep(c))

-----------------------------------------------------------------------------
(* Properties.                                                             *)

\* agent_energy is overdrawn by no more than the last task (planned and reviewed
\* with one unit left) and the thinking after it.
EnergyBound == \A a \in Agents : energy[a] >= -3

\* The state in which a prompt may be made.
Fits(prompt, state) ==
  /\ prompt = "plan" => state \in Plannable
  /\ prompt = "review" => state = "wait_review"

\* A task is planned or reviewed in the state it has when the prompt is made, not
\* in the one it had when the pass began, many minutes of LLM processes ago.
PromptFitsTask ==
  [][\A a \in Agents :
       timer'[a] # timer[a] /\ timer'[a].pc \in {"plan", "review"} =>
         Fits(timer'[a].pc, Get(Head(timer'[a].list)).state)]_vars

\* Every pass ends, in spite of tasks that change and files that cannot be read
\* while it is under way.
PassEnds ==
  \A a \in Agents : timer[a].pc \notin {"off", "asleep"} ~> timer[a].pc \in {"off", "asleep"}

\* Every AI function returns, although a timer may keep it from going on.
FunctionsReturn == \A c \in Calls : call[c].pc # "idle" ~> call[c].pc = "idle"

\* "goto sleep!" (agent.py:374): an agent with low energy does not keep the calls
\* of others from going on.
CallsGoOn ==
  \A c \in Calls : call[c].pc = "written" => LoopFree

\* "DO or Check Todo" (agent.py:395): a task that is being done is no obstacle to
\* planning the others.
ConfirmedIsPlanned ==
  \A t \in Tasks :
    t \in WithState("confirmed") ~>
      \/ t \notin WithState("confirmed")
      \/ \A a \in Agents : timer[a].pc = "off"
      \/ \E a \in Agents : timer[a].pc = "plan" /\ Head(timer[a].list) = t
=============================================================================
