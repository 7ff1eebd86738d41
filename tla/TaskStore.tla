----------------------------- MODULE TaskStore -----------------------------
(***************************************************************************)
(* The task directory of an agent, LocalAgentTaskManger in                 *)
(* src/src/aios/agent/workspace.py, with the AI functions of               *)
(* AgentWorkspace that change it: create_task, cancel_task, confirm_task,  *)
(* update_task and set_todos.                                              *)
(*                                                                         *)
(* A task is a directory with a file "detail", a todo a file in it; a      *)
(* database maps ids to paths.  The database and every read are            *)
(* synchronous, but a write is not: aiofiles opens the file with mode 'w'  *)
(* in a thread, which truncates it, and a thread writes the text when the  *)
(* file is closed.  In between every other coroutine of the process runs:  *)
(* the functions are called by the LLM processes of messages and of the    *)
(* timers of all AIAgent objects with the id of this agent.                *)
(*                                                                         *)
(* The rows that set_todos adds to the database are left out: only get_todo *)
(* reads them, and the one AI function that calls it changes nothing.      *)
(*                                                                         *)
(* What is in a file is abstracted to what a reader makes of it, and to    *)
(* its length: a text written over a longer one leaves the end of the      *)
(* longer one behind, which no reader can parse.                           *)
(***************************************************************************)
EXTENDS Naturals, Sequences, FiniteSets

CONSTANTS
  Calls,       \* calls of AI functions that may be under way together
  Tasks,       \* task ids; uuid4 makes every one of them once
  Parents,     \* parents create_task is called with: tasks, and "root" for none
  Titles,      \* titles of tasks, the names of their directories
  Todos,       \* todos, each with a title of its own
  BadTodos,    \* those with a state that AgentTodoState does not have
  MaxTodos,    \* bound on the length of a list given to set_todos
  Priorities,
  NewStates,   \* states update_task is called with
  Length,      \* Length[d]: length of the JSON text of d
  None

TaskState ==
  {"wait_assign", "assigned", "confirmed", "cancel", "expired", "doing",
   "wait_review", "check_failed", "done", "failed"}

TaskRec == [id : Tasks, state : TaskState, priority : Priorities]

Data == TaskRec \cup Todos

\* "root" is the directory of the agent, "None" the text a parent without a
\* path is formatted as; a directory is named by its parent and its title.
Paths == (Tasks \cup {"root", "None"}) \X Titles

Files == [dir : Paths, step : 0 .. MaxTodos, name : Todos \cup {"detail"}]

Detail(p) == [dir |-> p, step |-> 0, name |-> "detail"]

TodoFile(p, k, d) == [dir |-> p, step |-> k, name |-> d]

IsTodo(f) == f.name # "detail"

Content == [len : Nat, data : Data \cup {None}]

ASSUME StoreAssumption ==
  /\ MaxTodos \in Nat
  /\ Parents \subseteq Tasks \cup {"root"}
  /\ BadTodos \subseteq Todos
  /\ NewStates \subseteq TaskState
  /\ Length \in [Data -> Nat \ {0}]
  /\ "detail" \notin Todos
  /\ Todos \cap TaskRec = {}
  /\ None \notin Data \cup Content \cup Files \cup Paths

VARIABLES
  taskPath,    \* obj_list: the path of a task id
  disk,        \* disk[f]: what is in file f, None if there is no such file
  call,        \* call[c]: where a call stands
  hurt,        \* files whose last writers overlapped or were cut off (observation)
  plan,        \* plan[p]: the todos set last in p (observation)
  mixed        \* directories in which that was not a call alone (observation)

store == <<taskPath, disk, call, hurt, plan, mixed>>

Idle == [pc |-> "idle", file |-> None, data |-> None, read |-> None, rest |-> <<>>]

CallState ==
  [pc   : {"idle", "opening", "writing", "unlinked", "written"},
   file : Files \cup {None},
   data : Data \cup {None},       \* what will be written
   read : TaskRec \cup {None},    \* what it was made from (observation)
   rest : Seq(Todos)]             \* the todos to write after this one

TypeOK ==
  /\ taskPath \in [Tasks -> Paths \cup {None}]
  /\ disk \in [Files -> Content \cup {None}]
  /\ call \in [Calls -> CallState]
  /\ hurt \subseteq Files
  /\ plan \in [Paths -> Seq(Todos)]
  /\ mixed \subseteq Paths

Init ==
  /\ taskPath = [t \in Tasks |-> None]
  /\ disk = [f \in Files |-> None]
  /\ call = [c \in Calls |-> Idle]
  /\ hurt = {}
  /\ plan = [p \in Paths |-> <<>>]
  /\ mixed = {}

-----------------------------------------------------------------------------
(* Reading.                                                                *)

\* json.load fails on an empty text and on one with something left behind it.
Readable(f) == disk[f] # None /\ disk[f].data # None

\* get_task finds t.
Found(t) == taskPath[t] # None /\ Readable(Detail(taskPath[t]))

\* The task that get_task returns.
Get(t) == disk[Detail(taskPath[t])].data

\* The call c has f open, and f still names what it has open.
Writing(c, f) == call[c].pc = "writing" /\ call[c].file = f

\* A set_todos is under way in p.
SettingTodos(c, p) ==
  call[c].pc # "idle" /\ call[c].file.dir = p /\ IsTodo(call[c].file)

-----------------------------------------------------------------------------
(* The functions, up to their first await.                                 *)

\* The state of a call whose next await opens f.
Opening(f, d, r, rest) ==
  [pc |-> "opening", file |-> f, data |-> d, read |-> r, rest |-> rest]

\* Mutant: os.makedirs(dir_path, exist_ok=True).
CreateTaskExistOk(c, t, parent, title, priority) ==
  LET known == parent = "root" \/ taskPath[parent] # None
      p == <<IF known THEN parent ELSE "None", title>>
      task == [id |-> t, state |-> "wait_assign", priority |-> priority]
  IN
  /\ call[c].pc = "idle"
  /\ taskPath[t] = None
  /\ parent # t
  /\ taskPath' = [taskPath EXCEPT ![t] = p]
  /\ call' = [call EXCEPT ![c] = Opening(Detail(p), task, None, <<>>)]
  /\ UNCHANGED <<disk, hurt, plan, mixed>>

\* create_task: os.makedirs raises if the directory is there, and then nothing
\* has changed.
CreateTask(c, t, parent, title, priority) ==
  LET known == parent = "root" \/ taskPath[parent] # None
      p == <<IF known THEN parent ELSE "None", title>>
      task == [id |-> t, state |-> "wait_assign", priority |-> priority]
  IN
  /\ call[c].pc = "idle"
  /\ taskPath[t] = None
  /\ parent # t
  /\ \A u \in Tasks : taskPath[u] # p
  /\ taskPath' = [taskPath EXCEPT ![t] = p]
  /\ call' = [call EXCEPT ![c] = Opening(Detail(p), task, None, <<>>)]
  /\ UNCHANGED <<disk, hurt, plan, mixed>>

\* Mutant: a state that AgentTaskState does not have.
CancelledTypo(r) == {[r EXCEPT !.state = "canncel"]}

Cancelled(r) == {[r EXCEPT !.state = "cancel"]}

Confirmed(r) == {[r EXCEPT !.state = "confirmed", !.priority = k] : k \in Priorities}

Updated(r) ==
  UNION {{[r EXCEPT !.state = s, !.priority = k] : s \in NewStates \cup {r.state}} :
           k \in Priorities}

\* cancel_task, confirm_task, update_task: whatever the state is, all the fields
\* that were read are written back with the new ones among them.
ChangeTask(c, t) ==
  /\ call[c].pc = "idle"
  /\ Found(t)
  /\ \E r \in Cancelled(Get(t)) \cup Confirmed(Get(t)) \cup Updated(Get(t)) :
       call' = [call EXCEPT ![c] = Opening(Detail(taskPath[t]), r, Get(t), <<>>)]
  /\ UNCHANGED <<taskPath, disk, hurt, plan, mixed>>

\* The calls other than c that set todos in p.
Others(c, p) == {b \in Calls \ {c} : SettingTodos(b, p)}

\* Mutant: the old todos are not deleted.
SetTodosKeeps(c, t, todos) ==
  LET p == taskPath[t] IN
  /\ call[c].pc = "idle"
  /\ Found(t)
  /\ todos # <<>>
  /\ call' = [call EXCEPT ![c] = Opening(TodoFile(p, 0, Head(todos)), Head(todos),
                                         None, Tail(todos))]
  /\ plan' = [plan EXCEPT ![p] = todos]
  /\ mixed' = IF Others(c, p) # {} THEN mixed \cup {p} ELSE mixed \ {p}
  /\ UNCHANGED <<taskPath, disk, hurt>>

\* set_todos: the *.todo files are deleted, under the hands of those who are
\* writing them, and the first new one is opened.
SetTodos(c, t, todos) ==
  LET p == taskPath[t]
      gone == {f \in Files : f.dir = p /\ IsTodo(f)}
      first == Opening(TodoFile(p, 0, Head(todos)), Head(todos), None, Tail(todos))
      Unlink(b) == IF call[b].pc = "writing" /\ call[b].file \in gone
                   THEN [call[b] EXCEPT !.pc = "unlinked"] ELSE call[b]
  IN
  /\ call[c].pc = "idle"
  /\ Found(t)
  /\ disk' = [f \in Files |-> IF f \in gone THEN None ELSE disk[f]]
  /\ call' = [b \in Calls |-> IF b = c /\ todos # <<>> THEN first ELSE Unlink(b)]
  /\ plan' = [plan EXCEPT ![p] = todos]
  /\ mixed' = IF Others(c, p) # {} THEN mixed \cup {p} ELSE mixed \ {p}
  /\ UNCHANGED <<taskPath, hurt>>

-----------------------------------------------------------------------------
(* The threads that open, write and close a file, and what comes after.    *)

\* The file of c is opened by others too, so that their texts may mix.
Overlap(c) ==
  LET f == call[c].file IN
  hurt' = IF \E b \in Calls : Writing(b, f) THEN hurt \cup {f} ELSE hurt \ {f}

\* Mutant: the file is opened with mode 'r+', which does not truncate it.
OpenKeeps(c) ==
  /\ call[c].pc = "opening"
  /\ disk' = [disk EXCEPT ![call[c].file] = IF @ = None THEN [len |-> 0, data |-> None] ELSE @]
  /\ call' = [call EXCEPT ![c].pc = "writing"]
  /\ Overlap(c)
  /\ UNCHANGED <<taskPath, plan, mixed>>

\* open(file, 'w') creates or empties the file.
Open(c) ==
  /\ call[c].pc = "opening"
  /\ disk' = [disk EXCEPT ![call[c].file] = [len |-> 0, data |-> None]]
  /\ call' = [call EXCEPT ![c].pc = "writing"]
  /\ Overlap(c)
  /\ UNCHANGED <<taskPath, plan, mixed>>

\* The text of d at the start of a file with content old.
Over(old, d) ==
  IF old.len > Length[d] THEN [len |-> old.len, data |-> None]
  ELSE [len |-> Length[d], data |-> d]

\* close() writes the text, into a file without a name if it was deleted.
Flush(c) ==
  /\ call[c].pc \in {"writing", "unlinked"}
  /\ call[c].data \notin BadTodos
  /\ disk' = IF call[c].pc = "writing"
             THEN [disk EXCEPT ![call[c].file] = Over(@, call[c].data)] ELSE disk
  /\ call' = [call EXCEPT ![c].pc = "written"]
  /\ UNCHANGED <<taskPath, hurt, plan, mixed>>

\* to_dict raises between open and write, and set_todos gives up.
GiveUp(c) ==
  /\ call[c].pc \in {"writing", "unlinked"}
  /\ call[c].data \in BadTodos
  /\ call' = [call EXCEPT ![c] = Idle]
  /\ UNCHANGED <<taskPath, disk, hurt, plan, mixed>>

\* Mutant: step_order is not incremented.
ResumeSameStep(c) ==
  LET f == call[c].file
      todos == call[c].rest
  IN
  /\ call[c].pc = "written"
  /\ call' = [call EXCEPT ![c] =
       IF todos = <<>> THEN Idle
       ELSE Opening(TodoFile(f.dir, f.step, Head(todos)), Head(todos), None, Tail(todos))]
  /\ UNCHANGED <<taskPath, disk, hurt, plan, mixed>>

\* The coroutine goes on: set_todos with its next todo, the others return.
Resume(c) ==
  LET f == call[c].file
      todos == call[c].rest
  IN
  /\ call[c].pc = "written"
  /\ call' = [call EXCEPT ![c] =
       IF todos = <<>> THEN Idle
       ELSE Opening(TodoFile(f.dir, f.step + 1, Head(todos)), Head(todos), None, Tail(todos))]
  /\ UNCHANGED <<taskPath, disk, hurt, plan, mixed>>

\* The process ends and is started again: files and database are as they were.
Crash ==
  /\ \E c \in Calls : call[c].pc # "idle"
  /\ call' = [c \in Calls |-> Idle]
  /\ hurt' = hurt \cup {f \in Files : \E c \in Calls :
                          /\ call[c].file = f
                          /\ Writing(c, f) \/ (call[c].pc = "opening" /\ disk[f] = None)}
  /\ mixed' = mixed \cup {p \in Paths : \E c \in Calls : SettingTodos(c, p)}
  /\ UNCHANGED <<taskPath, disk, plan>>

\* Lists of todos set_todos is called with.
TodoLists == UNION {[1 .. n -> Todos] : n \in 0 .. MaxTodos}

\* A function is called, and runs up to its first await.
Function(c) ==
  \/ \E t \in Tasks, parent \in Parents, title \in Titles, k \in Priorities :
       CreateTask(c, t, parent, title, k)
  \/ \E t \in Tasks : ChangeTask(c, t)
  \/ \E t \in Tasks, todos \in TodoLists : SetTodos(c, t, todos)

Next ==
  \/ \E c \in Calls : Function(c) \/ Open(c) \/ Flush(c) \/ GiveUp(c) \/ Resume(c)
  \/ Crash

Spec == Init /\ [][Next]_store

-----------------------------------------------------------------------------
(* Properties.                                                             *)

\* get_task(t) finds the task t and no other, whatever the titles and parents
\* tasks were created with.
ReadsOwnTask == \A t \in Tasks : Found(t) => Get(t).id = t

\* A task cannot be read only while a call is writing it, or if two calls wrote
\* it at the same time, or if the process ended in the middle of a write.
ReadableUnlessHurt ==
  \A t \in Tasks : taskPath[t] # None =>
    LET f == Detail(taskPath[t]) IN
    \/ Found(t)
    \/ f \in hurt
    \/ \E c \in Calls : Writing(c, f)
    \/ \E c \in Calls : call[c].pc = "opening" /\ call[c].file = f /\ disk[f] = None

\* A task is read as itself, and only what two writes or a crash have hurt is not
\* read at all.
TasksAreRead == ReadsOwnTask /\ ReadableUnlessHurt

\* The todos up to the first one that cannot be written.
Usable(todos) ==
  {k \in 1 .. Len(todos) : \A j \in 1 .. k : todos[j] \notin BadTodos}

\* Unless two set_todos of a task overlapped or the process ended in one, the
\* todos that can be read in its directory are those of the last one, in order,
\* up to the first that could not be written.
TodosAreTheLastSet ==
  \A p \in Paths \ mixed :
    (\A c \in Calls : ~SettingTodos(c, p)) =>
      {<<f, disk[f].data>> : f \in {g \in Files : g.dir = p /\ IsTodo(g) /\ Readable(g)}}
        = {<<TodoFile(p, k - 1, plan[p][k]), plan[p][k]>> : k \in Usable(plan[p])}

\* "canncel task ok" (workspace.py:543): a cancelled task is made something else
\* only by a call that had read it as cancelled.
CancelSticks ==
  \A c \in Calls :
    /\ call[c].pc = "opening" /\ call[c].read # None
    /\ Readable(call[c].file) /\ disk[call[c].file].data.state = "cancel"
    => "cancel" \in {call[c].read.state, call[c].data.state}
=============================================================================
