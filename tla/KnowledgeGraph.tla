--------------------------- MODULE KnowledgeGraph ---------------------------
(***************************************************************************)
(* Knowledge graphs (aios/knowledge/knowledge_base.py) and the memory of   *)
(* an agent that may keep one (aios/agent/agent_memory.py).                *)
(*                                                                         *)
(* A graph is an object over a database of ObjFS.  Graphs are known to the *)
(* tools of the language model by their kb_id, through a registry of the   *)
(* class.  The program that holds a graph calls its methods (Kb...); the   *)
(* model asks for operations through the two tool functions (Tool...),     *)
(* whose answer it reads.  All of it runs on one event loop and none of    *)
(* the coroutines gives it up, so each call is one step.                   *)
(*                                                                         *)
(* The memories modelled are those told to keep a graph.  No caller in the *)
(* program tells one to: today's agents have the part that writes          *)
(* meta.json, the same for both.                                           *)
(***************************************************************************)
EXTENDS ObjFS

CONSTANTS
  Kbs,        \* graph objects
  KbIds,      \* kb_id of a graph
  KbIdOf,     \* the id a graph object is made with
  DbOf,       \* the database it is made with
  Memories,   \* those of Kbs that an AgentMemory makes for itself
  Bases,      \* paths a listing asks for
  EnabledKbs, \* enable_kb_list of the behaviours
  Torn,       \* meta.json cut off
  MaxClock    \* bound: times at which an agent has thought

ASSUME KbsAreMade ==
  /\ KbIdOf \in [Kbs -> KbIds]
  /\ DbOf \in [Kbs -> Dbs]
  /\ Memories \subseteq Kbs
  /\ Absent \notin Kbs

ASSUME TimesAreNumbers == MaxClock \in Nat /\ {Torn, Absent} \cap Nat = {} /\ Torn # Absent

VARIABLES
  registry,   \* _all_knowledge_bases: kb_id -> graph object
  default,    \* _default_kb
  answer,     \* what the tool call that has just ended returned: a word and what it
              \* found; None after every other step.  Two calls that answer alike have
              \* words of their own where what they have done differs
  memory,     \* last_think_time of each AgentMemory, Absent when there is none
  meta,       \* meta.json: a time, Torn, or Absent
  clock

kgVars == <<registry, default>>
memVars == <<memory, meta, clock>>
vars == <<objects, links, registry, default, answer, memory, meta, clock>>

None == <<"none", {}>>

NoCall == answer' = None

Found(kbId) == IF kbId = Absent THEN default ELSE registry[kbId]

-----------------------------------------------------------------------------
(* The registry.                                                           *)

Register(k, isDefault) ==
  /\ registry' = [registry EXCEPT ![KbIdOf[k]] = k]
  /\ default' = IF isDefault THEN k ELSE default

AddKb(k, isDefault) ==
  /\ k \notin Memories
  /\ Register(k, isDefault)
  /\ NoCall
  /\ UNCHANGED <<storeVars, memVars>>

\* Only the registry is.
ForgottenByIdOnly(id) ==
  /\ registry' = [registry EXCEPT ![id] = Absent]
  /\ UNCHANGED default

\* Both the registry and the default are cleared of the id.
Forgotten(id) ==
  /\ default' = IF default # Absent /\ KbIdOf[default] = id THEN Absent ELSE default
  /\ registry' = [registry EXCEPT ![id] = Absent]

\* A graph is removed by who has added it: nobody removes an agent's memory.
RemoveKb(id) ==
  /\ \A m \in Memories : KbIdOf[m] # id
  /\ Forgotten(id)
  /\ NoCall
  /\ UNCHANGED <<storeVars, memVars>>

-----------------------------------------------------------------------------
(* Calls of the program that holds a graph over the database d.  A         *)
(* memory's graph exists from the time its memory does.                    *)

InHand(d) ==
  \E k \in Kbs : DbOf[k] = d /\ (k \in Memories => memory[k] # Absent)

KbAddObj(d, id, c, ps) ==
  /\ InHand(d)
  /\ AddObj(d, id, c, ps)
  /\ NoCall
  /\ UNCHANGED <<kgVars, memVars>>

KbUpdateObj(d, id, c) ==
  /\ InHand(d)
  /\ UpdateObj(d, id, c)
  /\ NoCall
  /\ UNCHANGED <<kgVars, memVars>>

KbRemove(d, p) ==
  /\ InHand(d)
  /\ RemovePath(d, p)
  /\ NoCall
  /\ UNCHANGED <<kgVars, memVars>>

KbRemoveObj(d, id) ==
  /\ InHand(d)
  /\ RemoveObj(d, id)
  /\ NoCall
  /\ UNCHANGED <<kgVars, memVars>>

\* link takes what it reads at the target, which is the content of the object
\* there and not its id, for the id.
KbLink(d, from, target) ==
  LET o == GetByPath(d, target) IN
  /\ InHand(d)
  /\ IF o = Absent THEN UNCHANGED storeVars ELSE AddPath(d, o, from)
  /\ NoCall
  /\ UNCHANGED <<kgVars, memVars>>

\* A list of paths is no value of a column: the statement fails, the error is
\* swallowed.  One path is removed.
KbUnlink(d, p, asList) ==
  /\ InHand(d)
  /\ IF asList THEN UNCHANGED storeVars ELSE RemovePath(d, p)
  /\ NoCall
  /\ UNCHANGED <<kgVars, memVars>>

-----------------------------------------------------------------------------
(* The two tool functions.  A field the model has left out is Absent.      *)

Answers(word, found) == answer' = <<word, found>> /\ UNCHANGED <<kgVars, memVars>>

Says(kbId, word) ==
  Answers(IF Found(kbId) = Absent THEN "no kb" ELSE word, {}) /\ UNCHANGED storeVars

\* The answer of a reading call: found[d] is what it finds for its argument x in
\* the database d.
Reads(kbId, x, found) ==
  /\ IF Found(kbId) = Absent THEN Answers("no kb", {})
     ELSE IF x = Absent THEN Answers("no argument", {})
     ELSE Answers("found", found[DbOf[Found(kbId)]])
  /\ UNCHANGED storeVars

\* The declaration of the tool that reads names its argument op_param, the code
\* asks for param: a call by the declaration ends in a KeyError.
ToolMisnamed == Answers("raised", {}) /\ UNCHANGED storeVars

ToolList(kbId, base) == Reads(kbId, base, [d \in Dbs |-> ListPaths(d, base)])

ToolTree(kbId, base) == Reads(kbId, base, [d \in Dbs |-> Tree(d, base)])

ToolRead(kbId, p) == Reads(kbId, p, [d \in Dbs |-> {GetByPath(d, p)}])

ToolGetObj(kbId, id) == Reads(kbId, id, [d \in Dbs |-> {GetById(d, id)}])

\* An operation the reading tool does not know is refused; the updating tool
\* answers an empty object.
ToolUnknown(kbId, reading) ==
  Says(kbId, IF reading THEN "not supported" ELSE "nothing")

\* The id of a new object is a UUID object and not its text: the insert always
\* fails.  Content that is no object with a "content" ends in a TypeError.
ToolWrite(kbId, given) ==
  Says(kbId, CASE given = "object" -> "not stored" [] given = "text" -> "raised"
               [] OTHER -> given)

\* remove returns nothing, which is taken for a failure: the path is gone.
ToolRemove(kbId, p) ==
  LET k == Found(kbId) IN
  IF k = Absent \/ p = Absent THEN Says(kbId, "no argument")
  ELSE RemovePath(DbOf[k], p) /\ Answers("failed", {})

ToolRemoveObj(kbId, id) ==
  LET k == Found(kbId) IN
  IF k = Absent \/ id = Absent THEN Says(kbId, "no argument")
  ELSE IF GetById(DbOf[k], id) = Absent THEN Says(kbId, "no object")
  ELSE RemoveObj(DbOf[k], id) /\ Answers("OK", {})

\* A tool that sets what is not there.
ToolSetObjUnseen(kbId, id, c, isDict) ==
  LET k == Found(kbId) IN
  IF k = Absent \/ id = Absent \/ c = Absent THEN Says(kbId, "no argument")
  ELSE IF isDict THEN Says(kbId, "raised")
  ELSE /\ objects' = [objects EXCEPT ![DbOf[k]][id] = c]
       /\ UNCHANGED links
       /\ Answers("set", {})

\* The size of the new content is looked at when it is in the database.
ToolSetObjEarly(kbId, id, c, isDict) ==
  LET k == Found(kbId) IN
  IF k = Absent \/ id = Absent THEN Says(kbId, "no argument")
  ELSE IF GetById(DbOf[k], id) = Absent THEN Says(kbId, "no object")
  ELSE IF c = Absent THEN Says(kbId, "no argument")
  ELSE UpdateObj(DbOf[k], id, c) /\ Answers(IF isDict THEN "raised" ELSE "set", {})

\* The new content goes to the database as it came: an object of JSON, which the
\* description asks for, has no encode and ends in an AttributeError.
ToolSetObj(kbId, id, c, isDict) ==
  LET k == Found(kbId) IN
  IF k = Absent \/ id = Absent THEN Says(kbId, "no argument")
  ELSE IF GetById(DbOf[k], id) = Absent THEN Says(kbId, "no object")
  ELSE IF c = Absent THEN Says(kbId, "no argument")
  ELSE IF isDict THEN Says(kbId, "raised")
  ELSE UpdateObj(DbOf[k], id, c) /\ Answers("set", {})

\* link is handed the content for the path and a list for the target: it finds
\* nothing at the list, and its False is not looked at.
ToolLink(kbId, target) ==
  Says(kbId, IF target = Absent THEN "no argument"
             ELSE IF GetByPath(DbOf[Found(kbId)], target) = Absent THEN "no object"
             ELSE "OK")

\* unlink is handed a list.
ToolUnlink(kbId, given) == Says(kbId, IF given THEN "OK" ELSE "no argument")

-----------------------------------------------------------------------------
(* The memory of an agent.  Every load of the agent makes one more, with   *)
(* the same directory.                                                     *)

\* A file that cannot be read taken for a time.
LoadedTorn == IF meta = Absent THEN 0 ELSE meta

\* meta.json that is not there or cannot be read: the agent has never thought.
Loaded == IF meta \in {Absent, Torn} THEN 0 ELSE meta

\* A memory that does not make its graph known.
NewMemoryAlone(m) ==
  /\ memory[m] = Absent
  /\ memory' = [memory EXCEPT ![m] = Loaded]
  /\ NoCall
  /\ UNCHANGED <<storeVars, kgVars, meta, clock>>

NewMemory(m) ==
  /\ memory[m] = Absent
  /\ Register(m, FALSE)
  /\ memory' = [memory EXCEPT ![m] = Loaded]
  /\ NoCall
  /\ UNCHANGED <<storeVars, meta, clock>>

\* The agent has thought: the time is set, then the file truncated and written.
\* A full disk leaves the file as it was or empty, which is only logged.
Saved(m, written) ==
  \/ meta' = written
  \/ meta' \in {meta, Torn}

SetLastThinkTime(m) ==
  /\ memory[m] # Absent /\ clock < MaxClock
  /\ clock' = clock + 1
  /\ memory' = [memory EXCEPT ![m] = clock']
  /\ Saved(m, clock')
  /\ NoCall
  /\ UNCHANGED <<storeVars, kgVars>>

\* The process ends, perhaps while it writes meta.json: the databases stay.
Restart ==
  /\ registry' = [i \in KbIds |-> Absent]
  /\ default' = Absent
  /\ memory' = [m \in Memories |-> Absent]
  /\ NoCall
  /\ meta' \in {meta, Torn}
  /\ UNCHANGED <<storeVars, clock>>

\* prepare_knowledge_grpah_prompt: the graphs a behaviour tells the model of.
PromptedKbs(m) ==
  {KbIdOf[m]} \cup {i \in EnabledKbs : registry[i] # Absent}

-----------------------------------------------------------------------------
Init ==
  /\ StoreInit
  /\ registry = [i \in KbIds |-> Absent]
  /\ default = Absent
  /\ answer = None
  /\ memory = [m \in Memories |-> Absent]
  /\ meta = Absent
  /\ clock = 0

Or(S) == S \cup {Absent}

KbStep ==
  \/ \E d \in Dbs, id \in Ids, c \in Contents :
       \/ \E ps \in SUBSET Paths : KbAddObj(d, id, c, ps)
       \/ KbUpdateObj(d, id, c)
  \/ \E d \in Dbs, id \in Ids : KbRemoveObj(d, id)
  \/ \E d \in Dbs, p \in Paths :
       \/ KbRemove(d, p)
       \/ \E t \in Paths : KbLink(d, p, t)
       \/ \E asList \in BOOLEAN : KbUnlink(d, p, asList)

ToolStep ==
  \/ ToolMisnamed
  \/ \E i \in Or(KbIds) :
       \/ \E b \in Or(Bases) : ToolList(i, b) \/ ToolTree(i, b)
       \/ \E p \in Or(Paths) : ToolRead(i, p) \/ ToolRemove(i, p) \/ ToolLink(i, p)
       \/ \E id \in Or(Ids) :
            \/ ToolGetObj(i, id) \/ ToolRemoveObj(i, id)
            \/ \E c \in Or(Contents), isDict \in BOOLEAN : ToolSetObj(i, id, c, isDict)
       \/ \E given \in {"no argument", "object", "text"} : ToolWrite(i, given)
       \/ \E b \in BOOLEAN : ToolUnlink(i, b) \/ ToolUnknown(i, b)

Next ==
  \/ KbStep
  \/ ToolStep
  \/ \E k \in Kbs, d \in BOOLEAN : AddKb(k, d)
  \/ \E i \in KbIds : RemoveKb(i)
  \/ \E m \in Memories : NewMemory(m) \/ SetLastThinkTime(m)
  \/ Restart

Spec == Init /\ [][Next]_vars

-----------------------------------------------------------------------------
\* Types of the variables.
TypeOK ==
  /\ StoreTypeOK
  /\ registry \in [KbIds -> Kbs \cup {Absent}]
  /\ default \in Kbs \cup {Absent}
  /\ memory \in [Memories -> 0..MaxClock \cup {Absent}]
  /\ meta \in 0..MaxClock \cup {Absent, Torn}
  /\ clock \in 0..MaxClock

\* A path that leads to an id leads to an object that is stored: removing an
\* object takes its paths along, so that an object stored under the id later is
\* not found at the old ones (objfs.py, remove_obj).  What link leaves behind,
\* paths that lead to a content, are not of this kind.
IdsLead ==
  \A d \in Dbs, p \in Paths :
    links[d][p] \in Ids => objects[d][links[d][p]] # Absent

\* A path in use never comes to lead elsewhere: whoever adds an object, or a
\* link, at it, the path must first be removed (objfs.py, INSERT OR IGNORE).
PathsKeepTheirObject ==
  [][\A d \in Dbs, p \in Paths :
       links[d][p] # Absent => links'[d][p] \in {links[d][p], Absent}]_vars

\* A call of the model that is refused, finds no graph or ends in an exception has
\* changed nothing: the content is made ready before the database is touched, and
\* a statement that fails takes the others of its call along.  The one call that
\* has done its work and is answered as a failure, remove, leaves the objects
\* (knowledge_base.py, knwoledge_graph_update; objfs.py, update_obj).
RefusedLeavesNoTrace ==
  [][/\ answer'[1] \notin {"none", "OK", "set", "failed"} => UNCHANGED storeVars
     /\ answer'[1] = "failed" => UNCHANGED objects]_vars

\* The model names an object by an id it has read some calls ago.  When the object
\* was removed since, by the model or by the program that holds the graph, setting
\* it does not bring it back, nor give it a path (set_obj).
StaleIdsStayGone ==
  [][answer'[1] = "set" =>
       \A d \in Dbs :
         /\ \A id \in Ids : objects[d][id] = Absent => objects'[d][id] = Absent
         /\ \A p \in Paths : links'[d][p] = links[d][p]]_vars

\* What the description of the tools says, "write:{'path':$path,'obj_json':$obj_json}":
\* a write that finds its graph and has both is stored.
WritesAreStored == [][answer'[1] # "not stored"]_vars

\* The default graph is one whose id the registry knows: a graph that was
\* removed is not reached by calls without an id (remove_kb).
DefaultIsKnown ==
  default # Absent => registry[KbIdOf[default]] # Absent

\* Every graph a prompt names is one the tools find, also when the agent was
\* loaded twice and the second object took the first one's place
\* (llm_process.py, prepare_knowledge_grpah_prompt).
PromptedAreFound ==
  \A m \in Memories : memory[m] # Absent =>
    \A i \in PromptedKbs(m) : registry[i] # Absent

\* Listing the root gives every absolute path, and no other.
RootListsAll ==
  \A d \in Dbs :
    ListPaths(d, <<"/">>) = {p \in Paths : links[d][p] # Absent /\ IsPrefix(<<"/">>, p)}

\* What the description of the tools says: listing a path gives every path
\* stored below it.
ListFindsPaths ==
  \A d \in Dbs, b \in Paths, p \in Paths :
    links[d][p] # Absent /\ IsPrefix(b \o <<"/">>, p) => p \in ListPaths(d, b)

\* Whatever leads somewhere leads to something that is there: paths to objects, the
\* default and the names in prompts to graphs, the root to every path.
GraphsLead ==
  TypeOK /\ IdsLead /\ DefaultIsKnown /\ PromptedAreFound /\ RootListsAll

\* No step takes a path from its object, no call of the model that is refused leaves a
\* trace, and none brings back what was removed.
GraphsKeep == PathsKeepTheirObject /\ RefusedLeavesNoTrace /\ StaleIdsStayGone

=============================================================================
