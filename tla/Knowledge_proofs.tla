------------------------- MODULE Knowledge_proofs -------------------------
(* Proofs about what the program knows.                                      *)
(*                                                                           *)
(* KnowledgeGraph: paths lead to objects that are there and keep them, names *)
(* of graphs lead to graphs, and what a refused call of the model leaves is   *)
(* what it found.                                                            *)
(*                                                                           *)
(* KnowledgeStore: a text is cut into chunks that hold all of it and are not *)
(* too long, what was stored is read as it was stored, and the relations lead*)
(* from a chunk to what it is part of.                                       *)
EXTENDS KnowledgeGraph, KnowledgeStore, FiniteSetTheorems, SequenceTheorems,
        WellFoundedInduction, TLAPS

-----------------------------------------------------------------------------
(* KnowledgeGraph: the store.                                                *)

StoreIInv == StoreTypeOK /\ IdsLead

\* A path is left alone, loses its object or, when it leads nowhere, is given one.
PathsKept ==
  \A d \in Dbs, p \in Paths :
    links[d][p] # Absent => links'[d][p] \in {links[d][p], Absent}

NothingAdded ==
  \A d \in Dbs :
    /\ \A id \in Ids : objects[d][id] = Absent => objects'[d][id] = Absent
    /\ \A p \in Paths : links[d][p] = Absent => links'[d][p] = Absent

LEMMA StoreAlone ==
  ASSUME StoreIInv, UNCHANGED storeVars
  PROVE  StoreIInv' /\ PathsKept /\ NothingAdded
PROOF
BY DEF StoreIInv, StoreTypeOK, IdsLead, storeVars, PathsKept, NothingAdded

\* A new object is found at the paths that were free.
LEMMA AddObjStore ==
  ASSUME StoreIInv, NEW d \in Dbs, NEW id \in Ids, NEW c \in Contents,
         NEW ps \in SUBSET Paths, AddObj(d, id, c, ps)
  PROVE  StoreIInv' /\ PathsKept
PROOF
<1>1. CASE objects[d][id] # Absent
  BY <1>1, StoreAlone DEF AddObj
<1>2. CASE objects[d][id] = Absent
  <2>1. /\ objects' = [objects EXCEPT ![d][id] = c]
        /\ links' = [links EXCEPT ![d] =
             [p \in Paths |-> IF p \in ps /\ @[p] = Absent THEN id ELSE @[p]]]
    BY <1>2 DEF AddObj
  <2>2. /\ objects \in [Dbs -> [Ids -> Contents \cup {Absent}]]
        /\ links \in [Dbs -> [Paths -> Ids \cup Contents \cup {Absent}]]
    BY DEF StoreIInv, StoreTypeOK
  <2>3. \A e \in Dbs : \A i \in Ids :
          objects'[e][i] = IF e = d /\ i = id THEN c ELSE objects[e][i]
    BY <2>1, <2>2
  <2>4. \A e \in Dbs : \A p \in Paths :
          links'[e][p] = IF e = d /\ p \in ps /\ links[e][p] = Absent THEN id ELSE links[e][p]
    BY <2>1, <2>2
  <2>5. StoreTypeOK'
    BY <2>1, <2>2 DEF StoreTypeOK
  <2>6. c # Absent /\ Absent \notin Ids
    BY ContentsAreNoIds
  <2>7. IdsLead'
    BY <2>3, <2>4, <2>6 DEF StoreIInv, IdsLead
  <2>8. PathsKept
    BY <2>4 DEF PathsKept
  <2> QED BY <2>5, <2>7, <2>8 DEF StoreIInv
<1> QED BY <1>1, <1>2

LEMMA UpdateObjStore ==
  ASSUME StoreIInv, NEW d \in Dbs, NEW id \in Ids, NEW c \in Contents, UpdateObj(d, id, c)
  PROVE  StoreIInv' /\ PathsKept /\ NothingAdded
PROOF
<1>1. /\ objects \in [Dbs -> [Ids -> Contents \cup {Absent}]]
      /\ links \in [Dbs -> [Paths -> Ids \cup Contents \cup {Absent}]]
  BY DEF StoreIInv, StoreTypeOK
<1>2. links' = links /\ objects' = [objects EXCEPT ![d][id] = IF @ = Absent THEN Absent ELSE c]
  BY DEF UpdateObj
<1>3. \A e \in Dbs : \A i \in Ids :
        objects'[e][i] = IF e = d /\ i = id /\ objects[e][i] # Absent THEN c ELSE objects[e][i]
  BY <1>1, <1>2
<1>4. StoreTypeOK'
  BY <1>1, <1>2 DEF StoreTypeOK
<1>5. c # Absent
  BY ContentsAreNoIds
<1>6. IdsLead'
  BY <1>2, <1>3, <1>5 DEF StoreIInv, IdsLead
<1>7. PathsKept /\ NothingAdded
  BY <1>2, <1>3 DEF PathsKept, NothingAdded
<1> QED BY <1>4, <1>6, <1>7 DEF StoreIInv

\* A link leads to a content, which is no id.
LEMMA AddPathStore ==
  ASSUME StoreIInv, NEW d \in Dbs, NEW o \in Contents, NEW p \in Paths, AddPath(d, o, p)
  PROVE  StoreIInv' /\ PathsKept
PROOF
<1>1. /\ objects \in [Dbs -> [Ids -> Contents \cup {Absent}]]
      /\ links \in [Dbs -> [Paths -> Ids \cup Contents \cup {Absent}]]
  BY DEF StoreIInv, StoreTypeOK
<1>2. objects' = objects /\ links' = [links EXCEPT ![d][p] = IF @ = Absent THEN o ELSE @]
  BY DEF AddPath
<1>3. \A e \in Dbs : \A q \in Paths :
        links'[e][q] = IF e = d /\ q = p /\ links[e][q] = Absent THEN o ELSE links[e][q]
  BY <1>1, <1>2
<1>4. StoreTypeOK'
  BY <1>1, <1>2 DEF StoreTypeOK
<1>5. o \notin Ids
  BY ContentsAreNoIds
<1>6. IdsLead'
  BY <1>2, <1>3, <1>5 DEF StoreIInv, IdsLead
<1>7. PathsKept
  BY <1>3 DEF PathsKept
<1> QED BY <1>4, <1>6, <1>7 DEF StoreIInv

LEMMA RemovePathStore ==
  ASSUME StoreIInv, NEW d \in Dbs, NEW p \in Paths, RemovePath(d, p)
  PROVE  StoreIInv' /\ PathsKept /\ NothingAdded
PROOF
<1>1. /\ objects \in [Dbs -> [Ids -> Contents \cup {Absent}]]
      /\ links \in [Dbs -> [Paths -> Ids \cup Contents \cup {Absent}]]
  BY DEF StoreIInv, StoreTypeOK
<1>2. objects' = objects /\ links' = [links EXCEPT ![d][p] = Absent]
  BY DEF RemovePath
<1>3. \A e \in Dbs : \A q \in Paths :
        links'[e][q] = IF e = d /\ q = p THEN Absent ELSE links[e][q]
  BY <1>1, <1>2
<1>4. StoreTypeOK'
  BY <1>1, <1>2 DEF StoreTypeOK
<1>5. IdsLead'
  BY <1>2, <1>3, ContentsAreNoIds DEF StoreIInv, IdsLead
<1>6. PathsKept /\ NothingAdded
  BY <1>2, <1>3 DEF PathsKept, NothingAdded
<1> QED BY <1>4, <1>5, <1>6 DEF StoreIInv

\* An object goes with every path that leads to it.
LEMMA RemoveObjStore ==
  ASSUME StoreIInv, NEW d \in Dbs, NEW id \in Ids, RemoveObj(d, id)
  PROVE  StoreIInv' /\ PathsKept /\ NothingAdded
PROOF
<1>1. /\ objects \in [Dbs -> [Ids -> Contents \cup {Absent}]]
      /\ links \in [Dbs -> [Paths -> Ids \cup Contents \cup {Absent}]]
  BY DEF StoreIInv, StoreTypeOK
<1>2. /\ objects' = [objects EXCEPT ![d][id] = Absent]
      /\ links' = [links EXCEPT ![d] = [p \in Paths |-> IF @[p] = id THEN Absent ELSE @[p]]]
  BY DEF RemoveObj
<1>3. \A e \in Dbs : \A i \in Ids :
        objects'[e][i] = IF e = d /\ i = id THEN Absent ELSE objects[e][i]
  BY <1>1, <1>2
<1>4. \A e \in Dbs : \A q \in Paths :
        links'[e][q] = IF e = d /\ links[e][q] = id THEN Absent ELSE links[e][q]
  BY <1>1, <1>2
<1>5. StoreTypeOK'
  BY <1>1, <1>2 DEF StoreTypeOK
<1>6. IdsLead'
  BY <1>3, <1>4, ContentsAreNoIds DEF StoreIInv, IdsLead
<1>7. PathsKept /\ NothingAdded
  BY <1>3, <1>4 DEF PathsKept, NothingAdded
<1> QED BY <1>5, <1>6, <1>7 DEF StoreIInv

\* Calls of the program that holds a graph.
LEMMA KbStore ==
  ASSUME StoreIInv, KbStep
  PROVE  StoreIInv' /\ PathsKept /\ answer' = None
PROOF
<1>1. ASSUME NEW d \in Dbs, NEW id \in Ids, NEW c \in Contents, NEW ps \in SUBSET Paths,
             KbAddObj(d, id, c, ps)
      PROVE  StoreIInv' /\ PathsKept /\ answer' = None
  BY <1>1, AddObjStore DEF KbAddObj, NoCall
<1>2. ASSUME NEW d \in Dbs, NEW id \in Ids, NEW c \in Contents, KbUpdateObj(d, id, c)
      PROVE  StoreIInv' /\ PathsKept /\ answer' = None
  BY <1>2, UpdateObjStore DEF KbUpdateObj, NoCall
<1>3. ASSUME NEW d \in Dbs, NEW id \in Ids, KbRemoveObj(d, id)
      PROVE  StoreIInv' /\ PathsKept /\ answer' = None
  BY <1>3, RemoveObjStore DEF KbRemoveObj, NoCall
<1>4. ASSUME NEW d \in Dbs, NEW p \in Paths, KbRemove(d, p)
      PROVE  StoreIInv' /\ PathsKept /\ answer' = None
  BY <1>4, RemovePathStore DEF KbRemove, NoCall
<1>5. ASSUME NEW d \in Dbs, NEW p \in Paths, NEW t \in Paths, KbLink(d, p, t)
      PROVE  StoreIInv' /\ PathsKept /\ answer' = None
  <2>1. GetByPath(d, t) \in Contents \cup {Absent}
    BY DEF GetByPath, StoreIInv, StoreTypeOK
  <2>2. answer' = None
    BY <1>5 DEF KbLink, NoCall
  <2>3. CASE GetByPath(d, t) = Absent
    BY <1>5, <2>2, <2>3, StoreAlone DEF KbLink
  <2>4. CASE GetByPath(d, t) # Absent
    <3>1. AddPath(d, GetByPath(d, t), p)
      BY <1>5, <2>4 DEF KbLink
    <3> QED BY <2>1, <2>2, <2>4, <3>1, AddPathStore
  <2> QED BY <2>3, <2>4
<1>6. ASSUME NEW d \in Dbs, NEW p \in Paths, NEW asList \in BOOLEAN, KbUnlink(d, p, asList)
      PROVE  StoreIInv' /\ PathsKept /\ answer' = None
  BY <1>6, StoreAlone, RemovePathStore DEF KbUnlink, NoCall
<1> QED BY <1>1, <1>2, <1>3, <1>4, <1>5, <1>6 DEF KbStep

-----------------------------------------------------------------------------
(* The registry, and the memory of an agent.                                 *)

KbTypeOK ==
  /\ registry \in [KbIds -> Kbs \cup {Absent}]
  /\ default \in Kbs \cup {Absent}
  /\ memory \in [Memories -> 0..MaxClock \cup {Absent}]
  /\ meta \in 0..MaxClock \cup {Absent, Torn}
  /\ clock \in 0..MaxClock

\* A memory that exists is known to the tools.
MemoriesAreKnown == \A m \in Memories : memory[m] # Absent => registry[KbIdOf[m]] # Absent

KbIInv == KbTypeOK /\ DefaultIsKnown /\ MemoriesAreKnown

LEMMA KbAlone ==
  ASSUME KbIInv, UNCHANGED <<kgVars, memVars>>
  PROVE  KbIInv'
PROOF
BY DEF KbIInv, KbTypeOK, DefaultIsKnown, MemoriesAreKnown, kgVars, memVars

LEMMA Registered ==
  ASSUME KbIInv, NEW k \in Kbs, NEW isDefault \in BOOLEAN, Register(k, isDefault)
  PROVE  /\ registry' \in [KbIds -> Kbs \cup {Absent}]
         /\ default' \in Kbs \cup {Absent}
         /\ registry'[KbIdOf[k]] # Absent
         /\ \A i \in KbIds : registry[i] # Absent => registry'[i] # Absent
         /\ DefaultIsKnown'
PROOF
<1>1. KbIdOf[k] \in KbIds /\ k # Absent
  BY KbsAreMade
<1>2. registry \in [KbIds -> Kbs \cup {Absent}] /\ default \in Kbs \cup {Absent}
  BY DEF KbIInv, KbTypeOK
<1>3. registry' = [registry EXCEPT ![KbIdOf[k]] = k] /\ default' \in {k, default}
  BY DEF Register
<1>4. registry' \in [KbIds -> Kbs \cup {Absent}] /\ default' \in Kbs \cup {Absent}
  BY <1>1, <1>2, <1>3
<1>5. registry'[KbIdOf[k]] # Absent /\ \A i \in KbIds : registry[i] # Absent => registry'[i] # Absent
  BY <1>1, <1>2, <1>3
<1>6. DefaultIsKnown'
  <2>1. default \in Kbs => KbIdOf[default] \in KbIds
    BY KbsAreMade
  <2> QED BY <1>2, <1>3, <1>5, <2>1 DEF KbIInv, DefaultIsKnown
<1> QED BY <1>4, <1>5, <1>6

LEMMA AddKbKnown ==
  ASSUME KbIInv, NEW k \in Kbs, NEW isDefault \in BOOLEAN, AddKb(k, isDefault)
  PROVE  KbIInv'
PROOF
<1>1. Register(k, isDefault) /\ UNCHANGED <<memory, meta, clock>>
  BY DEF AddKb, memVars
<1>2. KbTypeOK'
  BY <1>1, Registered DEF KbIInv, KbTypeOK
<1>3. MemoriesAreKnown'
  <2>1. \A m \in Memories : KbIdOf[m] \in KbIds
    BY KbsAreMade
  <2> QED BY <1>1, <2>1, Registered DEF KbIInv, MemoriesAreKnown
<1>4. DefaultIsKnown'
  BY <1>1, Registered
<1> QED BY <1>2, <1>3, <1>4 DEF KbIInv

\* A removed graph is no default either, and no agent's memory.
LEMMA RemoveKbKnown ==
  ASSUME KbIInv, NEW id \in KbIds, RemoveKb(id)
  PROVE  KbIInv'
PROOF
<1>1. /\ \A m \in Memories : KbIdOf[m] # id
      /\ registry' = [registry EXCEPT ![id] = Absent]
      /\ default' = IF default # Absent /\ KbIdOf[default] = id THEN Absent ELSE default
      /\ UNCHANGED <<memory, meta, clock>>
  BY DEF RemoveKb, Forgotten, memVars
<1>2. KbTypeOK'
  BY <1>1 DEF KbIInv, KbTypeOK
<1>3. \A i \in KbIds : i # id => registry'[i] = registry[i]
  BY <1>1 DEF KbIInv, KbTypeOK
<1>4. \A k \in Kbs : KbIdOf[k] \in KbIds
  BY KbsAreMade
<1>5. DefaultIsKnown'
  BY <1>1, <1>3, <1>4 DEF KbIInv, KbTypeOK, DefaultIsKnown
<1>6. MemoriesAreKnown'
  BY <1>1, <1>3, <1>4, KbsAreMade DEF KbIInv, MemoriesAreKnown
<1> QED BY <1>2, <1>5, <1>6 DEF KbIInv

LEMMA NewMemoryKnown ==
  ASSUME KbIInv, NEW m \in Memories, NewMemory(m)
  PROVE  KbIInv'
PROOF
<1>1. /\ Register(m, FALSE) /\ memory' = [memory EXCEPT ![m] = Loaded]
      /\ UNCHANGED <<meta, clock>>
  BY DEF NewMemory
<1>2. m \in Kbs /\ \A n \in Memories : KbIdOf[n] \in KbIds
  BY KbsAreMade
<1>3. Loaded \in 0..MaxClock
  BY TimesAreNumbers DEF KbIInv, KbTypeOK, Loaded
<1>4. KbTypeOK'
  BY <1>1, <1>2, <1>3, Registered DEF KbIInv, KbTypeOK
<1>5. MemoriesAreKnown'
  <2> SUFFICES ASSUME NEW n \in Memories, memory'[n] # Absent
               PROVE  registry'[KbIdOf[n]] # Absent
    BY DEF MemoriesAreKnown
  <2>1. n = m \/ memory[n] # Absent
    BY <1>1 DEF KbIInv, KbTypeOK
  <2> QED BY <1>1, <1>2, <2>1, Registered DEF KbIInv, MemoriesAreKnown
<1>6. DefaultIsKnown'
  BY <1>1, <1>2, Registered
<1> QED BY <1>4, <1>5, <1>6 DEF KbIInv

LEMMA ThinkKnown ==
  ASSUME KbIInv, NEW m \in Memories, SetLastThinkTime(m)
  PROVE  KbIInv'
PROOF
<1>1. /\ memory[m] # Absent /\ clock < MaxClock /\ clock' = clock + 1
      /\ memory' = [memory EXCEPT ![m] = clock']
      /\ meta' = clock' \/ meta' \in {meta, Torn}
      /\ UNCHANGED <<registry, default>>
  BY DEF SetLastThinkTime, Saved, kgVars
<1>2. clock \in 0..MaxClock /\ MaxClock \in Nat /\ Torn \notin Nat
  BY TimesAreNumbers DEF KbIInv, KbTypeOK
<1>3. clock' \in 0..MaxClock /\ clock \in Nat /\ clock' > clock
  BY <1>1, <1>2
<1>4. KbTypeOK'
  BY <1>1, <1>3 DEF KbIInv, KbTypeOK
<1>5. MemoriesAreKnown'
  BY <1>1 DEF KbIInv, KbTypeOK, MemoriesAreKnown
<1>6. DefaultIsKnown'
  BY <1>1 DEF KbIInv, DefaultIsKnown
<1> QED BY <1>4, <1>5, <1>6 DEF KbIInv

LEMMA RestartKnown ==
  ASSUME KbIInv, Restart
  PROVE  KbIInv'
PROOF
<1>1. /\ registry' = [i \in KbIds |-> Absent] /\ default' = Absent
      /\ memory' = [m \in Memories |-> Absent] /\ meta' \in {meta, Torn} /\ clock' = clock
  BY DEF Restart
<1>2. KbTypeOK'
  BY <1>1 DEF KbIInv, KbTypeOK
<1>3. DefaultIsKnown' /\ MemoriesAreKnown'
  BY <1>1 DEF DefaultIsKnown, MemoriesAreKnown
<1> QED BY <1>2, <1>3 DEF KbIInv

-----------------------------------------------------------------------------
(* The tools of the language model.                                          *)

\* A tool finds a graph that is there, over a database that is there.
LEMMA FoundFacts ==
  ASSUME KbIInv, NEW i \in KbIds \cup {Absent}, Found(i) # Absent
  PROVE  Found(i) \in Kbs /\ DbOf[Found(i)] \in Dbs
PROOF
<1>1. Found(i) \in Kbs
  BY DEF Found, KbIInv, KbTypeOK
<1> QED BY <1>1, KbsAreMade

\* What an answer says about what was done.
AnswerHolds ==
  /\ answer'[1] \notin {"none", "OK", "set", "failed"} => UNCHANGED storeVars
  /\ answer'[1] = "failed" => UNCHANGED objects
  /\ answer'[1] = "set" =>
       \A d \in Dbs :
         /\ \A id \in Ids : objects[d][id] = Absent => objects'[d][id] = Absent
         /\ \A p \in Paths : links'[d][p] = links[d][p]

LEMMA AloneHolds ==
  ASSUME UNCHANGED storeVars
  PROVE  AnswerHolds
BY DEF AnswerHolds, storeVars

LEMMA Worded ==
  ASSUME NEW word, Answers(word, {})
  PROVE  answer'[1] = word /\ UNCHANGED <<kgVars, memVars>>
BY DEF Answers

\* Whatever a tool does, the registry and the memories stay, paths keep their
\* objects and the answer holds.
ToolIsHarmless == StoreIInv' /\ PathsKept /\ AnswerHolds /\ UNCHANGED <<kgVars, memVars>>

LEMMA ToolsChangeLittle ==
  ASSUME StoreIInv, KbIInv, ToolStep
  PROVE  ToolIsHarmless
PROOF
<1> USE DEF ToolIsHarmless
<1>1. ASSUME UNCHANGED storeVars, UNCHANGED <<kgVars, memVars>>
      PROVE  ToolIsHarmless
  BY <1>1, StoreAlone, AloneHolds
<1>2. ASSUME NEW i, NEW word, Says(i, word)
      PROVE  ToolIsHarmless
  BY <1>1, <1>2 DEF Says, Answers
<1>3. ASSUME NEW i, NEW x, NEW found, Reads(i, x, found)
      PROVE  ToolIsHarmless
  BY <1>1, <1>3 DEF Reads, Answers
<1>4. CASE ToolMisnamed
  BY <1>1, <1>4 DEF ToolMisnamed, Answers
<1>5. ASSUME NEW i \in KbIds \cup {Absent}, NEW b, ToolList(i, b) \/ ToolTree(i, b)
      PROVE  ToolIsHarmless
  BY <1>3, <1>5 DEF ToolList, ToolTree
<1>6. ASSUME NEW i \in KbIds \cup {Absent}, NEW p \in Paths \cup {Absent},
             ToolRead(i, p) \/ ToolLink(i, p)
      PROVE  ToolIsHarmless
  BY <1>2, <1>3, <1>6 DEF ToolRead, ToolLink
<1>7. ASSUME NEW i \in KbIds \cup {Absent}, NEW p \in Paths \cup {Absent}, ToolRemove(i, p)
      PROVE  ToolIsHarmless
  <2>1. CASE Found(i) = Absent \/ p = Absent
    BY <1>2, <1>7, <2>1 DEF ToolRemove
  <2>2. CASE ~(Found(i) = Absent \/ p = Absent)
    <3>1. /\ RemovePath(DbOf[Found(i)], p) /\ UNCHANGED <<kgVars, memVars>>
          /\ answer'[1] = "failed"
      BY <1>7, <2>2 DEF ToolRemove, Answers
    <3>2. DbOf[Found(i)] \in Dbs /\ p \in Paths
      BY <2>2, FoundFacts
    <3>3. AnswerHolds
      BY <3>1 DEF AnswerHolds, RemovePath
    <3> QED BY <3>1, <3>2, <3>3, RemovePathStore
  <2> QED BY <2>1, <2>2
<1>8. ASSUME NEW i \in KbIds \cup {Absent}, NEW id \in Ids \cup {Absent}, ToolGetObj(i, id)
      PROVE  ToolIsHarmless
  BY <1>3, <1>8 DEF ToolGetObj
<1>9. ASSUME NEW i \in KbIds \cup {Absent}, NEW id \in Ids \cup {Absent}, ToolRemoveObj(i, id)
      PROVE  ToolIsHarmless
  <2>1. \/ \E word : Says(i, word)
        \/ /\ Found(i) # Absent /\ id # Absent
           /\ RemoveObj(DbOf[Found(i)], id) /\ UNCHANGED <<kgVars, memVars>>
           /\ answer'[1] = "OK"
    BY <1>9, Worded DEF ToolRemoveObj
  <2>2. CASE \E word : Says(i, word)
    BY <1>2, <2>2
  <2>3. CASE /\ Found(i) # Absent /\ id # Absent
             /\ RemoveObj(DbOf[Found(i)], id) /\ UNCHANGED <<kgVars, memVars>>
             /\ answer'[1] = "OK"
    <3>1. DbOf[Found(i)] \in Dbs /\ id \in Ids
      BY <2>3, FoundFacts
    <3>2. AnswerHolds
      BY <2>3 DEF AnswerHolds
    <3> QED BY <2>3, <3>1, <3>2, RemoveObjStore
  <2> QED BY <2>1, <2>2, <2>3
<1>10. ASSUME NEW i \in KbIds \cup {Absent}, NEW id \in Ids \cup {Absent},
              NEW c \in Contents \cup {Absent}, NEW isDict \in BOOLEAN,
              ToolSetObj(i, id, c, isDict)
       PROVE  ToolIsHarmless
  <2>1. \/ \E word : Says(i, word)
        \/ /\ Found(i) # Absent /\ id # Absent /\ c # Absent
           /\ UpdateObj(DbOf[Found(i)], id, c) /\ UNCHANGED <<kgVars, memVars>>
           /\ answer'[1] = "set"
    BY <1>10, Worded DEF ToolSetObj
  <2>2. CASE \E word : Says(i, word)
    BY <1>2, <2>2
  <2>3. CASE /\ Found(i) # Absent /\ id # Absent /\ c # Absent
             /\ UpdateObj(DbOf[Found(i)], id, c) /\ UNCHANGED <<kgVars, memVars>>
             /\ answer'[1] = "set"
    <3>1. DbOf[Found(i)] \in Dbs /\ id \in Ids /\ c \in Contents
      BY <2>3, FoundFacts
    <3>2. NothingAdded /\ UNCHANGED links
      BY <2>3, <3>1, UpdateObjStore DEF UpdateObj
    <3>3. AnswerHolds
      BY <2>3, <3>2 DEF AnswerHolds, NothingAdded
    <3> QED BY <2>3, <3>1, <3>3, UpdateObjStore
  <2> QED BY <2>1, <2>2, <2>3
<1>11. ASSUME NEW i \in KbIds \cup {Absent}, NEW given, NEW b,
              ToolWrite(i, given) \/ ToolUnlink(i, b) \/ ToolUnknown(i, b)
       PROVE  ToolIsHarmless
  BY <1>2, <1>11 DEF ToolWrite, ToolUnlink, ToolUnknown
<1> QED BY <1>4, <1>5, <1>6, <1>7, <1>8, <1>9, <1>10, <1>11 DEF ToolStep, Or

-----------------------------------------------------------------------------
(* The steps together.                                                       *)

KgIInv == StoreIInv /\ KbIInv

LEMMA NextKg ==
  ASSUME KgIInv, [Next]_vars
  PROVE  /\ KgIInv'
         /\ PathsKept
         /\ AnswerHolds
PROOF
<1>1. StoreIInv /\ KbIInv
  BY DEF KgIInv
<1>2. answer' = None => AnswerHolds
  BY DEF None, AnswerHolds
<1>3. CASE UNCHANGED vars
  <2>1. UNCHANGED storeVars /\ UNCHANGED <<kgVars, memVars>>
    BY <1>3 DEF vars, storeVars, kgVars, memVars
  <2> QED BY <1>1, <2>1, StoreAlone, AloneHolds, KbAlone DEF KgIInv
<1>4. CASE KbStep
  <2>1. UNCHANGED <<kgVars, memVars>>
    BY <1>4 DEF KbStep, KbAddObj, KbUpdateObj, KbRemoveObj, KbRemove, KbLink, KbUnlink
  <2> QED BY <1>1, <1>2, <1>4, <2>1, KbStore, KbAlone DEF KgIInv
<1>5. CASE ToolStep
  BY <1>1, <1>5, ToolsChangeLittle, KbAlone DEF KgIInv, ToolIsHarmless
<1>6. ASSUME NEW k \in Kbs, NEW d \in BOOLEAN, AddKb(k, d)
      PROVE  KgIInv' /\ PathsKept /\ answer' = None
  <2>1. UNCHANGED storeVars /\ answer' = None
    BY <1>6 DEF AddKb, NoCall
  <2> QED BY <1>1, <1>6, <2>1, StoreAlone, AddKbKnown DEF KgIInv
<1>7. ASSUME NEW i \in KbIds, RemoveKb(i)
      PROVE  KgIInv' /\ PathsKept /\ answer' = None
  <2>1. UNCHANGED storeVars /\ answer' = None
    BY <1>7 DEF RemoveKb, NoCall
  <2> QED BY <1>1, <1>7, <2>1, StoreAlone, RemoveKbKnown DEF KgIInv
<1>8. ASSUME NEW m \in Memories, NewMemory(m)
      PROVE  KgIInv' /\ PathsKept /\ answer' = None
  <2>1. UNCHANGED storeVars /\ answer' = None
    BY <1>8 DEF NewMemory, NoCall
  <2> QED BY <1>1, <1>8, <2>1, StoreAlone, NewMemoryKnown DEF KgIInv
<1>9. ASSUME NEW m \in Memories, SetLastThinkTime(m)
      PROVE  KgIInv' /\ PathsKept /\ answer' = None
  <2>1. UNCHANGED storeVars /\ answer' = None
    BY <1>9 DEF SetLastThinkTime, NoCall
  <2> QED BY <1>1, <1>9, <2>1, StoreAlone, ThinkKnown DEF KgIInv
<1>10. CASE Restart
  <2>1. UNCHANGED storeVars /\ answer' = None
    BY <1>10 DEF Restart, NoCall
  <2> QED BY <1>1, <1>2, <1>10, <2>1, StoreAlone, RestartKnown DEF KgIInv
<1> QED BY <1>2, <1>3, <1>4, <1>5, <1>6, <1>7, <1>8, <1>9, <1>10 DEF Next

LEMMA InitKg == Init => KgIInv
PROOF
<1> SUFFICES ASSUME Init PROVE KgIInv
  OBVIOUS
<1>1. StoreTypeOK /\ IdsLead
  BY ContentsAreNoIds DEF Init, StoreInit, StoreTypeOK, IdsLead
<1>2. clock = 0 /\ meta = Absent /\ 0 \in 0..MaxClock
  BY TimesAreNumbers DEF Init
<1>3. KbTypeOK
  BY <1>2 DEF Init, KbTypeOK
<1>4. DefaultIsKnown /\ MemoriesAreKnown
  BY DEF Init, DefaultIsKnown, MemoriesAreKnown
<1> QED BY <1>1, <1>3, <1>4 DEF KgIInv, StoreIInv, KbIInv

\* Store, registry and memories keep their invariant (ObjFS, BaseKnowledgeGraph,
\* AgentMemory).
THEOREM KgInvariance == Spec => []KgIInv
PROOF
<1>1. KgIInv /\ [Next]_vars => KgIInv'
  BY NextKg
<1> QED BY InitKg, <1>1, PTL DEF Spec

\* Whatever leads somewhere leads to something that is there: a path to an id leads
\* to an object, the default and every name in a prompt to a graph the tools find
\* (remove_obj, remove_kb, prepare_knowledge_grpah_prompt).
THEOREM NamesLead == Spec => [](TypeOK /\ IdsLead /\ DefaultIsKnown /\ PromptedAreFound)
PROOF
<1>1. KgIInv => TypeOK /\ IdsLead /\ DefaultIsKnown /\ PromptedAreFound
  BY DEF KgIInv, StoreIInv, KbIInv, KbTypeOK, TypeOK, MemoriesAreKnown, PromptedAreFound,
     PromptedKbs
<1> QED BY <1>1, KgInvariance, PTL

\* Sequences of the same length with the same members are the same.
LEMMA SameSeq ==
  ASSUME NEW S, NEW s \in Seq(S), NEW t \in Seq(S), Len(s) = Len(t),
         \A i \in 1..Len(s) : s[i] = t[i]
  PROVE  s = t
PROOF
<1>1. DOMAIN s = 1..Len(s) /\ DOMAIN t = 1..Len(s)
  OBVIOUS
<1>2. s = [i \in 1..Len(s) |-> s[i]] /\ t = [i \in 1..Len(s) |-> t[i]]
  BY <1>1
<1> QED BY <1>2

LEMMA Joined ==
  ASSUME NEW a, NEW b, NEW c
  PROVE  /\ <<a>> \o <<>> = <<a>>
         /\ <<a>> \o <<b>> = <<a, b>>
         /\ <<a>> \o <<b, c>> = <<a, b, c>>
PROOF
<1> DEFINE S == {a, b, c}
<1>1. <<>> \in Seq(S) /\ <<a>> \in Seq(S) /\ <<b>> \in Seq(S) /\ <<a, b>> \in Seq(S)
        /\ <<b, c>> \in Seq(S) /\ <<a, b, c>> \in Seq(S)
  OBVIOUS
<1>2. ASSUME NEW s \in Seq(S)
      PROVE  /\ <<a>> \o s \in Seq(S) /\ Len(<<a>> \o s) = 1 + Len(s)
             /\ (<<a>> \o s)[1] = a
             /\ \A i \in 1..Len(s) : (<<a>> \o s)[i + 1] = s[i]
  BY <1>1
<1> HIDE DEF S
<1>3. <<a>> \o <<>> = <<a>>
  <2>1. Len(<<a>> \o <<>>) = 1 /\ (<<a>> \o <<>>)[1] = a /\ <<a>> \o <<>> \in Seq(S)
    BY <1>1, <1>2
  <2>2. \A i \in 1..1 : (<<a>> \o <<>>)[i] = <<a>>[i]
    BY <2>1
  <2> QED BY <1>1, <2>1, <2>2, SameSeq
<1>4. <<a>> \o <<b>> = <<a, b>>
  <2> DEFINE s == <<a>> \o <<b>>
  <2>1. Len(<<b>>) = 1 /\ <<b>>[1] = b /\ Len(<<a, b>>) = 2
    OBVIOUS
  <2>2. Len(s) = 2 /\ s[1] = a /\ s[1 + 1] = b /\ s \in Seq(S)
    BY <1>1, <1>2, <2>1
  <2>3. \A i \in 1..2 : s[i] = <<a, b>>[i]
    BY <2>2
  <2> QED BY <1>1, <2>1, <2>2, <2>3, SameSeq
<1>5. <<a>> \o <<b, c>> = <<a, b, c>>
  <2> DEFINE s == <<a>> \o <<b, c>>
  <2>1. /\ Len(<<b, c>>) = 2 /\ <<b, c>>[1] = b /\ <<b, c>>[2] = c
        /\ Len(<<a, b, c>>) = 3
    OBVIOUS
  <2>2. Len(s) = 3 /\ s[1] = a /\ s[1 + 1] = b /\ s[2 + 1] = c /\ s \in Seq(S)
    BY <1>1, <1>2, <2>1
  <2>3. \A i \in 1..3 : s[i] = <<a, b, c>>[i]
    BY <2>2
  <2> QED BY <1>1, <2>1, <2>2, <2>3, SameSeq
<1> QED BY <1>3, <1>4, <1>5

\* In the pattern of the root's listing a slash escapes a slash, and the percent sign
\* is left as it is.
LEMMA RootPattern == Unescaped(<<"/", "/", "ANY">>) = <<"/", "ANY">>
PROOF
<1> DEFINE P == <<"/", "/", "ANY">>
           Step(g, i) == IF i > Len(P) THEN <<>>
                         ELSE IF P[i] = "/"
                              THEN IF i = Len(P) THEN <<>>
                                   ELSE <<IF P[i + 1] = "ANY" THEN "%" ELSE P[i + 1]>>
                                        \o g[i + 2]
                         ELSE <<P[i]>> \o g[i + 1]
           Eq(g) == g = [i \in 1..(Len(P) + 2) |-> Step(g, i)]
           w == [i \in 1..5 |-> CASE i = 1 -> <<"/", "ANY">>
                                  [] i = 2 -> <<"%">>
                                  [] i = 3 -> <<"ANY">>
                                  [] OTHER -> <<>>]
<1>1. Len(P) = 3 /\ P[1] = "/" /\ P[2] = "/" /\ P[3] = "ANY"
  OBVIOUS
<1>2. /\ w[1] = <<"/", "ANY">> /\ w[2] = <<"%">> /\ w[3] = <<"ANY">>
      /\ w[4] = <<>> /\ w[5] = <<>>
  OBVIOUS
<1>3. Unescaped(P) = (CHOOSE g : Eq(g))[1]
  BY DEF Unescaped
<1> HIDE DEF P, w
<1>4. ASSUME NEW g
      PROVE  /\ Step(g, 1) = <<"/">> \o g[3]
             /\ Step(g, 2) = <<"%">> \o g[4]
             /\ Step(g, 3) = <<"ANY">> \o g[4]
             /\ Step(g, 4) = <<>> /\ Step(g, 5) = <<>>
  BY <1>1
<1>5. <<"/">> \o <<"ANY">> = <<"/", "ANY">> /\ <<"%">> \o <<>> = <<"%">>
        /\ <<"ANY">> \o <<>> = <<"ANY">>
  BY Joined
<1>6. 1..(Len(P) + 2) = {1, 2, 3, 4, 5}
  BY <1>1
<1>7. Eq(w)
  <2>1. \A i \in {1, 2, 3, 4, 5} : w[i] = Step(w, i)
    BY <1>2, <1>4, <1>5
  <2>2. w = [i \in {1, 2, 3, 4, 5} |-> w[i]]
    BY DEF w
  <2> HIDE DEF Step
  <2> QED BY <1>6, <2>1, <2>2
<1>8. ASSUME NEW g, Eq(g) PROVE g[1] = <<"/", "ANY">>
  <2>1. g[1] = Step(g, 1) /\ g[3] = Step(g, 3) /\ g[4] = Step(g, 4)
    <3> HIDE DEF Step
    <3> QED BY <1>6, <1>8
  <2>2. g[4] = <<>> /\ g[3] = <<"ANY">> \o g[4] /\ g[1] = <<"/">> \o g[3]
    BY <1>4, <2>1
  <2> QED BY <1>5, <2>2
<1> HIDE DEF Eq
<1>9. Eq(CHOOSE g : Eq(g))
  BY <1>7
<1>10. Unescaped(P) = <<"/", "ANY">>
  BY <1>3, <1>8, <1>9
<1> QED BY <1>10 DEF P

\* The listing of the root gives every absolute path and no other (list_paths).
LEMMA RootIsListed == RootListsAll
PROOF
<1>1. <<"/">> \o <<"/", "ANY">> = <<"/", "/", "ANY">>
  BY Joined
<1> DEFINE t == <<"/", "ANY">>
<1>2. t # <<>> /\ Last(t) = "ANY" /\ Front(t) = <<"/">>
  <2>1. Len(t) = 2 /\ t[2] = "ANY" /\ t[1] = "/" /\ t # <<>>
    OBVIOUS
  <2> DEFINE f == Front(t)
  <2>2. f = SubSeq(t, 1, 2 - 1)
    BY <2>1 DEF Front
  <2>3. f \in Seq({"/", "ANY"}) /\ Len(f) = 1 /\ f[1] = "/"
    BY <2>2
  <2>4. <<"/">> \in Seq({"/", "ANY"}) /\ Len(<<"/">>) = 1 /\ <<"/">>[1] = "/"
    OBVIOUS
  <2>5. \A i \in 1..1 : f[i] = <<"/">>[i]
    BY <2>3, <2>4
  <2>6. f = <<"/">>
    <3> HIDE DEF f
    <3> QED BY <2>3, <2>4, <2>5, SameSeq
  <2> QED BY <2>1, <2>6 DEF Last
<1>3. \A p \in Paths : Like(p, <<"/", "/", "ANY">>) <=> IsPrefix(<<"/">>, p)
  <2> HIDE DEF t
  <2>1. Unescaped(<<"/", "/", "ANY">>) = t
    BY RootPattern DEF t
  <2> QED BY <1>2, <2>1 DEF Like
<1> QED BY <1>1, <1>3 DEF RootListsAll, ListPaths

\* Whatever leads somewhere leads to something that is there: paths to objects, the
\* default and the names in prompts to graphs, the root to every path (remove_obj,
\* remove_kb, prepare_knowledge_grpah_prompt, list_paths).
THEOREM EverythingLeads == Spec => []GraphsLead
PROOF
<1>1. TypeOK /\ IdsLead /\ DefaultIsKnown /\ PromptedAreFound => GraphsLead
  BY RootIsListed DEF GraphsLead
<1> QED BY <1>1, NamesLead, PTL

\* No step takes a path from its object, no call of the model that is refused or raises
\* leaves a trace, and none brings back an object that was removed, whoever has removed it
\* (add_path, knwoledge_graph_update, update_obj).
THEOREM GraphsAreKept == Spec => GraphsKeep
PROOF
<1>1. KgIInv /\ [Next]_vars => [PathsKept]_vars
  BY NextKg
<1>2. KgIInv /\ [Next]_vars =>
        [/\ answer'[1] \notin {"none", "OK", "set", "failed"} => UNCHANGED storeVars
         /\ answer'[1] = "failed" => UNCHANGED objects]_vars
  BY NextKg DEF AnswerHolds
<1>3. KgIInv /\ [Next]_vars =>
        [answer'[1] = "set" =>
           \A d \in Dbs :
             /\ \A id \in Ids : objects[d][id] = Absent => objects'[d][id] = Absent
             /\ \A p \in Paths : links'[d][p] = links[d][p]]_vars
  BY NextKg DEF AnswerHolds
<1>4. Spec => PathsKeepTheirObject
  BY <1>1, KgInvariance, PTL DEF Spec, PathsKeepTheirObject, PathsKept
<1>5. Spec => RefusedLeavesNoTrace
  BY <1>2, KgInvariance, PTL DEF Spec, RefusedLeavesNoTrace
<1>6. Spec => StaleIdsStayGone
  BY <1>3, KgInvariance, PTL DEF Spec, StaleIdsStayGone
<1> QED BY <1>4, <1>5, <1>6 DEF GraphsKeep

-----------------------------------------------------------------------------
(* KnowledgeStore: least numbers, sequences.                                 *)

\* Naturals have a least one.
LEMMA LeastExists ==
  ASSUME NEW S \in SUBSET Nat, S # {}
  PROVE  \E j \in S : \A k \in S : j <= k
PROOF
<1> DEFINE R == {ss \in Nat \X Nat : ss[1] < ss[2]}
<1>1. IsWellFoundedOn(R, Nat)
  BY NatLessThanWellFounded DEF OpToRel
<1> HIDE DEF R
<1>2. PICK x \in S : \A y \in S : ~ (<<y, x>> \in R)
  BY <1>1, WFMin
<1>3. ASSUME NEW y \in S
      PROVE  x <= y
  <2>1. x \in Nat /\ y \in Nat /\ ~ (<<y, x>> \in R)
    BY <1>2
  <2>2. ~ (y < x)
    BY <2>1 DEF R
  <2> QED BY <2>1, <2>2
<1> QED BY <1>2, <1>3

\* What holds at 0 and goes on from each number to the next holds up to N.
LEMMA UpTo ==
  ASSUME NEW N \in Nat, NEW S, 0 \in S,
         \A k \in 0 .. N - 1 : k \in S => k + 1 \in S
  PROVE  \A k \in 0 .. N : k \in S
PROOF
<1> SUFFICES ASSUME (0 .. N) \ S # {} PROVE FALSE
  OBVIOUS
<1>1. PICK j \in (0 .. N) \ S : \A k \in (0 .. N) \ S : j <= k
  <2>1. (0 .. N) \ S \in SUBSET Nat
    OBVIOUS
  <2> QED BY <2>1, LeastExists
<1>2. j # 0 /\ j - 1 \in 0 .. N - 1 /\ j - 1 + 1 = j
  BY <1>1
<1>3. j - 1 \in S
  BY <1>1, <1>2
<1> QED BY <1>1, <1>2, <1>3

\* A set of integers with a bound below it has a least one.
LEMMA MinFacts ==
  ASSUME NEW S \in SUBSET Int, S # {}, NEW b \in Int, \A x \in S : b <= x
  PROVE  Min(S) \in S /\ \A y \in S : Min(S) <= y
PROOF
<1> DEFINE T == {x - b : x \in S}
<1>1. T \in SUBSET Nat /\ T # {}
  <2>1. \A x \in S : x - b \in Nat
    OBVIOUS
  <2> QED BY <2>1
<1>2. PICK j \in T : \A k \in T : j <= k
  <2> HIDE DEF T
  <2> QED BY <1>1, LeastExists
<1>3. PICK x \in S : j = x - b
  BY <1>2
<1>4. ASSUME NEW y \in S
      PROVE  x =< y
  <2>1. j <= y - b
    BY <1>2
  <2> QED BY <1>3, <2>1
<1> QED BY <1>3, <1>4 DEF Min

\* A set of integers with a bound above it has a greatest one.
LEMMA MaxFacts ==
  ASSUME NEW S \in SUBSET Int, S # {}, NEW b \in Int, \A x \in S : x <= b
  PROVE  Max(S) \in S /\ \A y \in S : y <= Max(S)
PROOF
<1> DEFINE T == {b - x : x \in S}
<1>1. T \in SUBSET Nat /\ T # {}
  <2>1. \A x \in S : b - x \in Nat
    OBVIOUS
  <2> QED BY <2>1
<1>2. PICK j \in T : \A k \in T : j <= k
  <2> HIDE DEF T
  <2> QED BY <1>1, LeastExists
<1>3. PICK x \in S : j = b - x
  BY <1>2
<1>4. ASSUME NEW y \in S
      PROVE  x >= y
  <2>1. j <= b - y
    BY <1>2
  <2> QED BY <1>3, <2>1
<1> QED BY <1>3, <1>4 DEF Max

-----------------------------------------------------------------------------
(* Cutting a text into pieces.                                               *)

Pair == Int \X Int

\* ps are the pieces of first..last, one behind the other, none of them empty.
Partition(ps, first, last) ==
  /\ ps \in Seq(Pair) /\ ps # << >>
  /\ \A k \in 1..Len(ps) : ps[k][1] <= ps[k][2]
  /\ ps[1][1] = first /\ ps[Len(ps)][2] = last
  /\ \A k \in 1..Len(ps) : k < Len(ps) => ps[k + 1][1] = ps[k][2] + 1

\* m after the matches that begin before p.
MatchOK(m, first, p) ==
  /\ m \in [found : Seq(Int), next : Int]
  /\ \A i \in 1..Len(m.found) : first <= m.found[i] /\ m.found[i] < p /\ m.found[i] < m.next
  /\ \A i \in 1..Len(m.found) : i < Len(m.found) => m.found[i] < m.found[i + 1]

LEMMA MatchOnOK ==
  ASSUME NEW text, NEW last, NEW sep, Len(sep) \in Nat \ {0}, NEW first \in Int, NEW p \in Int,
         first <= p, NEW m, MatchOK(m, first, p)
  PROVE  MatchOK(MatchOn(text, last, sep, m, p), first, p + 1)
PROOF
<1> DEFINE r == MatchOn(text, last, sep, m, p)
<1>0. r = m \/ (p >= m.next /\ r = [found |-> Append(m.found, p), next |-> p + Len(sep)])
  BY DEF MatchOn
<1> SUFFICES MatchOK(r, first, p + 1)
  OBVIOUS
<1> HIDE DEF r
<1>1. CASE r = m
  BY <1>1 DEF MatchOK
<1>2. CASE p >= m.next /\ r = [found |-> Append(m.found, p), next |-> p + Len(sep)]
  <2> DEFINE f == Append(m.found, p)
  <2>1. m.found \in Seq(Int) /\ Len(m.found) \in Nat /\ m.next \in Int
    BY DEF MatchOK
  <2>2. /\ f \in Seq(Int) /\ Len(f) = Len(m.found) + 1 /\ f[Len(m.found) + 1] = p
        /\ \A i \in 1..Len(m.found) : f[i] = m.found[i]
    BY <2>1
  <2> HIDE DEF f
  <2>3. r.found = f /\ r.next = p + Len(sep) /\ r \in [found : Seq(Int), next : Int]
    BY <1>2, <2>2 DEF f
  <2>4. ASSUME NEW i \in 1..Len(f)
        PROVE  first <= f[i] /\ f[i] < p + 1 /\ f[i] < p + Len(sep)
    <3>1. CASE i \in 1..Len(m.found)
      <4>1. f[i] = m.found[i] /\ m.found[i] \in Int /\ first <= m.found[i] /\ m.found[i] < p
        BY <2>1, <2>2, <3>1 DEF MatchOK
      <4> QED BY <4>1
    <3>2. CASE i = Len(m.found) + 1
      BY <2>2, <3>2
    <3> QED BY <2>1, <2>2, <3>1, <3>2
  <2>5. ASSUME NEW i \in 1..Len(f), i < Len(f)
        PROVE  f[i] < f[i + 1]
    <3>1. i \in 1..Len(m.found)
      BY <2>1, <2>2, <2>5
    <3>11. f[i] = m.found[i]
      BY <2>2, <3>1
    <3>2. CASE i < Len(m.found)
      <4> DEFINE j == i + 1
      <4>1. j \in 1..Len(m.found)
        BY <2>1, <3>1, <3>2
      <4> HIDE DEF j
      <4>2. f[j] = m.found[j]
        BY <2>2, <4>1
      <4>3. f[i + 1] = m.found[i + 1]
        BY <4>2 DEF j
      <4> QED BY <3>1, <3>11, <3>2, <4>3 DEF MatchOK
    <3>3. CASE i = Len(m.found)
      <4>1. m.found[i] < p
        BY <3>1 DEF MatchOK
      <4> QED BY <2>2, <3>1, <3>11, <3>3, <4>1
    <3> QED BY <2>1, <3>1, <3>2, <3>3
  <2> QED BY <2>3, <2>4, <2>5 DEF MatchOK
<1> QED BY <1>0, <1>1, <1>2

\* The matches in a piece begin in it, and one after the other.
LEMMA MatchesFacts ==
  ASSUME NEW text, NEW first \in Int, NEW last \in Int, first <= last, NEW sep,
         Len(sep) \in Nat \ {0}
  PROVE  LET found == Matches(text, <<first, last>>, sep)
         IN /\ found \in Seq(Int)
            /\ \A i \in 1..Len(found) : first <= found[i] /\ found[i] <= last
            /\ \A i \in 1..Len(found) : i < Len(found) => found[i] < found[i + 1]
PROOF
<1> DEFINE piece == <<first, last>>
           N == Length(piece)
           a == [found |-> << >>, next |-> piece[1]]
           Step(m, n) == MatchOn(text, piece[2], sep, m, piece[1] + n - 1)
           Eq(n, f) == f = [k \in 0..n |-> IF k = 0 THEN a ELSE Step(f[k - 1], k)]
<1>1. N \in Nat /\ N = last - first + 1
  BY DEF Length
<1>2. \E f : Eq(N, f)
  <2> DEFINE S == {n \in 0..N : \E f : Eq(n, f)}
  <2>1. 0 \in S
    <3> DEFINE f == [k \in 0..0 |-> a]
    <3>1. Eq(0, f)
      OBVIOUS
    <3>2. 0 \in 0..N
      BY <1>1
    <3> HIDE DEF f, Eq, N
    <3> QED BY <3>1, <3>2
  <2>2. ASSUME NEW n \in 0..N - 1, n \in S
        PROVE  n + 1 \in S
    <3>1. PICK f : Eq(n, f)
      BY <2>2
    <3> HIDE DEF a, Step, N
    <3> DEFINE g == [k \in 0..n + 1 |-> IF k = n + 1 THEN Step(f[n], n + 1) ELSE f[k]]
    <3>2. ASSUME NEW k \in 0..n + 1
          PROVE  g[k] = IF k = 0 THEN a ELSE Step(g[k - 1], k)
      <4>1. CASE k = 0
        BY <1>1, <3>1, <4>1
      <4>2. CASE k = n + 1
        BY <1>1, <4>2
      <4>3. CASE k # 0 /\ k # n + 1
        <5>1. k \in 0..n /\ k - 1 \in 0..n /\ k - 1 # n + 1 /\ k - 1 \in 0..n + 1
          BY <1>1, <4>3
        <5>2. g[k] = f[k] /\ g[k - 1] = f[k - 1]
          BY <4>3, <5>1
        <5>3. f[k] = Step(f[k - 1], k)
          BY <3>1, <4>3, <5>1
        <5> QED BY <4>3, <5>2, <5>3
      <4> QED BY <4>1, <4>2, <4>3
    <3>3. Eq(n + 1, g)
      BY <3>2
    <3>4. n + 1 \in 0..N
      BY <1>1
    <3> HIDE DEF g, Eq
    <3> QED BY <3>3, <3>4
  <2>3. \A n \in 0..N - 1 : n \in S => n + 1 \in S
    BY <2>2
  <2>4. N \in S
    <3>1. N \in 0..N
      BY <1>1
    <3> HIDE DEF S, N
    <3> QED BY <1>1, <2>1, <2>3, <3>1, UpTo
  <2> QED BY <2>4
<1> DEFINE f == CHOOSE f : Eq(N, f)
<1>3. Eq(N, f)
  BY <1>2
<1>4. Matches(text, piece, sep) = f[N].found
  BY DEF Matches
<1> HIDE DEF f, N
<1> DEFINE S == {n \in 0..N : MatchOK(f[n], first, first + n)}
<1>5. 0 \in S
  <2>1. f[0] = a
    BY <1>1, <1>3
  <2>2. MatchOK(a, first, first + 0)
    BY DEF MatchOK
  <2> QED BY <1>1, <2>1, <2>2
<1>6. ASSUME NEW n \in 0..N - 1, n \in S
      PROVE  n + 1 \in S
  <2>1. n + 1 \in 0..N /\ n + 1 # 0 /\ n + 1 - 1 = n
    BY <1>1
  <2>2. f[n + 1] = Step(f[n], n + 1)
    <3> HIDE DEF Step, a
    <3>1. \A k \in 0..N : f[k] = IF k = 0 THEN a ELSE Step(f[k - 1], k)
      BY <1>3
    <3> HIDE DEF Eq
    <3> DEFINE k == n + 1
    <3>2. k \in 0..N /\ k # 0 /\ k - 1 = n
      BY <2>1
    <3> HIDE DEF k
    <3>3. f[k] = Step(f[n], k)
      BY <3>1, <3>2
    <3> QED BY <3>3 DEF k
  <2>3. first + n \in Int /\ first <= first + n /\ piece[1] + (n + 1) - 1 = first + n
        /\ first + n + 1 = first + (n + 1)
    BY <1>1
  <2>4. MatchOK(f[n], first, first + n)
    BY <1>6
  <2> HIDE DEF N, Eq, a
  <2>5. MatchOK(f[n + 1], first, first + (n + 1))
    BY <2>2, <2>3, <2>4, MatchOnOK
  <2> QED BY <2>1, <2>5
<1>7. N \in S
  <2>1. \A n \in 0..N - 1 : n \in S => n + 1 \in S
    BY <1>6
  <2>2. N \in 0..N
    BY <1>1
  <2> HIDE DEF S, N
  <2> QED BY <1>1, <1>5, <2>1, <2>2, UpTo
<1>8. MatchOK(f[N], first, first + N) /\ first + N = last + 1
  BY <1>1, <1>7
<1> HIDE DEF N
<1>9. /\ f[N].found \in Seq(Int)
      /\ \A i \in 1..Len(f[N].found) : f[N].found[i] \in Int /\ first <= f[N].found[i]
                                       /\ f[N].found[i] < last + 1
      /\ \A i \in 1..Len(f[N].found) : i < Len(f[N].found) => f[N].found[i] < f[N].found[i + 1]
  BY <1>8 DEF MatchOK
<1> QED BY <1>4, <1>9

\* A separator that is not empty cuts where its matches begin, the empty one
\* everywhere: the pieces are those of the stretch that is cut.
LEMMA PiecesFacts ==
  ASSUME NEW text, NEW first \in Int, NEW last \in Int, first <= last, NEW sep,
         sep = << >> \/ Len(sep) \in Nat \ {0}
  PROVE  /\ Partition(PiecesOf(text, <<first, last>>, sep), first, last)
         /\ sep = << >> => \A k \in 1..Len(PiecesOf(text, <<first, last>>, sep)) :
                             Length(PiecesOf(text, <<first, last>>, sep)[k]) = 1
PROOF
<1> DEFINE piece == <<first, last>>
           ps == PiecesOf(text, piece, sep)
<1>1. CASE sep = << >>
  <2> DEFINE N == last - first + 1
             qs == [k \in 1..N |-> <<first + k - 1, first + k - 1>>]
  <2>1. ps = qs /\ N \in Nat \ {0}
    BY <1>1 DEF PiecesOf, Length
  <2>2. qs \in Seq(Pair) /\ Len(qs) = N /\ qs # << >>
    <3>1. \A k \in 1..N : <<first + k - 1, first + k - 1>> \in Pair
      BY DEF Pair
    <3>2. qs \in [1..N -> Pair]
      BY <3>1
    <3> HIDE DEF qs, N
    <3>3. qs \in Seq(Pair) /\ Len(qs) = N
      BY <2>1, <3>2, IsASeq, LenProperties
    <3> QED BY <2>1, <3>3
  <2>3. \A k \in 1..N : qs[k][1] = first + k - 1 /\ qs[k][2] = first + k - 1
    OBVIOUS
  <2>4. 1 \in 1..N /\ N \in 1..N /\ first + N - 1 = last
    BY <2>1
  <2>5. \A k \in 1..N : k < N => k + 1 \in 1..N /\ first + (k + 1) - 1 = (first + k - 1) + 1
    BY <2>1
  <2> HIDE DEF qs, N
  <2>6. Partition(qs, first, last)
    <3>1. qs[1][1] = first /\ qs[N][2] = last
      <4>1. first + 1 - 1 = first
        OBVIOUS
      <4> QED BY <2>3, <2>4, <4>1
    <3>2. \A k \in 1..N : qs[k][1] <= qs[k][2]
      <4>1. \A k \in 1..N : first + k - 1 <= first + k - 1
        BY <2>1
      <4> QED BY <2>3, <4>1
    <3>3. \A k \in 1..N : k < N => qs[k + 1][1] = qs[k][2] + 1
      BY <2>3, <2>5
    <3> QED BY <2>2, <3>1, <3>2, <3>3 DEF Partition
  <2>7. \A k \in 1..N : Length(qs[k]) = 1
    <3>1. \A k \in 1..N : (first + k - 1) - (first + k - 1) + 1 = 1
      BY <2>1
    <3> QED BY <2>3, <3>1 DEF Length
  <2> QED BY <2>1, <2>2, <2>6, <2>7
<1>2. CASE sep # << >>
  <2> DEFINE found == Matches(text, piece, sep)
             starts == IF found # << >> /\ found[1] = first THEN found ELSE <<first>> \o found
             qs == [k \in 1..Len(starts) |->
                      <<starts[k], IF k = Len(starts) THEN last ELSE starts[k + 1] - 1>>]
  <2>1. ps = qs
    BY <1>2 DEF PiecesOf
  <2>2. /\ found \in Seq(Int)
        /\ \A i \in 1..Len(found) : first <= found[i] /\ found[i] <= last
        /\ \A i \in 1..Len(found) : i < Len(found) => found[i] < found[i + 1]
    BY <1>2, MatchesFacts
  <2> HIDE DEF found
  <2>3. /\ starts \in Seq(Int) /\ starts # << >> /\ starts[1] = first
        /\ \A i \in 1..Len(starts) : first <= starts[i] /\ starts[i] <= last
        /\ \A i \in 1..Len(starts) : i < Len(starts) => starts[i] < starts[i + 1]
    <3>1. CASE found # << >> /\ found[1] = first
      BY <2>2, <3>1
    <3>2. CASE ~ (found # << >> /\ found[1] = first)
      <4> DEFINE st == <<first>> \o found
      <4>1. /\ st \in Seq(Int) /\ Len(st) = Len(found) + 1 /\ st[1] = first
            /\ \A i \in 1..Len(found) : st[i + 1] = found[i]
        BY <2>2
      <4> HIDE DEF st
      <4>2. Len(found) \in Nat /\ \A i \in 1..Len(found) : found[i] \in Int
        BY <2>2
      <4>3. ASSUME NEW i \in 1..Len(st)
            PROVE  st[i] \in Int /\ first <= st[i] /\ st[i] <= last /\ (i > 1 => st[i] = found[i - 1])
        <5>1. CASE i = 1
          BY <4>1, <5>1
        <5>2. CASE i > 1
          <6>1. i - 1 \in 1..Len(found) /\ i - 1 + 1 = i
            BY <4>1, <4>2, <5>2
          <6>2. st[i] = found[i - 1]
            BY <4>1, <6>1
          <6> QED BY <2>2, <4>2, <6>1, <6>2
        <5> QED BY <4>1, <4>2, <5>1, <5>2
      <4>4. ASSUME NEW i \in 1..Len(st), i < Len(st)
            PROVE  st[i] < st[i + 1]
        <5>1. i \in 1..Len(found)
          BY <4>1, <4>2, <4>4
        <5>2. st[i + 1] = found[i]
          BY <4>1, <5>1
        <5>3. CASE i = 1
          <6>1. found # << >> /\ found[1] # first
            BY <2>2, <3>2, <5>1, <5>3
          <6>2. first <= found[1] /\ found[1] \in Int
            BY <2>2, <4>2, <5>1, <5>3
          <6> QED BY <4>1, <5>2, <5>3, <6>1, <6>2
        <5>4. CASE i > 1
          <6>1. st[i] = found[i - 1] /\ i - 1 \in 1..Len(found) /\ i - 1 < Len(found) /\ i - 1 + 1 = i
            BY <4>2, <4>3, <5>1, <5>4
          <6>2. found[i - 1] < found[i]
            BY <2>2, <6>1
          <6> QED BY <5>2, <6>1, <6>2
        <5> QED BY <5>3, <5>4
      <4>5. st # << >>
        BY <4>1, <4>2
      <4>6. starts = st
        BY <3>2 DEF st
      <4> HIDE DEF starts
      <4> QED BY <4>1, <4>3, <4>4, <4>5, <4>6
    <3> QED BY <3>1, <3>2
  <2> HIDE DEF starts
  <2> DEFINE N == Len(starts)
  <2>4. N \in Nat \ {0} /\ \A i \in 1..N : starts[i] \in Int
    BY <2>3
  <2>5. ASSUME NEW k \in 1..N
        PROVE  /\ qs[k][1] = starts[k] /\ qs[k] \in Pair /\ qs[k][1] <= qs[k][2]
               /\ qs[k][2] = IF k = N THEN last ELSE starts[k + 1] - 1
    <3>1. CASE k = N
      BY <2>3, <2>4, <3>1 DEF Pair
    <3>2. CASE k # N
      <4>1. k + 1 \in 1..N /\ k < N
        BY <2>4, <3>2
      <4>2. starts[k] < starts[k + 1] /\ starts[k] \in Int /\ starts[k + 1] \in Int
        BY <2>3, <2>4, <4>1
      <4> QED BY <3>2, <4>2 DEF Pair
    <3> QED BY <3>1, <3>2
  <2>6. qs \in Seq(Pair) /\ Len(qs) = N /\ qs # << >>
    <3>1. qs = [k \in 1..N |-> qs[k]]
      OBVIOUS
    <3> HIDE DEF qs, N
    <3>2. qs \in [1..N -> Pair]
      BY <2>5, <3>1
    <3>3. qs \in Seq(Pair) /\ Len(qs) = N
      BY <2>4, <3>2, IsASeq, LenProperties
    <3> QED BY <2>4, <3>3
  <2> HIDE DEF qs
  <2>7. 1 \in 1..N /\ N \in 1..N
    BY <2>4
  <2>8. ASSUME NEW k \in 1..N, k < N
        PROVE  qs[k + 1][1] = qs[k][2] + 1
    <3>1. k + 1 \in 1..N /\ k # N
      BY <2>4, <2>8
    <3>2. qs[k + 1][1] = starts[k + 1] /\ qs[k][2] = starts[k + 1] - 1 /\ starts[k + 1] \in Int
      BY <2>4, <2>5, <3>1
    <3> HIDE DEF N
    <3> QED BY <3>2
  <2>9. qs[1][1] = first /\ qs[N][2] = last
    BY <2>3, <2>5, <2>7
  <2> HIDE DEF N
  <2>10. Partition(qs, first, last)
    BY <2>5, <2>6, <2>8, <2>9 DEF Partition
  <2> QED BY <1>2, <2>1, <2>10
<1> QED BY <1>1, <1>2

\* Pieces lie in the order of their numbers, within the stretch that was cut.
LEMMA PartitionOrder ==
  ASSUME NEW ps, NEW first \in Int, NEW last \in Int, Partition(ps, first, last)
  PROVE  /\ Len(ps) \in Nat \ {0}
         /\ \A k \in 1..Len(ps) : /\ ps[k][1] \in Int /\ ps[k][2] \in Int
                                  /\ first <= ps[k][1] /\ ps[k][1] <= ps[k][2] /\ ps[k][2] <= last
         /\ \A s, k \in 1..Len(ps) : s < k => ps[s][2] < ps[k][1]
PROOF
<1> DEFINE N == Len(ps)
<1>1. N \in Nat \ {0} /\ ps \in Seq(Pair)
  BY EmptySeq DEF Partition
<1>2. \A k \in 1..N : ps[k][1] \in Int /\ ps[k][2] \in Int /\ ps[k][1] <= ps[k][2]
  <2>1. \A k \in 1..N : ps[k] \in Pair
    BY <1>1, ElementOfSeq
  <2> QED BY <2>1 DEF Partition, Pair
<1>3. \A k \in 1..N : k < N => ps[k + 1][1] = ps[k][2] + 1
  BY DEF Partition
<1>4. \A s, k \in 1..N : s < k => ps[s][2] < ps[k][1]
  <2> SUFFICES ASSUME NEW s \in 1..N
               PROVE  \A k \in 1..N : s < k => ps[s][2] < ps[k][1]
    OBVIOUS
  <2> DEFINE S == {n \in 0..N - s : n > 0 => ps[s][2] < ps[s + n][1]}
  <2>1. 0 \in S /\ N - s \in Nat
    BY <1>1
  <2>2. ASSUME NEW n \in 0..(N - s) - 1, n \in S
        PROVE  n + 1 \in S
    <3> DEFINE k == s + n
    <3>1. k \in 1..N /\ k < N /\ k + 1 \in 1..N /\ k + 1 = s + (n + 1) /\ n + 1 \in 0..N - s
      BY <1>1
    <3>2. k = s \/ ps[s][2] < ps[k][1]
      BY <2>2
    <3> HIDE DEF N
    <3>3. ps[k + 1][1] = ps[k][2] + 1 /\ ps[k][1] <= ps[k][2] /\ ps[k][1] \in Int /\ ps[k][2] \in Int
          /\ ps[s][2] \in Int
      BY <1>2, <1>3, <3>1
    <3> HIDE DEF k
    <3>4. ps[s][2] < ps[k + 1][1]
      BY <3>2, <3>3
    <3> QED BY <3>1, <3>4
  <2>3. \A n \in 0..N - s : n \in S
    <3>1. \A n \in 0..(N - s) - 1 : n \in S => n + 1 \in S
      BY <2>2
    <3> DEFINE d == N - s
    <3> HIDE DEF d, S
    <3> QED BY <2>1, <3>1, UpTo DEF d
  <2>4. ASSUME NEW k \in 1..N, s < k
        PROVE  ps[s][2] < ps[k][1]
    <3>1. k - s \in 0..N - s /\ k - s > 0 /\ s + (k - s) = k
      BY <1>1, <2>4
    <3> QED BY <2>3, <3>1
  <2> QED BY <2>4
<1>5. ASSUME NEW k \in 1..N
      PROVE  first <= ps[k][1] /\ ps[k][2] <= last
  <2>1. ps[1][1] = first /\ ps[N][2] = last /\ 1 \in 1..N /\ N \in 1..N
    BY <1>1 DEF Partition
  <2>2. k = 1 \/ ps[1][2] < ps[k][1]
    BY <1>1, <1>4, <2>1
  <2>3. k = N \/ ps[k][2] < ps[N][1]
    BY <1>1, <1>4, <2>1
  <2> HIDE DEF N
  <2> QED BY <1>2, <2>1, <2>2, <2>3
<1> QED BY <1>1, <1>2, <1>4, <1>5

\* A part of the pieces are the pieces of their part of the text.
LEMMA SubPartition ==
  ASSUME NEW ps, NEW first \in Int, NEW last \in Int, Partition(ps, first, last),
         NEW s \in 1..Len(ps), NEW k \in 1..Len(ps), s <= k
  PROVE  LET qs == SubSeq(ps, s, k)
         IN /\ Partition(qs, ps[s][1], ps[k][2]) /\ Len(qs) = k - s + 1
            /\ \A i \in 1..Len(qs) : qs[i] = ps[s + i - 1]
PROOF
<1> DEFINE qs == SubSeq(ps, s, k)
           N == Len(ps)
<1>1. N \in Nat \ {0} /\ ps \in Seq(Pair)
  BY EmptySeq DEF Partition
<1>2. /\ qs \in Seq(Pair) /\ Len(qs) = k - s + 1
      /\ \A i \in 1..Len(qs) : qs[i] = ps[s + i - 1]
  BY <1>1
<1> HIDE DEF qs
<1> DEFINE n == Len(qs)
<1>3. n \in Nat \ {0} /\ n = k - s + 1 /\ s + 1 - 1 = s /\ s + n - 1 = k
  BY <1>1, <1>2
<1>4. \A i \in 1..n : s + i - 1 \in 1..N /\ (i < n => s + i - 1 < N /\ s + (i + 1) - 1 = (s + i - 1) + 1)
  BY <1>1, <1>3
<1>5. \A i \in 1..n : qs[i] = ps[s + i - 1]
  BY <1>2
<1> HIDE DEF n
<1>6. 1 \in 1..n /\ n \in 1..n /\ \A i \in 1..n : i < n => i + 1 \in 1..n
  BY <1>3
<1>7. qs[1] = ps[s] /\ qs[n] = ps[k]
  BY <1>3, <1>5, <1>6
<1>8. \A i \in 1..n : qs[i][1] <= qs[i][2]
  BY <1>4, <1>5 DEF Partition
<1>9. ASSUME NEW i \in 1..n, i < n
      PROVE  qs[i + 1][1] = qs[i][2] + 1
  <2> DEFINE j == s + i - 1
  <2>1. j \in 1..N /\ j < N /\ s + (i + 1) - 1 = j + 1 /\ i + 1 \in 1..n
    BY <1>4, <1>6, <1>9
  <2>2. qs[i] = ps[j] /\ qs[i + 1] = ps[j + 1]
    BY <1>5, <2>1
  <2> HIDE DEF j
  <2> QED BY <2>1, <2>2 DEF Partition
<1>10. qs # << >>
  BY <1>2, <1>3 DEF n
<1>11. Partition(qs, ps[s][1], ps[k][2])
  BY <1>2, <1>7, <1>8, <1>9, <1>10 DEF Partition, n
<1> QED BY <1>2, <1>11 DEF qs

-----------------------------------------------------------------------------
(* Chunks.                                                                   *)

\* Chunk d may follow c.
Follows(c, d) == c[1] <= d[1] /\ c[2] <= d[2] /\ c[2] - d[1] + 1 <= Overlap

\* What the property of the run says of the chunks of a text, here of a stretch.
Chunks(text, first, last, list) ==
  /\ list \in Seq(Pair)
  /\ \A k \in 1..Len(list) :
       /\ first <= list[k][1] /\ list[k][1] <= list[k][2] /\ list[k][2] <= last
       /\ Length(list[k]) <= ChunkSize
  /\ \A k \in 1..Len(list) : k < Len(list) => Follows(list[k], list[k + 1])
  /\ \A p \in first..last :
       text[p] \in Blanks \/ \E k \in 1..Len(list) : list[k][1] <= p /\ p <= list[k][2]

\* Concatenation, index by index.
LEMMA ConcatFacts ==
  ASSUME NEW S, NEW a \in Seq(S), NEW b \in Seq(S)
  PROVE  /\ a \o b \in Seq(S) /\ Len(a) \in Nat /\ Len(b) \in Nat
         /\ Len(a \o b) = Len(a) + Len(b)
         /\ \A k \in 1..Len(a) : (a \o b)[k] = a[k]
         /\ \A k \in 1..Len(b) : (a \o b)[Len(a) + k] = b[k]
PROOF
<1>1. Len(a) \in Nat /\ Len(b) \in Nat /\ a \o b \in Seq(S) /\ Len(a \o b) = Len(a) + Len(b)
  OBVIOUS
<1>2. ASSUME NEW k \in 1..Len(a)
      PROVE  (a \o b)[k] = a[k]
  BY <1>1
<1>3. ASSUME NEW k \in 1..Len(b)
      PROVE  (a \o b)[Len(a) + k] = b[k]
  BY <1>1
<1> QED BY <1>1, <1>2, <1>3

\* Chunks behind chunks, when the first of these may follow the last of those.
LEMMA ChunksBehind ==
  ASSUME NEW text, NEW first \in Int, NEW mid \in Int, NEW from \in Int, NEW last \in Int,
         first <= from, mid <= last, from <= mid + 1,
         NEW a, Chunks(text, first, mid, a), NEW b, Chunks(text, from, last, b),
         a # << >> /\ b # << >> => Follows(a[Len(a)], b[1])
  PROVE  Chunks(text, first, last, a \o b)
PROOF
<1> DEFINE c == a \o b
           m == Len(a)
           n == Len(b)
<1>1. a \in Seq(Pair) /\ b \in Seq(Pair)
  BY DEF Chunks
<1>2. /\ c \in Seq(Pair) /\ m \in Nat /\ n \in Nat /\ Len(c) = m + n
      /\ \A k \in 1..m : c[k] = a[k]
      /\ \A k \in 1..n : c[m + k] = b[k]
  BY <1>1, ConcatFacts
<1>3. a # << >> /\ b # << >> => Follows(a[m], b[1])
  OBVIOUS
<1>4. (m > 0 => a # << >>) /\ (n > 0 => b # << >>)
  BY <1>1
<1>5. /\ \A k \in 1..m : a[k] \in Pair /\ first <= a[k][1] /\ a[k][1] <= a[k][2] /\ a[k][2] <= mid
                         /\ Length(a[k]) <= ChunkSize
      /\ \A k \in 1..m : k < m => Follows(a[k], a[k + 1])
      /\ \A p \in first..mid : text[p] \in Blanks \/ \E k \in 1..m : a[k][1] <= p /\ p <= a[k][2]
  BY <1>1, ElementOfSeq DEF Chunks
<1>6. /\ \A k \in 1..n : b[k] \in Pair /\ from <= b[k][1] /\ b[k][1] <= b[k][2] /\ b[k][2] <= last
                         /\ Length(b[k]) <= ChunkSize
      /\ \A k \in 1..n : k < n => Follows(b[k], b[k + 1])
      /\ \A p \in from..last : text[p] \in Blanks \/ \E k \in 1..n : b[k][1] <= p /\ p <= b[k][2]
  BY <1>1, ElementOfSeq DEF Chunks
<1> HIDE DEF c, m, n
<1>7. \A k \in 1..m + n : k \in 1..m \/ (k - m \in 1..n /\ m + (k - m) = k)
  BY <1>2
<1>8. ASSUME NEW k \in 1..m + n
      PROVE  /\ first <= c[k][1] /\ c[k][1] <= c[k][2] /\ c[k][2] <= last
             /\ Length(c[k]) <= ChunkSize
  <2>1. CASE k \in 1..m
    <3>1. c[k] = a[k] /\ a[k] \in Pair
      BY <1>2, <1>5, <2>1
    <3>2. a[k][2] <= mid /\ a[k][2] \in Int
      BY <1>5, <2>1, <3>1 DEF Pair
    <3>3. a[k][2] <= last
      BY <3>2
    <3> QED BY <1>5, <2>1, <3>1, <3>3
  <2>2. CASE k - m \in 1..n /\ m + (k - m) = k
    <3> DEFINE j == k - m
    <3>1. c[k] = b[j] /\ b[j] \in Pair /\ j \in 1..n
      BY <1>2, <1>6, <2>2
    <3>2. from <= b[j][1] /\ b[j][1] \in Int
      BY <1>6, <3>1 DEF Pair
    <3>3. first <= b[j][1]
      BY <3>2
    <3> HIDE DEF j
    <3> QED BY <1>6, <3>1, <3>3
  <2> QED BY <1>7, <2>1, <2>2
<1>9. ASSUME NEW k \in 1..m + n, k < m + n
      PROVE  Follows(c[k], c[k + 1])
  <2>1. CASE k < m
    <3>1. k \in 1..m /\ k + 1 \in 1..m
      BY <1>2, <2>1
    <3> QED BY <1>2, <1>5, <2>1, <3>1
  <2>2. CASE k = m
    <3>1. k \in 1..m /\ 1 \in 1..n /\ m > 0 /\ n > 0
      BY <1>2, <1>9, <2>2
    <3>2. c[k] = a[m] /\ c[k + 1] = b[1]
      BY <1>2, <2>2, <3>1
    <3> QED BY <1>3, <1>4, <3>1, <3>2
  <2>3. CASE k > m
    <3> DEFINE j == k - m
    <3>1. j \in 1..n /\ j < n /\ j + 1 \in 1..n /\ m + j = k /\ m + (j + 1) = k + 1
      BY <1>2, <1>9, <2>3
    <3>2. c[m + j] = b[j] /\ c[m + (j + 1)] = b[j + 1]
      BY <1>2, <3>1
    <3> HIDE DEF j
    <3> QED BY <1>6, <3>1, <3>2
  <2> QED BY <1>2, <2>1, <2>2, <2>3
<1>10. ASSUME NEW p \in first..last, text[p] \notin Blanks
       PROVE  \E k \in 1..m + n : c[k][1] <= p /\ p <= c[k][2]
  <2>1. p \in first..mid \/ p \in from..last
    OBVIOUS
  <2>2. CASE p \in first..mid
    <3>1. PICK k \in 1..m : a[k][1] <= p /\ p <= a[k][2]
      BY <1>5, <1>10, <2>2
    <3>2. c[k] = a[k] /\ k \in 1..m + n
      BY <1>2
    <3> QED BY <3>1, <3>2
  <2>3. CASE p \in from..last
    <3>1. PICK k \in 1..n : b[k][1] <= p /\ p <= b[k][2]
      BY <1>6, <1>10, <2>3
    <3>2. c[m + k] = b[k] /\ m + k \in 1..m + n
      BY <1>2
    <3> QED BY <3>1, <3>2
  <2> QED BY <2>1, <2>2, <2>3
<1>11. Chunks(text, first, last, c)
  BY <1>2, <1>8, <1>9, <1>10 DEF Chunks
<1> QED BY <1>11 DEF c

\* Chunks of a stretch and of the one behind it.
LEMMA ChunksJoin ==
  ASSUME NEW text, NEW first \in Int, NEW mid \in Int, NEW last \in Int,
         first <= mid + 1, mid <= last,
         NEW a, Chunks(text, first, mid, a), NEW b, Chunks(text, mid + 1, last, b)
  PROVE  Chunks(text, first, last, a \o b)
PROOF
<1>1. ASSUME a # << >>, b # << >>
      PROVE  Follows(a[Len(a)], b[1])
  <2>1. a \in Seq(Pair) /\ b \in Seq(Pair)
    BY DEF Chunks
  <2>2. Len(a) \in 1..Len(a) /\ 1 \in 1..Len(b) /\ a[Len(a)] \in Pair /\ b[1] \in Pair
    <3>1. Len(a) \in 1..Len(a) /\ 1 \in 1..Len(b)
      BY <1>1, <2>1, EmptySeq
    <3> QED BY <2>1, <3>1, ElementOfSeq
  <2> DEFINE c == a[Len(a)]
             d == b[1]
  <2>3. /\ c[1] \in Int /\ c[2] \in Int /\ d[1] \in Int /\ d[2] \in Int
        /\ c[1] <= c[2] /\ c[2] <= mid /\ mid + 1 <= d[1] /\ d[1] <= d[2]
    BY <2>2 DEF Chunks, Pair
  <2>4. Overlap \in Nat
    BY SplitAssumption
  <2> HIDE DEF c, d
  <2>5. Follows(c, d)
    BY <2>3, <2>4 DEF Follows
  <2> QED BY <2>5 DEF c, d
<1>2. mid + 1 \in Int /\ mid + 1 <= mid + 1
  OBVIOUS
<1> QED BY <1>1, <1>2, ChunksBehind

\* _join_docs strips the blanks off both ends of a stretch and loses nothing else.
LEMMA StrippedFacts ==
  ASSUME NEW text, NEW first \in Int, NEW last \in Int
  PROVE  LET doc == Stripped(text, first, last)
         IN \/ /\ doc = << >>
               /\ \A p \in first..last : text[p] \in Blanks
            \/ \E d \in Pair :
                 /\ doc = <<d>>
                 /\ first <= d[1] /\ d[1] <= d[2] /\ d[2] <= last
                 /\ text[d[1]] \notin Blanks /\ text[d[2]] \notin Blanks
                 /\ \A p \in first..last : text[p] \in Blanks \/ (d[1] <= p /\ p <= d[2])
PROOF
<1> DEFINE solid == {p \in first..last : text[p] \notin Blanks}
<1>1. CASE solid = {}
  <2>1. Stripped(text, first, last) = << >>
    BY <1>1 DEF Stripped
  <2>2. \A p \in first..last : text[p] \in Blanks
    BY <1>1
  <2> QED BY <2>1, <2>2
<1>2. CASE solid # {}
  <2> DEFINE d == <<Min(solid), Max(solid)>>
  <2>1. Stripped(text, first, last) = <<d>>
    BY <1>2 DEF Stripped
  <2>2. solid \in SUBSET Int /\ \A p \in solid : first <= p /\ p <= last /\ text[p] \notin Blanks
    OBVIOUS
  <2>3. \A p \in first..last : text[p] \in Blanks \/ p \in solid
    OBVIOUS
  <2> HIDE DEF solid
  <2>4. Min(solid) \in solid /\ \A p \in solid : Min(solid) <= p
    BY <1>2, <2>2, MinFacts
  <2>5. Max(solid) \in solid /\ \A p \in solid : p <= Max(solid)
    BY <1>2, <2>2, MaxFacts
  <2>6. d \in Pair /\ d[1] = Min(solid) /\ d[2] = Max(solid)
    BY <2>2, <2>4, <2>5 DEF Pair
  <2> HIDE DEF d
  <2>7. /\ first <= d[1] /\ d[1] <= d[2] /\ d[2] <= last
        /\ text[d[1]] \notin Blanks /\ text[d[2]] \notin Blanks
    BY <2>2, <2>4, <2>5, <2>6
  <2>8. \A p \in first..last : text[p] \in Blanks \/ (d[1] <= p /\ p <= d[2])
    BY <2>3, <2>4, <2>5, <2>6
  <2> QED BY <2>1, <2>6, <2>7, <2>8
<1> QED BY <1>1, <1>2

\* What is stripped is one chunk, or none, of the stretch.
LEMMA StrippedChunks ==
  ASSUME NEW text, NEW first \in Int, NEW last \in Int, last - first + 1 <= ChunkSize
  PROVE  Chunks(text, first, last, Stripped(text, first, last))
PROOF
<1> DEFINE doc == Stripped(text, first, last)
<1>1. CASE doc = << >> /\ \A p \in first..last : text[p] \in Blanks
  BY <1>1 DEF Chunks
<1>2. ASSUME NEW d \in Pair, doc = <<d>>, first <= d[1], d[1] <= d[2], d[2] <= last,
             \A p \in first..last : text[p] \in Blanks \/ (d[1] <= p /\ p <= d[2])
      PROVE  Chunks(text, first, last, doc)
  <2>1. d[1] \in Int /\ d[2] \in Int /\ ChunkSize \in Int
    BY SplitAssumption DEF Pair
  <2>2. Length(d) <= ChunkSize
    BY <1>2, <2>1 DEF Length
  <2> DEFINE list == <<d>>
  <2>3. list \in Seq(Pair) /\ Len(list) = 1 /\ list[1] = d
    OBVIOUS
  <2> HIDE DEF list
  <2>4. Chunks(text, first, last, list)
    BY <1>2, <2>2, <2>3 DEF Chunks
  <2> QED BY <1>2, <2>4 DEF list
<1> QED BY <1>1, <1>2, StrippedFacts

\* When the loop has popped what it must, what is left is an overlap, and the next
\* piece fits behind it.
LEMMA PoppedFacts ==
  ASSUME NEW ps, NEW first \in Int, NEW last \in Int, Partition(ps, first, last),
         NEW k \in 1..Len(ps), Length(ps[k]) < ChunkSize, NEW s \in 1..k
  PROVE  LET t == Popped(ps, s, k)
         IN /\ t \in s..k
            /\ ps[k][1] - ps[t][1] <= Overlap
            /\ ps[k][2] - ps[t][1] + 1 <= ChunkSize
PROOF
<1> DEFINE T == {t \in s..k : LET total == ps[k][1] - ps[t][1]
                              IN total <= Overlap
                                 /\ (total = 0 \/ total + Length(ps[k]) <= ChunkSize)}
<1>1. Popped(ps, s, k) = Min(T)
  BY DEF Popped
<1>2. /\ Len(ps) \in Nat \ {0}
      /\ \A i \in 1..Len(ps) : ps[i][1] \in Int /\ ps[i][2] \in Int
  BY PartitionOrder
<1>3. Overlap \in Nat /\ ChunkSize \in Nat
  BY SplitAssumption
<1>4. T \in SUBSET Int /\ \A t \in T : s <= t
  BY <1>2
<1>5. k \in T
  <2>1. k \in s..k /\ ps[k][1] - ps[k][1] = 0
    BY <1>2
  <2> QED BY <1>3, <2>1
<1>6. Min(T) \in T
  <2>1. s \in Int /\ T # {}
    BY <1>5
  <2> HIDE DEF T
  <2> QED BY <1>4, <2>1, MinFacts
<1> DEFINE t == Min(T)
           total == ps[k][1] - ps[t][1]
<1>7. /\ t \in s..k /\ total <= Overlap
      /\ (total = 0 \/ total + Length(ps[k]) <= ChunkSize)
  BY <1>6
<1> HIDE DEF T, t
<1>8. t \in 1..Len(ps) /\ ps[t][1] \in Int /\ ps[k][1] \in Int /\ ps[k][2] \in Int
  BY <1>2, <1>7
<1>9. ps[k][2] - ps[t][1] + 1 = total + Length(ps[k]) /\ total \in Int /\ Length(ps[k]) \in Int
  BY <1>8 DEF Length
<1>10. ps[k][2] - ps[t][1] + 1 <= ChunkSize
  <2> HIDE DEF total
  <2> QED BY <1>3, <1>7, <1>9
<1> QED BY <1>1, <1>7, <1>10 DEF t

\* Nothing but blanks lies between from and the last chunk, which ends with a letter:
\* what is stripped from there on does not begin or end before it.
Ahead(text, docs, from) ==
  docs # << >> =>
    LET d == docs[Len(docs)]
    IN text[d[2]] \notin Blanks /\ \A p \in from..(d[1] - 1) : text[p] \in Blanks

\* A stripped stretch that shares no more than the overlap with the chunks before it
\* may follow them.
LEMMA StrippedBehind ==
  ASSUME NEW text, NEW first \in Int, NEW e \in Int, NEW from \in Int, NEW last \in Int,
         first <= from, from <= e + 1, e <= last, e + 1 - from <= Overlap,
         last - from + 1 <= ChunkSize,
         NEW docs, Chunks(text, first, e, docs), Ahead(text, docs, from)
  PROVE  /\ Chunks(text, first, last, docs \o Stripped(text, from, last))
         /\ Ahead(text, docs \o Stripped(text, from, last), from)
PROOF
<1> DEFINE doc == Stripped(text, from, last)
           all == docs \o doc
<1> SUFFICES Chunks(text, first, last, all) /\ Ahead(text, all, from)
  OBVIOUS
<1>1. Chunks(text, from, last, doc)
  BY StrippedChunks
<1>2. docs \in Seq(Pair) /\ doc \in Seq(Pair)
  BY <1>1 DEF Chunks
<1>3. CASE doc = << >>
  <2>1. all = docs
    BY <1>2, <1>3
  <2>2. Chunks(text, first, last, all)
    <3>1. docs # << >> /\ doc # << >> => Follows(docs[Len(docs)], doc[1])
      BY <1>3
    <3> HIDE DEF doc
    <3> QED BY <1>1, <3>1, ChunksBehind
  <2> QED BY <2>1, <2>2
<1>4. ASSUME NEW d \in Pair, doc = <<d>>, from <= d[1], d[1] <= d[2], d[2] <= last,
             text[d[1]] \notin Blanks, text[d[2]] \notin Blanks,
             \A p \in from..last : text[p] \in Blanks \/ (d[1] <= p /\ p <= d[2])
      PROVE  Chunks(text, first, last, all) /\ Ahead(text, all, from)
  <2>1. d[1] \in Int /\ d[2] \in Int /\ Overlap \in Int
    BY SplitAssumption DEF Pair
  <2>2. ASSUME docs # << >>
        PROVE  Follows(docs[Len(docs)], d)
    <3> DEFINE c == docs[Len(docs)]
    <3>1. Len(docs) \in 1..Len(docs)
      BY <1>2, <2>2
    <3>2. c \in Pair /\ c[1] <= c[2] /\ c[2] <= e
      BY <1>2, <3>1, ElementOfSeq DEF Chunks
    <3>3. text[c[2]] \notin Blanks /\ \A p \in from..(c[1] - 1) : text[p] \in Blanks
      BY <2>2 DEF Ahead
    <3> HIDE DEF c
    <3>4. c[1] \in Int /\ c[2] \in Int
      BY <3>2 DEF Pair
    <3>5. c[2] - d[1] + 1 <= Overlap
      BY <1>4, <2>1, <3>2, <3>4
    <3>6. c[1] <= d[1]
      <4>1. d[1] \notin from..(c[1] - 1)
        BY <1>4, <3>3
      <4> QED BY <1>4, <2>1, <3>4, <4>1
    <3>7. c[2] <= d[2]
      <4>1. c[2] \in from..last => c[2] <= d[2]
        BY <1>4, <3>3
      <4>2. c[2] \in from..last \/ c[2] < from
        BY <3>2, <3>4
      <4>3. c[2] < from => c[2] <= d[2]
        BY <1>4, <2>1, <3>4
      <4> QED BY <4>1, <4>2, <4>3
    <3>8. Follows(c, d)
      BY <3>5, <3>6, <3>7 DEF Follows
    <3> QED BY <3>8 DEF c
  <2>3. doc[1] = d
    BY <1>4
  <2>4. docs # << >> /\ doc # << >> => Follows(docs[Len(docs)], doc[1])
    BY <2>2, <2>3
  <2>5. Chunks(text, first, last, all)
    <3> HIDE DEF doc
    <3> QED BY <1>1, <2>4, ChunksBehind
  <2>6. Len(all) = Len(docs) + 1 /\ all[Len(docs) + 1] = d
    BY <1>2, <1>4
  <2>7. \A p \in from..(d[1] - 1) : text[p] \in Blanks
    BY <1>4, <2>1
  <2> HIDE DEF all
  <2>8. Ahead(text, all, from)
    BY <1>4, <2>6, <2>7 DEF Ahead
  <2> QED BY <2>5, <2>8
<1>5. \/ doc = << >>
      \/ \E d \in Pair : /\ doc = <<d>>
                         /\ from <= d[1] /\ d[1] <= d[2] /\ d[2] <= last
                         /\ text[d[1]] \notin Blanks /\ text[d[2]] \notin Blanks
                         /\ \A p \in from..last : text[p] \in Blanks \/ (d[1] <= p /\ p <= d[2])
  BY StrippedFacts
<1> HIDE DEF doc, all
<1> QED BY <1>3, <1>4, <1>5

\* The state m of _merge_splits after piece k: the pieces from m.s to k fit in a chunk
\* that shares no more than the overlap with the chunks made so far.
MergeOK(text, ps, m, k) ==
  /\ m \in [docs : Seq(Pair), s : 1..k]
  /\ ps[k][2] - ps[m.s][1] + 1 <= ChunkSize
  /\ \E e \in Int :
       /\ e <= ps[k][2] /\ ps[m.s][1] <= e + 1 /\ e + 1 - ps[m.s][1] <= Overlap
       /\ Chunks(text, ps[1][1], e, m.docs)
  /\ Ahead(text, m.docs, ps[m.s][1])

LEMMA MergeOnOK ==
  ASSUME NEW text, NEW ps, NEW first \in Int, NEW last \in Int, Partition(ps, first, last),
         \A i \in 1..Len(ps) : Length(ps[i]) < ChunkSize,
         NEW k \in 1..Len(ps) - 1, NEW m, MergeOK(text, ps, m, k)
  PROVE  MergeOK(text, ps, MergeOn(text, ps, m, k + 1), k + 1)
PROOF
<1> DEFINE N == Len(ps)
           j == k + 1
           s == m.s
           r == MergeOn(text, ps, m, j)
<1>1. /\ N \in Nat \ {0}
      /\ \A i \in 1..N : /\ ps[i][1] \in Int /\ ps[i][2] \in Int
                         /\ first <= ps[i][1] /\ ps[i][1] <= ps[i][2] /\ ps[i][2] <= last
      /\ \A a, b \in 1..N : a < b => ps[a][2] < ps[b][1]
  BY PartitionOrder
<1>2. k \in 1..N /\ j \in 1..N /\ k < j /\ j - 1 = k /\ s \in 1..k /\ s \in 1..N /\ 1 \in 1..N
      /\ s \in 1..j /\ s < j /\ m.docs \in Seq(Pair) /\ s \in Nat /\ k \in Nat /\ j \in Nat
  BY <1>1 DEF MergeOK
<1>21. ps[j][1] = ps[k][2] + 1 /\ ps[1][1] = first
  <2>1. k < N
    BY <1>1
  <2> QED BY <1>2, <2>1 DEF Partition
<1>3. PICK e \in Int : /\ e <= ps[k][2] /\ ps[s][1] <= e + 1 /\ e + 1 - ps[s][1] <= Overlap
                       /\ Chunks(text, ps[1][1], e, m.docs)
  BY DEF MergeOK
<1>4. Ahead(text, m.docs, ps[s][1]) /\ ps[k][2] - ps[s][1] + 1 <= ChunkSize
      /\ m = [docs |-> m.docs, s |-> s]
  BY DEF MergeOK
<1>5. Overlap \in Nat /\ ChunkSize \in Nat
  BY SplitAssumption
<1> SUFFICES MergeOK(text, ps, r, j)
  OBVIOUS
<1> HIDE DEF j, N, s
<1>51. /\ ps[j][1] \in Int /\ ps[j][2] \in Int /\ ps[j][1] <= ps[j][2]
       /\ ps[k][1] \in Int /\ ps[k][2] \in Int /\ ps[k][1] <= ps[k][2]
       /\ ps[k][2] + 1 = ps[j][1]
  BY <1>1, <1>2, <1>21
<1>6. CASE ps[j][2] - ps[s][1] + 1 <= ChunkSize
  <2>1. r = m
    BY <1>6 DEF MergeOn, s
  <2>2. e <= ps[j][2]
    BY <1>3, <1>51
  <2>3. m \in [docs : Seq(Pair), s : 1..j]
    BY <1>2, <1>4
  <2> QED BY <1>3, <1>4, <1>6, <2>1, <2>2, <2>3 DEF MergeOK, s
<1>7. CASE ~ (ps[j][2] - ps[s][1] + 1 <= ChunkSize)
  <2> DEFINE t == Popped(ps, s, j)
             doc == Stripped(text, ps[s][1], ps[k][2])
             docs == m.docs \o doc
  <2>1. r = [docs |-> docs, s |-> t]
    BY <1>2, <1>7 DEF MergeOn, s
  <2>2. /\ t \in s..j
        /\ ps[j][1] - ps[t][1] <= Overlap
        /\ ps[j][2] - ps[t][1] + 1 <= ChunkSize
    BY <1>2, PoppedFacts DEF N
  <2>3. ps[s][1] \in Int /\ ps[k][2] \in Int /\ first <= ps[s][1] /\ ps[1][1] = first
    BY <1>1, <1>2, <1>21
  <2>4. Chunks(text, first, ps[k][2], docs) /\ Ahead(text, docs, ps[s][1])
    BY <1>3, <1>4, <2>3, StrippedBehind
  <2> HIDE DEF t, docs
  <2>5. t \in 1..j /\ t \in 1..N /\ ps[t][1] \in Int /\ ps[s][1] <= ps[t][1] /\ ps[t][1] <= ps[j][1]
    <3>1. t \in 1..j /\ t \in 1..N /\ (t = s \/ s < t) /\ (t = j \/ t < j)
      BY <1>1, <1>2, <2>2
    <3>2. (t = s \/ ps[s][2] < ps[t][1]) /\ (t = j \/ ps[t][2] < ps[j][1])
      BY <1>1, <1>2, <3>1
    <3>3. /\ ps[t][1] \in Int /\ ps[t][2] \in Int /\ ps[t][1] <= ps[t][2]
          /\ ps[s][1] \in Int /\ ps[s][2] \in Int /\ ps[s][1] <= ps[s][2]
      BY <1>1, <1>2, <3>1
    <3>4. ps[s][1] <= ps[t][1]
      BY <3>1, <3>2, <3>3
    <3>5. ps[t][1] <= ps[j][1]
      BY <1>51, <3>1, <3>2, <3>3
    <3> QED BY <3>1, <3>3, <3>4, <3>5
  <2>6. docs \in Seq(Pair)
    BY <2>4 DEF Chunks
  <2>7. Ahead(text, docs, ps[t][1])
    <3>1. \A d \in Pair : ps[t][1]..(d[1] - 1) \subseteq ps[s][1]..(d[1] - 1)
      BY <2>3, <2>5 DEF Pair
    <3>2. docs # << >> => docs[Len(docs)] \in Pair
      BY <2>6
    <3> QED BY <2>4, <3>1, <3>2 DEF Ahead
  <2>8. ps[k][2] <= ps[j][2] /\ ps[t][1] <= ps[k][2] + 1 /\ ps[k][2] + 1 - ps[t][1] <= Overlap
    <3> DEFINE x == ps[k][2]
               y == ps[j][1]
               z == ps[t][1]
    <3>1. x \in Int /\ y = x + 1 /\ z \in Int /\ z <= y /\ y <= ps[j][2] /\ y - z <= Overlap
          /\ ps[j][2] \in Int
      BY <1>51, <2>2, <2>5
    <3> HIDE DEF x, y, z
    <3>2. x <= ps[j][2] /\ z <= x + 1 /\ x + 1 - z <= Overlap
      BY <1>5, <3>1
    <3> QED BY <3>2 DEF x, z
  <2>9. r.docs = docs /\ r.s = t /\ r \in [docs : Seq(Pair), s : 1..j]
    BY <2>1, <2>5, <2>6
  <2> HIDE DEF r
  <2> QED BY <2>2, <2>3, <2>4, <2>7, <2>8, <2>9 DEF MergeOK
<1> QED BY <1>6, <1>7

\* What _merge_splits makes of pieces that are short enough are chunks.
LEMMA MergeSplitsFacts ==
  ASSUME NEW text, NEW ps, NEW first \in Int, NEW last \in Int, Partition(ps, first, last),
         \A i \in 1..Len(ps) : Length(ps[i]) < ChunkSize
  PROVE  Chunks(text, first, last, MergeSplits(text, ps))
PROOF
<1> DEFINE N == Len(ps)
           a == [docs |-> << >>, s |-> 1]
           Step(m, n) == MergeOn(text, ps, m, n)
           Eq(n, f) == f = [k \in 0..n |-> IF k = 0 THEN a ELSE Step(f[k - 1], k)]
<1>1. /\ N \in Nat \ {0}
      /\ \A i \in 1..N : /\ ps[i][1] \in Int /\ ps[i][2] \in Int
                         /\ first <= ps[i][1] /\ ps[i][1] <= ps[i][2] /\ ps[i][2] <= last
  BY PartitionOrder
<1>2. \E f : Eq(N, f)
  <2> DEFINE S == {n \in 0..N : \E f : Eq(n, f)}
  <2>1. 0 \in S
    <3> DEFINE f == [k \in 0..0 |-> a]
    <3>1. Eq(0, f)
      OBVIOUS
    <3>2. 0 \in 0..N
      BY <1>1
    <3> HIDE DEF f, Eq, N
    <3> QED BY <3>1, <3>2
  <2>2. ASSUME NEW n \in 0..N - 1, n \in S
        PROVE  n + 1 \in S
    <3>1. PICK f : Eq(n, f)
      BY <2>2
    <3> HIDE DEF a, Step, N
    <3> DEFINE g == [k \in 0..n + 1 |-> IF k = n + 1 THEN Step(f[n], n + 1) ELSE f[k]]
    <3>2. ASSUME NEW k \in 0..n + 1
          PROVE  g[k] = IF k = 0 THEN a ELSE Step(g[k - 1], k)
      <4>1. CASE k = 0
        BY <1>1, <3>1, <4>1
      <4>2. CASE k = n + 1
        BY <1>1, <4>2
      <4>3. CASE k # 0 /\ k # n + 1
        <5>1. k \in 0..n /\ k - 1 \in 0..n /\ k - 1 # n + 1 /\ k - 1 \in 0..n + 1
          BY <1>1, <4>3
        <5>2. g[k] = f[k] /\ g[k - 1] = f[k - 1]
          BY <4>3, <5>1
        <5>3. f[k] = Step(f[k - 1], k)
          BY <3>1, <4>3, <5>1
        <5> QED BY <4>3, <5>2, <5>3
      <4> QED BY <4>1, <4>2, <4>3
    <3>3. Eq(n + 1, g)
      BY <3>2
    <3>4. n + 1 \in 0..N
      BY <1>1
    <3> HIDE DEF g, Eq
    <3> QED BY <3>3, <3>4
  <2>3. \A n \in 0..N - 1 : n \in S => n + 1 \in S
    BY <2>2
  <2>4. N \in S
    <3>1. N \in 0..N
      BY <1>1
    <3> HIDE DEF S, N
    <3> QED BY <1>1, <2>1, <2>3, <3>1, UpTo
  <2> QED BY <2>4
<1> DEFINE f == CHOOSE f : Eq(N, f)
<1>3. Eq(N, f)
  BY <1>2
<1> DEFINE m == f[N]
<1>4. MergeSplits(text, ps) = m.docs \o Stripped(text, ps[m.s][1], ps[N][2])
  BY DEF MergeSplits
<1> HIDE DEF f
<1>5. \A k \in 0..N : f[k] = IF k = 0 THEN a ELSE Step(f[k - 1], k)
  <2> HIDE DEF Step, a, N
  <2> QED BY <1>3
<1> HIDE DEF Eq, N
<1> DEFINE S == {n \in 0..N - 1 : MergeOK(text, ps, f[n + 1], n + 1)}
<1>6. 0 \in S
  <2>1. 0 \in 0..N /\ 1 \in 0..N /\ 1 # 0 /\ 1 - 1 = 0 /\ 1 \in 1..N /\ 0 \in 0..N - 1 /\ 0 + 1 = 1
    BY <1>1
  <2>2. f[1] = Step(a, 1)
    <3> HIDE DEF Step, a
    <3> QED BY <1>5, <2>1
  <2>3. ps[1][2] - ps[1][1] + 1 <= ChunkSize
    <3>1. Length(ps[1]) < ChunkSize
      BY <2>1 DEF N
    <3> QED BY <1>1, <2>1, <3>1, SplitAssumption DEF Length
  <2>4. f[1] = a
    BY <2>2, <2>3 DEF MergeOn
  <2>5. ps[1][1] = first /\ Overlap \in Nat
    BY SplitAssumption DEF Partition
  <2>6. Chunks(text, first, first - 1, << >>)
    BY DEF Chunks
  <2>7. Ahead(text, << >>, first)
    BY DEF Ahead
  <2>8. first - 1 \in Int /\ first - 1 <= ps[1][2] /\ first <= (first - 1) + 1
        /\ (first - 1) + 1 - first <= Overlap
    BY <1>1, <2>1, <2>5
  <2>9. a.docs = << >> /\ a.s = 1 /\ a \in [docs : Seq(Pair), s : 1..1]
    OBVIOUS
  <2> HIDE DEF a
  <2>10. MergeOK(text, ps, a, 1)
    BY <2>3, <2>5, <2>6, <2>7, <2>8, <2>9 DEF MergeOK
  <2> QED BY <2>1, <2>4, <2>10
<1>7. ASSUME NEW n \in 0..(N - 1) - 1, n \in S
      PROVE  n + 1 \in S
  <2> DEFINE k == n + 1
  <2>1. k \in 1..N - 1 /\ k + 1 \in 0..N /\ k + 1 # 0 /\ k + 1 - 1 = k /\ k \in 0..N - 1
    BY <1>1
  <2>2. MergeOK(text, ps, f[k], k)
    BY <1>7
  <2> HIDE DEF k
  <2>3. MergeOK(text, ps, MergeOn(text, ps, f[k], k + 1), k + 1)
    BY <2>1, <2>2, MergeOnOK DEF N
  <2>4. f[k + 1] = MergeOn(text, ps, f[k], k + 1)
    <3> DEFINE i == k + 1
    <3>1. i \in 0..N /\ i # 0 /\ i - 1 = k
      BY <2>1
    <3> HIDE DEF i, Step
    <3>2. f[i] = Step(f[k], i)
      BY <1>5, <3>1
    <3> QED BY <3>2 DEF i, Step
  <2> QED BY <2>1, <2>3, <2>4 DEF k
<1>8. N - 1 \in S
  <2>1. \A n \in 0..(N - 1) - 1 : n \in S => n + 1 \in S
    BY <1>7
  <2>2. N - 1 \in 0..N - 1 /\ N - 1 \in Nat
    BY <1>1
  <2> DEFINE M == N - 1
  <2> HIDE DEF S, M
  <2> QED BY <1>6, <2>1, <2>2, UpTo DEF M
<1>9. MergeOK(text, ps, m, N)
  <2>1. N - 1 + 1 = N
    BY <1>1
  <2> QED BY <1>8, <2>1
<1> HIDE DEF m, S
<1>10. PICK e \in Int : /\ e <= ps[N][2] /\ ps[m.s][1] <= e + 1 /\ e + 1 - ps[m.s][1] <= Overlap
                        /\ Chunks(text, ps[1][1], e, m.docs)
  BY <1>9 DEF MergeOK
<1>11. Ahead(text, m.docs, ps[m.s][1]) /\ ps[N][2] - ps[m.s][1] + 1 <= ChunkSize
  BY <1>9 DEF MergeOK
<1>12. m.s \in 1..N
  BY <1>9 DEF MergeOK
<1>13. ps[1][1] = first /\ ps[N][2] = last /\ ps[m.s][1] \in Int /\ first <= ps[m.s][1]
  BY <1>1, <1>12 DEF Partition, N
<1>14. Chunks(text, first, last, m.docs \o Stripped(text, ps[m.s][1], last))
  BY <1>10, <1>11, <1>13, StrippedBehind
<1> QED BY <1>4, <1>13, <1>14

-----------------------------------------------------------------------------
(* Cutting what is too long again.                                           *)

\* Where the pieces before piece s end.
Before(ps, first, s) == IF s = 1 THEN first - 1 ELSE ps[s - 1][2]

LEMMA BeforeFacts ==
  ASSUME NEW ps, NEW first \in Int, NEW last \in Int, Partition(ps, first, last),
         NEW s \in 1..Len(ps) + 1
  PROVE  /\ Before(ps, first, s) \in Int /\ first <= Before(ps, first, s) + 1
         /\ s \in 1..Len(ps) => ps[s][1] = Before(ps, first, s) + 1
         /\ \A k \in 1..Len(ps) + 1 : s <= k => Before(ps, first, s) <= Before(ps, first, k)
         /\ Before(ps, first, Len(ps) + 1) = last
PROOF
<1> DEFINE N == Len(ps)
           B(k) == Before(ps, first, k)
<1>1. /\ N \in Nat \ {0}
      /\ \A i \in 1..N : /\ ps[i][1] \in Int /\ ps[i][2] \in Int
                         /\ first <= ps[i][1] /\ ps[i][1] <= ps[i][2] /\ ps[i][2] <= last
      /\ \A a, b \in 1..N : a < b => ps[a][2] < ps[b][1]
  BY PartitionOrder
<1>2. /\ ps[1][1] = first /\ ps[N][2] = last
      /\ \A k \in 1..N : k < N => ps[k + 1][1] = ps[k][2] + 1
  BY DEF Partition
<1> HIDE DEF N
<1>3. ASSUME NEW k \in 1..N + 1
      PROVE  \/ k = 1 /\ B(k) = first - 1
             \/ k - 1 \in 1..N /\ k > 1 /\ k - 1 + 1 = k /\ B(k) = ps[k - 1][2]
  BY <1>1 DEF Before
<1>4. \A k \in 1..N + 1 : B(k) \in Int /\ first <= B(k) + 1
  <2> SUFFICES ASSUME NEW k \in 1..N + 1
               PROVE  B(k) \in Int /\ first <= B(k) + 1
    OBVIOUS
  <2>1. CASE k = 1 /\ B(k) = first - 1
    BY <2>1
  <2>2. CASE k - 1 \in 1..N /\ B(k) = ps[k - 1][2]
    <3>1. ps[k - 1][2] \in Int /\ ps[k - 1][1] \in Int /\ first <= ps[k - 1][1]
          /\ ps[k - 1][1] <= ps[k - 1][2]
      BY <1>1, <2>2
    <3> HIDE DEF B
    <3> QED BY <2>2, <3>1
  <2> HIDE DEF B
  <2> QED BY <1>3, <2>1, <2>2
<1> HIDE DEF B
<1>5. s \in 1..N => ps[s][1] = B(s) + 1
  <2>1. CASE s = 1
    BY <1>2, <1>3, <2>1, <1>1
  <2>2. ASSUME s > 1, s \in 1..N
        PROVE  ps[s][1] = B(s) + 1
    <3>1. s - 1 \in 1..N /\ s - 1 < N /\ s - 1 + 1 = s
      BY <1>1, <2>2
    <3>2. B(s) = ps[s - 1][2]
      BY <1>3, <2>2 DEF N
    <3>3. ps[s - 1 + 1][1] = ps[s - 1][2] + 1
      BY <1>2, <3>1
    <3> QED BY <3>1, <3>2, <3>3
  <2> QED BY <2>1, <2>2
<1>6. ASSUME NEW k \in 1..N + 1, s <= k
      PROVE  B(s) <= B(k)
  <2>0. s \in 1..N + 1
    BY DEF N
  <2>1. CASE s = k
    BY <1>4, <2>1
  <2>2. CASE s = 1
    BY <1>3, <1>4, <2>0, <2>2
  <2>3. CASE s # k /\ s # 1
    <3>1. s - 1 \in 1..N /\ k - 1 \in 1..N /\ s - 1 < k - 1
      BY <1>1, <1>6, <2>0, <2>3
    <3>2. B(s) = ps[s - 1][2] /\ B(k) = ps[k - 1][2]
      BY <1>3, <2>0, <2>3, <3>1
    <3>3. ps[s - 1][2] < ps[k - 1][1] /\ ps[k - 1][1] <= ps[k - 1][2]
          /\ ps[k - 1][1] \in Int /\ ps[k - 1][2] \in Int /\ ps[s - 1][2] \in Int
      BY <1>1, <3>1
    <3> QED BY <3>2, <3>3
  <2> QED BY <2>1, <2>2, <2>3
<1>7. B(N + 1) = last
  <2> DEFINE k == N + 1
  <2>1. k \in 1..N + 1 /\ k # 1 /\ k - 1 = N
    BY <1>1
  <2> HIDE DEF k
  <2>2. B(k) = ps[N][2]
    BY <1>3, <2>1
  <2> QED BY <1>2, <2>2 DEF k
<1> QED BY <1>4, <1>5, <1>6, <1>7 DEF B, N

\* No text has no chunks.
LEMMA NoChunks ==
  ASSUME NEW text, NEW e \in Int
  PROVE  Chunks(text, e + 1, e, << >>)
BY DEF Chunks

\* Neighbouring pieces that are short enough are merged into chunks of their stretch.
LEMMA GoodFacts ==
  ASSUME NEW text, NEW ps, NEW first \in Int, NEW last \in Int, Partition(ps, first, last),
         NEW s \in 1..Len(ps) + 1, NEW k \in 0..Len(ps), s <= k + 1,
         \A i \in s..k : Length(ps[i]) < ChunkSize
  PROVE  Chunks(text, Before(ps, first, s) + 1, Before(ps, first, k + 1), Good(text, ps, s, k))
PROOF
<1> DEFINE N == Len(ps)
<1>1. N \in Nat \ {0}
  BY PartitionOrder
<1>2. CASE s > k
  <2>1. s = k + 1
    BY <1>1, <1>2
  <2>2. Before(ps, first, s) \in Int
    BY BeforeFacts
  <2> QED BY <1>2, <2>1, <2>2, NoChunks DEF Good
<1>3. CASE s <= k
  <2> DEFINE qs == SubSeq(ps, s, k)
  <2>1. s \in 1..N /\ k \in 1..N /\ k + 1 # 1 /\ k + 1 - 1 = k
    BY <1>1, <1>3
  <2>2. /\ Partition(qs, ps[s][1], ps[k][2]) /\ Len(qs) = k - s + 1
        /\ \A i \in 1..Len(qs) : qs[i] = ps[s + i - 1]
    BY <1>3, <2>1, SubPartition
  <2>3. Good(text, ps, s, k) = MergeSplits(text, qs)
    BY <1>1, <1>3, <2>1 DEF Good
  <2> HIDE DEF qs
  <2>4. ASSUME NEW i \in 1..Len(qs)
        PROVE  Length(qs[i]) < ChunkSize
    <3>1. s + i - 1 \in s..k
      BY <1>1, <2>1, <2>2
    <3> QED BY <2>2, <3>1
  <2>5. ps[s][1] \in Int /\ ps[k][2] \in Int
    BY <2>1, PartitionOrder
  <2>6. Chunks(text, ps[s][1], ps[k][2], MergeSplits(text, qs))
    BY <2>2, <2>4, <2>5, MergeSplitsFacts
  <2>7. ps[s][1] = Before(ps, first, s) + 1
    BY <2>1, BeforeFacts
  <2>8. ps[k][2] = Before(ps, first, k + 1)
    BY <2>1 DEF Before
  <2> QED BY <2>3, <2>6, <2>7, <2>8
<1>4. s \in Int /\ k \in Int
  OBVIOUS
<1> QED BY <1>2, <1>3, <1>4

\* The state c of split_text's loop after piece k: chunks of all pieces before c.s, and
\* short pieces from there to k.
CutOK(text, ps, first, c, k) ==
  /\ c \in [chunks : Seq(Pair), s : 1..k + 1]
  /\ Chunks(text, first, Before(ps, first, c.s), c.chunks)
  /\ \A i \in c.s..k : Length(ps[i]) < ChunkSize

\* What a stretch of text is cut into when each piece that is too long is cut into chunks.
LEMMA CutOnOK ==
  ASSUME NEW text, NEW ps, NEW first \in Int, NEW last \in Int, Partition(ps, first, last),
         NEW longer, NEW k \in 1..Len(ps),
         Length(ps[k]) >= ChunkSize => Chunks(text, ps[k][1], ps[k][2], longer[k]),
         NEW c, CutOK(text, ps, first, c, k - 1)
  PROVE  CutOK(text, ps, first, CutOn(text, ps, longer, c, k), k)
PROOF
<1> DEFINE N == Len(ps)
           B(i) == Before(ps, first, i)
           r == CutOn(text, ps, longer, c, k)
           s == c.s
<1>1. N \in Nat \ {0} /\ ps[k][1] \in Int /\ ps[k][2] \in Int /\ ps[k][1] <= ps[k][2]
  BY PartitionOrder
<1>2. /\ s \in 1..k /\ s \in 1..N + 1 /\ s \in 1..k + 1 /\ k \in 1..N + 1 /\ k - 1 \in 0..N
      /\ s <= (k - 1) + 1 /\ (k - 1) + 1 = k /\ k + 1 \in 1..N + 1 /\ k + 1 \in 1..k + 1
  <2>1. s \in 1..(k - 1) + 1
    BY DEF CutOK
  <2> QED BY <1>1, <2>1
<1>3. /\ Chunks(text, first, B(s), c.chunks)
      /\ \A i \in s..k - 1 : Length(ps[i]) < ChunkSize
      /\ c = [chunks |-> c.chunks, s |-> s] /\ c.chunks \in Seq(Pair)
  BY DEF CutOK
<1> SUFFICES CutOK(text, ps, first, r, k)
  OBVIOUS
<1> HIDE DEF s
<1>4. CASE Length(ps[k]) < ChunkSize
  <2>1. r = c
    BY <1>4 DEF CutOn
  <2>2. \A i \in s..k : Length(ps[i]) < ChunkSize
    <3>1. \A i \in s..k : i = k \/ i \in s..k - 1
      BY <1>2
    <3> QED BY <1>3, <1>4, <3>1
  <2>3. c \in [chunks : Seq(Pair), s : 1..k + 1]
    BY <1>2, <1>3
  <2> QED BY <1>3, <2>1, <2>2, <2>3 DEF CutOK, s
<1>5. CASE ~ (Length(ps[k]) < ChunkSize)
  <2> DEFINE good == Good(text, ps, s, k - 1)
             l == longer[k]
             chunks == (c.chunks \o good) \o l
  <2>1. r = [chunks |-> chunks, s |-> k + 1]
    BY <1>5 DEF CutOn, s
  <2>2. Chunks(text, B(s) + 1, B(k), good)
    <3>1. Chunks(text, B(s) + 1, B((k - 1) + 1), good)
      BY <1>2, <1>3, GoodFacts
    <3> QED BY <1>2, <3>1
  <2>3. Length(ps[k]) \in Int /\ ChunkSize \in Int
    BY <1>1, SplitAssumption DEF Length
  <2>4. Chunks(text, ps[k][1], ps[k][2], l)
    BY <1>5, <2>3
  <2>5. /\ B(s) \in Int /\ first <= B(s) + 1 /\ B(s) <= B(k)
    BY <1>2, BeforeFacts
  <2>6. B(k) \in Int /\ first <= B(k) + 1 /\ ps[k][1] = B(k) + 1
    BY <1>2, BeforeFacts
  <2>7. B(k + 1) = ps[k][2]
    <3>1. k + 1 # 1 /\ k + 1 - 1 = k
      BY <1>1
    <3> QED BY <3>1 DEF Before
  <2> HIDE DEF B, good, l
  <2>8. Chunks(text, first, B(k), c.chunks \o good)
    BY <1>3, <2>2, <2>5, <2>6, ChunksJoin
  <2>9. B(k) <= ps[k][2]
    BY <1>1, <2>6
  <2>10. Chunks(text, B(k) + 1, ps[k][2], l)
    BY <2>4, <2>6
  <2> DEFINE x == c.chunks \o good
  <2>11. Chunks(text, first, B(k), x)
    BY <2>8
  <2> HIDE DEF x
  <2>12. Chunks(text, first, ps[k][2], x \o l)
    BY <1>1, <2>6, <2>9, <2>10, <2>11, ChunksJoin
  <2>13. chunks = x \o l
    BY DEF x
  <2>14. Chunks(text, first, B(k + 1), chunks)
    BY <2>7, <2>12, <2>13
  <2>15. chunks \in Seq(Pair)
    BY <2>12, <2>13 DEF Chunks
  <2> HIDE DEF chunks
  <2>16. r.chunks = chunks /\ r.s = k + 1 /\ r \in [chunks : Seq(Pair), s : 1..k + 1]
    BY <1>2, <2>1, <2>15
  <2> HIDE DEF r
  <2>17. \A i \in k + 1..k : FALSE
    OBVIOUS
  <2> QED BY <2>14, <2>16, <2>17 DEF CutOK, B
<1> QED BY <1>4, <1>5

\* What a stretch of text is cut into when each piece that is too long is cut into chunks.
LEMMA CutPiecesFacts ==
  ASSUME NEW text, NEW ps, NEW first \in Int, NEW last \in Int, Partition(ps, first, last),
         NEW longer,
         \A k \in 1..Len(ps) :
           Length(ps[k]) >= ChunkSize => Chunks(text, ps[k][1], ps[k][2], longer[k])
  PROVE  Chunks(text, first, last, CutPieces(text, ps, longer))
PROOF
<1> DEFINE N == Len(ps)
           a == [chunks |-> << >>, s |-> 1]
           Step(m, n) == CutOn(text, ps, longer, m, n)
           Eq(n, f) == f = [k \in 0..n |-> IF k = 0 THEN a ELSE Step(f[k - 1], k)]
<1>1. N \in Nat \ {0}
  BY PartitionOrder
<1>2. \E f : Eq(N, f)
  <2> DEFINE S == {n \in 0..N : \E f : Eq(n, f)}
  <2>1. 0 \in S
    <3> DEFINE f == [k \in 0..0 |-> a]
    <3>1. Eq(0, f)
      OBVIOUS
    <3>2. 0 \in 0..N
      BY <1>1
    <3> HIDE DEF f, Eq, N
    <3> QED BY <3>1, <3>2
  <2>2. ASSUME NEW n \in 0..N - 1, n \in S
        PROVE  n + 1 \in S
    <3>1. PICK f : Eq(n, f)
      BY <2>2
    <3> HIDE DEF a, Step, N
    <3> DEFINE g == [k \in 0..n + 1 |-> IF k = n + 1 THEN Step(f[n], n + 1) ELSE f[k]]
    <3>2. ASSUME NEW k \in 0..n + 1
          PROVE  g[k] = IF k = 0 THEN a ELSE Step(g[k - 1], k)
      <4>1. CASE k = 0
        BY <1>1, <3>1, <4>1
      <4>2. CASE k = n + 1
        BY <1>1, <4>2
      <4>3. CASE k # 0 /\ k # n + 1
        <5>1. k \in 0..n /\ k - 1 \in 0..n /\ k - 1 # n + 1 /\ k - 1 \in 0..n + 1
          BY <1>1, <4>3
        <5>2. g[k] = f[k] /\ g[k - 1] = f[k - 1]
          BY <4>3, <5>1
        <5>3. f[k] = Step(f[k - 1], k)
          BY <3>1, <4>3, <5>1
        <5> QED BY <4>3, <5>2, <5>3
      <4> QED BY <4>1, <4>2, <4>3
    <3>3. Eq(n + 1, g)
      BY <3>2
    <3>4. n + 1 \in 0..N
      BY <1>1
    <3> HIDE DEF g, Eq
    <3> QED BY <3>3, <3>4
  <2>3. \A n \in 0..N - 1 : n \in S => n + 1 \in S
    BY <2>2
  <2>4. N \in S
    <3>1. N \in 0..N
      BY <1>1
    <3> HIDE DEF S, N
    <3> QED BY <1>1, <2>1, <2>3, <3>1, UpTo
  <2> QED BY <2>4
<1> DEFINE f == CHOOSE f : Eq(N, f)
<1>3. Eq(N, f)
  BY <1>2
<1> DEFINE c == f[N]
           good == Good(text, ps, c.s, N)
<1>4. CutPieces(text, ps, longer) = c.chunks \o good
  BY DEF CutPieces
<1> HIDE DEF f
<1>5. \A k \in 0..N : f[k] = IF k = 0 THEN a ELSE Step(f[k - 1], k)
  <2> HIDE DEF Step, a, N
  <2> QED BY <1>3
<1> HIDE DEF Eq, N
<1> DEFINE S == {n \in 0..N : CutOK(text, ps, first, f[n], n)}
<1>6. 0 \in S
  <2>1. 0 \in 0..N
    BY <1>1
  <2>2. f[0] = a
    BY <1>5, <2>1
  <2>3. Chunks(text, first, first - 1, << >>)
    BY DEF Chunks
  <2>4. a.chunks = << >> /\ a.s = 1 /\ a \in [chunks : Seq(Pair), s : 1..0 + 1]
    OBVIOUS
  <2> HIDE DEF a
  <2>5. Before(ps, first, 1) = first - 1
    BY DEF Before
  <2>6. \A i \in 1..0 : FALSE
    OBVIOUS
  <2>7. CutOK(text, ps, first, a, 0)
    BY <2>3, <2>4, <2>5, <2>6 DEF CutOK
  <2> QED BY <2>1, <2>2, <2>7
<1>7. ASSUME NEW n \in 0..N - 1, n \in S
      PROVE  n + 1 \in S
  <2> DEFINE k == n + 1
  <2>1. k \in 1..N /\ k \in 0..N /\ k # 0 /\ k - 1 = n
    BY <1>1
  <2>2. CutOK(text, ps, first, f[n], n)
    BY <1>7
  <2> HIDE DEF k
  <2>3. CutOK(text, ps, first, f[n], k - 1)
    BY <2>1, <2>2
  <2>4. CutOK(text, ps, first, CutOn(text, ps, longer, f[n], k), k)
    BY <2>1, <2>3, CutOnOK DEF N
  <2>5. f[k] = CutOn(text, ps, longer, f[n], k)
    <3> HIDE DEF Step
    <3>1. f[k] = Step(f[n], k)
      BY <1>5, <2>1
    <3> QED BY <3>1 DEF Step
  <2> QED BY <2>1, <2>4, <2>5 DEF k
<1>8. N \in S
  <2>1. \A n \in 0..N - 1 : n \in S => n + 1 \in S
    BY <1>7
  <2>2. N \in 0..N
    BY <1>1
  <2> HIDE DEF S
  <2> QED BY <1>1, <1>6, <2>1, <2>2, UpTo
<1>9. CutOK(text, ps, first, c, N)
  BY <1>8
<1> DEFINE s == c.s
           chunks == c.chunks
<1>10. /\ s \in 1..N + 1 /\ Chunks(text, first, Before(ps, first, s), chunks)
       /\ \A i \in s..N : Length(ps[i]) < ChunkSize
  BY <1>9 DEF CutOK
<1>11. N \in 0..N /\ s <= N + 1
  BY <1>1, <1>10
<1> HIDE DEF c, s, chunks
<1>12. Chunks(text, Before(ps, first, s) + 1, Before(ps, first, N + 1), Good(text, ps, s, N))
  BY <1>10, <1>11, GoodFacts DEF N
<1>13. /\ Before(ps, first, s) \in Int /\ first <= Before(ps, first, s) + 1
       /\ Before(ps, first, s) <= Before(ps, first, N + 1) /\ Before(ps, first, N + 1) = last
  <2>1. N + 1 \in 1..N + 1
    BY <1>1
  <2> QED BY <1>10, <1>11, <2>1, BeforeFacts DEF N
<1>14. Chunks(text, first, last, chunks \o Good(text, ps, s, N))
  BY <1>10, <1>12, <1>13, ChunksJoin
<1> QED BY <1>4, <1>14 DEF s, chunks

-----------------------------------------------------------------------------
(* The separators, from the paragraph to the character.                      *)

LEMMA SeparatorFacts ==
  /\ Len(Separators) = 4 /\ Separators[4] = << >>
  /\ \A n \in 1..3 : Len(Separators[n]) \in Nat \ {0} /\ Separators[n] # << >>
PROOF
<1>1. Separators[1] = <<"n", "n">> /\ Separators[2] = <<"n">> /\ Separators[3] = <<"s">>
  BY DEF Separators
<1>2. \A n \in 1..3 : n = 1 \/ n = 2 \/ n = 3
  OBVIOUS
<1>3. Len(<<"n", "n">>) = 2 /\ Len(<<"n">>) = 1 /\ Len(<<"s">>) = 1
      /\ <<"n", "n">> # << >> /\ <<"n">> # << >> /\ <<"s">> # << >>
  OBVIOUS
<1>4. Len(Separators) = 4 /\ Separators[4] = << >>
  BY DEF Separators
<1> QED BY <1>1, <1>2, <1>3, <1>4

LEMMA FirstSeparatorFacts ==
  ASSUME NEW text, NEW piece, NEW n \in 1..4
  PROVE  LET at == FirstSeparator(text, piece, n)
         IN /\ at \in n..4
            /\ Separators[at] = << >> <=> at = 4
            /\ Separators[at] = << >> \/ Len(Separators[at]) \in Nat \ {0}
PROOF
<1> DEFINE S == {k \in n..Len(Separators) :
                   \/ Separators[k] = << >>
                   \/ \E p \in piece[1]..piece[2] : StartsAt(text, p, piece[2], Separators[k])}
<1>1. FirstSeparator(text, piece, n) = Min(S)
  BY DEF FirstSeparator
<1>2. S \in SUBSET Int /\ 4 \in S /\ (\A k \in S : n <= k) /\ S \subseteq n..4 /\ n \in Int
  BY SeparatorFacts
<1> HIDE DEF S
<1>3. Min(S) \in S
  BY <1>2, MinFacts
<1>4. Min(S) \in n..4
  BY <1>2, <1>3
<1>5. Min(S) = 4 \/ Min(S) \in 1..3
  BY <1>4
<1>6. 4 \notin 1..3
  OBVIOUS
<1> QED BY <1>1, <1>4, <1>5, <1>6, SeparatorFacts

\* SplitPiece with split cuts as it must when split does so for the separators behind the
\* one that is used.
LEMMA SplitPieceFacts ==
  ASSUME NEW text, NEW first \in Int, NEW last \in Int, first <= last, NEW n \in 1..4, NEW split,
         \A m \in n + 1..4 : \A b, e \in first..last :
           b <= e => Chunks(text, b, e, split[m][<<b, e>>])
  PROVE  Chunks(text, first, last, SplitPiece(text, <<first, last>>, n, split))
PROOF
<1> DEFINE piece == <<first, last>>
           at == FirstSeparator(text, piece, n)
           ps == PiecesOf(text, piece, Separators[at])
           longer == [k \in 1..Len(ps) |-> IF Separators[at] = << >> THEN <<ps[k]>>
                                           ELSE split[at + 1][ps[k]]]
<1>1. SplitPiece(text, piece, n, split) = CutPieces(text, ps, longer)
  BY DEF SplitPiece
<1>2. /\ at \in n..4 /\ (Separators[at] = << >> <=> at = 4)
      /\ (Separators[at] = << >> \/ Len(Separators[at]) \in Nat \ {0})
  BY FirstSeparatorFacts
<1> HIDE DEF at
<1>3. /\ Partition(ps, first, last)
      /\ Separators[at] = << >> => \A k \in 1..Len(ps) : Length(ps[k]) = 1
  BY <1>2, PiecesFacts
<1> HIDE DEF ps
<1>4. ASSUME NEW k \in 1..Len(ps)
      PROVE  Chunks(text, ps[k][1], ps[k][2], longer[k])
  <2>1. /\ ps[k][1] \in Int /\ ps[k][2] \in Int
        /\ first <= ps[k][1] /\ ps[k][1] <= ps[k][2] /\ ps[k][2] <= last
    BY <1>3, PartitionOrder
  <2>2. ps[k] \in Pair
    <3>1. ps \in Seq(Pair)
      BY <1>3 DEF Partition
    <3> QED BY <3>1, ElementOfSeq
  <2>3. CASE at = 4
    <3>1. longer[k] = <<ps[k]>> /\ Length(ps[k]) = 1
      BY <1>2, <1>3, <2>3
    <3> DEFINE list == <<ps[k]>>
    <3>2. list \in Seq(Pair) /\ Len(list) = 1 /\ list[1] = ps[k]
      BY <2>2
    <3>3. Length(ps[k]) <= ChunkSize
      BY <3>1, SplitAssumption
    <3> HIDE DEF list
    <3>4. Chunks(text, ps[k][1], ps[k][2], list)
      BY <2>1, <3>2, <3>3 DEF Chunks
    <3> QED BY <3>1, <3>4 DEF list
  <2>4. CASE at # 4
    <3>1. at + 1 \in n + 1..4
      BY <1>2, <2>4
    <3>2. longer[k] = split[at + 1][ps[k]]
      BY <1>2, <2>4
    <3> DEFINE b == ps[k][1]
               e == ps[k][2]
    <3>3. ps[k] = <<b, e>>
      BY <2>2 DEF Pair
    <3>4. b \in first..last /\ e \in first..last /\ b <= e
      BY <2>1
    <3> HIDE DEF b, e, longer
    <3>5. Chunks(text, b, e, split[at + 1][<<b, e>>])
      BY <3>1, <3>4
    <3>6. longer[k] = split[at + 1][<<b, e>>]
      BY <3>2, <3>3
    <3>7. Chunks(text, b, e, longer[k])
      BY <3>5, <3>6
    <3> QED BY <3>7 DEF b, e
  <2> QED BY <2>3, <2>4
<1> HIDE DEF longer
<1>5. Chunks(text, first, last, CutPieces(text, ps, longer))
  BY <1>3, <1>4, CutPiecesFacts
<1> QED BY <1>1, <1>5

\* It looks at split for those separators only.
LEMMA SplitPieceLooksAhead ==
  ASSUME NEW text, NEW piece, NEW n \in 1..4, NEW f, NEW g, \A m \in n + 1..4 : f[m] = g[m]
  PROVE  SplitPiece(text, piece, n, f) = SplitPiece(text, piece, n, g)
PROOF
<1> DEFINE at == FirstSeparator(text, piece, n)
           ps == PiecesOf(text, piece, Separators[at])
           L(h) == [k \in 1..Len(ps) |-> IF Separators[at] = << >> THEN <<ps[k]>>
                                         ELSE h[at + 1][ps[k]]]
<1>1. SplitPiece(text, piece, n, f) = CutPieces(text, ps, L(f))
      /\ SplitPiece(text, piece, n, g) = CutPieces(text, ps, L(g))
  BY DEF SplitPiece
<1>2. at \in n..4 /\ (Separators[at] = << >> <=> at = 4)
  BY FirstSeparatorFacts
<1> HIDE DEF at, ps
<1>3. L(f) = L(g)
  <2>1. CASE Separators[at] = << >>
    BY <2>1
  <2>2. CASE Separators[at] # << >>
    <3>1. at + 1 \in n + 1..4
      BY <1>2, <2>2
    <3>2. f[at + 1] = g[at + 1]
      BY <3>1
    <3> QED BY <3>2
  <2> QED BY <2>1, <2>2
<1> HIDE DEF L
<1> QED BY <1>1, <1>3

\* The recursion of split_text has a solution: it only goes to separators further on.
SplitStep(text, split) ==
  [n \in 1..Len(Separators) |->
     [piece \in (1..Len(text)) \X (1..Len(text)) |-> SplitPiece(text, piece, n, split)]]

LEMMA SplitStepAgrees ==
  ASSUME NEW text, NEW f, NEW g, NEW j \in 1..4, \A m \in j + 1..4 : f[m] = g[m]
  PROVE  \A m \in j..4 : SplitStep(text, f)[m] = SplitStep(text, g)[m]
PROOF
<1> SUFFICES ASSUME NEW n \in j..4
             PROVE  SplitStep(text, f)[n] = SplitStep(text, g)[n]
  OBVIOUS
<1>1. n \in 1..4 /\ \A m \in n + 1..4 : m \in j + 1..4
  OBVIOUS
<1>2. \A piece : SplitPiece(text, piece, n, f) = SplitPiece(text, piece, n, g)
  BY <1>1, SplitPieceLooksAhead
<1>3. /\ SplitStep(text, f)[n] = [piece \in (1..Len(text)) \X (1..Len(text)) |-> SplitPiece(text, piece, n, f)]
      /\ SplitStep(text, g)[n] = [piece \in (1..Len(text)) \X (1..Len(text)) |-> SplitPiece(text, piece, n, g)]
  BY <1>1, SeparatorFacts DEF SplitStep
<1> QED BY <1>2, <1>3

LEMMA SplitExists ==
  ASSUME NEW text
  PROVE  \E f : f = SplitStep(text, f)
PROOF
<1> DEFINE f1 == SplitStep(text, << >>)
           f2 == SplitStep(text, f1)
           f3 == SplitStep(text, f2)
           f4 == SplitStep(text, f3)
           f5 == SplitStep(text, f4)
<1> HIDE DEF f1
<1>1. \A m \in 4..4 : f2[m] = f1[m]
  <2>1. \A m \in 4 + 1..4 : f1[m] = << >>[m]
    OBVIOUS
  <2>2. \A m \in 4..4 : SplitStep(text, f1)[m] = SplitStep(text, << >>)[m]
    BY <2>1, SplitStepAgrees
  <2> QED BY <2>2 DEF f1
<1> HIDE DEF f2
<1>2. \A m \in 3..4 : f3[m] = f2[m]
  <2>1. \A m \in 3 + 1..4 : f2[m] = f1[m]
    BY <1>1
  <2>2. \A m \in 3..4 : SplitStep(text, f2)[m] = SplitStep(text, f1)[m]
    BY <2>1, SplitStepAgrees
  <2> QED BY <2>2 DEF f2
<1> HIDE DEF f3
<1>3. \A m \in 2..4 : f4[m] = f3[m]
  <2>1. \A m \in 2 + 1..4 : f3[m] = f2[m]
    BY <1>2
  <2>2. \A m \in 2..4 : SplitStep(text, f3)[m] = SplitStep(text, f2)[m]
    BY <2>1, SplitStepAgrees
  <2> QED BY <2>2 DEF f3
<1> HIDE DEF f4
<1>4. \A m \in 1..4 : f5[m] = f4[m]
  <2>1. \A m \in 1 + 1..4 : f4[m] = f3[m]
    BY <1>3
  <2>2. \A m \in 1..4 : SplitStep(text, f4)[m] = SplitStep(text, f3)[m]
    BY <2>1, SplitStepAgrees
  <2> QED BY <2>2 DEF f4
<1>5. f5 = [n \in 1..4 |-> f5[n]] /\ f4 = [n \in 1..4 |-> f4[n]]
  BY SeparatorFacts DEF SplitStep, f4
<1>6. f5 = f4
  <2> HIDE DEF f5
  <2> QED BY <1>4, <1>5
<1> QED BY <1>6

\* split_text cuts a text into its chunks: complete, in order, and within the limits.
LEMMA SplitTextFacts ==
  ASSUME NEW text \in Seq(STRING)
  PROVE  Chunks(text, 1, Len(text), SplitText(text))
PROOF
<1> DEFINE f == CHOOSE f : f = SplitStep(text, f)
<1>1. f = SplitStep(text, f)
  BY SplitExists
<1>2. SplitText(text) = IF text = << >> THEN << >> ELSE f[1][<<1, Len(text)>>]
  BY DEF SplitText, SplitStep
<1> HIDE DEF f
<1>3. \A n \in 1..4 : \A b, e \in 1..Len(text) :
        f[n][<<b, e>>] = SplitPiece(text, <<b, e>>, n, f)
  <2> DEFINE g == SplitStep(text, f)
  <2>1. f = g
    BY <1>1
  <2>2. \A n \in 1..4 : \A piece \in (1..Len(text)) \X (1..Len(text)) :
          g[n][piece] = SplitPiece(text, piece, n, f)
    BY SeparatorFacts DEF SplitStep
  <2> HIDE DEF g
  <2>3. \A b, e \in 1..Len(text) : <<b, e>> \in (1..Len(text)) \X (1..Len(text))
    OBVIOUS
  <2>4. \A n \in 1..4 : \A b, e \in 1..Len(text) :
          g[n][<<b, e>>] = SplitPiece(text, <<b, e>>, n, f)
    BY <2>2, <2>3
  <2>5. \A n : g[n] = f[n]
    BY <2>1
  <2> QED BY <2>4, <2>5
<1> DEFINE OK(n) == \A b, e \in 1..Len(text) : b <= e => Chunks(text, b, e, f[n][<<b, e>>])
<1>4. ASSUME NEW n \in 1..4, \A m \in n + 1..4 : OK(m)
      PROVE  OK(n)
  <2> SUFFICES ASSUME NEW b \in 1..Len(text), NEW e \in 1..Len(text), b <= e
               PROVE  Chunks(text, b, e, f[n][<<b, e>>])
    OBVIOUS
  <2>1. \A m \in n + 1..4 : \A x, y \in b..e : x <= y => Chunks(text, x, y, f[m][<<x, y>>])
    <3>1. \A x \in b..e : x \in 1..Len(text)
      OBVIOUS
    <3> QED BY <1>4, <3>1
  <2>2. b \in Int /\ e \in Int
    OBVIOUS
  <2>3. Chunks(text, b, e, SplitPiece(text, <<b, e>>, n, f))
    BY <2>1, <2>2, SplitPieceFacts
  <2> QED BY <1>3, <2>3
<1> HIDE DEF OK
<1>5. OK(4)
  <2>1. \A m \in 4 + 1..4 : OK(m)
    OBVIOUS
  <2> QED BY <1>4, <2>1
<1>6. OK(3)
  <2>1. \A m \in 3 + 1..4 : OK(m)
    BY <1>5
  <2> QED BY <1>4, <2>1
<1>7. OK(2)
  <2>1. \A m \in 2 + 1..4 : m = 3 \/ m = 4
    OBVIOUS
  <2>2. \A m \in 2 + 1..4 : OK(m)
    BY <1>5, <1>6, <2>1
  <2> QED BY <1>4, <2>2
<1>8. OK(1)
  <2>1. \A m \in 1 + 1..4 : m = 2 \/ m = 3 \/ m = 4
    OBVIOUS
  <2>2. \A m \in 1 + 1..4 : OK(m)
    BY <1>5, <1>6, <1>7, <2>1
  <2> QED BY <1>4, <2>2
<1>9. CASE text = << >>
  <2>1. Len(text) = 0
    BY <1>9
  <2> QED BY <1>2, <1>9, <2>1 DEF Chunks
<1>10. CASE text # << >>
  <2>1. 1 \in 1..Len(text) /\ Len(text) \in 1..Len(text) /\ 1 <= Len(text)
    BY <1>10
  <2>2. Chunks(text, 1, Len(text), f[1][<<1, Len(text)>>])
    BY <1>8, <2>1 DEF OK
  <2> QED BY <1>2, <1>10, <2>2
<1> QED BY <1>9, <1>10

-----------------------------------------------------------------------------
(* The inductive invariant.                                                  *)

Kinds == {"doc", "img", "video"}
Hashed == Seq(STRING) \cup Blocks
ChunkIds == {"chunk"} \X Hashed
Sources == Texts \cup Files

Jobs ==
  [kind : Kinds, src : Sources, cut : Seq(Pair), list : Seq(ChunkIds), copied : BOOLEAN,
   k : Nat, step : {"track", "open", "write", "relate", "insert", "inserted"}]
Objects == [list : Seq(ChunkIds), whole : BOOLEAN, made : [copied : BOOLEAN, src : Sources]]

\* What the variables hold.
StateOK ==
  /\ \A c \in DOMAIN blobs : c \in ChunkIds /\ blobs[c] \in {"whole", "torn"}
  /\ \A p \in positions : p[1] \in ChunkIds /\ p[2].type \in {"store", "range"}
  /\ \A id \in DOMAIN stored : id[1] \in Kinds /\ stored[id] \in Objects
  /\ files \in [Files -> FileContents]
  /\ job = NoJob \/ job \in Jobs
  /\ builds \in 0..MaxBuilds /\ faults \in 0..MaxFaults

\* The relations: from a chunk to a document, from a stored object to the rich text, and
\* from that to the e-mail.
RelationsOK ==
  /\ IsFiniteSet(relations)
  /\ \A r \in relations :
       \/ r[1][1] = "chunk" /\ r[2][1] = "doc"
       \/ r[1][1] \in Kinds /\ r[2] = RichText
       \/ r[1] = RichText /\ r[2] = Email

Copying == job.step \in {"open", "write"}
Gathering == job.step \in {"track", "open", "write"}

\* The build under way: what it has cut the text into, and how far it is.
JobOK ==
  job # NoJob =>
    /\ IsDoc => /\ job.src \in Texts /\ job.copied
                /\ Chunks(job.src, 1, Len(job.src), job.cut)
    /\ ~ IsDoc => job.src \in Files
    /\ job.step = "track" => IF IsDoc THEN job.k \in 1..Len(job.list) + 1
                             ELSE job.k = Len(job.list) + 1
    /\ Copying => /\ job.copied /\ job.k \in 1..Len(job.list)
                  /\ ~ IsDoc => job.k = Len(job.list)
    /\ job.step = "relate" => IsDoc /\ job.k \in 1..Len(job.list)
    /\ job.step = "inserted" =>
         /\ Built \in DOMAIN stored
         /\ stored[Built].list = job.list
         /\ stored[Built].made = [copied |-> job.copied, src |-> job.src]

\* The position a chunk that is copied is given.
Position(kind, src) == IF kind = "doc" THEN TextPosition ELSE CopyPosition(src)

\* What the build has recorded, copied and related so far.
CopiedOK ==
  job # NoJob /\ job.copied => \A i \in 1..Len(job.list) :
    /\ (job.step = "track" => i < job.k) /\ (Copying => i <= job.k) =>
         <<job.list[i], Position(job.kind, job.src)>> \in positions
    /\ (Gathering => i < job.k) =>
         /\ job.list[i] \in DOMAIN blobs
         /\ \/ blobs[job.list[i]] = "whole"
            \/ job.step = "write" /\ job.list[i] = job.list[job.k]

RelatedOK ==
  job # NoJob /\ IsDoc => \A i \in 1..Len(job.list) :
    \/ Gathering
    \/ job.step = "relate" /\ job.k <= i
    \/ <<job.list[i], Built>> \in relations

\* An object that is whole has all its chunks recorded, copied and related.
StoredOK ==
  \A id \in DOMAIN stored : stored[id].whole => \A i \in 1..Len(stored[id].list) :
    LET c == stored[id].list[i]
        made == stored[id].made
    IN /\ id[1] = "doc" => made.copied /\ <<c, id>> \in relations
       /\ made.copied => /\ c \in DOMAIN blobs
                         /\ <<c, Position(id[1], made.src)>> \in positions

\* A chunk is torn only while it is written, or after that write was cut short.
TornOK ==
  \A c \in DOMAIN blobs : blobs[c] = "torn" =>
    \/ c \in cutShort
    \/ job # NoJob /\ job.step = "write" /\ job.list[job.k] = c

\* And so an object.
PartOK ==
  \A id \in DOMAIN stored : ~ stored[id].whole =>
    \/ id \in cutShort
    \/ job # NoJob /\ job.step = "inserted" /\ Built = id

KsIInv ==
  /\ StateOK /\ RelationsOK /\ JobOK /\ CopiedOK /\ RelatedOK /\ StoredOK
  /\ TornOK /\ PartOK

LEMMA NoJobIsNone ==
  \A j \in Jobs : j # NoJob
BY DEF Jobs, NoJob, Kinds

LEMMA BoundsAreNumbers ==
  MaxBlocks \in Nat /\ MaxBuilds \in Nat /\ MaxFaults \in Nat
BY KsAssumption, Zenon

LEMMA InitOK ==
  ASSUME KsInit PROVE KsIInv
PROOF
<1>1. DOMAIN << >> = {}
  OBVIOUS
<1>2. /\ blobs = << >> /\ positions = {} /\ relations = {} /\ stored = << >>
      /\ files \in [Files -> FileContents] /\ job = NoJob /\ builds = 0 /\ faults = 0
  BY DEF KsInit
<1>3. DOMAIN blobs = {} /\ DOMAIN stored = {}
  BY <1>1, <1>2
<1>4. StateOK
  BY <1>2, <1>3, BoundsAreNumbers DEF StateOK
<1>5. RelationsOK
  BY <1>2, FS_EmptySet DEF RelationsOK
<1>6. JobOK /\ CopiedOK /\ RelatedOK /\ StoredOK /\ TornOK /\ PartOK
  BY <1>2, <1>3 DEF JobOK, CopiedOK, RelatedOK, StoredOK, TornOK, PartOK
<1> QED BY <1>4, <1>5, <1>6 DEF KsIInv

LEMMA StartOK ==
  ASSUME KsIInv, NEW kind \in Kinds, NEW src \in Sources, NEW cut \in Seq(Pair),
         NEW list \in Seq(ChunkIds), NEW copied \in BOOLEAN,
         kind = "doc" => src \in Texts /\ copied /\ Chunks(src, 1, Len(src), cut),
         kind # "doc" => src \in Files /\ list = << >>,
         Start(kind, src, cut, list, copied)
  PROVE  KsIInv'
PROOF
<1> DEFINE j == [kind |-> kind, src |-> src, cut |-> cut, list |-> list,
                 copied |-> copied, k |-> 1, step |-> "track"]
<1>1. /\ job = NoJob /\ builds < MaxBuilds /\ builds' = builds + 1 /\ job' = j
      /\ UNCHANGED <<blobs, positions, relations, stored, files, faults, cutShort>>
  BY DEF Start
<1>2. /\ j \in Jobs /\ j.kind = kind /\ j.src = src /\ j.cut = cut /\ j.list = list
      /\ j.copied = copied /\ j.k = 1 /\ j.step = "track"
  BY DEF Jobs
<1> HIDE DEF j
<1>3. StateOK'
  <2>1. builds' \in 0..MaxBuilds
    BY <1>1, BoundsAreNumbers DEF KsIInv, StateOK
  <2> QED BY <1>1, <1>2, <2>1 DEF KsIInv, StateOK
<1>4. RelationsOK' /\ StoredOK'
  BY <1>1 DEF KsIInv, RelationsOK, StoredOK
<1>5. JobOK'
  <2>1. Len(list) \in Nat /\ (list = << >> => Len(list) = 0)
    OBVIOUS
  <2> QED BY <1>1, <1>2, <2>1 DEF JobOK, IsDoc, Copying
<1>6. CopiedOK'
  BY <1>1, <1>2 DEF CopiedOK, Copying, Gathering
<1>7. RelatedOK'
  BY <1>1, <1>2 DEF RelatedOK, Gathering
<1>8. TornOK' /\ PartOK'
  BY <1>1, <1>2 DEF KsIInv, TornOK, PartOK
<1> QED BY <1>3, <1>4, <1>5, <1>6, <1>7, <1>8 DEF KsIInv

LEMMA BuildDocumentOK ==
  ASSUME KsIInv, BuildDocument PROVE KsIInv'
PROOF
<1>1. PICK text \in Texts :
        LET cut == SplitText(text)
        IN Start("doc", text, cut,
                 [k \in 1..Len(cut) |-> ChunkId(Content(text, cut[k]))], TRUE)
  BY DEF BuildDocument
<1> DEFINE cut == SplitText(text)
           list == [k \in 1..Len(cut) |-> ChunkId(Content(text, cut[k]))]
<1>2. text \in Seq(STRING)
  BY KsAssumption
<1>3. Chunks(text, 1, Len(text), cut)
  BY <1>2, SplitTextFacts
<1> HIDE DEF cut
<1>4. cut \in Seq(Pair)
  BY <1>3 DEF Chunks
<1>5. list \in Seq(ChunkIds)
  <2>1. ASSUME NEW k \in 1..Len(cut)
        PROVE  ChunkId(Content(text, cut[k])) \in ChunkIds
    <3>1. cut[k] \in Pair
      BY <1>4, ElementOfSeq
    <3> DEFINE b == cut[k][1]
               e == cut[k][2]
    <3>2. /\ b \in Int /\ e \in Int /\ 1 <= b /\ e <= Len(text)
      BY <1>3, <3>1 DEF Chunks, Pair
    <3> HIDE DEF b, e
    <3>3. SubSeq(text, b, e) \in Seq(STRING)
      BY <1>2, <3>2, SubSeqProperties
    <3> QED BY <3>3 DEF Content, ChunkId, ChunkIds, Hashed, b, e
  <2>2. list \in [1..Len(cut) -> ChunkIds]
    BY <2>1
  <2>3. Len(cut) \in Nat
    BY <1>4
  <2> HIDE DEF list
  <2> QED BY <2>2, <2>3, IsASeq
<1>6. Start("doc", text, cut, list, TRUE)
  BY <1>1 DEF cut
<1> HIDE DEF list
<1>7. "doc" \in Kinds /\ text \in Sources
  BY DEF Kinds, Sources
<1> QED BY <1>3, <1>4, <1>5, <1>6, <1>7, StartOK

LEMMA BuildFileOK ==
  ASSUME KsIInv, BuildImage \/ BuildVideo PROVE KsIInv'
PROOF
<1>1. \E kind \in {"img", "video"} : \E f \in Files : \E restore \in BOOLEAN :
        Start(kind, f, << >>, << >>, restore)
  BY KsAssumption DEF BuildImage, BuildVideo
<1>2. PICK kind \in {"img", "video"} : \E f \in Files : \E restore \in BOOLEAN :
        Start(kind, f, << >>, << >>, restore)
  BY <1>1
<1>3. PICK f \in Files : \E restore \in BOOLEAN : Start(kind, f, << >>, << >>, restore)
  BY <1>2
<1>4. PICK restore \in BOOLEAN : Start(kind, f, << >>, << >>, restore)
  BY <1>3
<1>5. kind \in Kinds /\ kind # "doc" /\ f \in Sources
  BY DEF Kinds, Sources
<1>6. << >> \in Seq(Pair) /\ << >> \in Seq(ChunkIds)
  OBVIOUS
<1> QED BY <1>4, <1>5, <1>6, StartOK

\* The relations stay finite and lead one level up.
LEMMA RelatedFacts ==
  ASSUME NEW rel, IsFiniteSet(rel), NEW a, NEW b
  PROVE  /\ IsFiniteSet(Related(rel, a, b)) /\ rel \subseteq Related(rel, a, b)
         /\ <<a, b>> \in Related(rel, a, b)
         /\ \A r \in Related(rel, a, b) : r \in rel \/ r = <<a, b>>
BY FS_AddElement DEF Related

LEMMA RelateOK ==
  ASSUME KsIInv, Relate PROVE KsIInv'
PROOF
<1>1. /\ job = NoJob
      /\ UNCHANGED <<blobs, positions, stored, files, job, builds, faults, cutShort>>
  BY DEF Relate
<1>2. IsFiniteSet(relations)
  BY DEF KsIInv, RelationsOK
<1>3. RelationsOK' /\ relations \subseteq relations'
  <2>1. ASSUME NEW id \in DOMAIN stored, relations' = Related(relations, id, RichText)
        PROVE  RelationsOK' /\ relations \subseteq relations'
    <3>1. id[1] \in Kinds
      BY DEF KsIInv, StateOK
    <3>2. /\ IsFiniteSet(relations') /\ relations \subseteq relations'
          /\ \A r \in relations' : r \in relations \/ r = <<id, RichText>>
      BY <1>2, <2>1, RelatedFacts
    <3> QED BY <3>1, <3>2 DEF KsIInv, RelationsOK
  <2>2. ASSUME relations' = Related(relations, RichText, Email)
        PROVE  RelationsOK' /\ relations \subseteq relations'
    <3>2. /\ IsFiniteSet(relations') /\ relations \subseteq relations'
          /\ \A r \in relations' : r \in relations \/ r = <<RichText, Email>>
      BY <1>2, <2>2, RelatedFacts
    <3> QED BY <3>2 DEF KsIInv, RelationsOK
  <2> QED BY <2>1, <2>2 DEF Relate
<1>4. StateOK' /\ TornOK' /\ PartOK'
  BY <1>1 DEF KsIInv, StateOK, TornOK, PartOK
<1>5. StoredOK'
  BY <1>1, <1>3 DEF KsIInv, StoredOK
<1>6. JobOK' /\ CopiedOK' /\ RelatedOK'
  BY <1>1 DEF JobOK, CopiedOK, RelatedOK
<1> QED BY <1>3, <1>4, <1>5, <1>6 DEF KsIInv

LEMMA InterruptOK ==
  ASSUME KsIInv, Interrupt PROVE KsIInv'
PROOF
<1>1. /\ job' = NoJob /\ faults < MaxFaults /\ faults' = faults + 1
      /\ cutShort' = cutShort \cup InWriting
      /\ UNCHANGED <<blobs, positions, relations, stored, files, builds>>
  BY DEF Interrupt
<1>2. faults \in 0..MaxFaults
  BY DEF KsIInv, StateOK
<1>3. faults' \in 0..MaxFaults /\ faults' # 0
  BY <1>1, <1>2, BoundsAreNumbers
<1>4. StateOK'
  BY <1>1, <1>3 DEF KsIInv, StateOK
<1>5. RelationsOK' /\ StoredOK'
  BY <1>1 DEF KsIInv, RelationsOK, StoredOK
<1>6. JobOK' /\ CopiedOK' /\ RelatedOK'
  BY <1>1, <1>3 DEF JobOK, CopiedOK, RelatedOK
<1>7. TornOK' /\ PartOK'
  <2>1. /\ job # NoJob /\ job.step = "write" => job.list[job.k] \in cutShort'
        /\ job # NoJob /\ job.step = "inserted" => Built \in cutShort'
        /\ cutShort \subseteq cutShort'
    BY <1>1 DEF InWriting
  <2> QED BY <1>1, <2>1 DEF KsIInv, TornOK, PartOK
<1> QED BY <1>4, <1>5, <1>6, <1>7 DEF KsIInv

LEMMA EditOK ==
  ASSUME KsIInv, NEW f \in Files, Edit(f) PROVE KsIInv'
PROOF
<1>1. /\ faults < MaxFaults /\ faults' = faults + 1
      /\ UNCHANGED <<blobs, positions, relations, stored, job, builds, cutShort>>
      /\ \E content \in FileContents : files' = [files EXCEPT ![f] = content]
  BY DEF Edit
<1>2. faults \in 0..MaxFaults /\ files \in [Files -> FileContents]
  BY DEF KsIInv, StateOK
<1>3. faults' \in 0..MaxFaults /\ faults' # 0 /\ files' \in [Files -> FileContents]
  BY <1>1, <1>2, BoundsAreNumbers
<1>4. StateOK'
  BY <1>1, <1>3 DEF KsIInv, StateOK
<1>5. RelationsOK' /\ StoredOK' /\ RelatedOK'
  BY <1>1 DEF KsIInv, RelationsOK, StoredOK, RelatedOK, IsDoc, Gathering, Built
<1>6. JobOK' /\ CopiedOK'
  BY <1>1 DEF KsIInv, JobOK, CopiedOK, IsDoc, Copying, Gathering, Built
<1>7. TornOK'
  BY <1>1 DEF KsIInv, TornOK
<1>8. PartOK'
  <2>1. Built' = Built
    BY <1>1 DEF Built
  <2> QED BY <1>1, <2>1 DEF KsIInv, PartOK
<1> QED BY <1>4, <1>5, <1>6, <1>7, <1>8 DEF KsIInv

\* What a build holds.
LEMMA JobFacts ==
  ASSUME KsIInv, job # NoJob
  PROVE  /\ job \in Jobs /\ job.kind \in Kinds /\ job.list \in Seq(ChunkIds)
         /\ job.k \in Nat /\ job.copied \in BOOLEAN
         /\ Len(job.list) \in Nat
         /\ \A i \in 1..Len(job.list) : job.list[i] \in ChunkIds
PROOF
<1>1. job \in Jobs
  BY DEF KsIInv, StateOK
<1>2. job.kind \in Kinds /\ job.list \in Seq(ChunkIds) /\ job.k \in Nat /\ job.copied \in BOOLEAN
  BY <1>1 DEF Jobs
<1> DEFINE l == job.list
<1>3. l \in Seq(ChunkIds)
  BY <1>2
<1> HIDE DEF l
<1>4. Len(l) \in Nat /\ \A i \in 1..Len(l) : l[i] \in ChunkIds
  BY <1>3, ElementOfSeq
<1> QED BY <1>1, <1>2, <1>4 DEF l

\* The next chunk is one, and at the end a list is complete.
LEMMA ChunkFacts ==
  ASSUME KsIInv, job # NoJob, job.step = "track"
  PROVE  /\ ~ AtEnd => Chunk \in ChunkIds
         /\ ~ AtEnd => IF IsDoc THEN job.k \in 1..Len(job.list) /\ Chunk = job.list[job.k]
                       ELSE job.k = Len(job.list) + 1
         /\ AtEnd => job.k = Len(job.list) + 1
PROOF
<1>1. /\ job \in Jobs /\ job.k \in Nat /\ Len(job.list) \in Nat
      /\ \A i \in 1..Len(job.list) : job.list[i] \in ChunkIds
  BY JobFacts
<1>2. /\ IsDoc => job.k \in 1..Len(job.list) + 1
      /\ ~ IsDoc => job.k = Len(job.list) + 1 /\ job.src \in Files
  BY DEF KsIInv, JobOK
<1>3. CASE IsDoc
  <2>1. ~ AtEnd => job.k \in 1..Len(job.list)
    BY <1>1, <1>2, <1>3 DEF AtEnd
  <2>2. AtEnd => job.k = Len(job.list) + 1
    BY <1>1, <1>2, <1>3 DEF AtEnd
  <2>3. Chunk = job.list[job.k]
    BY <1>3 DEF Chunk
  <2> QED BY <1>1, <1>3, <2>1, <2>2, <2>3
<1>4. CASE ~ IsDoc
  <2> DEFINE content == files[job.src]
  <2>1. content \in FileContents
    BY <1>2, <1>4 DEF KsIInv, StateOK
  <2>2. PICK n \in 1..MaxBlocks : content \in [1..n -> Blocks]
    BY <2>1 DEF FileContents
  <2>3. n \in Nat
    BY BoundsAreNumbers
  <2> HIDE DEF content
  <2>4. Len(content) = n
    BY <2>2, <2>3, IsASeq, LenProperties
  <2>5. ASSUME ~ AtEnd
        PROVE  Chunk \in ChunkIds
    <3>1. ~ (job.k > n)
      BY <1>4, <2>4, <2>5 DEF AtEnd, content
    <3>2. job.k \in 1..n
      BY <1>1, <1>2, <1>4, <2>3, <3>1
    <3>3. content[job.k] \in Blocks
      BY <2>2, <3>2
    <3>4. Chunk = ChunkId(content[job.k])
      BY <1>4 DEF Chunk, content
    <3> QED BY <3>3, <3>4 DEF ChunkId, ChunkIds, Hashed
  <2> QED BY <1>2, <1>4, <2>5
<1> QED BY <1>3, <1>4

LEMMA TrackOK ==
  ASSUME KsIInv, Track PROVE KsIInv'
PROOF
<1> DEFINE list == IF IsDoc THEN job.list ELSE Append(job.list, Chunk)
           row == <<Chunk, IF IsDoc THEN TextPosition
                           ELSE IF job.copied THEN CopyPosition(job.src)
                           ELSE RangePosition(job.src, job.k)>>
           step == IF job.copied THEN "open" ELSE "track"
           k == IF job.copied THEN job.k ELSE job.k + 1
           n == Len(job.list)
<1>1. /\ job # NoJob /\ job.step = "track" /\ ~ AtEnd
      /\ positions' = positions \cup {row}
      /\ job' = [job EXCEPT !.list = list, !.step = step, !.k = k]
      /\ UNCHANGED <<blobs, relations, stored, files, builds, faults, cutShort>>
  BY DEF Track
<1>2. /\ job \in Jobs /\ job.kind \in Kinds /\ job.list \in Seq(ChunkIds)
      /\ job.k \in Nat /\ job.copied \in BOOLEAN /\ n \in Nat
  BY <1>1, JobFacts
<1>3. /\ Chunk \in ChunkIds
      /\ IF IsDoc THEN job.k \in 1..n /\ Chunk = job.list[job.k] ELSE job.k = n + 1
  BY <1>1, ChunkFacts
<1>4. /\ list \in Seq(ChunkIds) /\ Len(list) \in Nat
      /\ IF IsDoc THEN Len(list) = n ELSE Len(list) = n + 1
      /\ job.k \in 1..Len(list) /\ list[job.k] = Chunk
      /\ \A i \in 1..Len(list) : i # job.k => i \in 1..n /\ list[i] = job.list[i]
  <2>1. CASE IsDoc
    BY <1>2, <1>3, <2>1
  <2>2. CASE ~ IsDoc
    <3> DEFINE l == Append(job.list, Chunk)
    <3>1. /\ l \in Seq(ChunkIds) /\ Len(l) = n + 1 /\ l[n + 1] = Chunk
          /\ \A i \in 1..n : l[i] = job.list[i]
      BY <1>2, <1>3, AppendProperties
    <3> HIDE DEF l
    <3>2. list = l
      BY <2>2 DEF l
    <3> HIDE DEF list
    <3> QED BY <1>2, <1>3, <2>2, <3>1, <3>2
  <2> QED BY <2>1, <2>2
<1>5. row[1] = Chunk /\ row[2].type \in {"store", "range"}
      /\ (job.copied \/ IsDoc => row = <<Chunk, Position(job.kind, job.src)>>)
  BY DEF TextPosition, CopyPosition, RangePosition, Position, IsDoc
<1>6. IsDoc => job.copied
  BY <1>1 DEF KsIInv, JobOK
<1> HIDE DEF list, row
<1>7. /\ job' \in Jobs /\ job'.kind = job.kind /\ job'.src = job.src /\ job'.cut = job.cut
      /\ job'.list = list /\ job'.copied = job.copied /\ job'.k = k /\ job'.step = step
      /\ job' # NoJob
  <2>1. job' \in Jobs
    <3>1. step \in {"track", "open", "write", "relate", "insert", "inserted"} /\ k \in Nat
      BY <1>2
    <3> HIDE DEF step, k
    <3> QED BY <1>1, <1>2, <1>4, <3>1 DEF Jobs
  <2>2. job' # NoJob
    BY <2>1, NoJobIsNone
  <2> QED BY <1>1, <1>2, <2>1, <2>2 DEF Jobs
<1>8. StateOK'
  BY <1>1, <1>3, <1>5, <1>7 DEF KsIInv, StateOK
<1>9. RelationsOK' /\ TornOK' /\ PartOK'
  BY <1>1, <1>7 DEF KsIInv, RelationsOK, TornOK, PartOK
<1>10. StoredOK'
  BY <1>1 DEF KsIInv, StoredOK
<1>11. JobOK'
  <2>1. /\ IsDoc => job.src \in Texts /\ Chunks(job.src, 1, Len(job.src), job.cut)
        /\ ~ IsDoc => job.src \in Files
    BY <1>1 DEF KsIInv, JobOK
  <2>2. IsDoc' <=> IsDoc
    BY <1>7 DEF IsDoc
  <2>3. step = "open" => job.copied /\ k \in 1..Len(list) /\ (~ IsDoc => k = Len(list))
    BY <1>3, <1>4
  <2>4. step = "track" => ~ IsDoc /\ k = Len(list) + 1
    BY <1>2, <1>3, <1>4, <1>6
  <2> HIDE DEF k
  <2>5. step = "open" \/ step = "track"
    OBVIOUS
  <2> HIDE DEF step
  <2> QED BY <1>1, <1>6, <1>7, <2>1, <2>2, <2>3, <2>4, <2>5 DEF JobOK, Copying
<1>12. CopiedOK'
  <2> SUFFICES ASSUME job.copied, NEW i \in 1..Len(list)
               PROVE  /\ i <= job.k => <<list[i], Position(job.kind, job.src)>> \in positions'
                      /\ i < job.k => /\ list[i] \in DOMAIN blobs
                                      /\ blobs[list[i]] = "whole"
    <3>1. job'.copied => step = "open" /\ k = job.k /\ job.copied
      BY <1>7
    <3> HIDE DEF step, k
    <3> QED BY <1>1, <1>7, <3>1 DEF CopiedOK, Copying, Gathering
  <2>1. CASE i = job.k
    BY <1>1, <1>2, <1>4, <1>5, <2>1
  <2>2. CASE i # job.k
    <3>1. i \in 1..n /\ list[i] = job.list[i]
      BY <1>4, <2>2
    <3>2. i < job.k => <<job.list[i], Position(job.kind, job.src)>> \in positions
      BY <1>1, <3>1 DEF KsIInv, CopiedOK, Copying, Gathering
    <3>3. i < job.k => job.list[i] \in DOMAIN blobs /\ blobs[job.list[i]] = "whole"
      BY <1>1, <3>1 DEF KsIInv, CopiedOK, Copying, Gathering
    <3> QED BY <1>1, <1>2, <1>4, <2>2, <3>1, <3>2, <3>3
  <2> QED BY <2>1, <2>2
<1>13. RelatedOK'
  <2>1. Gathering'
    BY <1>7 DEF Gathering
  <2> QED BY <2>1 DEF RelatedOK
<1> QED BY <1>8, <1>9, <1>10, <1>11, <1>12, <1>13 DEF KsIInv

LEMMA OpenOK ==
  ASSUME KsIInv, Open PROVE KsIInv'
PROOF
<1> DEFINE c == job.list[job.k]
           n == Len(job.list)
<1>1. /\ job # NoJob /\ job.step = "open"
      /\ blobs' = Put(blobs, c, "torn")
      /\ job' = [job EXCEPT !.step = "write"]
      /\ UNCHANGED <<positions, relations, stored, files, builds, faults, cutShort>>
  BY DEF Open
<1>2. /\ job \in Jobs /\ job.kind \in Kinds /\ job.list \in Seq(ChunkIds)
      /\ job.k \in Nat /\ job.copied \in BOOLEAN /\ n \in Nat
      /\ \A i \in 1..n : job.list[i] \in ChunkIds
  BY <1>1, JobFacts
<1>3. job.copied /\ job.k \in 1..n /\ (~ IsDoc => job.k = n)
  BY <1>1 DEF KsIInv, JobOK, Copying
<1>4. c \in ChunkIds
  BY <1>2, <1>3
<1> HIDE DEF c
<1>5. /\ DOMAIN blobs' = DOMAIN blobs \cup {c} /\ blobs'[c] = "torn"
      /\ \A y \in DOMAIN blobs : y # c => blobs'[y] = blobs[y]
  BY <1>1 DEF Put
<1>6. /\ job' \in Jobs /\ job'.kind = job.kind /\ job'.src = job.src /\ job'.cut = job.cut
      /\ job'.list = job.list /\ job'.copied = job.copied /\ job'.k = job.k /\ job'.step = "write"
      /\ job' # NoJob
  <2>1. job' \in Jobs
    BY <1>1, <1>2 DEF Jobs
  <2>2. job' # NoJob
    BY <2>1, NoJobIsNone
  <2> QED BY <1>1, <1>2, <2>1, <2>2 DEF Jobs
<1>7. StateOK'
  <2>1. \A d \in DOMAIN blobs' : d \in ChunkIds /\ blobs'[d] \in {"whole", "torn"}
    BY <1>4, <1>5 DEF KsIInv, StateOK
  <2> QED BY <1>1, <1>6, <2>1 DEF KsIInv, StateOK
<1>8. RelationsOK'
  BY <1>1 DEF KsIInv, RelationsOK
<1>9. StoredOK'
  BY <1>1, <1>5 DEF KsIInv, StoredOK
<1>10. JobOK'
  <2>1. /\ IsDoc => job.src \in Texts /\ Chunks(job.src, 1, Len(job.src), job.cut)
        /\ ~ IsDoc => job.src \in Files
    BY <1>1 DEF KsIInv, JobOK
  <2>2. IsDoc' <=> IsDoc
    BY <1>6 DEF IsDoc
  <2> QED BY <1>3, <1>6, <2>1, <2>2 DEF JobOK, Copying
<1>11. CopiedOK'
  <2> SUFFICES ASSUME NEW i \in 1..n
               PROVE  /\ i <= job.k => <<job.list[i], Position(job.kind, job.src)>> \in positions
                      /\ i < job.k => /\ job.list[i] \in DOMAIN blobs'
                                      /\ blobs'[job.list[i]] = "whole" \/ job.list[i] = c
    BY <1>1, <1>6 DEF CopiedOK, Copying, Gathering, c
  <2>1. i <= job.k => <<job.list[i], Position(job.kind, job.src)>> \in positions
    BY <1>1, <1>3 DEF KsIInv, CopiedOK, Copying
  <2>2. i < job.k => job.list[i] \in DOMAIN blobs /\ blobs[job.list[i]] = "whole"
    BY <1>1, <1>3 DEF KsIInv, CopiedOK, Gathering
  <2> QED BY <1>5, <2>1, <2>2
<1>12. RelatedOK'
  <2>1. Gathering'
    BY <1>6 DEF Gathering
  <2> QED BY <2>1 DEF RelatedOK
<1>13. TornOK' /\ PartOK'
  BY <1>1, <1>5, <1>6 DEF KsIInv, TornOK, PartOK, c
<1> QED BY <1>7, <1>8, <1>9, <1>10, <1>11, <1>12, <1>13 DEF KsIInv

LEMMA WriteOK ==
  ASSUME KsIInv, Write PROVE KsIInv'
PROOF
<1> DEFINE c == job.list[job.k]
           n == Len(job.list)
<1>1. /\ job # NoJob /\ job.step = "write"
      /\ blobs' = Put(blobs, c, "whole")
      /\ job' = [job EXCEPT !.step = "track", !.k = job.k + 1]
      /\ UNCHANGED <<positions, relations, stored, files, builds, faults, cutShort>>
  BY DEF Write
<1>2. /\ job \in Jobs /\ job.kind \in Kinds /\ job.list \in Seq(ChunkIds)
      /\ job.k \in Nat /\ job.copied \in BOOLEAN /\ n \in Nat
      /\ \A i \in 1..n : job.list[i] \in ChunkIds
  BY <1>1, JobFacts
<1>3. job.copied /\ job.k \in 1..n /\ (~ IsDoc => job.k = n)
  BY <1>1 DEF KsIInv, JobOK, Copying
<1>4. c \in ChunkIds
  BY <1>2, <1>3
<1> HIDE DEF c
<1>5. /\ DOMAIN blobs' = DOMAIN blobs \cup {c} /\ blobs'[c] = "whole"
      /\ \A y \in DOMAIN blobs : y # c => blobs'[y] = blobs[y]
  BY <1>1 DEF Put
<1>6. /\ job' \in Jobs /\ job'.kind = job.kind /\ job'.src = job.src /\ job'.cut = job.cut
      /\ job'.list = job.list /\ job'.copied = job.copied /\ job'.k = job.k + 1
      /\ job'.step = "track" /\ job' # NoJob
  <2>1. job' \in Jobs
    <3>1. job.k + 1 \in Nat
      BY <1>2
    <3> DEFINE k == job.k + 1
    <3> HIDE DEF k
    <3> QED BY <1>1, <1>2, <3>1 DEF Jobs, k
  <2>2. job' # NoJob
    BY <2>1, NoJobIsNone
  <2> QED BY <1>1, <1>2, <2>1, <2>2 DEF Jobs
<1>7. StateOK'
  <2>1. \A d \in DOMAIN blobs' : d \in ChunkIds /\ blobs'[d] \in {"whole", "torn"}
    BY <1>4, <1>5 DEF KsIInv, StateOK
  <2> QED BY <1>1, <1>6, <2>1 DEF KsIInv, StateOK
<1>8. RelationsOK'
  BY <1>1 DEF KsIInv, RelationsOK
<1>9. StoredOK'
  BY <1>1, <1>5 DEF KsIInv, StoredOK
<1>10. JobOK'
  <2>1. /\ IsDoc => job.src \in Texts /\ Chunks(job.src, 1, Len(job.src), job.cut)
        /\ ~ IsDoc => job.src \in Files
    BY <1>1 DEF KsIInv, JobOK
  <2>2. IsDoc' <=> IsDoc
    BY <1>6 DEF IsDoc
  <2>3. IF IsDoc THEN job.k + 1 \in 1..n + 1 ELSE job.k + 1 = n + 1
    BY <1>2, <1>3
  <2> QED BY <1>3, <1>6, <2>1, <2>2, <2>3 DEF JobOK, Copying
<1>11. CopiedOK'
  <2> SUFFICES ASSUME NEW i \in 1..n
               PROVE  i < job.k + 1 =>
                        /\ <<job.list[i], Position(job.kind, job.src)>> \in positions
                        /\ job.list[i] \in DOMAIN blobs'
                        /\ blobs'[job.list[i]] = "whole"
    BY <1>1, <1>6 DEF CopiedOK, Copying, Gathering
  <2>1. i < job.k + 1 => i <= job.k
    BY <1>2
  <2>2. i <= job.k => <<job.list[i], Position(job.kind, job.src)>> \in positions
    BY <1>1, <1>3 DEF KsIInv, CopiedOK, Copying
  <2>3. i < job.k => /\ job.list[i] \in DOMAIN blobs
                     /\ blobs[job.list[i]] = "whole" \/ job.list[i] = c
    BY <1>1, <1>3 DEF KsIInv, CopiedOK, Gathering, c
  <2>4. i <= job.k => i < job.k \/ job.list[i] = c
    BY <1>2 DEF c
  <2> QED BY <1>5, <2>1, <2>2, <2>3, <2>4
<1>12. RelatedOK'
  <2>1. Gathering'
    BY <1>6 DEF Gathering
  <2> QED BY <2>1 DEF RelatedOK
<1>13. TornOK' /\ PartOK'
  BY <1>1, <1>5, <1>6 DEF KsIInv, TornOK, PartOK, c
<1> QED BY <1>7, <1>8, <1>9, <1>10, <1>11, <1>12, <1>13 DEF KsIInv

LEMMA ChunkedOK ==
  ASSUME KsIInv, Chunked PROVE KsIInv'
PROOF
<1> DEFINE step == IF IsDoc /\ job.list # << >> THEN "relate" ELSE "insert"
           n == Len(job.list)
<1>1. /\ job # NoJob /\ job.step = "track" /\ AtEnd
      /\ job' = [job EXCEPT !.k = 1, !.step = step]
      /\ cutShort' = IF job.copied THEN cutShort \ ToSet(job.list) ELSE cutShort
      /\ UNCHANGED <<blobs, positions, relations, stored, files, builds, faults>>
  BY DEF Chunked
<1>2. /\ job \in Jobs /\ job.kind \in Kinds /\ job.list \in Seq(ChunkIds)
      /\ job.k \in Nat /\ job.copied \in BOOLEAN /\ n \in Nat
      /\ job.k = n + 1
  BY <1>1, JobFacts, ChunkFacts
<1>3. step \in {"relate", "insert"} /\ (step = "relate" => IsDoc /\ n # 0)
  BY <1>2
<1> HIDE DEF step
<1>4. /\ job' \in Jobs /\ job'.kind = job.kind /\ job'.src = job.src /\ job'.cut = job.cut
      /\ job'.list = job.list /\ job'.copied = job.copied /\ job'.k = 1
      /\ job'.step = step /\ job' # NoJob
  <2>1. job' \in Jobs
    BY <1>1, <1>2, <1>3 DEF Jobs
  <2>2. job' # NoJob
    BY <2>1, NoJobIsNone
  <2> QED BY <1>1, <1>2, <2>1, <2>2 DEF Jobs
<1>5. StateOK'
  BY <1>1, <1>4 DEF KsIInv, StateOK
<1>6. RelationsOK' /\ StoredOK'
  BY <1>1, <1>4 DEF KsIInv, RelationsOK, StoredOK
<1>7. JobOK'
  <2>1. /\ IsDoc => /\ job.src \in Texts /\ job.copied
                    /\ Chunks(job.src, 1, Len(job.src), job.cut)
        /\ ~ IsDoc => job.src \in Files
    BY <1>1 DEF KsIInv, JobOK
  <2>2. IsDoc' <=> IsDoc
    BY <1>4 DEF IsDoc
  <2>3. n # 0 => 1 \in 1..n
    BY <1>2
  <2> QED BY <1>3, <1>4, <2>1, <2>2, <2>3 DEF JobOK, Copying
<1>8. CopiedOK'
  <2> SUFFICES ASSUME job.copied, NEW i \in 1..n
               PROVE  /\ <<job.list[i], Position(job.kind, job.src)>> \in positions
                      /\ job.list[i] \in DOMAIN blobs
                      /\ blobs[job.list[i]] = "whole"
    BY <1>1, <1>4 DEF CopiedOK
  <2>1. i < job.k
    BY <1>2
  <2> QED BY <1>1, <2>1 DEF KsIInv, CopiedOK, Copying
<1>9. RelatedOK'
  <2> SUFFICES ASSUME IsDoc, NEW i \in 1..n
               PROVE  step = "relate" /\ 1 <= i
    BY <1>4 DEF RelatedOK, IsDoc
  <2>1. job.list # << >>
    BY <1>2
  <2> QED BY <2>1 DEF step
<1>10. ASSUME NEW c, c \in cutShort, c \notin cutShort'
       PROVE  c[1] = "chunk" /\ blobs[c] = "whole"
  <2>1. job.copied /\ c \in ToSet(job.list)
    BY <1>1, <1>10
  <2>2. PICK i \in 1..n : c = job.list[i]
    BY <1>2, <2>1 DEF ToSet
  <2>3. i < job.k /\ job.list[i] \in ChunkIds
    BY <1>1, <1>2, JobFacts
  <2>4. blobs[job.list[i]] = "whole"
    BY <1>1, <2>1, <2>3 DEF KsIInv, CopiedOK, Gathering
  <2> QED BY <2>2, <2>3, <2>4 DEF ChunkIds
<1>11. TornOK' /\ PartOK'
  <2>1. \A id \in DOMAIN stored : id[1] # "chunk"
    BY DEF KsIInv, StateOK, Kinds
  <2> QED BY <1>1, <1>4, <1>10, <2>1 DEF KsIInv, TornOK, PartOK
<1> QED BY <1>5, <1>6, <1>7, <1>8, <1>9, <1>11 DEF KsIInv

\* The id of what is built does not change when the build goes on.
LEMMA BuiltSame ==
  ASSUME job'.kind = job.kind, job'.list = job.list PROVE Built' = Built
BY DEF Built, ObjectId

LEMMA RelateChunkOK ==
  ASSUME KsIInv, RelateChunk PROVE KsIInv'
PROOF
<1> DEFINE n == Len(job.list)
           c == job.list[job.k]
           step == IF job.k = n THEN "insert" ELSE job.step
<1>1. /\ job # NoJob /\ job.step = "relate"
      /\ relations' = Related(relations, c, Built)
      /\ job' = [job EXCEPT !.k = job.k + 1, !.step = step]
      /\ UNCHANGED <<blobs, positions, stored, files, builds, faults, cutShort>>
  BY DEF RelateChunk
<1>2. /\ job \in Jobs /\ job.kind \in Kinds /\ job.list \in Seq(ChunkIds)
      /\ job.k \in Nat /\ job.copied \in BOOLEAN /\ n \in Nat
      /\ \A i \in 1..n : job.list[i] \in ChunkIds
  BY <1>1, JobFacts
<1>3. IsDoc /\ job.k \in 1..n /\ job.copied
  BY <1>1 DEF KsIInv, JobOK
<1>4. /\ step \in {"relate", "insert"} /\ (step = "relate" => job.k + 1 \in 1..n)
      /\ (step = "insert" <=> job.k = n) /\ job.k + 1 \in Nat
  BY <1>1, <1>2, <1>3
<1> HIDE DEF step
<1>5. /\ job' \in Jobs /\ job'.kind = job.kind /\ job'.src = job.src /\ job'.cut = job.cut
      /\ job'.list = job.list /\ job'.copied = job.copied /\ job'.k = job.k + 1
      /\ job'.step = step /\ job' # NoJob
  <2> DEFINE k == job.k + 1
  <2>1. job' \in Jobs
    <3> HIDE DEF k
    <3> QED BY <1>1, <1>2, <1>4 DEF Jobs, k
  <2>2. job' # NoJob
    BY <2>1, NoJobIsNone
  <2> QED BY <1>1, <1>2, <2>1, <2>2 DEF Jobs
<1>6. Built' = Built
  BY <1>5, BuiltSame
<1>7. StateOK'
  BY <1>1, <1>5 DEF KsIInv, StateOK
<1>8. /\ IsFiniteSet(relations') /\ relations \subseteq relations'
      /\ <<c, Built>> \in relations'
      /\ \A r \in relations' : r \in relations \/ r = <<c, Built>>
  BY <1>1, RelatedFacts DEF KsIInv, RelationsOK
<1>9. RelationsOK'
  <2>1. c[1] = "chunk"
    BY <1>2, <1>3 DEF ChunkIds
  <2>2. Built[1] = "doc"
    BY <1>3 DEF Built, ObjectId, IsDoc
  <2> QED BY <1>8, <2>1, <2>2 DEF KsIInv, RelationsOK
<1>10. StoredOK' /\ TornOK' /\ PartOK'
  BY <1>1, <1>5, <1>8 DEF KsIInv, StoredOK, TornOK, PartOK
<1>11. JobOK'
  <2>1. job.src \in Texts /\ Chunks(job.src, 1, Len(job.src), job.cut)
    BY <1>1, <1>3 DEF KsIInv, JobOK
  <2>2. IsDoc'
    BY <1>3, <1>5 DEF IsDoc
  <2> QED BY <1>3, <1>4, <1>5, <2>1, <2>2 DEF JobOK, Copying
<1>12. CopiedOK'
  <2> SUFFICES ASSUME NEW i \in 1..n
               PROVE  /\ <<job.list[i], Position(job.kind, job.src)>> \in positions
                      /\ job.list[i] \in DOMAIN blobs
                      /\ blobs[job.list[i]] = "whole"
    BY <1>1, <1>5 DEF CopiedOK
  <2> QED BY <1>1, <1>3 DEF KsIInv, CopiedOK, Copying, Gathering
<1>13. RelatedOK'
  <2> SUFFICES ASSUME NEW i \in 1..n
               PROVE  \/ step = "relate" /\ job.k + 1 <= i
                      \/ <<job.list[i], Built>> \in relations'
    BY <1>4, <1>5, <1>6 DEF RelatedOK, Gathering
  <2>1. job.k <= i \/ <<job.list[i], Built>> \in relations
    BY <1>1, <1>3 DEF KsIInv, RelatedOK, Gathering
  <2>2. i = job.k => <<job.list[i], Built>> \in relations'
    BY <1>8
  <2>3. job.k <= i /\ i # job.k => step = "relate" /\ job.k + 1 <= i
    BY <1>2, <1>3, <1>4
  <2> QED BY <1>8, <2>1, <2>2, <2>3
<1> QED BY <1>7, <1>9, <1>10, <1>11, <1>12, <1>13 DEF KsIInv

LEMMA InsertOK ==
  ASSUME KsIInv, Insert PROVE KsIInv'
PROOF
<1> DEFINE n == Len(job.list)
           object == [list |-> job.list, whole |-> FALSE,
                      made |-> [copied |-> job.copied, src |-> job.src]]
<1>1. /\ job # NoJob /\ job.step = "insert"
      /\ stored' = Put(stored, Built, object)
      /\ job' = [job EXCEPT !.step = "inserted"]
      /\ UNCHANGED <<blobs, positions, relations, files, builds, faults, cutShort>>
  BY DEF Insert
<1>2. /\ job \in Jobs /\ job.kind \in Kinds /\ job.list \in Seq(ChunkIds)
      /\ job.k \in Nat /\ job.copied \in BOOLEAN /\ n \in Nat
  BY <1>1, JobFacts
<1>3. /\ job' \in Jobs /\ job'.kind = job.kind /\ job'.src = job.src /\ job'.cut = job.cut
      /\ job'.list = job.list /\ job'.copied = job.copied /\ job'.k = job.k
      /\ job'.step = "inserted" /\ job' # NoJob
  <2>1. job' \in Jobs
    BY <1>1, <1>2 DEF Jobs
  <2>2. job' # NoJob
    BY <2>1, NoJobIsNone
  <2> QED BY <1>1, <1>2, <2>1, <2>2 DEF Jobs
<1>4. Built' = Built /\ Built[1] = job.kind
  BY <1>3, BuiltSame DEF Built, ObjectId
<1>5. /\ object \in Objects /\ ~ object.whole /\ object.list = job.list
      /\ object.made = [copied |-> job.copied, src |-> job.src]
  BY <1>2 DEF Objects, Jobs
<1> HIDE DEF object
<1>6. /\ DOMAIN stored' = DOMAIN stored \cup {Built} /\ stored'[Built] = object
      /\ \A id \in DOMAIN stored : id # Built => stored'[id] = stored[id]
  <2> DEFINE b == Built
  <2>1. stored' = Put(stored, b, object)
    BY <1>1
  <2> HIDE DEF b
  <2>2. /\ DOMAIN stored' = DOMAIN stored \cup {b} /\ stored'[b] = object
        /\ \A id \in DOMAIN stored : id # b => stored'[id] = stored[id]
    BY <2>1 DEF Put
  <2> QED BY <2>2 DEF b
<1>7. StateOK'
  <2>1. \A id \in DOMAIN stored' : id[1] \in Kinds /\ stored'[id] \in Objects
    BY <1>2, <1>4, <1>5, <1>6 DEF KsIInv, StateOK
  <2> QED BY <1>1, <1>3, <2>1 DEF KsIInv, StateOK
<1>8. RelationsOK' /\ TornOK'
  BY <1>1, <1>3 DEF KsIInv, RelationsOK, TornOK
<1>13. PartOK'
  <2> SUFFICES ASSUME NEW id \in DOMAIN stored', ~ stored'[id].whole
               PROVE  id \in cutShort' \/ id = Built'
    BY <1>3 DEF PartOK
  <2>1. CASE id = Built
    BY <1>4, <2>1
  <2>2. CASE id # Built
    BY <1>1, <1>6, <2>2 DEF KsIInv, PartOK
  <2> QED BY <2>1, <2>2
<1>9. StoredOK'
  <2> SUFFICES ASSUME NEW id \in DOMAIN stored', stored'[id].whole
               PROVE  StoredOK!(id)'
    BY DEF StoredOK
  <2>1. id # Built /\ id \in DOMAIN stored /\ stored'[id] = stored[id]
    BY <1>5, <1>6
  <2> QED BY <1>1, <2>1 DEF KsIInv, StoredOK
<1>10. JobOK'
  <2>1. /\ IsDoc => /\ job.src \in Texts /\ job.copied
                    /\ Chunks(job.src, 1, Len(job.src), job.cut)
        /\ ~ IsDoc => job.src \in Files
    BY <1>1 DEF KsIInv, JobOK
  <2>2. IsDoc' <=> IsDoc
    BY <1>3 DEF IsDoc
  <2> QED BY <1>3, <1>4, <1>5, <1>6, <2>1, <2>2 DEF JobOK, Copying
<1>11. CopiedOK'
  <2> SUFFICES ASSUME job.copied, NEW i \in 1..n
               PROVE  /\ <<job.list[i], Position(job.kind, job.src)>> \in positions
                      /\ job.list[i] \in DOMAIN blobs
                      /\ blobs[job.list[i]] = "whole"
    BY <1>1, <1>3 DEF CopiedOK
  <2> QED BY <1>1 DEF KsIInv, CopiedOK, Copying, Gathering
<1>12. RelatedOK'
  <2> SUFFICES ASSUME IsDoc, NEW i \in 1..n
               PROVE  <<job.list[i], Built>> \in relations
    BY <1>1, <1>3, <1>4 DEF RelatedOK, IsDoc
  <2> QED BY <1>1 DEF KsIInv, RelatedOK, Gathering
<1> QED BY <1>7, <1>8, <1>9, <1>10, <1>11, <1>12, <1>13 DEF KsIInv

LEMMA InsertedOK ==
  ASSUME KsIInv, Inserted PROVE KsIInv'
PROOF
<1> DEFINE n == Len(job.list)
           b == Built
<1>1. /\ job # NoJob /\ job.step = "inserted"
      /\ stored' = [stored EXCEPT ![b].whole = TRUE]
      /\ job' = NoJob
      /\ cutShort' = cutShort \ {b}
      /\ UNCHANGED <<blobs, positions, relations, files, builds, faults>>
  BY DEF Inserted
<1>2. /\ b \in DOMAIN stored /\ stored[b].list = job.list
      /\ stored[b].made = [copied |-> job.copied, src |-> job.src]
  BY <1>1 DEF KsIInv, JobOK
<1>3. b[1] = job.kind
  BY DEF Built, ObjectId
<1>4. \A id \in DOMAIN stored : id[1] \in Kinds /\ stored[id] \in Objects
  BY DEF KsIInv, StateOK
<1> HIDE DEF b
<1>5. /\ DOMAIN stored' = DOMAIN stored
      /\ stored'[b] = [stored[b] EXCEPT !.whole = TRUE]
      /\ \A id \in DOMAIN stored : id # b => stored'[id] = stored[id]
  BY <1>1, <1>2
<1>6. stored'[b] \in Objects /\ stored'[b].list = job.list
      /\ stored'[b].made.copied = job.copied /\ stored'[b].made.src = job.src
  <2>1. stored[b] \in Objects
    BY <1>2, <1>4
  <2> DEFINE o == stored[b]
  <2>2. o \in Objects /\ o.list = job.list /\ o.made = [copied |-> job.copied, src |-> job.src]
    BY <1>2, <2>1
  <2> HIDE DEF o
  <2>3. [o EXCEPT !.whole = TRUE] \in Objects /\ [o EXCEPT !.whole = TRUE].list = job.list
        /\ [o EXCEPT !.whole = TRUE].made = o.made
    BY <2>2 DEF Objects
  <2> QED BY <1>5, <2>2, <2>3 DEF o
<1>7. StateOK'
  <2>1. \A id \in DOMAIN stored' : id[1] \in Kinds /\ stored'[id] \in Objects
    BY <1>4, <1>5, <1>6
  <2> QED BY <1>1, <2>1 DEF KsIInv, StateOK
<1>8. RelationsOK' /\ JobOK' /\ CopiedOK' /\ RelatedOK'
  BY <1>1 DEF KsIInv, RelationsOK, JobOK, CopiedOK, RelatedOK
<1>9. StoredOK'
  <2>1. ASSUME NEW id \in DOMAIN stored', stored'[id].whole, id # b
        PROVE  StoredOK!(id)'
    <3>1. id \in DOMAIN stored /\ stored'[id] = stored[id]
      BY <1>5, <2>1
    <3> QED BY <1>1, <2>1, <3>1 DEF KsIInv, StoredOK
  <2>2. ASSUME NEW id \in DOMAIN stored', id = b
        PROVE  StoredOK!(id)'
    <3>1. job.kind = "doc" => job.copied
      BY <1>1 DEF KsIInv, JobOK, IsDoc
    <3>2. \A i \in 1..n : job.kind = "doc" => <<job.list[i], id>> \in relations
      BY <1>1, <2>2 DEF KsIInv, RelatedOK, IsDoc, Gathering, b
    <3>3. \A i \in 1..n : job.copied =>
            /\ job.list[i] \in DOMAIN blobs
            /\ <<job.list[i], Position(job.kind, job.src)>> \in positions
      BY <1>1 DEF KsIInv, CopiedOK, Gathering, Copying
    <3>4. stored'[id].list = job.list /\ stored'[id].made.copied = job.copied
          /\ stored'[id].made.src = job.src /\ id[1] = job.kind
      BY <1>3, <1>6, <2>2
    <3> QED BY <1>1, <3>1, <3>2, <3>3, <3>4
  <2> QED BY <2>1, <2>2 DEF StoredOK
<1>10. TornOK'
  <2>1. b[1] # "chunk" /\ \A c \in DOMAIN blobs : c[1] = "chunk"
    BY <1>1, <1>3, JobFacts DEF KsIInv, StateOK, ChunkIds, Kinds
  <2> QED BY <1>1, <2>1 DEF KsIInv, TornOK
<1>11. PartOK'
  <2> SUFFICES ASSUME NEW id \in DOMAIN stored', ~ stored'[id].whole
               PROVE  id \in cutShort'
    BY DEF PartOK
  <2>1. id # b
    <3> DEFINE o == stored[b]
    <3>1. o \in Objects
      BY <1>2, <1>4
    <3> HIDE DEF o
    <3>2. [o EXCEPT !.whole = TRUE].whole
      BY <3>1 DEF Objects
    <3> QED BY <1>5, <3>2 DEF o
  <2> QED BY <1>1, <1>5, <2>1 DEF KsIInv, PartOK, b
<1> QED BY <1>7, <1>8, <1>9, <1>10, <1>11 DEF KsIInv

\* The state of the store through everything that happens to it.
THEOREM StoreInvariant == KsSpec => []KsIInv
PROOF
<1>1. KsInit => KsIInv
  BY InitOK
<1>2. KsIInv /\ [KsNext]_ksVars => KsIInv'
  <2> SUFFICES ASSUME KsIInv, [KsNext]_ksVars PROVE KsIInv'
    OBVIOUS
  <2>1. CASE UNCHANGED ksVars
    <3>1. UNCHANGED <<blobs, positions, relations, stored, files, job, builds, faults, cutShort>>
      BY <2>1 DEF ksVars
    <3>2. StateOK' /\ RelationsOK' /\ StoredOK' /\ TornOK' /\ PartOK'
      BY <3>1 DEF KsIInv, StateOK, RelationsOK, StoredOK, TornOK, PartOK, Built
    <3>3. JobOK' /\ CopiedOK' /\ RelatedOK'
      BY <3>1 DEF KsIInv, JobOK, CopiedOK, RelatedOK, IsDoc, Copying, Gathering, Built
    <3> QED BY <3>2, <3>3 DEF KsIInv
  <2> QED BY <2>1, BuildDocumentOK, BuildFileOK, TrackOK, OpenOK, WriteOK, ChunkedOK,
             RelateChunkOK, InsertOK, InsertedOK, InterruptOK, RelateOK, EditOK DEF KsNext
<1> QED BY <1>1, <1>2, PTL DEF KsSpec

LEMMA CutOfInvariant ==
  ASSUME KsIInv PROVE CutIsRight
PROOF
<1>1. KsTypeOK
  <2>1. /\ \A c \in DOMAIN blobs : c[1] = "chunk" /\ blobs[c] \in {"whole", "torn"}
        /\ \A p \in positions : p[1][1] = "chunk" /\ p[2].type \in {"store", "range"}
    BY DEF KsIInv, StateOK, ChunkIds
  <2>2. \A id \in DOMAIN stored : stored[id].whole \in BOOLEAN
    BY DEF KsIInv, StateOK, Objects
  <2>3. \A r \in relations : r[1] # r[2]
    <3>1. RichText[1] = "rich" /\ Email[1] = "mail" /\ "rich" \notin Kinds
      BY DEF RichText, Email, Kinds
    <3> QED BY <3>1 DEF KsIInv, RelationsOK
  <2> QED BY <2>1, <2>2, <2>3 DEF KsIInv, StateOK, KsTypeOK
<1>2. CASE job = NoJob \/ ~ IsDoc
  BY <1>1, <1>2 DEF CutIsRight, NothingLost, ChunksFit
<1>3. CASE job # NoJob /\ IsDoc
  <2> DEFINE cut == job.cut
             text == job.src
             n == Len(cut)
  <2>1. Chunks(text, 1, Len(text), cut)
    BY <1>3 DEF KsIInv, JobOK
  <2>2. text \in Seq(STRING)
    BY <1>3, KsAssumption DEF KsIInv, JobOK
  <2>3. Len(text) \in Nat
    BY <2>2
  <2>4. cut \in Seq(Pair) /\ n \in Nat
    BY <2>1 DEF Chunks
  <2>5. \A k \in 1..n : cut[k][1] \in Int /\ cut[k][2] \in Int
    <3>1. \A k \in 1..n : cut[k] \in Pair
      BY <2>4, ElementOfSeq
    <3> QED BY <3>1 DEF Pair
  <2> HIDE DEF cut, text
  <2>6. \A p \in 1..Len(text) :
          text[p] \in Blanks \/ \E k \in 1..n : p \in cut[k][1]..cut[k][2]
    <3> SUFFICES ASSUME NEW p \in 1..Len(text), text[p] \notin Blanks
                 PROVE  \E k \in 1..n : p \in cut[k][1]..cut[k][2]
      OBVIOUS
    <3>1. PICK k \in 1..n : cut[k][1] <= p /\ p <= cut[k][2]
      BY <2>1 DEF Chunks
    <3>2. p \in Int
      OBVIOUS
    <3> QED BY <2>5, <3>1, <3>2
  <2>7. ASSUME NEW k \in 2..n
        PROVE  Follows(cut[k - 1], cut[k])
    <3> DEFINE i == k - 1
    <3>1. i \in 1..n /\ i < n /\ i + 1 = k
      BY <2>4
    <3> HIDE DEF i
    <3>2. Follows(cut[i], cut[i + 1])
      BY <2>1, <3>1 DEF Chunks
    <3> QED BY <3>1, <3>2 DEF i
  <2>8. \A k \in 1..n : Length(cut[k]) <= ChunkSize
    BY <2>1 DEF Chunks
  <2>9. NothingLost
    BY <2>6, <2>7 DEF NothingLost, Follows, cut, text
  <2>10. ChunksFit
    BY <2>7, <2>8 DEF ChunksFit, Follows, cut
  <2> QED BY <1>1, <2>9, <2>10 DEF CutIsRight
<1> QED BY <1>2, <1>3

\* The chunks of a text are the text, whatever text, chunk size and overlap: no letter is
\* lost, no chunk begins or ends before the one in front of it, and none is too long or
\* shares too much.
THEOREM TextsAreCutRight == KsSpec => []CutIsRight
PROOF
<1>1. KsIInv => CutIsRight
  BY CutOfInvariant
<1> QED BY <1>1, StoreInvariant, PTL

\* What the reader finds first of a chunk is in the store when the chunk has the position
\* that a copy is given.
LEMMA FirstIsCopy ==
  ASSUME KsIInv, NEW c, NEW kind, NEW src, kind = "doc" \/ src \in Absolute,
         <<c, Position(kind, src)>> \in positions
  PROVE  \A p \in FirstPositions(c) : p.type = "store"
PROOF
<1> SUFFICES ASSUME NEW p \in FirstPositions(c)
             PROVE  p.type = "store"
  OBVIOUS
<1> DEFINE q == Position(kind, src)
<1>1. q \in PositionsOf(c)
  BY DEF PositionsOf
<1>2. p \in PositionsOf(c) /\ Rank(p) <= Rank(q)
  BY <1>1 DEF FirstPositions
<1>3. p.type \in {"store", "range"}
  BY <1>2 DEF PositionsOf, KsIInv, StateOK
<1>4. Absolute \subseteq Files /\ "" \notin Files
  BY KsAssumption, Zenon
<1>5. Rank(q) \in {0, 1}
  <2>1. CASE kind = "doc"
    <3>1. q.type = "store" /\ q.path = ""
      BY <2>1 DEF Position, TextPosition
    <3> HIDE DEF q
    <3> QED BY <3>1 DEF Rank
  <2>2. CASE kind # "doc"
    <3>1. q.type = "store" /\ q.path = src /\ src \in Absolute /\ src # ""
      BY <1>4, <2>2 DEF Position, CopyPosition
    <3> HIDE DEF q
    <3> QED BY <3>1 DEF Rank
  <2> QED BY <2>1, <2>2
<1>6. p.type = "range" => Rank(p) = 2
  BY DEF Rank
<1> HIDE DEF q
<1> QED BY <1>2, <1>3, <1>5, <1>6

\* What may be no use is what TornOK and PartOK allow.
LEMMA HurtFacts ==
  ASSUME KsIInv
  PROVE  /\ \A c \in DOMAIN blobs : blobs[c] = "whole" \/ c \in Hurt
         /\ ObjectsStay
PROOF
<1>1. /\ cutShort \subseteq Hurt
      /\ job # NoJob /\ job.step = "write" => job.list[job.k] \in Hurt
      /\ job # NoJob /\ job.step = "inserted" => Built \in Hurt
  BY DEF Hurt, InWriting
<1>2. \A c \in DOMAIN blobs : blobs[c] = "whole" \/ c \in Hurt
  BY <1>1 DEF KsIInv, StateOK, TornOK
<1>3. \A id \in DOMAIN stored : stored[id].whole \/ id \in Hurt
  BY <1>1 DEF KsIInv, PartOK
<1> QED BY <1>2, <1>3 DEF ObjectsStay

LEMMA ReadOfInvariant ==
  ASSUME KsIInv PROVE StoredIsRead
PROOF
<1>1. ASSUME NEW id \in DOMAIN stored, stored[id].whole, NEW c \in ToSet(stored[id].list)
      PROVE  LET made == stored[id].made
             IN /\ id[1] = "doc" => made.copied
                /\ made.copied => /\ c \in DOMAIN blobs
                                  /\ <<c, Position(id[1], made.src)>> \in positions
  <2>1. stored[id] \in Objects
    BY DEF KsIInv, StateOK
  <2>2. stored[id].list \in Seq(ChunkIds)
    BY <2>1 DEF Objects
  <2>3. PICK i \in 1..Len(stored[id].list) : c = stored[id].list[i]
    BY <2>2 DEF ToSet
  <2> QED BY <1>1, <2>3 DEF KsIInv, StoredOK
<1>2. DocumentsRead
  <2> SUFFICES ASSUME NEW id \in DOMAIN stored, id[1] = "doc", stored[id].whole,
                      NEW c \in ToSet(stored[id].list)
               PROVE  /\ c \in DOMAIN blobs
                      /\ blobs[c] = "whole" \/ c \in Hurt
                      /\ \A p \in FirstPositions(c) : p.type = "store"
    BY DEF DocumentsRead
  <2>1. c \in DOMAIN blobs /\ <<c, Position("doc", stored[id].made.src)>> \in positions
    BY <1>1
  <2>2. \A p \in FirstPositions(c) : p.type = "store"
    BY <2>1, FirstIsCopy
  <2> QED BY <2>1, <2>2, HurtFacts
<1>3. CopiesOutliveTheFile
  <2> SUFFICES ASSUME NEW id \in DOMAIN stored, id[1] # "doc", stored[id].whole,
                      stored[id].made.copied, stored[id].made.src \in Absolute,
                      NEW c \in ToSet(stored[id].list) \ Hurt,
                      NEW p \in FirstPositions(c)
               PROVE  ReadAt(c, p) = c
    BY DEF CopiesOutliveTheFile
  <2>1. c \in DOMAIN blobs /\ <<c, Position(id[1], stored[id].made.src)>> \in positions
    BY <1>1
  <2>2. p.type = "store"
    BY <2>1, FirstIsCopy
  <2>3. blobs[c] = "whole"
    BY <2>1, HurtFacts
  <2> QED BY <2>1, <2>2, <2>3 DEF ReadAt
<1>4. RebuildRepairs
  <2> SUFFICES ASSUME job # NoJob, job.step \in {"relate", "insert", "inserted"}, job.copied,
                      NEW c \in ToSet(job.list)
               PROVE  c \in DOMAIN blobs /\ blobs[c] = "whole"
    BY DEF RebuildRepairs
  <2>1. job.list \in Seq(ChunkIds)
    BY JobFacts
  <2>2. PICK i \in 1..Len(job.list) : c = job.list[i]
    BY <2>1 DEF ToSet
  <2> QED BY <2>2 DEF KsIInv, CopiedOK, Gathering
<1> QED BY <1>2, <1>3, <1>4, HurtFacts DEF StoredIsRead

\* What was stored is read as it was stored, for any number of texts, files, builds,
\* interruptions and edits, but for the files a write that was cut short has truncated and
\* no build has written again; and a build that comes to its end writes all of its own.
THEOREM WhatIsStoredIsRead == KsSpec => []StoredIsRead
PROOF
<1>1. KsIInv => StoredIsRead
  BY ReadOfInvariant
<1> QED BY <1>1, StoreInvariant, PTL

-----------------------------------------------------------------------------
(* Walking along the relations.                                              *)

\* A finite set as a sequence.
LEMMA SetToSeqFacts ==
  ASSUME NEW S, IsFiniteSet(S)
  PROVE  /\ SetToSeq(S) \in Seq(S) /\ Len(SetToSeq(S)) = Cardinality(S)
         /\ Cardinality(S) \in Nat
         /\ \A x \in S : \E i \in 1..Cardinality(S) : SetToSeq(S)[i] = x
PROOF
<1> DEFINE n == Cardinality(S)
           f == SetToSeq(S)
<1>1. n \in Nat /\ ExistsBijection(1..n, S)
  BY FS_CardinalityType
<1>2. \E g \in [1..n -> S] : IsInjective(g)
  BY <1>1 DEF ExistsBijection, Bijection, Injection
<1>3. f \in [1..n -> S] /\ IsInjective(f)
  BY <1>2 DEF SetToSeq
<1> HIDE DEF f
<1>4. f \in Injection(1..n, S)
  BY <1>3 DEF Injection
<1>5. IsFiniteSet(1..n) /\ Cardinality(1..n) = n
  BY <1>1, FS_Interval
<1>6. f \in Surjection(1..n, S)
  BY <1>4, <1>5, FS_Injection
<1>7. \A x \in S : \E i \in 1..n : f[i] = x
  BY <1>6 DEF Surjection
<1> HIDE DEF n
<1>8. f \in Seq(S) /\ Len(f) = n
  BY <1>1, <1>3, IsASeq, LenProperties
<1> QED BY <1>1, <1>7, <1>8 DEF f, n

\* What can be reached in two steps and in three.
Second(a) == UNION {NextOf(x) : x \in NextOf(a)}
Third(a) == UNION {NextOf(x) : x \in Second(a)}

\* The relations lead up: to a document or the rich text, then the rich text or the
\* e-mail, then the e-mail, and no further.
LEMMA RungFacts ==
  ASSUME KsIInv, NEW a
  PROVE  /\ IsFiniteSet(NextOf(a))
         /\ a \notin NextOf(a) \cup Second(a) \cup Third(a)
         /\ \A x \in NextOf(a) \cup Second(a) : NextOf(x) = {} \/ \E y : NextOf(x) = {y}
         /\ \A x \in Third(a) : NextOf(x) = {}
PROOF
<1>1. /\ IsFiniteSet(relations)
      /\ \A r \in relations :
           \/ r[1][1] = "chunk" /\ r[2][1] = "doc"
           \/ r[1][1] \in Kinds /\ r[2] = RichText
           \/ r[1] = RichText /\ r[2] = Email
  BY DEF KsIInv, RelationsOK
<1>2. /\ RichText[1] = "rich" /\ Email[1] = "mail" /\ "rich" \notin Kinds /\ "mail" \notin Kinds
      /\ "chunk" \notin Kinds /\ RichText # Email /\ "doc" \in Kinds
  <2>1. RichText[1] = "rich" /\ Email[1] = "mail"
    BY DEF RichText, Email
  <2> QED BY <2>1 DEF Kinds
<1>3. ASSUME NEW x, NEW y \in NextOf(x)
      PROVE  \/ x[1] = "chunk" /\ y[1] = "doc"
             \/ x[1] \in Kinds /\ y = RichText
             \/ x = RichText /\ y = Email
  BY <1>1 DEF NextOf
<1>4. \A y \in NextOf(a) : y[1] = "doc" \/ y = RichText \/ y = Email
  BY <1>3
<1>5. ASSUME NEW y \in Second(a)
      PROVE  y = RichText \/ y = Email
  <2>1. PICK x \in NextOf(a) : y \in NextOf(x)
    BY DEF Second
  <2> QED BY <1>2, <1>3, <1>4, <2>1
<1>6. ASSUME NEW y \in Third(a)
      PROVE  y = Email
  <2>1. PICK x \in Second(a) : y \in NextOf(x)
    BY DEF Third
  <2> QED BY <1>2, <1>3, <1>5, <2>1
<1>7. NextOf(Email) = {}
  BY <1>2, <1>3
<1>8. NextOf(RichText) \subseteq {Email}
  BY <1>2, <1>3
<1>9. ASSUME NEW x, x[1] = "doc"
      PROVE  NextOf(x) \subseteq {RichText}
  BY <1>2, <1>3, <1>9
<1>10. \A x \in NextOf(a) \cup Second(a) : NextOf(x) = {} \/ \E y : NextOf(x) = {y}
  <2>1. ASSUME NEW x \in NextOf(a) \cup Second(a)
        PROVE  NextOf(x) \subseteq {RichText} \/ NextOf(x) \subseteq {Email}
    BY <1>4, <1>5, <1>7, <1>8, <1>9
  <2> QED BY <2>1
<1>11. a \notin NextOf(a)
  BY <1>2, <1>3
<1>12. a \notin Second(a)
  <2> SUFFICES ASSUME NEW x \in NextOf(a), a \in NextOf(x)
               PROVE  FALSE
    BY DEF Second
  <2> QED BY <1>2, <1>3
<1>13. a \notin Third(a)
  BY <1>6, <1>7 DEF Third, Second
<1>14. IsFiniteSet(NextOf(a))
  <2> DEFINE R == {r \in relations : r[1] = a}
             f == [r \in R |-> r[2]]
  <2>1. IsFiniteSet(R)
    BY <1>1, FS_Subset
  <2>2. f \in Surjection(R, NextOf(a))
    BY DEF Surjection, NextOf
  <2> HIDE DEF R, f
  <2> QED BY <2>1, <2>2, FS_Surjection
<1> QED BY <1>6, <1>7, <1>10, <1>11, <1>12, <1>13, <1>14

\* The list of a walk from a: d objects next to a, p objects two steps away, q three
\* steps away.  All but the last kind can make the list longer by one.
Shape(m, a, d, p, q) ==
  /\ q <= p /\ p <= d /\ Len(m.list) = d + p + q
  /\ \A i \in 1..Len(m.list) :
       /\ i <= d => m.list[i] \in NextOf(a)
       /\ d < i /\ i <= d + p => m.list[i] \in Second(a)
       /\ d + p < i => m.list[i] \in Third(a)
  /\ m.k <= d + 1 => p <= m.k - 1 /\ q = 0
  /\ m.k > d + 1 => q <= m.k - 1 - d

\* The walk from a with m.k - 1 objects of its list behind it.
WalkOK(m, a, d) ==
  /\ m.list \in Seq((NextOf(a) \cup Second(a) \cup Third(a)))
  /\ m.k \in Nat \ {0} /\ m.k <= Len(m.list) + 1
  /\ \E p \in Nat : \E q \in Nat : Shape(m, a, d, p, q)
  /\ \A x \in NextOf(a) : \E i \in 1..Len(m.list) : m.list[i] = x
  /\ \A i \in 1..Len(m.list) : i < m.k =>
       \A y \in NextOf(m.list[i]) : \E j \in 1..Len(m.list) : m.list[j] = y
  /\ \A x : x \in m.roots <=> \E i \in 1..Len(m.list) : i < m.k /\ m.list[i] = x /\ NextOf(x) = {}

LEMMA WalkOnOK ==
  ASSUME KsIInv, NEW a, NEW d \in Nat, NEW m, WalkOK(m, a, d), m.k <= Len(m.list)
  PROVE  WalkOK(WalkOn(m, a), a, d) /\ WalkOn(m, a).k = m.k + 1
PROOF
<1> DEFINE A == NextOf(a) \cup Second(a) \cup Third(a)
           l == m.list
           k == m.k
           n == Len(l)
           x == l[k]
           list == IF x = a THEN l ELSE l \o SetToSeq(NextOf(x))
           roots == IF NextOf(x) = {} THEN m.roots \cup {x} ELSE m.roots
           r == [k |-> k + 1, list |-> list, roots |-> roots]
<1>1. /\ l \in Seq(A) /\ k \in Nat \ {0} /\ n \in Nat /\ k \in 1..n
  BY DEF WalkOK
<1>2. PICK p \in Nat : \E q \in Nat : Shape(m, a, d, p, q)
  BY DEF WalkOK
<1>3. PICK q \in Nat : Shape(m, a, d, p, q)
  BY <1>2
<1>4. /\ q <= p /\ p <= d /\ n = d + p + q
      /\ \A i \in 1..n : /\ i <= d => l[i] \in NextOf(a)
                         /\ d < i /\ i <= d + p => l[i] \in Second(a)
                         /\ d + p < i => l[i] \in Third(a)
      /\ k <= d + 1 => p <= k - 1 /\ q = 0
      /\ k > d + 1 => q <= k - 1 - d
  BY <1>3 DEF Shape
<1>5. /\ \A y \in NextOf(a) : \E i \in 1..n : l[i] = y
      /\ \A i \in 1..n : i < k => \A y \in NextOf(l[i]) : \E j \in 1..n : l[j] = y
      /\ \A y : y \in m.roots <=> \E i \in 1..n : i < k /\ l[i] = y /\ NextOf(y) = {}
  BY DEF WalkOK
<1>6. WalkOn(m, a) = r
  <2>1. ~ (m.k > Len(m.list))
    BY <1>1
  <2> QED BY <2>1 DEF WalkOn
<1>7. r.k = k + 1 /\ r.list = list /\ r.roots = roots
  OBVIOUS
<1>8. x \in A /\ x # a
  BY <1>1, RungFacts
<1>9. \/ NextOf(x) = {} /\ list = l
      \/ \E y : NextOf(x) = {y} /\ list = Append(l, y)
  <2> DEFINE e == SetToSeq(NextOf(x))
  <2>1. list = l \o e
    BY <1>8
  <2>2. NextOf(x) = {} \/ \E y : NextOf(x) = {y}
    BY <1>8, RungFacts
  <2>3. CASE NextOf(x) = {}
    <3>1. e \in Seq({}) /\ Len(e) = 0
      BY <2>3, SetToSeqFacts, FS_EmptySet
    <3>2. e = << >>
      BY <3>1
    <3> HIDE DEF e
    <3>3. l \o e = l
      BY <1>1, <3>2
    <3> QED BY <2>1, <2>3, <3>3
  <2>4. ASSUME NEW y, NextOf(x) = {y}
        PROVE  list = Append(l, y)
    <3>1. IsFiniteSet({y}) /\ Cardinality({y}) = 1
      BY FS_Singleton
    <3>2. e \in Seq({y}) /\ Len(e) = 1
      BY <2>4, <3>1, SetToSeqFacts
    <3> HIDE DEF e
    <3>3. e = <<y>>
      BY <3>2
    <3>4. l \o <<y>> = Append(l, y)
      BY <1>1
    <3> QED BY <2>1, <3>3, <3>4
  <2> QED BY <2>2, <2>3, <2>4
<1> HIDE DEF list, roots, r
<1>10. ASSUME NEW s \in Seq(A), list = s, NEW p2 \in Nat, NEW q2 \in Nat,
              n <= Len(s), \A i \in 1..n : s[i] = l[i],
              \A y \in NextOf(x) : \E j \in 1..Len(s) : s[j] = y,
              q2 <= p2, p2 <= d, Len(s) = d + p2 + q2,
              \A i \in 1..Len(s) : /\ i <= d => s[i] \in NextOf(a)
                                   /\ d < i /\ i <= d + p2 => s[i] \in Second(a)
                                   /\ d + p2 < i => s[i] \in Third(a),
              k + 1 <= d + 1 => p2 <= k /\ q2 = 0,
              k + 1 > d + 1 => q2 <= k - d
       PROVE  WalkOK(r, a, d)
  <2>1. Shape(r, a, d, p2, q2)
    BY <1>1, <1>7, <1>10 DEF Shape
  <2>2. Len(s) \in Nat /\ \A i \in 1..n : i \in 1..Len(s)
    BY <1>1, <1>10
  <2>3. \A y \in NextOf(a) : \E i \in 1..Len(s) : s[i] = y
    BY <1>5, <1>10, <2>2
  <2>4. ASSUME NEW i \in 1..Len(s), i < k + 1, NEW y \in NextOf(s[i])
        PROVE  \E j \in 1..Len(s) : s[j] = y
    <3>1. i \in 1..n /\ s[i] = l[i] /\ (i < k \/ i = k)
      BY <1>1, <1>10, <2>4
    <3>2. CASE i = k
      BY <1>10, <2>4, <3>1, <3>2
    <3>3. CASE i < k
      <4>1. PICK j \in 1..n : l[j] = y
        BY <1>5, <2>4, <3>1, <3>3
      <4> QED BY <1>10, <2>2, <4>1
    <3> QED BY <3>1, <3>2, <3>3
  <2>5. ASSUME NEW y
        PROVE  y \in roots <=> \E i \in 1..Len(s) : i < k + 1 /\ s[i] = y /\ NextOf(y) = {}
    <3>1. y \in roots <=> y \in m.roots \/ (y = x /\ NextOf(x) = {})
      BY DEF roots
    <3>2. ASSUME y \in roots
          PROVE  \E i \in 1..Len(s) : i < k + 1 /\ s[i] = y /\ NextOf(y) = {}
      <4>1. CASE y \in m.roots
        <5>1. PICK i \in 1..n : i < k /\ l[i] = y /\ NextOf(y) = {}
          BY <1>5, <4>1
        <5>2. i \in 1..Len(s) /\ s[i] = y /\ i < k + 1
          BY <1>1, <1>10, <2>2, <5>1
        <5> QED BY <5>1, <5>2
      <4>2. CASE y = x /\ NextOf(x) = {}
        <5>1. k \in 1..Len(s) /\ s[k] = x /\ k < k + 1
          BY <1>1, <1>10, <2>2
        <5> QED BY <4>2, <5>1
      <4> QED BY <3>1, <3>2, <4>1, <4>2
    <3>3. ASSUME NEW i \in 1..Len(s), i < k + 1, s[i] = y, NextOf(y) = {}
          PROVE  y \in roots
      <4>1. i \in 1..n /\ s[i] = l[i] /\ (i < k \/ i = k)
        BY <1>1, <1>10, <3>3
      <4> HIDE DEF k
      <4>2. i = k => y = x
        BY <3>3, <4>1
      <4>3. i < k => y \in m.roots
        BY <1>5, <3>3, <4>1
      <4> QED BY <3>1, <3>3, <4>1, <4>2, <4>3
    <3> QED BY <3>2, <3>3
  <2>6. k + 1 \in Nat \ {0} /\ k + 1 <= Len(s) + 1
    BY <1>1, <1>10, <2>2
  <2>7. r.list = s /\ r.k = k + 1 /\ r.roots = roots
    BY <1>7, <1>10
  <2>8. s \in Seq(NextOf(a) \cup Second(a) \cup Third(a))
    BY <1>10
  <2>9. \E p3 \in Nat : \E q3 \in Nat : Shape(r, a, d, p3, q3)
    BY <1>10, <2>1
  <2>10. \A i \in 1..Len(s) : i < k + 1 =>
           \A y \in NextOf(s[i]) : \E j \in 1..Len(s) : s[j] = y
    BY <2>4
  <2>11. \A y : y \in roots <=> \E i \in 1..Len(s) : i < k + 1 /\ s[i] = y /\ NextOf(y) = {}
    BY <2>5
  <2> DEFINE kk == k + 1
  <2> HIDE DEF kk
  <2>12. /\ r.list = s /\ r.k = kk /\ r.roots = roots
         /\ kk \in Nat \ {0} /\ kk <= Len(s) + 1
         /\ \A i \in 1..Len(s) : i < kk =>
              \A y \in NextOf(s[i]) : \E j \in 1..Len(s) : s[j] = y
         /\ \A y : y \in roots <=> \E i \in 1..Len(s) : i < kk /\ s[i] = y /\ NextOf(y) = {}
    BY <2>6, <2>7, <2>10, <2>11 DEF kk
  <2> HIDE DEF k, l, n, x, A
  <2> QED BY <2>3, <2>8, <2>9, <2>12, Zenon DEF WalkOK
<1>11. ASSUME NextOf(x) = {}, list = l
       PROVE  WalkOK(r, a, d)
  <2>1. k + 1 <= d + 1 => p <= k /\ q = 0
    BY <1>1, <1>4
  <2>2. k + 1 > d + 1 => q <= k - d
    BY <1>1, <1>4
  <2> DEFINE s == l
  <2>3. s \in Seq(A) /\ list = s /\ Len(s) = n /\ n <= Len(s) /\ \A i \in 1..n : s[i] = l[i]
    BY <1>1, <1>11
  <2> HIDE DEF s, l, k, n, x
  <2>4. \A y \in NextOf(x) : \E j \in 1..Len(s) : s[j] = y
    BY <1>11
  <2>5. /\ Len(s) = d + p + q
        /\ \A i \in 1..Len(s) : /\ i <= d => s[i] \in NextOf(a)
                                /\ d < i /\ i <= d + p => s[i] \in Second(a)
                                /\ d + p < i => s[i] \in Third(a)
    BY <1>4, <2>3
  <2> QED BY <1>4, <1>10, <2>1, <2>2, <2>3, <2>4, <2>5
<1>12. ASSUME NEW y, NextOf(x) = {y}, list = Append(l, y)
       PROVE  WalkOK(r, a, d)
  <2> DEFINE s == Append(l, y)
  <2>1. k <= d \/ (d < k /\ k <= d + p)
    <3>1. NextOf(x) # {}
      BY <1>12
    <3>2. ~ (d + p < k)
      BY <1>1, <1>4, <3>1, RungFacts
    <3> QED BY <1>1, <3>2
  <2>2. k <= d => y \in Second(a)
    BY <1>1, <1>4, <1>12 DEF Second
  <2>3. d < k /\ k <= d + p => y \in Third(a)
    BY <1>1, <1>4, <1>12 DEF Third
  <2>4. y \in A
    BY <2>1, <2>2, <2>3
  <2>5. /\ s \in Seq(A) /\ Len(s) = n + 1 /\ s[n + 1] = y /\ \A i \in 1..n : s[i] = l[i]
    BY <1>1, <2>4, AppendProperties
  <2> HIDE DEF s, l, k, n, x
  <2>6. n <= Len(s) /\ \A z \in NextOf(x) : \E j \in 1..Len(s) : s[j] = z
    <3>1. n + 1 \in 1..Len(s)
      BY <1>1, <2>5
    <3> QED BY <1>1, <1>12, <2>5, <3>1
  <2>7. CASE k <= d
    <3>1. q = 0 /\ p + 1 <= d /\ p + 1 \in Nat /\ p + 1 <= k /\ n + 1 = d + (p + 1) + q
          /\ q <= p + 1 /\ k \in Nat
      BY <1>1, <1>4, <2>7
    <3>2. ASSUME NEW i \in 1..Len(s)
          PROVE  /\ i <= d => s[i] \in NextOf(a)
                 /\ d < i /\ i <= d + (p + 1) => s[i] \in Second(a)
                 /\ d + (p + 1) < i => s[i] \in Third(a)
      <4>1. CASE i = n + 1
        BY <1>4, <2>2, <2>5, <2>7, <3>1, <4>1
      <4>2. CASE i # n + 1
        <5>1. i \in 1..n /\ s[i] = l[i] /\ i <= d + p
          BY <1>1, <1>4, <2>5, <3>1, <4>2
        <5> QED BY <1>4, <3>1, <5>1
      <4> QED BY <4>1, <4>2
    <3>3. k + 1 > d + 1 => q <= k - d
      BY <2>7, <3>1
    <3> DEFINE p2 == p + 1
    <3> HIDE DEF p2
    <3>4. /\ p2 \in Nat /\ q <= p2 /\ p2 <= d /\ Len(s) = d + p2 + q
          /\ k + 1 <= d + 1 => p2 <= k /\ q = 0
          /\ \A i \in 1..Len(s) : /\ i <= d => s[i] \in NextOf(a)
                                  /\ d < i /\ i <= d + p2 => s[i] \in Second(a)
                                  /\ d + p2 < i => s[i] \in Third(a)
      BY <2>5, <3>1, <3>2 DEF p2
    <3>5. list = s
      BY <1>12 DEF s
    <3> QED BY <1>10, <2>5, <2>6, <3>3, <3>4, <3>5
  <2>8. CASE d < k /\ k <= d + p
    <3>1. /\ q + 1 \in Nat /\ q + 1 <= p /\ n + 1 = d + p + (q + 1) /\ q + 1 <= k - d /\ k \in Nat
          /\ ~ (k + 1 <= d + 1)
      BY <1>1, <1>4, <2>8
    <3>2. ASSUME NEW i \in 1..Len(s)
          PROVE  /\ i <= d => s[i] \in NextOf(a)
                 /\ d < i /\ i <= d + p => s[i] \in Second(a)
                 /\ d + p < i => s[i] \in Third(a)
      <4>1. CASE i = n + 1
        BY <1>4, <2>3, <2>5, <2>8, <3>1, <4>1
      <4>2. CASE i # n + 1
        <5>1. i \in 1..n /\ s[i] = l[i]
          BY <1>1, <1>4, <2>5, <3>1, <4>2
        <5> QED BY <1>4, <5>1
      <4> QED BY <4>1, <4>2
    <3> DEFINE q2 == q + 1
    <3> HIDE DEF q2
    <3>3. /\ q2 \in Nat /\ q2 <= p /\ p <= d /\ Len(s) = d + p + q2
          /\ (k + 1 > d + 1 => q2 <= k - d) /\ (k + 1 <= d + 1 => p <= k /\ q2 = 0)
      BY <1>4, <2>5, <3>1 DEF q2
    <3>4. list = s
      BY <1>12 DEF s
    <3> QED BY <1>10, <2>5, <2>6, <3>2, <3>3, <3>4
  <2> QED BY <2>1, <2>7, <2>8
<1> QED BY <1>6, <1>7, <1>9, <1>11, <1>12

\* A walk comes to the end of its list.
LEMMA WalkFacts ==
  ASSUME KsIInv, NEW a
  PROVE  Walk(a).k > Len(Walk(a).list) /\ WalkOK(Walk(a), a, Cardinality(NextOf(a)))
PROOF
<1> DEFINE d == Cardinality(NextOf(a))
           N == 3 * d
           first == [k |-> 1, list |-> SetToSeq(NextOf(a)), roots |-> {}]
           Step(m, n) == WalkOn(m, a)
           Eq(n, f) == f = [k \in 0..n |-> IF k = 0 THEN first ELSE Step(f[k - 1], k)]
<1>0. /\ d \in Nat /\ SetToSeq(NextOf(a)) \in Seq(NextOf(a)) /\ Len(SetToSeq(NextOf(a))) = d
      /\ \A x \in NextOf(a) : \E i \in 1..d : SetToSeq(NextOf(a))[i] = x
  BY RungFacts, SetToSeqFacts
<1> HIDE DEF d
<1>1. N \in Nat
  BY <1>0
<1>2. \E f : Eq(N, f)
  <2> DEFINE S == {n \in 0..N : \E f : Eq(n, f)}
  <2>1. 0 \in S
    <3> DEFINE f == [k \in 0..0 |-> first]
    <3>1. Eq(0, f)
      OBVIOUS
    <3>2. 0 \in 0..N
      BY <1>1
    <3> HIDE DEF f, Eq, N
    <3> QED BY <3>1, <3>2
  <2>2. ASSUME NEW n \in 0..N - 1, n \in S
        PROVE  n + 1 \in S
    <3>1. PICK f : Eq(n, f)
      BY <2>2
    <3> HIDE DEF first, Step, N
    <3> DEFINE g == [k \in 0..n + 1 |-> IF k = n + 1 THEN Step(f[n], n + 1) ELSE f[k]]
    <3>2. ASSUME NEW k \in 0..n + 1
          PROVE  g[k] = IF k = 0 THEN first ELSE Step(g[k - 1], k)
      <4>1. CASE k = 0
        BY <1>1, <3>1, <4>1
      <4>2. CASE k = n + 1
        BY <1>1, <4>2
      <4>3. CASE k # 0 /\ k # n + 1
        <5>1. k \in 0..n /\ k - 1 \in 0..n /\ k - 1 # n + 1 /\ k - 1 \in 0..n + 1
          BY <1>1, <4>3
        <5>2. g[k] = f[k] /\ g[k - 1] = f[k - 1]
          BY <4>3, <5>1
        <5>3. f[k] = Step(f[k - 1], k)
          BY <3>1, <4>3, <5>1
        <5> QED BY <4>3, <5>2, <5>3
      <4> QED BY <4>1, <4>2, <4>3
    <3>3. Eq(n + 1, g)
      BY <3>2
    <3>4. n + 1 \in 0..N
      BY <1>1
    <3> HIDE DEF g, Eq
    <3> QED BY <3>3, <3>4
  <2>3. \A n \in 0..N - 1 : n \in S => n + 1 \in S
    BY <2>2
  <2>4. N \in S
    <3>1. N \in 0..N
      BY <1>1
    <3> HIDE DEF S, N
    <3> QED BY <1>1, <2>1, <2>3, <3>1, UpTo
  <2> QED BY <2>4
<1> DEFINE f == CHOOSE f : Eq(N, f)
<1>3. Eq(N, f)
  BY <1>2
<1>4. Walk(a) = f[N]
  BY DEF Walk, d
<1> HIDE DEF f
<1>5. \A k \in 0..N : f[k] = IF k = 0 THEN first ELSE Step(f[k - 1], k)
  <2> HIDE DEF Step, first, N
  <2> QED BY <1>3
<1> HIDE DEF Eq, N
<1> DEFINE Done(m, n) == WalkOK(m, a, d) /\ (m.k = n + 1 \/ m.k > Len(m.list))
           S == {n \in 0..N : Done(f[n], n)}
<1>6. 0 \in S
  <2>1. 0 \in 0..N
    BY <1>1
  <2>2. f[0] = first
    BY <1>5, <2>1
  <2> DEFINE l == SetToSeq(NextOf(a))
  <2>3. first.k = 1 /\ first.list = l /\ first.roots = {}
    OBVIOUS
  <2> HIDE DEF first, l
  <2>4. l \in Seq(NextOf(a)) /\ Len(l) = d /\ \A x \in NextOf(a) : \E i \in 1..Len(l) : l[i] = x
    BY <1>0 DEF l
  <2>5. l \in Seq(NextOf(a) \cup Second(a) \cup Third(a))
    BY <2>4
  <2>6. \A i \in 1..Len(l) : l[i] \in NextOf(a) /\ i <= d
    BY <1>0, <2>4
  <2>7. Shape(first, a, d, 0, 0)
    BY <1>0, <2>3, <2>4, <2>6 DEF Shape
  <2>8. WalkOK(first, a, d)
    <3>1. 1 \in Nat \ {0} /\ 1 <= Len(l) + 1 /\ 0 \in Nat /\ \A i \in 1..Len(l) : ~ (i < 1)
      BY <1>0, <2>4
    <3> QED BY <2>3, <2>4, <2>5, <2>7, <3>1 DEF WalkOK
  <2> QED BY <2>1, <2>2, <2>3, <2>8
<1>7. ASSUME NEW n \in 0..N - 1, n \in S
      PROVE  n + 1 \in S
  <2> DEFINE k == n + 1
             m == f[n]
  <2>1. k \in 0..N /\ k # 0 /\ k - 1 = n
    BY <1>1
  <2>2. f[k] = WalkOn(m, a)
    <3> HIDE DEF Step, k
    <3>1. f[k] = Step(m, k)
      BY <1>5, <2>1
    <3> QED BY <3>1 DEF Step
  <2>3. WalkOK(m, a, d) /\ (m.k = k \/ m.k > Len(m.list))
    BY <1>7
  <2> HIDE DEF m, k
  <2>4. Len(m.list) \in Nat /\ m.k \in Nat /\ k \in Nat
    BY <1>1, <2>1, <2>3 DEF WalkOK
  <2>5. CASE m.k > Len(m.list)
    <3>1. WalkOn(m, a) = m
      BY <2>5 DEF WalkOn
    <3>2. Done(f[k], k)
      BY <2>2, <2>3, <2>5, <3>1
    <3> QED BY <2>1, <3>2 DEF k
  <2>6. CASE ~ (m.k > Len(m.list))
    <3>1. WalkOK(WalkOn(m, a), a, d) /\ WalkOn(m, a).k = m.k + 1
      BY <1>0, <2>3, <2>4, <2>6, WalkOnOK
    <3>2. Done(f[k], k)
      BY <2>2, <2>3, <2>6, <3>1
    <3> QED BY <2>1, <3>2 DEF k
  <2> QED BY <2>5, <2>6
<1>8. N \in S
  <2>1. \A n \in 0..N - 1 : n \in S => n + 1 \in S
    BY <1>7
  <2>2. N \in 0..N
    BY <1>1
  <2> HIDE DEF S
  <2> QED BY <1>1, <1>6, <2>1, <2>2, UpTo
<1> DEFINE w == f[N]
<1>9. WalkOK(w, a, d) /\ (w.k = N + 1 \/ w.k > Len(w.list))
  BY <1>8
<1> HIDE DEF w, S, Done
<1>10. w.k > Len(w.list)
  <2>1. PICK p \in Nat : \E q \in Nat : Shape(w, a, d, p, q)
    BY <1>9 DEF WalkOK
  <2>2. PICK q \in Nat : Shape(w, a, d, p, q)
    BY <2>1
  <2>3. q <= p /\ p <= d /\ Len(w.list) = d + p + q
    BY <2>2 DEF Shape
  <2>4. w.k = N + 1 => w.k > Len(w.list)
    BY <1>0, <2>3 DEF N
  <2> QED BY <1>9, <2>4
<1> QED BY <1>4, <1>9, <1>10 DEF w, d

\* What can be reached is what is one, two or three steps away.
LEMMA ReachableFacts ==
  ASSUME KsIInv, NEW a
  PROVE  Reachable(a) = NextOf(a) \cup Second(a) \cup Third(a)
PROOF
<1> DEFINE N == Cardinality(relations)
           All == NextOf(a) \cup Second(a) \cup Third(a)
           first == NextOf(a)
           Step(m, n) == m \cup UNION {NextOf(b) : b \in m}
           Eq(n, f) == f = [k \in 0..n |-> IF k = 0 THEN first ELSE Step(f[k - 1], k)]
<1>0. IsFiniteSet(relations)
  BY DEF KsIInv, RelationsOK
<1>1. N \in Nat
  BY <1>0, FS_CardinalityType
<1>2. \E f : Eq(N, f)
  <2> DEFINE S == {n \in 0..N : \E f : Eq(n, f)}
  <2>1. 0 \in S
    <3> DEFINE f == [k \in 0..0 |-> first]
    <3>1. Eq(0, f)
      OBVIOUS
    <3>2. 0 \in 0..N
      BY <1>1
    <3> HIDE DEF f, Eq, N
    <3> QED BY <3>1, <3>2
  <2>2. ASSUME NEW n \in 0..N - 1, n \in S
        PROVE  n + 1 \in S
    <3>1. PICK f : Eq(n, f)
      BY <2>2
    <3> HIDE DEF first, Step, N
    <3> DEFINE g == [k \in 0..n + 1 |-> IF k = n + 1 THEN Step(f[n], n + 1) ELSE f[k]]
    <3>2. ASSUME NEW k \in 0..n + 1
          PROVE  g[k] = IF k = 0 THEN first ELSE Step(g[k - 1], k)
      <4>1. CASE k = 0
        BY <1>1, <3>1, <4>1
      <4>2. CASE k = n + 1
        BY <1>1, <4>2
      <4>3. CASE k # 0 /\ k # n + 1
        <5>1. k \in 0..n /\ k - 1 \in 0..n /\ k - 1 # n + 1 /\ k - 1 \in 0..n + 1
          BY <1>1, <4>3
        <5>2. g[k] = f[k] /\ g[k - 1] = f[k - 1]
          BY <4>3, <5>1
        <5>3. f[k] = Step(f[k - 1], k)
          BY <3>1, <4>3, <5>1
        <5> QED BY <4>3, <5>2, <5>3
      <4> QED BY <4>1, <4>2, <4>3
    <3>3. Eq(n + 1, g)
      BY <3>2
    <3>4. n + 1 \in 0..N
      BY <1>1
    <3> HIDE DEF g, Eq
    <3> QED BY <3>3, <3>4
  <2>3. \A n \in 0..N - 1 : n \in S => n + 1 \in S
    BY <2>2
  <2>4. N \in S
    <3>1. N \in 0..N
      BY <1>1
    <3> HIDE DEF S, N
    <3> QED BY <1>1, <2>1, <2>3, <3>1, UpTo
  <2> QED BY <2>4
<1> DEFINE f == CHOOSE f : Eq(N, f)
<1>3. Eq(N, f)
  BY <1>2
<1>4. Reachable(a) = f[N]
  BY DEF Reachable
<1> HIDE DEF f
<1>5. \A k \in 0..N : f[k] = IF k = 0 THEN first ELSE Step(f[k - 1], k)
  <2> HIDE DEF Step, first, N
  <2> QED BY <1>3
<1> HIDE DEF Eq, N
<1>6. \A x \in All : NextOf(x) \subseteq All
  <2>1. \A x \in Third(a) : NextOf(x) = {}
    BY RungFacts
  <2> QED BY <2>1 DEF Second, Third
<1> HIDE DEF All
<1> DEFINE Within(s, n) == /\ s \subseteq All /\ NextOf(a) \subseteq s
                           /\ n >= 1 => Second(a) \subseteq s
                           /\ n >= 2 => Third(a) \subseteq s
           S == {n \in 0..N : Within(f[n], n)}
<1>7. 0 \in S
  <2>1. 0 \in 0..N
    BY <1>1
  <2>2. f[0] = NextOf(a)
    BY <1>5, <2>1
  <2> QED BY <2>1, <2>2 DEF All
<1>8. ASSUME NEW n \in 0..N - 1, n \in S
      PROVE  n + 1 \in S
  <2> DEFINE k == n + 1
             s == f[n]
  <2>1. k \in 0..N /\ k # 0 /\ k - 1 = n /\ n \in Nat
    BY <1>1
  <2>2. f[k] = Step(s, k)
    <3> HIDE DEF Step, k, s
    <3>1. f[k] = Step(f[n], k)
      BY <1>5, <2>1
    <3> QED BY <3>1 DEF s
  <2>3. Within(s, n)
    BY <1>8
  <2> HIDE DEF s
  <2>4. s \subseteq All /\ NextOf(a) \subseteq s /\ (n >= 1 => Second(a) \subseteq s)
    BY <2>3
  <2>5. f[k] \subseteq All
    BY <1>6, <2>2, <2>4
  <2>6. NextOf(a) \subseteq f[k] /\ Second(a) \subseteq f[k]
    BY <2>2, <2>4 DEF Second
  <2>7. k >= 2 => Third(a) \subseteq f[k]
    <3>1. k >= 2 => n >= 1
      BY <2>1
    <3> QED BY <2>2, <2>4, <3>1 DEF Third
  <2>8. Within(f[k], k)
    BY <2>5, <2>6, <2>7
  <2> HIDE DEF Within
  <2> QED BY <2>1, <2>8 DEF k
<1>9. N \in S
  <2>1. \A n \in 0..N - 1 : n \in S => n + 1 \in S
    BY <1>8
  <2>2. N \in 0..N
    BY <1>1
  <2> HIDE DEF S
  <2> QED BY <1>1, <1>7, <2>1, <2>2, UpTo
<1>10. Within(f[N], N)
  BY <1>9
<1>11. ASSUME NEW y \in Second(a)
       PROVE  N >= 2
  <2>1. PICK x \in NextOf(a) : y \in NextOf(x)
    BY DEF Second
  <2>2. PICK r1 \in relations : r1[1] = a /\ r1[2] = x
    BY DEF NextOf
  <2>3. PICK r2 \in relations : r2[1] = x
    BY <2>1 DEF NextOf
  <2>4. a # x
    BY RungFacts
  <2>5. r2 \notin {r1}
    BY <2>2, <2>3, <2>4
  <2>6. IsFiniteSet({r1}) /\ Cardinality({r1}) = 1
    BY FS_Singleton
  <2> DEFINE one == {r1}
             T == one \cup {r2}
  <2>8. T \subseteq relations
    OBVIOUS
  <2> HIDE DEF one
  <2>7. Cardinality(T) = 2
    <3>1. Cardinality(T) = IF r2 \in one THEN Cardinality(one) ELSE Cardinality(one) + 1
      BY <2>6, FS_AddElement DEF one
    <3> QED BY <2>5, <2>6, <3>1 DEF one
  <2> HIDE DEF T
  <2>9. Cardinality(T) <= Cardinality(relations)
    BY <1>0, <2>8, FS_Subset
  <2> QED BY <1>1, <2>7, <2>9 DEF N
<1>12. Second(a) \subseteq f[N]
  BY <1>1, <1>10, <1>11
<1>13. Third(a) \subseteq f[N]
  <2> SUFFICES ASSUME NEW y \in Third(a)
               PROVE  y \in f[N]
    OBVIOUS
  <2>1. \E x : x \in Second(a)
    BY DEF Third
  <2> QED BY <1>10, <1>11, <2>1
<1> QED BY <1>4, <1>10, <1>12, <1>13 DEF All

LEMMA LeadOfInvariant ==
  ASSUME KsIInv PROVE RelationsLead
PROOF
<1>1. ChunksKnowTheirDocument
  <2> SUFFICES ASSUME NEW id \in DOMAIN stored, id[1] = "doc", stored[id].whole,
                      NEW c \in ToSet(stored[id].list)
               PROVE  id \in NextOf(c)
    BY DEF ChunksKnowTheirDocument
  <2>1. stored[id].list \in Seq(ChunkIds)
    BY DEF KsIInv, StateOK, Objects
  <2>2. PICK i \in 1..Len(stored[id].list) : c = stored[id].list[i]
    BY <2>1 DEF ToSet
  <2>3. <<c, id>> \in relations
    BY <2>2 DEF KsIInv, StoredOK
  <2> QED BY <2>3 DEF NextOf
<1>2. ASSUME NEW a
      PROVE  /\ Walk(a).k > Len(Walk(a).list)
             /\ RootsOf(a) = {b \in Reachable(a) : NextOf(b) = {}}
  <2> DEFINE w == Walk(a)
             d == Cardinality(NextOf(a))
             l == w.list
  <2>1. w.k > Len(l) /\ WalkOK(w, a, d)
    BY WalkFacts
  <2>2. RootsOf(a) = w.roots
    BY DEF RootsOf
  <2> HIDE DEF w, d
  <2>3. /\ l \in Seq(NextOf(a) \cup Second(a) \cup Third(a)) /\ w.k \in Nat
        /\ \A x \in NextOf(a) : \E i \in 1..Len(l) : l[i] = x
        /\ \A i \in 1..Len(l) : i < w.k => \A y \in NextOf(l[i]) : \E j \in 1..Len(l) : l[j] = y
        /\ \A x : x \in w.roots <=> \E i \in 1..Len(l) : i < w.k /\ l[i] = x /\ NextOf(x) = {}
    BY <2>1 DEF WalkOK
  <2> HIDE DEF l
  <2>4. \A i \in 1..Len(l) : i < w.k
    BY <2>1, <2>3
  <2>5. \A x \in Second(a) : \E i \in 1..Len(l) : l[i] = x
    <3> SUFFICES ASSUME NEW y \in NextOf(a), NEW x \in NextOf(y)
                 PROVE  \E i \in 1..Len(l) : l[i] = x
      BY DEF Second
    <3>1. PICK j \in 1..Len(l) : l[j] = y
      BY <2>3
    <3> QED BY <2>3, <2>4, <3>1
  <2>6. \A x \in Third(a) : \E i \in 1..Len(l) : l[i] = x
    <3> SUFFICES ASSUME NEW y \in Second(a), NEW x \in NextOf(y)
                 PROVE  \E i \in 1..Len(l) : l[i] = x
      BY DEF Third
    <3>1. PICK j \in 1..Len(l) : l[j] = y
      BY <2>5
    <3> QED BY <2>3, <2>4, <3>1
  <2>7. \A i \in 1..Len(l) : l[i] \in NextOf(a) \cup Second(a) \cup Third(a)
    BY <2>3, ElementOfSeq
  <2>8. ASSUME NEW x
        PROVE  x \in w.roots <=> x \in NextOf(a) \cup Second(a) \cup Third(a) /\ NextOf(x) = {}
    BY <2>3, <2>4, <2>5, <2>6, <2>7
  <2>9. RootsOf(a) = {b \in Reachable(a) : NextOf(b) = {}}
    BY <2>2, <2>8, ReachableFacts
  <2> QED BY <2>1, <2>9 DEF w, l
<1>3. RootsAreTheEnds
  BY <1>2 DEF RootsAreTheEnds
<1> QED BY <1>1, <1>3 DEF RelationsLead

\* From every chunk of a stored document the relations lead to it, and the walk along
\* them finds the objects at their end and no others, for any number of documents,
\* objects and shared chunks.
THEOREM RelationsDoLead == KsSpec => []RelationsLead
PROOF
<1>1. KsIInv => RelationsLead
  BY LeadOfInvariant
<1> QED BY <1>1, StoreInvariant, PTL

=============================================================================
