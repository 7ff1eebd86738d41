------------------------------- MODULE ObjFS -------------------------------
(***************************************************************************)
(* The object store of a knowledge graph (aios/storage/objfs.py): a        *)
(* database with a table of objects, by id, and a table of paths that lead *)
(* to ids.  Every call opens a connection of its own and commits once, so  *)
(* a call is one step and a call that meets an error leaves no trace.      *)
(*                                                                         *)
(* A path is written as the sequence of its slashes and names:             *)
(* <<"/", "contacts", "/", "ann">>.  The content of an object is a value   *)
(* of a small set; names, sizes and times are left out, nobody reads them. *)
(***************************************************************************)
EXTENDS Naturals, Sequences, SequencesExt

CONSTANTS
  Dbs,       \* database files
  Ids,       \* object ids
  Contents,  \* contents of objects
  Paths,     \* paths a caller uses
  Absent     \* no row, nothing found: None

ASSUME ContentsAreNoIds == Ids \cap Contents = {} /\ Absent \notin Ids \cup Contents

VARIABLES
  objects,   \* table objects of each database: id -> content
  links      \* table paths of each database: path -> obj_id

storeVars == <<objects, links>>

StoreTypeOK ==
  /\ objects \in [Dbs -> [Ids -> Contents \cup {Absent}]]
  /\ links \in [Dbs -> [Paths -> Ids \cup Contents \cup {Absent}]]

StoreInit ==
  /\ objects = [d \in Dbs |-> [i \in Ids |-> Absent]]
  /\ links = [d \in Dbs |-> [p \in Paths |-> Absent]]

-----------------------------------------------------------------------------
(* What can be read.                                                       *)

GetById(d, id) == objects[d][id]

\* The join of the two tables: a path whose obj_id is no stored object reads
\* as if it were not there.
GetByPath(d, p) ==
  IF links[d][p] \in Ids THEN objects[d][links[d][p]] ELSE Absent

\* The pattern of a listing is the base, a slash and a percent sign, with the
\* slash itself as the escape character: a slash is dropped and what follows it
\* stands for itself.  ANY is the percent sign that still means "anything".
Unescaped(pattern) ==
  LET text[i \in 1..(Len(pattern) + 2)] ==
        IF i > Len(pattern) THEN <<>>
        ELSE IF pattern[i] = "/"
             THEN IF i = Len(pattern) THEN <<>>
                  ELSE <<IF pattern[i + 1] = "ANY" THEN "%" ELSE pattern[i + 1]>>
                       \o text[i + 2]
        ELSE <<pattern[i]>> \o text[i + 1]
  IN  text[1]

\* LIKE compares texts: two names that meet after their slash was dropped are
\* one longer name, which none of Paths is.
Like(p, pattern) ==
  LET t == Unescaped(pattern) IN
  IF t # <<>> /\ Last(t) = "ANY" THEN IsPrefix(Front(t), p) ELSE p = t

\* A listing whose pattern has no escape character.
ListPathsPlain(d, base) ==
  {p \in Paths : links[d][p] # Absent /\ IsPrefix(base \o <<"/">>, p)}

ListPaths(d, base) ==
  {p \in Paths : links[d][p] # Absent /\ Like(p, base \o <<"/", "ANY">>)}

\* The nodes of the nested dictionary: every part of a found path under the
\* parts before it.  The depth a caller asks for is not looked at.
Tree(d, base) ==
  UNION {{SubSeq(p, 1, n) : n \in {m \in 1..Len(p) : m = Len(p) \/ p[m + 1] = "/"}}
           : p \in ListPaths(d, base)}

-----------------------------------------------------------------------------
(* What can be written.                                                    *)

\* An insert that replaces paths in use.
AddObjOver(d, id, c, ps) ==
  IF objects[d][id] = Absent
  THEN /\ objects' = [objects EXCEPT ![d][id] = c]
       /\ links' = [links EXCEPT ![d] =
            [p \in Paths |-> IF p \in ps THEN id ELSE @[p]]]
  ELSE UNCHANGED storeVars

\* An object is inserted, then its paths, in one transaction.  An id in use
\* fails the first statement and so the call; a path in use is ignored and goes
\* on leading where it led.
AddObj(d, id, c, ps) ==
  IF objects[d][id] = Absent
  THEN /\ objects' = [objects EXCEPT ![d][id] = c]
       /\ links' = [links EXCEPT ![d] =
            [p \in Paths |-> IF p \in ps /\ @[p] = Absent THEN id ELSE @[p]]]
  ELSE UNCHANGED storeVars

UpdateObj(d, id, c) ==
  /\ objects' = [objects EXCEPT ![d][id] = IF @ = Absent THEN Absent ELSE c]
  /\ UNCHANGED links

\* What the path is to lead to is not looked at.
AddPath(d, o, p) ==
  /\ links' = [links EXCEPT ![d][p] = IF @ = Absent THEN o ELSE @]
  /\ UNCHANGED objects

RemovePath(d, p) ==
  /\ links' = [links EXCEPT ![d][p] = Absent]
  /\ UNCHANGED objects

\* The object alone.
RemoveObjOnly(d, id) ==
  /\ objects' = [objects EXCEPT ![d][id] = Absent]
  /\ UNCHANGED links

\* The object and every path that leads to it.
RemoveObj(d, id) ==
  /\ objects' = [objects EXCEPT ![d][id] = Absent]
  /\ links' = [links EXCEPT ![d] = [p \in Paths |-> IF @[p] = id THEN Absent ELSE @[p]]]

=============================================================================
