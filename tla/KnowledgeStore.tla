--------------------------- MODULE KnowledgeStore ---------------------------
(***************************************************************************)
(* The object store under aios/knowledge: chunks in files named by their   *)
(* hash (blob.py, chunk_store.py), the positions a chunk can be read from  *)
(* (tracker.py), the writer that cuts texts and files (writer.py), the     *)
(* reader, the relations between objects and the builders of documents and *)
(* images and videos.                                                      *)
(*                                                                         *)
(* An id is a hash of content, so it is modelled by the kind of the object *)
(* and the content that is hashed.  Everything is on disk: what a builder  *)
(* loses when it raises, or when the program ends, is its own progress.    *)
(* Every file and every row is written in a step of its own.               *)
(*                                                                         *)
(* EmailObjectBuilder.build asks the object store for the relation store,  *)
(* which raises before it has done anything; what it would relate, a       *)
(* pipeline can relate, and does so here.  Nothing in the program deletes  *)
(* a chunk, a position, an object or a relation.                           *)
(***************************************************************************)
EXTENDS TextSplit, SequencesExt

CONSTANTS Texts,      \* texts documents are made of
          Files,      \* paths of image and video files
          Videos,     \* those that are videos
          Absolute,   \* those given with an absolute path
          Blocks,     \* what one chunk of a file can hold
          MaxBlocks,  \* bound: chunks of a file
          MaxBuilds,  \* bound: objects built
          MaxFaults   \* bound: interrupted builds and edited files

ASSUME KsAssumption ==
  /\ Texts \subseteq Seq(STRING)
  /\ Absolute \subseteq Files /\ Videos \subseteq Files /\ "" \notin Files
  /\ MaxBlocks \in Nat /\ MaxBuilds \in Nat /\ MaxFaults \in Nat

NoJob == [kind |-> "none"]

\* Mutant: without the byte that says what kind of object it is.
UntypedId(content) == <<"hash", content>>
ChunkId(content) == <<"chunk", content>>

\* KnowledgeObject.calculate_id: the kind and the description, which holds
\* the hash of all chunks and not the list of them.
ObjectId(kind, list) ==
  <<kind, FlattenSeq([k \in 1..Len(list) |-> list[k][2]])>>

RichText == <<"rich", <<"r">> >>
Email == <<"mail", <<"m">> >>

VARIABLES
  blobs,      \* chunk files: id -> "whole" or "torn"
  positions,  \* rows of chunk_tracker.db: <<chunk, position>>
  relations,  \* rows of relation.db: <<object, assoc>>
  stored,     \* object files: id -> [list, whole, made]
  files,      \* image and video files: the chunks they hold now
  job,        \* the build under way
  builds,     \* number of builds begun
  faults,     \* number of faults so far
  cutShort    \* history: chunks and objects whose last write was cut short

ksVars == <<blobs, positions, relations, stored, files, job, builds, faults, cutShort>>

FileContents == UNION {[1..n -> Blocks] : n \in 1..MaxBlocks}

KsInit ==
  /\ blobs = << >> /\ positions = {} /\ relations = {} /\ stored = << >>
  /\ files \in [Files -> FileContents]
  /\ job = NoJob /\ builds = 0 /\ faults = 0 /\ cutShort = {}

-----------------------------------------------------------------------------
(* Building *)

TextPosition == [type |-> "store", path |-> "", at |-> 0]
CopyPosition(f) == [type |-> "store", path |-> f, at |-> 0]
RangePosition(f, k) == [type |-> "range", path |-> f, at |-> k]

IsDoc == job.kind = "doc"

Start(kind, src, cut, list, copied) ==
  /\ job = NoJob /\ builds < MaxBuilds
  /\ builds' = builds + 1
  /\ job' = [kind |-> kind, src |-> src, cut |-> cut, list |-> list,
             copied |-> copied, k |-> 1, step |-> "track"]
  /\ UNCHANGED <<blobs, positions, relations, stored, files, faults, cutShort>>

\* DocumentObjectBuilder.build: create_chunk_list_from_text cuts the text.
BuildDocument ==
  \E text \in Texts :
    LET cut == SplitText(text)
    IN Start("doc", text, cut,
             [k \in 1..Len(cut) |-> ChunkId(Content(text, cut[k]))], TRUE)

\* ImageObjectBuilder.build and VideoObjectBuilder.build:
\* create_chunk_list_from_file reads the file chunk by chunk; restore_file says
\* whether it copies them.
BuildImage ==
  \E f \in Files \ Videos, restore \in BOOLEAN :
    Start("img", f, << >>, << >>, restore)
BuildVideo ==
  \E f \in Videos, restore \in BOOLEAN :
    Start("video", f, << >>, << >>, restore)

\* f with a value for x.
Put(f, x, v) == [y \in DOMAIN f \cup {x} |-> IF y = x THEN v ELSE f[y]]

AtEnd == job.k > IF IsDoc THEN Len(job.list) ELSE Len(files[job.src])

Chunk == IF IsDoc THEN job.list[job.k] ELSE ChunkId(files[job.src][job.k])

\* add_position: INSERT OR REPLACE of a row that is all key.  The position is
\* recorded before the chunk is written.
\* Mutant: a chunk whose position is known is taken to be stored.
TrackOnce ==
  /\ job # NoJob /\ job.step = "track" /\ ~AtEnd
  /\ LET row == <<Chunk, IF IsDoc THEN TextPosition
                         ELSE IF job.copied THEN CopyPosition(job.src)
                         ELSE RangePosition(job.src, job.k)>>
         new == job.copied /\ row \notin positions
     IN /\ positions' = positions \cup {row}
        /\ job' = [job EXCEPT !.list = IF IsDoc THEN @ ELSE Append(@, Chunk),
                              !.step = IF new THEN "open" ELSE "track",
                              !.k = IF new THEN @ ELSE @ + 1]
  /\ UNCHANGED <<blobs, relations, stored, files, builds, faults, cutShort>>
Track ==
  /\ job # NoJob /\ job.step = "track" /\ ~AtEnd
  /\ positions' = positions \cup
       {<<Chunk, IF IsDoc THEN TextPosition
                 ELSE IF job.copied THEN CopyPosition(job.src)
                 ELSE RangePosition(job.src, job.k)>>}
  /\ job' = [job EXCEPT !.list = IF IsDoc THEN @ ELSE Append(@, Chunk),
                        !.step = IF job.copied THEN "open" ELSE "track",
                        !.k = IF job.copied THEN @ ELSE @ + 1]
  /\ UNCHANGED <<blobs, relations, stored, files, builds, faults, cutShort>>

\* FileBlobStorage.put: the file of the chunk is opened with "wb", also when
\* it is there already...
\* Mutant: a chunk that has a file is taken to be whole.
OpenMissing ==
  /\ job # NoJob /\ job.step = "open"
  /\ LET c == job.list[job.k]
         known == c \in DOMAIN blobs
     IN /\ blobs' = IF known THEN blobs ELSE Put(blobs, c, "torn")
        /\ job' = IF known THEN [job EXCEPT !.step = "track", !.k = @ + 1]
                  ELSE [job EXCEPT !.step = "write"]
  /\ UNCHANGED <<positions, relations, stored, files, builds, faults, cutShort>>
Open ==
  /\ job # NoJob /\ job.step = "open"
  /\ blobs' = Put(blobs, job.list[job.k], "torn")
  /\ job' = [job EXCEPT !.step = "write"]
  /\ UNCHANGED <<positions, relations, stored, files, builds, faults, cutShort>>

\* ... and then written.
Write ==
  /\ job # NoJob /\ job.step = "write"
  /\ blobs' = Put(blobs, job.list[job.k], "whole")
  /\ job' = [job EXCEPT !.step = "track", !.k = @ + 1]
  /\ UNCHANGED <<positions, relations, stored, files, builds, faults, cutShort>>

Built == ObjectId(job.kind, job.list)

\* The end of the chunks: a document goes on with its relations, the
\* others are complete.
Chunked ==
  /\ job # NoJob /\ job.step = "track" /\ AtEnd
  /\ job' = [job EXCEPT !.k = 1,
                        !.step = IF IsDoc /\ job.list # << >> THEN "relate"
                                 ELSE "insert"]
  /\ cutShort' = IF job.copied THEN cutShort \ ToSet(job.list) ELSE cutShort
  /\ UNCHANGED <<blobs, positions, relations, stored, files, builds, faults>>

\* add_relation: INSERT OR IGNORE on all three columns.
\* Mutant: one row per object, as if object_id were the key.
Replaced(rel, a, b) == {r \in rel : r[1] # a} \cup {<<a, b>>}
Related(rel, a, b) == rel \cup {<<a, b>>}

RelateChunk ==
  /\ job # NoJob /\ job.step = "relate"
  /\ relations' = Related(relations, job.list[job.k], Built)
  /\ job' = [job EXCEPT !.k = @ + 1,
                        !.step = IF job.k = Len(job.list) THEN "insert" ELSE @]
  /\ UNCHANGED <<blobs, positions, stored, files, builds, faults, cutShort>>

\* KnowledgeStore.insert_object of what was built: again open, then write.
Insert ==
  /\ job # NoJob /\ job.step = "insert"
  /\ stored' = Put(stored, Built,
                    [list |-> job.list, whole |-> FALSE,
                     made |-> [copied |-> job.copied, src |-> job.src]])
  /\ job' = [job EXCEPT !.step = "inserted"]
  /\ UNCHANGED <<blobs, positions, relations, files, builds, faults, cutShort>>

Inserted ==
  /\ job # NoJob /\ job.step = "inserted"
  /\ stored' = [stored EXCEPT ![Built].whole = TRUE]
  /\ job' = NoJob
  /\ cutShort' = cutShort \ {Built}
  /\ UNCHANGED <<blobs, positions, relations, files, builds, faults>>

\* The file that is open for writing; it was truncated when it was opened.
InWriting ==
  CASE job = NoJob            -> {}
    [] job.step = "write"     -> {job.list[job.k]}
    [] job.step = "inserted"  -> {Built}
    [] OTHER                  -> {}

\* A disk that is full, a file that is no image or video, the end of the program.
Interrupt ==
  /\ job # NoJob /\ faults < MaxFaults
  /\ faults' = faults + 1 /\ job' = NoJob
  /\ cutShort' = cutShort \cup InWriting
  /\ UNCHANGED <<blobs, positions, relations, stored, files, builds>>

\* The user edits a file.
Edit(f) ==
  /\ faults < MaxFaults
  /\ faults' = faults + 1
  /\ \E content \in FileContents : files' = [files EXCEPT ![f] = content]
  /\ UNCHANGED <<blobs, positions, relations, stored, job, builds, cutShort>>

\* A pipeline relates what it has stored to the rich text it is part of, and
\* that to the e-mail.
Relate ==
  /\ job = NoJob
  /\ \/ \E id \in DOMAIN stored : relations' = Related(relations, id, RichText)
     \/ relations' = Related(relations, RichText, Email)
  /\ UNCHANGED <<blobs, positions, stored, files, job, builds, faults, cutShort>>

KsNext ==
  \/ BuildDocument \/ BuildImage \/ BuildVideo \/ Track \/ Open \/ Write \/ Chunked
  \/ RelateChunk \/ Insert \/ Inserted \/ Interrupt \/ Relate
  \/ \E f \in Files : Edit(f)

KsSpec == KsInit /\ [][KsNext]_ksVars

-----------------------------------------------------------------------------
(* Reading *)

PositionsOf(c) == {p[2] : p \in {q \in positions : q[1] = c}}

\* get_position: fetchmany() gives one row, the first in the order of the
\* primary key, by the text of the position: the empty one of a text, then a
\* path that begins with "/", then "begin:end:path", then any other path.
\* Mutant: the rows are read in the order of their type.
RankByType(p) == IF p.type = "range" THEN 0 ELSE 1
Rank(p) ==
  CASE p.type = "store" /\ p.path = "" -> 0
    [] p.type = "store" /\ p.path \in Absolute -> 1
    [] p.type = "range" -> 2
    [] OTHER -> 3

FirstPositions(c) ==
  {p \in PositionsOf(c) : \A q \in PositionsOf(c) : Rank(p) <= Rank(q)}

\* Chunk.read at that position: what the bytes there are the content of.
ReadAt(c, p) ==
  IF p.type = "range"
  THEN IF p.at <= Len(files[p.path]) THEN ChunkId(files[p.path][p.at]) ELSE NoJob
  ELSE IF c \in DOMAIN blobs /\ blobs[c] = "whole" THEN c ELSE NoJob

\* get_related_objects and get_related_root_objects: the list that is walked
\* grows while it is walked; the start is the only object it does not follow
\* again.
NextOf(a) == {r[2] : r \in {q \in relations : q[1] = a}}

\* Mutant: only what the first objects are related to.
RootsOfNext(start) == {a \in NextOf(start) : NextOf(a) = {}}
WalkOn(walk, start) ==
  IF walk.k > Len(walk.list) THEN walk
  ELSE LET a == walk.list[walk.k]
       IN [k |-> walk.k + 1,
           list |-> IF a = start THEN walk.list ELSE walk.list \o SetToSeq(NextOf(a)),
           roots |-> IF NextOf(a) = {} THEN walk.roots \cup {a} ELSE walk.roots]

\* No way along the relations is longer than three, so the list does not grow beyond
\* three times what it starts with.
Walk(start) ==
  LET steps == 3 * Cardinality(NextOf(start))
      walk[n \in 0..steps] ==
        IF n = 0 THEN [k |-> 1, list |-> SetToSeq(NextOf(start)), roots |-> {}]
        ELSE WalkOn(walk[n - 1], start)
  IN  walk[steps]

RootsOf(start) == Walk(start).roots

-----------------------------------------------------------------------------
(* Properties *)

\* Types of the state.
KsTypeOK ==
  /\ \A c \in DOMAIN blobs : c[1] = "chunk" /\ blobs[c] \in {"whole", "torn"}
  /\ \A p \in positions : p[1][1] = "chunk" /\ p[2].type \in {"store", "range"}
  /\ \A r \in relations : r[1] # r[2]
  /\ \A id \in DOMAIN stored : stored[id].whole \in BOOLEAN
  /\ files \in [Files -> FileContents]
  /\ builds \in 0..MaxBuilds /\ faults \in 0..MaxFaults

\* No letter of a text is lost when it is cut: every character that is not a
\* blank is in a chunk, and chunks come in the order of the text.
NothingLost ==
  job # NoJob /\ IsDoc =>
    /\ \A p \in 1..Len(job.src) :
         job.src[p] \in Blanks
         \/ \E k \in 1..Len(job.cut) : p \in job.cut[k][1]..job.cut[k][2]
    /\ \A k \in 2..Len(job.cut) : /\ job.cut[k - 1][1] <= job.cut[k][1]
                                  /\ job.cut[k - 1][2] <= job.cut[k][2]

\* A chunk is never longer than chunk_size and shares no more than
\* chunk_overlap with the one before it.
ChunksFit ==
  job # NoJob /\ IsDoc =>
    /\ \A k \in 1..Len(job.cut) : Length(job.cut[k]) <= ChunkSize
    /\ \A k \in 2..Len(job.cut) :
         job.cut[k - 1][2] - job.cut[k][1] + 1 <= Overlap

\* A write truncates the file that is there, also that of a chunk other objects
\* share: while it goes on, and after it was cut short until a build of an
\* object with the chunk goes through its chunks again, that file is no use.
Hurt == cutShort \cup InWriting

\* Nothing else takes away what was stored.  A stored object has its file.
ObjectsStay == \A id \in DOMAIN stored : stored[id].whole \/ id \in Hurt

\* A stored document is read from the store, whatever has been edited or
\* stored since: each of its chunks has a file, which is whole unless a write
\* of just this chunk hurts it, and the reader goes there and not to a file of
\* the user with an equal chunk.
DocumentsRead ==
  \A id \in DOMAIN stored : id[1] = "doc" /\ stored[id].whole =>
    \A c \in ToSet(stored[id].list) :
      /\ c \in DOMAIN blobs
      /\ blobs[c] = "whole" \/ c \in Hurt
      /\ \A p \in FirstPositions(c) : p.type = "store"

\* An image or a video that was copied from an absolute path reads as it was,
\* also after its file has changed, with the same exception.
CopiesOutliveTheFile ==
  \A id \in DOMAIN stored :
    LET made == stored[id].made
    IN id[1] # "doc" /\ stored[id].whole /\ made.copied /\ made.src \in Absolute =>
       \A c \in ToSet(stored[id].list) \ Hurt :
         \A p \in FirstPositions(c) : ReadAt(c, p) = c

\* Building an object again repairs its chunks: when it is inserted, all that
\* it has copied is whole, whatever an interrupted build has left behind.
RebuildRepairs ==
  job # NoJob /\ job.step \in {"relate", "insert", "inserted"} /\ job.copied =>
    \A c \in ToSet(job.list) : c \in DOMAIN blobs /\ blobs[c] = "whole"

\* From every chunk of a stored document its relations lead to the document,
\* also when several documents share the chunk.
ChunksKnowTheirDocument ==
  \A id \in DOMAIN stored : id[1] = "doc" /\ stored[id].whole =>
    \A c \in ToSet(stored[id].list) : id \in NextOf(c)

\* Reference: the objects that can be reached and are part of nothing else.
Reachable(start) ==
  LET within[n \in 0..Cardinality(relations)] ==
        IF n = 0 THEN NextOf(start)
        ELSE LET known == within[n - 1] IN known \cup UNION {NextOf(a) : a \in known}
  IN  within[Cardinality(relations)]

\* get_related_root_objects comes to the end of its list and finds exactly the
\* objects at the end of the relations, through any number of levels and shared parts.
RootsAreTheEnds ==
  \A a \in {r[1] : r \in relations} :
    LET walk == Walk(a)
    IN /\ walk.k > Len(walk.list)
       /\ RootsOf(a) = {b \in Reachable(a) : NextOf(b) = {}}

\* The chunks of a text are the text: complete, in order, and within the limits.
CutIsRight == KsTypeOK /\ NothingLost /\ ChunksFit

\* What was stored is read as it was stored, through edited files and chunks that
\* several objects share, but for the one file a write that was cut short has
\* truncated; and a build that comes to its end repairs that.
StoredIsRead == ObjectsStay /\ DocumentsRead /\ CopiesOutliveTheFile /\ RebuildRepairs

\* From a chunk the relations lead to the objects it is part of, and to no others.
RelationsLead == ChunksKnowTheirDocument /\ RootsAreTheEnds

=============================================================================
