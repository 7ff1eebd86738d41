------------------------------- MODULE Mails -------------------------------
(***************************************************************************)
(* Mail as input of knowledge pipelines: the store of mails                *)
(* (mail_environment/mail.py), the two inputs that use it, EmailSpider     *)
(* (spider.py), which downloads, and LocalEmail (local.py), which hands on *)
(* what is stored, and the manager that runs the pipelines in turn         *)
(* (knowledge_manager/pipeline.py).                                        *)
(*                                                                         *)
(* KnowledgePipeline itself is not part of the repository.  What the       *)
(* inputs and the description of pipelines take for granted is modelled:   *)
(* run asks the input for items until it says that there is none just now, *)
(* has each parsed and then writes its name to the journal.  A parser that *)
(* raises may end the run of its pipeline alone, or, as nothing in the     *)
(* manager stops an exception, all of them.                                *)
(*                                                                         *)
(* A download makes a directory named after the uid, writes mail.json and  *)
(* mail.txt into it, then images, and inserts a row last.  It does not     *)
(* give up the event loop, so that only an error or the end of the process *)
(* comes between its steps.  Uids are compared as bytes of their decimal   *)
(* text, which keeps their order; the journal never holds a finish, which  *)
(* only an input that returns None would write.                            *)
(***************************************************************************)
EXTENDS Naturals, Sequences, FiniteSets, SequencesExt

CONSTANTS
  ServerUids,  \* uids of mails that reach the mailbox, in this order
  HandUids,    \* directories a user puts into the store by hand
  MailIds,     \* object ids: hashes of what is in a mail
  MailIdOf,    \* uid -> object id; equal mails share one
  ReplyOf,     \* uid -> object id of the mail it replies to, or Absent
  Unfit,       \* uids of mails whose download fails every time
  Absent,
  Configs,     \* contents of pipelines.toml: names of pipelines
  MayRaise,    \* whether parsers raise
  MaxFaults    \* bound: errors and ends of the process

Uids == ServerUids \cup HandUids
Pipelines == {"spider", "local"}

\* A list without a name is no list: nothing would run.
ASSUME MailsAreKnown ==
  /\ Uids \subseteq Nat \ {0} /\ IsFiniteSet(Uids)
  /\ MailIdOf \in [Uids -> MailIds]
  /\ ReplyOf \in [Uids -> MailIds \cup {Absent}]
  /\ Unfit \subseteq ServerUids
  /\ Absent \notin Nat \cup MailIds
  /\ Configs \subseteq Seq(Pipelines) \ {<<>>}

VARIABLES
  inbox,     \* uids on the server
  disk,      \* directory of each uid: "none", "part" or "whole"
  rows,      \* table mails: uid -> object_id
  watching,  \* whether watch_root still runs
  connected, \* whether the spider's IMAP client has its connection
  running,   \* names of the pipelines, in the order they run
  turn,      \* the one that runs: an index, 0 while none does
  left,      \* uids the spider's loop has still to look at
  item,      \* what each pipeline is parsing
  journal,   \* input of the latest entry of each journal
  seen,      \* object ids the local pipeline has had parsed
  faults

mailVars == <<inbox, disk, rows, watching, connected, running, turn, left, item, journal,
              seen, faults>>

Biggest(S) == CHOOSE u \in S : \A v \in S : v <= u
Least(S) == CHOOSE u \in S : \A v \in S : u <= v

Stored == {u \in Uids : rows[u] # Absent}

-----------------------------------------------------------------------------
(* MailStorage.                                                            *)

\* The first row of an object id: equal mails are told apart by nothing else.
UidOf(id) == LET U == {u \in Stored : rows[u] = id}
             IN  IF U = {} THEN Absent ELSE Least(U)

\* An id without a row compares with NULL, after which nothing comes.
After(u) == IF u = Absent THEN {} ELSE {v \in Stored : v > u}

\* The next mail of a reader that looks at the newest only.
LatestMailId(id) ==
  LET U == After(IF id = Absent THEN 0 ELSE UidOf(id))
  IN  IF U = {} THEN Absent ELSE rows[Biggest(U)]

\* The row after the one of the last mail.
NextMailId(id) ==
  LET U == After(IF id = Absent THEN 0 ELSE UidOf(id))
  IN  IF U = {} THEN Absent ELSE rows[Least(U)]

\* get_mail_by_id: the mail can be read if its files are there.
Readable(id) == UidOf(id) # Absent /\ disk[UidOf(id)] = "whole"

\* In-Reply-To is a message id and looked up as a uid, which it never is: a
\* downloaded mail replies to nothing.
ReplyTo(id) == IF UidOf(id) \in HandUids THEN ReplyOf[UidOf(id)] ELSE Absent

\* What an attempt to download a mail may come to before its row is inserted.
HalfWritten(u) ==
  \E d \in {"part", "whole"} : disk' = [disk EXCEPT ![u] = d]

-----------------------------------------------------------------------------
(* The manager.                                                            *)

\* Every name of the list.
LoadedAll(names) == names

\* A name that was added is not added again.
Loaded(names) ==
  LET run[i \in 0 .. Len(names)] ==
        IF i = 0 THEN <<>>
        ELSE IF Contains(run[i - 1], names[i]) THEN run[i - 1]
        ELSE Append(run[i - 1], names[i])
  IN  run[Len(names)]

Idle == [p \in Pipelines |-> Absent]

\* The spider connects when it is made and never again; one that cannot ends the
\* manager before it runs anything.
Start ==
  /\ running = <<>>
  /\ \E names \in Configs : running' = Loaded(names)
  /\ \/ connected' = TRUE /\ turn' = 1 /\ watching' = TRUE /\ UNCHANGED faults
     \/ /\ faults < MaxFaults /\ faults' = faults + 1
        /\ turn' = 0 /\ watching' \in BOOLEAN
        /\ UNCHANGED connected
  /\ UNCHANGED <<inbox, disk, rows, left, item, journal, seen>>

Runs(p) == turn > 0 /\ running[turn] = p

\* A turn that does not begin again, and one that is kept.
PendingPast == turn' = turn + 1
PendingStays == UNCHANGED turn

\* The pipeline has no item just now: the next one runs.
Pending == turn' = IF turn = Len(running) THEN 1 ELSE turn + 1

\* The parser raises.
Raised(p) ==
  /\ MayRaise
  /\ item[p] # Absent
  /\ faults < MaxFaults
  /\ faults' = faults + 1
  /\ item' = [item EXCEPT ![p] = Absent]
  /\ left' = IF p = "spider" THEN {} ELSE left
  /\ Pending \/ turn' = 0
  /\ UNCHANGED <<inbox, disk, rows, watching, connected, running, journal, seen>>

\* The item is parsed and written to the journal.
Parsed(p) ==
  /\ item[p] # Absent
  /\ journal' = [journal EXCEPT ![p] = item[p]]
  /\ seen' = IF p = "local" THEN seen \cup {item[p]} ELSE seen
  /\ item' = [item EXCEPT ![p] = Absent]
  /\ UNCHANGED <<inbox, disk, rows, watching, connected, running, turn, left, faults>>

-----------------------------------------------------------------------------
(* EmailSpider.next.                                                       *)

\* The last uid counts again.
FromBefore == IF journal["spider"] = Absent THEN 0 ELSE journal["spider"] - 1

\* Mails up to the last one in the journal are done.
From == IF journal["spider"] = Absent THEN 0 ELSE journal["spider"]

\* The mailbox is searched; nothing new, or a search that fails, is pending.  Over
\* a connection that is lost every search fails.
SpiderSearch ==
  LET new == {u \in inbox : u > From} IN
  /\ Runs("spider") /\ item["spider"] = Absent /\ left = {}
  /\ \/ connected /\ left' = new /\ new # {} /\ UNCHANGED <<turn, faults>>
     \/ /\ \/ (new = {} \/ ~connected) /\ UNCHANGED faults
           \/ faults < MaxFaults /\ faults' = faults + 1
        /\ Pending
        /\ UNCHANGED left
  /\ UNCHANGED <<inbox, disk, rows, watching, connected, running, item, journal, seen>>

Next1 == Least(left)

\* The download writes the files again whatever is there; the uid of a row is a
\* primary key, so that a mail that has one fails at the very end.
SpiderFetch ==
  /\ Runs("spider") /\ item["spider"] = Absent /\ left # {}
  /\ connected /\ Next1 \notin Unfit
  /\ disk' = [disk EXCEPT ![Next1] = "whole"]
  /\ IF rows[Next1] = Absent
     THEN /\ rows' = [rows EXCEPT ![Next1] = MailIdOf[Next1]]
          /\ item' = [item EXCEPT !["spider"] = Next1]
          /\ left' = left \ {Next1}
          /\ UNCHANGED turn
     ELSE left' = {} /\ Pending /\ UNCHANGED <<rows, item>>
  /\ UNCHANGED <<inbox, watching, connected, running, journal, seen, faults>>

\* A spider that goes on with the next mail.
GoesOn == left' = left \ {Next1} /\ UNCHANGED turn

\* The fetch, the parser of mails, the disk or a picture fails: the spider says
\* there is nothing just now and searches again when it runs the next time.
GivesUp == left' = {} /\ Pending

\* No fetch gets through a lost connection, and a mail may be such that its
\* download fails every time, as with a picture whose name has a slash.
FailsAlways == ~connected \/ Next1 \in Unfit

SpiderFails ==
  /\ Runs("spider") /\ item["spider"] = Absent /\ left # {}
  /\ \/ FailsAlways /\ UNCHANGED faults
     \/ ~FailsAlways /\ faults < MaxFaults /\ faults' = faults + 1
  /\ UNCHANGED disk \/ (connected /\ HalfWritten(Next1))
  /\ GivesUp
  /\ UNCHANGED <<inbox, rows, watching, connected, running, item, journal, seen>>

-----------------------------------------------------------------------------
(* LocalEmail.next.                                                        *)

LocalNext ==
  /\ Runs("local") /\ item["local"] = Absent
  /\ LET id == NextMailId(journal["local"]) IN
       IF id = Absent THEN Pending /\ UNCHANGED item
       ELSE item' = [item EXCEPT !["local"] = id] /\ UNCHANGED turn
  /\ UNCHANGED <<inbox, disk, rows, watching, connected, running, left, journal, seen, faults>>

\* watch_root goes through the directories in any order and inserts those above
\* the highest uid it found before.  The comparison with an empty table, files
\* that are not there, and the date of a mail that was downloaded, which is not
\* written the way it expects, raise and end it.
Unreadable(u) == disk[u] # "whole" \/ u \in ServerUids

Watch ==
  LET dirs == {u \in Uids : disk[u] # "none"}
      new  == {u \in dirs : u > Biggest(Stored)}
      bad  == {u \in new : Unreadable(u)}
      take(S) == rows' = [u \in Uids |-> IF u \in S THEN MailIdOf[u] ELSE rows[u]]
  IN
  /\ watching /\ dirs # {}
  /\ \/ Stored = {} /\ watching' = FALSE /\ UNCHANGED rows
     \/ Stored # {} /\ bad = {} /\ new # {} /\ take(new) /\ UNCHANGED watching
     \/ Stored # {} /\ bad # {} /\ watching' = FALSE /\ \E S \in SUBSET (new \ bad) : take(S)
  /\ UNCHANGED <<inbox, disk, connected, running, turn, left, item, journal, seen, faults>>

-----------------------------------------------------------------------------
(* The world: mails arrive, a user copies a mail into the store in two     *)
(* steps, the connection to the server is lost, the process ends, also in  *)
(* the middle of a download.                                               *)

Arrive ==
  /\ inbox # ServerUids
  /\ inbox' = inbox \cup {Least(ServerUids \ inbox)}
  /\ UNCHANGED <<disk, rows, watching, connected, running, turn, left, item, journal, seen,
                 faults>>

Place(u) ==
  /\ disk[u] # "whole"
  /\ disk' = [disk EXCEPT ![u] = IF @ = "none" THEN "part" ELSE "whole"]
  /\ UNCHANGED <<inbox, rows, watching, connected, running, turn, left, item, journal, seen,
                 faults>>

ConnectionLost ==
  /\ connected /\ faults < MaxFaults
  /\ connected' = FALSE
  /\ faults' = faults + 1
  /\ UNCHANGED <<inbox, disk, rows, watching, running, turn, left, item, journal, seen>>

Crash ==
  /\ running # <<>> /\ faults < MaxFaults
  /\ faults' = faults + 1
  /\ \/ UNCHANGED disk
     \/ Runs("spider") /\ item["spider"] = Absent /\ left # {} /\ HalfWritten(Next1)
  /\ running' = <<>> /\ turn' = 0 /\ watching' = FALSE /\ connected' = FALSE
  /\ left' = {} /\ item' = Idle
  /\ UNCHANGED <<inbox, rows, journal, seen>>

-----------------------------------------------------------------------------
MailInit ==
  /\ inbox = {}
  /\ disk = [u \in Uids |-> "none"]
  /\ rows = [u \in Uids |-> Absent]
  /\ watching = FALSE /\ connected = FALSE
  /\ running = <<>> /\ turn = 0
  /\ left = {} /\ item = Idle
  /\ journal = [p \in Pipelines |-> Absent]
  /\ seen = {} /\ faults = 0

MailNext ==
  \/ Start \/ SpiderSearch \/ SpiderFetch \/ SpiderFails \/ LocalNext
  \/ \E p \in Pipelines : Parsed(p) \/ Raised(p)
  \/ Watch \/ Arrive \/ ConnectionLost \/ Crash
  \/ \E u \in HandUids : Place(u)

\* Pipelines run and mails arrive.  Over a connection that stays, a download that
\* does not fail every time succeeds at last.
MailFairness ==
  /\ WF_mailVars(\/ Start \/ SpiderSearch \/ (SpiderFails /\ UNCHANGED faults) \/ LocalNext \/ Arrive
                 \/ \E p \in Pipelines : Parsed(p))
  /\ SF_mailVars(SpiderFetch)

=============================================================================
