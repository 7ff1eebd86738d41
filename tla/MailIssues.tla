----------------------------- MODULE MailIssues -----------------------------
(***************************************************************************)
(* Mails that are sorted into issues: the store of mails and its pipelines *)
(* (Mails) with the parser that looks for the issue a mail belongs to      *)
(* (IssueParser in mail_environment/issue.py, over Issues).                *)
(***************************************************************************)
EXTENDS Mails, Issues

vars == <<inbox, disk, rows, watching, connected, running, turn, left, item, journal,
          seen, faults, tree, issueFile, said>>

\* A lookup that takes the root for what it does not find.
IssueOrRoot(id) ==
  IF ReplyTo(id) = Absent THEN <<>>
  ELSE IF ~Readable(ReplyTo(id)) THEN "raises"
  ELSE IF IssueBySource(tree, ReplyTo(id)) # Missing
       THEN IssueBySource(tree, ReplyTo(id))
       ELSE <<>>

\* get_issue_by_mail: the root for a mail that replies to none, else the issue
\* whose source is the mail it replies to.  Going on to the mail that one
\* replies to is not possible: the attribute is misspelled.
IssueOf(id) ==
  IF ReplyTo(id) = Absent THEN <<>>
  ELSE IF ~Readable(ReplyTo(id)) THEN "raises"
  ELSE IF IssueBySource(tree, ReplyTo(id)) # Missing
       THEN IssueBySource(tree, ReplyTo(id))
       ELSE "raises"

\* parse: how far it gets with a mail.  It never gets past the construction of
\* its prompt, which takes a message for the arguments of an agent.
ParseEnds(id) ==
  IF ~Readable(id) THEN "no mail"
  ELSE IF IssueOf(id) = "raises" THEN "no issue"
  ELSE "no agent"

\* The pipeline's parser is IssueParser: whatever the mail, it raises.
ParserRaises ==
  /\ tree # Missing
  /\ item["local"] # Absent
  /\ ParseEnds(item["local"]) \in {"no mail", "no issue", "no agent"}
  /\ Raised("local")

Init == MailInit /\ IssueInit

Next ==
  \/ (MailNext \/ ParserRaises) /\ UNCHANGED issueVars
  \/ IssueNext /\ UNCHANGED mailVars

Spec == Init /\ [][Next]_vars

FairSpec == Spec /\ MailFairness

-----------------------------------------------------------------------------
\* Types of the variables.
TypeOK ==
  /\ inbox \subseteq ServerUids
  /\ disk \in [Uids -> {"none", "part", "whole"}]
  /\ rows \in [Uids -> MailIds \cup {Absent}]
  /\ watching \in BOOLEAN /\ connected \in BOOLEAN
  /\ turn \in 0..Len(running)
  /\ left \subseteq ServerUids
  /\ item["spider"] \in ServerUids \cup {Absent} /\ item["local"] \in MailIds \cup {Absent}
  /\ journal["spider"] \in ServerUids \cup {Absent}
  /\ journal["local"] \in MailIds \cup {Absent}
  /\ said \in {"none", "ok", "raised"}
  /\ issueFile \in {Missing, Cut} \/ <<>> \in DOMAIN issueFile

Journaled(u) == journal["spider"] # Absent /\ u <= journal["spider"]

\* Every mail up to the one the spider's journal names has its row and its
\* files, whatever failed on the way: a mail that fails is not passed over
\* (spider.py, the break after an error).
JournaledAreStored ==
  \A u \in inbox : Journaled(u) => rows[u] # Absent /\ disk[u] = "whole"

\* A mail with a row can be read, but for those the spider has not journaled
\* and fetches again, over their files (download inserts the row last).
TornAreFetchedAgain ==
  \A u \in Stored : disk[u] # "whole" => u \in ServerUids /\ ~Journaled(u)

\* The local input passes over a stored mail only if it came in below one put
\* there by hand (next_mail_id).
NothingSkipped ==
  journal["local"] # Absent =>
    \A u \in Stored :
      u <= UidOf(journal["local"]) /\ rows[u] \notin seen
        => \E h \in HandUids \cap Stored : h > u

\* A name in the list of pipelines twice makes one pipeline: two would share
\* one journal (add_pipeline).
PipelinesOnce ==
  \A i, j \in DOMAIN running : running[i] = running[j] => i = j

\* A mail that replies to another goes to an issue that has that one for its
\* source and to no other place of the tree.
RepliesGoToTheirIssue ==
  tree # Missing =>
    \A u \in Stored \cap HandUids :
      ReplyOf[u] # Absent /\ UidOf(rows[u]) = u /\ IssueOf(rows[u]) # "raises"
        => tree[IssueOf(rows[u])].source = ReplyOf[u]

\* What the description of pipelines says of a mailbox: it is scanned, watched
\* for new mails, and an object is made and stored for every mail.
EveryMailIsStored ==
  \A u \in ServerUids : u \in inbox ~> rows[u] # Absent

\* The ways in which the code keeps mails from being stored for ever: an
\* exception has ended the manager; the connection of the spider, which is made
\* once, is lost; a mail that is no later than this one cannot be downloaded, and
\* the spider does not pass over it; the process ended between the row of a mail
\* and its journal entry, so that every later attempt fails at the row; two
\* equal mails are stored, so that the local input hands on the first one's
\* successor again and again and the spider does not get its turn.
Ended == turn = 0 /\ running # <<>>
Lost == ~connected /\ running # <<>>
Blocked(u) == \E v \in Unfit \cap inbox : v <= u
Stuck == \E v \in Stored \cap ServerUids : ~Journaled(v) /\ item["spider"] # v
Circles == \E v, w \in Stored : v # w /\ rows[v] = rows[w]

\* Otherwise every mail that arrives is stored, through failing searches,
\* downloads and restarts.
SpiderGetsOn ==
  \A u \in ServerUids :
    u \in inbox ~> (rows[u] # Absent \/ Ended \/ Lost \/ Blocked(u) \/ Stuck \/ Circles)

\* No mail is passed over between the mailbox, the mail store and the pipelines,
\* whatever fails on the way.
MailsKept ==
  TypeOK /\ JournaledAreStored /\ TornAreFetchedAgain /\ NothingSkipped /\ PipelinesOnce

\* The tree of issues is one tree, in memory and on disk, with every mail under the
\* issue it belongs to.
IssuesAgree == RepliesGoToTheirIssue /\ ReturnedIsSaved /\ ParentsAreAbove

=============================================================================
