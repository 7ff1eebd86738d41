------------------------------- MODULE Issues -------------------------------
(***************************************************************************)
(* The issues a user's mails are sorted into (mail_environment/issue.py):  *)
(* a tree kept in memory and written whole to a file after every change.   *)
(*                                                                         *)
(* A place in the tree is the sequence of the numbers of the children that *)
(* lead there from the root, <<>>.  The id of an issue is a hash of its    *)
(* summary, its source, two times nothing ever sets and the id of its      *)
(* parent: here it is the triple of what is left, and the empty tuple for  *)
(* the parent the root does not have.  Two issues that agree in all three  *)
(* have one id.                                                            *)
(***************************************************************************)
EXTENDS Naturals, Sequences, FiniteSets, SequencesExt

CONSTANTS
  Summaries,
  Sources,     \* object ids of mails
  RootConfig,  \* root_issue of the configuration: place -> summary, or Missing
  Missing,     \* nothing, no file
  Cut,         \* a file cut off while it was written
  MaxIssues    \* bound

VARIABLES
  tree,        \* the issues in memory: place -> issue; Missing while none is
  issueFile,   \* the file
  said         \* how the last call ended: "none", "ok" or "raised"

issueVars == <<tree, issueFile, said>>

\* What the root notes as its parent.
NoId == <<>>

Issue(summary, source, parent) ==
  [id |-> <<summary, source, parent>>, summary |-> summary, source |-> source,
   parent |-> parent]

-----------------------------------------------------------------------------
(* The tree is searched from the root down, a child with all below it      *)
(* before the next one.                                                    *)

Before(p, q) ==
  \/ IsStrictPrefix(p, q)
  \/ \E n \in 1..Len(p) : /\ n <= Len(q) /\ p[n] < q[n]
                          /\ \A m \in 1..(n - 1) : p[m] = q[m]

First(P) == IF P = {} THEN Missing
            ELSE CHOOSE p \in P : \A q \in P \ {p} : Before(p, q)

IssueById(t, id) == First({p \in DOMAIN t : t[p].id = id})
IssueBySource(t, source) == First({p \in DOMAIN t : t[p].source = source})

ChildrenOf(t, p) == {q \in DOMAIN t : Len(q) = Len(p) + 1 /\ IsPrefix(p, q)}

\* There is a root, every other place stands below one, and the children of a
\* place have consecutive numbers.
IsTree(t) ==
  /\ <<>> \in DOMAIN t
  /\ \A p \in DOMAIN t \ {<<>>} : /\ Front(p) \in DOMAIN t
                                 /\ Last(p) <= Cardinality(ChildrenOf(t, Front(p)))

ASSUME IssuesAssumption ==
  /\ MaxIssues \in Nat
  /\ Missing \notin Seq(Nat)
  /\ RootConfig # Missing =>
       /\ DOMAIN RootConfig \subseteq Seq(Nat \ {0}) /\ IsTree(RootConfig)
       /\ IsFiniteSet(DOMAIN RootConfig)
       /\ Cardinality(DOMAIN RootConfig) <= MaxIssues

-----------------------------------------------------------------------------
\* The issues of a configuration: ids are computed from the root down.
Configured ==
  LET issue[p \in DOMAIN RootConfig] ==
        Issue(RootConfig[p], Missing, IF p = <<>> THEN NoId ELSE issue[Front(p)].id)
  IN  issue

\* The tree is turned to text before the file is opened for writing, which
\* empties it; a full disk or the end of the process may leave it cut off.
Flush(t) == issueFile' = t

\* A store is made: the file is read and the configuration then not looked at,
\* or the file is made from the configuration.  Without both, and from a file
\* that was cut off, the constructor raises.
OpenIssues ==
  /\ tree = Missing
  /\ \/ issueFile = Missing /\ RootConfig # Missing /\ tree' = Configured /\ Flush(tree')
     \/ issueFile \notin {Missing, Cut} /\ tree' = issueFile /\ UNCHANGED issueFile
  /\ said' = "ok"

\* The store is gone with the process, which may have been writing.
CloseIssues ==
  /\ tree # Missing
  /\ tree' = Missing
  /\ said' = "none"
  /\ issueFile' \in {issueFile, Cut}

\* The new issue notes its source where its parent belongs.
AddedAside(summary, source, p) ==
  LET q == Append(p, Cardinality(ChildrenOf(tree, p)) + 1) IN
  [r \in DOMAIN tree \cup {q} |->
     IF r = q THEN Issue(summary, source, tree[p].parent) ELSE tree[r]]

\* The place of a new issue is behind the children of the first issue with the
\* id of its parent.
Added(summary, source, p) ==
  LET q == Append(p, Cardinality(ChildrenOf(tree, p)) + 1) IN
  [r \in DOMAIN tree \cup {q} |->
     IF r = q THEN Issue(summary, source, tree[p].id) ELSE tree[r]]

\* The file is written before the tree is changed.
SavedBefore(t) ==
  \/ Flush(tree) /\ said' = "ok"
  \/ issueFile' \in {issueFile, Cut} /\ said' = "raised"

\* A disk that is full leaves the file as it was or cut off and the call raises;
\* what has been changed in memory stays.
Saved(t) ==
  \/ Flush(t) /\ said' = "ok"
  \/ issueFile' \in {issueFile, Cut} /\ said' = "raised"

\* add_issue.  A parent that is not found has no children to append to: the
\* call raises before anything is changed.
AddIssue(summary, source, parentId) ==
  LET p == IssueById(tree, parentId) IN
  /\ tree # Missing
  /\ IF p = Missing THEN said' = "raised" /\ UNCHANGED <<tree, issueFile>>
     ELSE /\ Cardinality(DOMAIN tree) < MaxIssues
          /\ tree' = Added(summary, source, p)
          /\ Saved(tree')

\* update_issue asks the issue for a value by key, which issues do not have: it
\* raises before it makes a change.
UpdateIssue ==
  /\ tree # Missing
  /\ said' = "raised"
  /\ UNCHANGED <<tree, issueFile>>

\* The two functions given to a language model, create_issue and update_issue,
\* take three arguments and are called with one: they never get to the store.
ToolCall ==
  /\ tree # Missing
  /\ said' = "raised"
  /\ UNCHANGED <<tree, issueFile>>

-----------------------------------------------------------------------------
\* to_prompt: the issues from this one up to the one without a parent, each
\* found by the id its child notes.
Line(p) ==
  LET up[n \in 0..MaxIssues] ==
        IF n = 0 THEN <<p>>
        ELSE LET l == up[n - 1] IN
             IF Last(l) = Missing \/ tree[Last(l)].parent = NoId THEN l
             ELSE Append(l, IssueById(tree, tree[Last(l)].parent))
  IN  up[MaxIssues]

IssueInit == tree = Missing /\ issueFile = Missing /\ said = "none"

IssueNext ==
  \/ OpenIssues \/ CloseIssues \/ UpdateIssue \/ ToolCall
  \/ \E s \in Summaries, m \in Sources :
       \/ AddIssue(s, m, Missing)
       \/ /\ tree # Missing
          /\ \E p \in DOMAIN tree : AddIssue(s, m, tree[p].id)

-----------------------------------------------------------------------------
\* A call that returned has been saved: what the file holds is the tree, until
\* the process ends in the middle of a later call (IssueStorage.__flush).
ReturnedIsSaved ==
  said = "ok" /\ tree # Missing => issueFile = tree

\* Every issue stands under the one whose id it notes as its parent's, also when
\* issues share an id: to_prompt walks from any of them to the root.
ParentsAreAbove ==
  tree # Missing =>
    \A p \in DOMAIN tree :
      /\ p # <<>> => tree[p].parent = tree[Front(p)].id
      /\ Last(Line(p)) = <<>> /\ Len(Line(p)) = Len(p) + 1

=============================================================================
