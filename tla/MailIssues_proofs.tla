-------------------------- MODULE MailIssues_proofs --------------------------
(***************************************************************************)
(* Proofs about MailIssues, for any mails, uids, lists of pipelines and    *)
(* issues: no mail is passed over between the mailbox, the store and the   *)
(* pipelines, and the issues stay one tree in which mails find their place.*)
(***************************************************************************)
EXTENDS MailIssues, FiniteSetTheorems, SequenceTheorems, WellFoundedInduction, TLAPS

-----------------------------------------------------------------------------
(* Least elements.                                                          *)

LEMMA LeastExists ==
  ASSUME NEW S \in SUBSET Nat, S # {}
  PROVE  Least(S) \in S /\ \A k \in S : Least(S) <= k
PROOF
<1> DEFINE R == {ss \in Nat \X Nat : ss[1] < ss[2]}
<1>1. IsWellFoundedOn(R, Nat)
  BY NatLessThanWellFounded DEF OpToRel
<1> HIDE DEF R
<1>2. PICK x \in S : \A y \in S : ~ (<<y, x>> \in R)
  BY <1>1, WFMin
<1>3. \A y \in S : x <= y
  <2> SUFFICES ASSUME NEW y \in S PROVE x <= y
    OBVIOUS
  <2>1. x \in Nat /\ y \in Nat /\ ~ (<<y, x>> \in R)
    BY <1>2
  <2>2. ~ (y < x)
    BY <2>1 DEF R
  <2> QED BY <2>1, <2>2
<1> QED BY <1>3 DEF Least

\* What holds of 0 and, when it holds of a number below n, of the next, holds up to n.
LEMMA UpTo ==
  ASSUME NEW n \in Nat, NEW S \in SUBSET (0 .. n), 0 \in S,
         \A k \in 0 .. n - 1 : k \in S => k + 1 \in S
  PROVE  S = 0 .. n
PROOF
<1> DEFINE T == (0 .. n) \ S
<1> SUFFICES ASSUME T # {} PROVE FALSE
  OBVIOUS
<1>1. T \in SUBSET Nat
  OBVIOUS
<1> DEFINE m == Least(T)
<1>2. m \in T /\ \A k \in T : m <= k
  BY <1>1, LeastExists
<1> HIDE DEF m
<1>3. m \in 0 .. n /\ m # 0
  BY <1>2
<1>4. m - 1 \in 0 .. n - 1 /\ m - 1 \in 0 .. n /\ ~ (m <= m - 1) /\ m - 1 + 1 = m
  BY <1>3
<1>5. m - 1 \in S
  BY <1>2, <1>4
<1> QED BY <1>2, <1>4, <1>5

\* R is a total order of S.
Orders(R, S) ==
  /\ \A x, y \in S : x = y \/ <<x, y>> \in R \/ <<y, x>> \in R
  /\ \A x, y, z \in S : <<x, y>> \in R /\ <<y, z>> \in R => <<x, z>> \in R

IsFirst(x, R, S) == x \in S /\ \A y \in S \ {x} : <<x, y>> \in R

\* A finite set in a total order has a first element.
LEMMA FirstExists ==
  ASSUME NEW S, IsFiniteSet(S), S # {}, NEW R, Orders(R, S)
  PROVE  \E x : IsFirst(x, R, S)
PROOF
<1>1. PICK n \in Nat : ExistsSurjection(1 .. n, S)
  BY FS_NatSurjection
<1>2. PICK f \in [1 .. n -> S] : \A y \in S : \E i \in 1 .. n : f[i] = y
  BY <1>1 DEF ExistsSurjection, Surjection
<1> DEFINE Ahead(x, k) == \A j \in 1 .. k : f[j] = x \/ <<x, f[j]>> \in R
           T == {k \in 0 .. n : k = 0 \/ \E x \in S : Ahead(x, k)}
<1>3. 0 \in T
  OBVIOUS
<1>4. ASSUME NEW k \in 0 .. n - 1, k \in T
      PROVE  k + 1 \in T
  <2>1. k + 1 \in 1 .. n /\ k + 1 \in 0 .. n /\ \A j \in 1 .. k + 1 : j \in 1 .. k \/ j = k + 1
    OBVIOUS
  <2>2. f[k + 1] \in S /\ \A j \in 1 .. k : f[j] \in S
    BY <1>2, <2>1
  <2>3. CASE k = 0
    <3>1. \A j \in 1 .. k + 1 : f[j] = f[k + 1]
      BY <2>3
    <3> QED BY <2>1, <2>2, <3>1
  <2>4. CASE k # 0
    <3>1. PICK x \in S : Ahead(x, k)
      BY <1>4, <2>4
    <3>2. CASE x = f[k + 1] \/ <<x, f[k + 1]>> \in R
      <4>1. Ahead(x, k + 1)
        BY <2>1, <2>2, <3>1, <3>2 DEF Orders
      <4> QED BY <2>1, <4>1
    <3>3. CASE <<f[k + 1], x>> \in R
      <4>1. Ahead(f[k + 1], k + 1)
        BY <2>1, <2>2, <3>1, <3>3 DEF Orders
      <4> QED BY <2>1, <2>2, <4>1
    <3> QED BY <2>2, <3>1, <3>2, <3>3 DEF Orders
  <2> QED BY <2>3, <2>4
<1> HIDE DEF Ahead
<1>5. n \in T
  <2>1. T \in SUBSET (0 .. n)
    OBVIOUS
  <2> HIDE DEF T
  <2>2. T = 0 .. n
    BY <1>3, <1>4, <2>1, UpTo
  <2> QED BY <2>2
<1>6. n # 0
  BY <1>2
<1>7. PICK x \in S : Ahead(x, n)
  BY <1>5, <1>6
<1>8. IsFirst(x, R, S)
  BY <1>2, <1>7 DEF Ahead, IsFirst
<1> QED BY <1>8

LEMMA BiggestExists ==
  ASSUME NEW S \in SUBSET Nat, IsFiniteSet(S), S # {}
  PROVE  Biggest(S) \in S /\ \A k \in S : k <= Biggest(S)
PROOF
<1> DEFINE R == {ss \in Nat \X Nat : ss[2] < ss[1]}
<1>1. Orders(R, S)
  BY DEF Orders
<1>2. \E x : IsFirst(x, R, S)
  <2> HIDE DEF R
  <2> QED BY <1>1, FirstExists
<1>3. \E x \in S : \A y \in S : y <= x
  <2>1. PICK x \in S : \A y \in S \ {x} : <<x, y>> \in R
    BY <1>2 DEF IsFirst
  <2>2. \A y \in S : y = x \/ y < x
    BY <2>1
  <2>3. \A y \in S : y <= x
    BY <2>2
  <2> QED BY <2>3
<1> QED BY <1>3 DEF Biggest

-----------------------------------------------------------------------------
(* The mails.                                                               *)

MailTyped ==
  /\ inbox \subseteq ServerUids
  /\ disk \in [Uids -> {"none", "part", "whole"}]
  /\ rows \in [Uids -> MailIds \cup {Absent}]
  /\ watching \in BOOLEAN /\ connected \in BOOLEAN
  /\ running \in Seq(Pipelines)
  /\ turn \in 0..Len(running)
  /\ item["spider"] \in inbox \cup {Absent} /\ item["local"] \in MailIds \cup {Absent}
  /\ journal["spider"] \in inbox \cup {Absent} /\ journal["local"] \in MailIds \cup {Absent}
  /\ DOMAIN item = Pipelines /\ DOMAIN journal = Pipelines
  /\ left \subseteq inbox

\* A pipeline has an item only while it is its turn.
ItemsRun == \A p \in Pipelines : item[p] # Absent => turn > 0 /\ running[turn] = p

\* Mails arrive in the order of their uids.
InboxIsBefore == \A u \in inbox, v \in ServerUids \ inbox : u < v

\* The mail the spider is at, or the last one it was done with.
At == IF item["spider"] = Absent THEN From ELSE item["spider"]

\* What the spider parses is stored, and there is nothing between it and the
\* last one that was journaled.
ItemIsNext ==
  item["spider"] # Absent =>
    /\ From < item["spider"]
    /\ rows[item["spider"]] # Absent /\ disk[item["spider"]] = "whole"
    /\ \A u \in inbox : u < item["spider"] => u <= From

\* What the spider has still to look at is all that lies ahead, but for what has
\* arrived since it searched.
LeftIsAhead ==
  \A v \in left : v > At /\ \A u \in inbox \ left : u <= At \/ u > v

\* Only the spider leaves torn mails with a row behind.
TornAreDownloads == \A u \in Stored : disk[u] # "whole" => u \in ServerUids

\* The spider stores mails in the order of their uids.
RowsInOrder ==
  \A w \in Stored \cap ServerUids, u \in ServerUids : u < w => rows[u] # Absent

\* In a table r a reader at id, who has seen the ids in s, passed over nothing but
\* what came in below a mail put into the store by hand.
Rowed(r) == {u \in Uids : r[u] # Absent}

Passed(r, id, s) ==
  id # Absent =>
    /\ id \in s
    /\ \E w \in Uids : r[w] = id
    /\ \A u \in Rowed(r) :
         r[u] \notin s /\ (\A w \in Uids : r[w] = id => u <= w)
           => \E h \in HandUids \cap Rowed(r) : h > u

LocalPassed ==
  /\ Passed(rows, journal["local"], seen)
  /\ Passed(rows, item["local"], seen \cup {item["local"]})

MailIInv ==
  /\ MailTyped /\ ItemsRun /\ InboxIsBefore /\ ItemIsNext /\ LeftIsAhead
  /\ JournaledAreStored /\ TornAreDownloads /\ RowsInOrder /\ LocalPassed /\ PipelinesOnce


-----------------------------------------------------------------------------
(* The steps of the mails.                                                  *)

LEMMA UidFacts ==
  /\ ServerUids \subseteq Nat \ {0} /\ Uids \subseteq Nat \ {0}
  /\ ServerUids \subseteq Uids /\ HandUids \subseteq Uids
  /\ Absent \notin Nat /\ Absent \notin MailIds
  /\ \A u \in Uids : MailIdOf[u] \in MailIds /\ MailIdOf[u] # Absent /\ u # Absent
PROOF
<1> QED BY MailsAreKnown DEF Uids

LEMMA FromFacts ==
  ASSUME MailTyped
  PROVE  /\ From \in Nat /\ At \in Nat
         /\ \A u \in inbox : u \in Nat /\ (Journaled(u) <=> u <= From)
PROOF
<1>1. inbox \subseteq Nat \ {0} /\ Absent \notin Nat
  BY UidFacts DEF MailTyped
<1>2. journal["spider"] \in inbox \cup {Absent} /\ item["spider"] \in inbox \cup {Absent}
  BY DEF MailTyped
<1>3. From \in Nat /\ At \in Nat
  BY <1>1, <1>2 DEF From, At
<1>4. ASSUME NEW u \in inbox
      PROVE  Journaled(u) <=> u <= From
  BY <1>1, <1>2 DEF Journaled, From
<1> QED BY <1>1, <1>3, <1>4

LEMMA PendingFacts ==
  ASSUME MailTyped, running # <<>>, Pending
  PROVE  turn' \in 0 .. Len(running) /\ turn' > 0
PROOF
<1>1. Len(running) \in Nat /\ turn \in Nat /\ turn <= Len(running) /\ Len(running) # 0
  BY EmptySeq DEF MailTyped
<1> QED BY <1>1 DEF Pending

LEMMA RunsFacts ==
  ASSUME MailTyped, ItemsRun, NEW p \in Pipelines, Runs(p)
  PROVE  /\ running # <<>>
         /\ \A q \in Pipelines : q # p => item[q] = Absent
PROOF
<1>1. running # <<>>
  BY EmptySeq DEF MailTyped, Runs
<1> QED BY <1>1 DEF ItemsRun, Runs

\* The next mail of a list is the least.
LEMMA NextFacts ==
  ASSUME MailIInv, left # {}
  PROVE  /\ Next1 \in left /\ Next1 \in inbox /\ Next1 \in ServerUids /\ Next1 \in Uids
         /\ Next1 \in Nat /\ Next1 > At
         /\ \A v \in left : Next1 <= v
         /\ \A u \in inbox : u < Next1 => u <= At
PROOF
<1>1. left \subseteq inbox /\ inbox \subseteq ServerUids /\ inbox \subseteq Nat /\ left \in SUBSET Nat
  BY UidFacts DEF MailIInv, MailTyped
<1>2. Next1 \in left /\ \A v \in left : Next1 <= v
  BY <1>1, LeastExists DEF Next1
<1>3. At \in Nat
  BY FromFacts DEF MailIInv
<1>4. Next1 > At /\ \A u \in inbox \ left : u <= At \/ u > Next1
  BY <1>2 DEF MailIInv, LeftIsAhead
<1>5. ASSUME NEW u \in inbox, u < Next1
      PROVE  u <= At
  <2>1. u \notin left
    BY <1>1, <1>2, <1>5
  <2>2. u <= At \/ u > Next1
    BY <1>4, <2>1
  <2>3. u \in Nat /\ Next1 \in Nat
    BY <1>1, <1>2
  <2> QED BY <1>5, <2>2, <2>3
<1> QED BY <1>1, <1>2, <1>4, <1>5, UidFacts

\* What only changes what is on disk of a mail the spider is still to fetch leaves
\* the mails before it alone.
LEMMA TornStep ==
  ASSUME MailIInv, UNCHANGED <<inbox, rows, journal>>,
         UNCHANGED disk \/ (item["spider"] = Absent /\ left # {} /\ HalfWritten(Next1))
  PROVE  /\ disk' \in [Uids -> {"none", "part", "whole"}]
         /\ JournaledAreStored' /\ TornAreDownloads'
PROOF
<1>1. /\ disk' \in [Uids -> {"none", "part", "whole"}]
      /\ \A u \in Uids : disk'[u] # disk[u] =>
           item["spider"] = Absent /\ u \in ServerUids /\ left # {} /\ u = Next1
  <2>1. disk \in [Uids -> {"none", "part", "whole"}]
    BY DEF MailIInv, MailTyped
  <2>2. CASE UNCHANGED disk
    BY <2>1, <2>2
  <2>3. CASE item["spider"] = Absent /\ left # {} /\ HalfWritten(Next1)
    <3>1. Next1 \in ServerUids
      BY <2>3, NextFacts
    <3>2. PICK d \in {"part", "whole"} : disk' = [disk EXCEPT ![Next1] = d]
      BY <2>3 DEF HalfWritten
    <3>3. \A u \in Uids : disk'[u] # disk[u] => u = Next1
      BY <2>1, <3>2
    <3> QED BY <2>1, <2>3, <3>1, <3>2, <3>3
  <2> QED BY <2>2, <2>3
<1>2. JournaledAreStored'
  <2> SUFFICES ASSUME NEW u \in inbox, Journaled(u) PROVE rows[u] # Absent /\ disk'[u] = "whole"
    BY DEF JournaledAreStored, Journaled
  <2>1. rows[u] # Absent /\ disk[u] = "whole"
    BY DEF MailIInv, JournaledAreStored
  <2>2. u \in Uids
    BY UidFacts DEF MailIInv, MailTyped
  <2>3. item["spider"] = Absent /\ left # {} => u # Next1
    <3>1. item["spider"] = Absent => At = From
      BY DEF At
    <3>2. u <= From /\ u \in Nat /\ From \in Nat
      BY FromFacts DEF MailIInv
    <3> QED BY <3>1, <3>2, NextFacts
  <2> QED BY <1>1, <2>1, <2>2, <2>3
<1>3. TornAreDownloads'
  <2> SUFFICES ASSUME NEW u \in Stored, disk'[u] # "whole" PROVE u \in ServerUids
    BY DEF TornAreDownloads, Stored
  <2>1. u \in Uids
    BY DEF Stored
  <2> QED BY <1>1, <2>1 DEF MailIInv, TornAreDownloads
<1> QED BY <1>1, <1>2, <1>3

\* What else only changes whose turn it is and what is left.
LEMMA TurnStep ==
  ASSUME MailIInv, running # <<>>, \A p \in Pipelines : item[p] = Absent,
         UNCHANGED <<inbox, rows, watching, connected, running, item, journal, seen>>,
         Pending, left' = {},
         UNCHANGED disk \/ (left # {} /\ HalfWritten(Next1))
  PROVE  MailIInv'
PROOF
<1>1. turn' \in 0 .. Len(running')
  BY PendingFacts DEF MailIInv
<1>2. /\ disk' \in [Uids -> {"none", "part", "whole"}]
      /\ JournaledAreStored' /\ TornAreDownloads'
  <2>1. item["spider"] = Absent
    BY DEF Pipelines
  <2> QED BY <2>1, TornStep
<1>3. MailTyped'
  BY <1>1, <1>2 DEF MailIInv, MailTyped
<1>4. ItemsRun' /\ ItemIsNext'
  BY DEF MailIInv, MailTyped, ItemsRun, ItemIsNext, Pipelines
<1>5. LeftIsAhead'
  BY DEF LeftIsAhead
<1>6. InboxIsBefore' /\ RowsInOrder' /\ LocalPassed' /\ PipelinesOnce'
  BY DEF MailIInv, InboxIsBefore, RowsInOrder, LocalPassed, Passed, Rowed, PipelinesOnce, Stored
<1> QED BY <1>2, <1>3, <1>4, <1>5, <1>6 DEF MailIInv

LEMMA SearchStep ==
  ASSUME MailIInv, SpiderSearch
  PROVE  MailIInv'
PROOF
<1>1. /\ Runs("spider") /\ item["spider"] = Absent /\ left = {}
      /\ UNCHANGED <<inbox, disk, rows, watching, connected, running, item, journal, seen>>
  BY DEF SpiderSearch
<1>2. running # <<>> /\ \A p \in Pipelines : item[p] = Absent
  BY <1>1, RunsFacts DEF MailIInv, Pipelines
<1>3. CASE Pending /\ UNCHANGED left
  <2>1. UNCHANGED disk
    BY <1>1
  <2>2. left' = {} /\ Pending
    BY <1>1, <1>3
  <2> QED BY ONLY MailIInv, <1>1, <1>2, <2>1, <2>2, TurnStep
<1>4. CASE left' = {u \in inbox : u > From} /\ UNCHANGED turn
  <2>1. MailTyped'
    BY <1>1, <1>4 DEF MailIInv, MailTyped
  <2>2. ItemsRun' /\ ItemIsNext' /\ InboxIsBefore' /\ JournaledAreStored' /\ TornAreDownloads'
        /\ RowsInOrder' /\ LocalPassed' /\ PipelinesOnce'
    BY <1>1, <1>4 DEF MailIInv, ItemsRun, ItemIsNext, From, InboxIsBefore, JournaledAreStored,
                      Journaled, TornAreDownloads, RowsInOrder, LocalPassed, Passed, Rowed,
                      PipelinesOnce, Stored
  <2>3. LeftIsAhead'
    <3>1. At' = From
      BY <1>1 DEF At, From
    <3>2. \A u \in inbox : u \in Nat /\ From \in Nat
      BY FromFacts DEF MailIInv
    <3>3. \A v \in left' : v > From
      BY <1>4
    <3>4. \A u \in inbox \ left' : u <= From
      BY <1>4, <3>2
    <3> QED BY <1>1, <3>1, <3>3, <3>4 DEF LeftIsAhead
  <2> QED BY <2>1, <2>2, <2>3 DEF MailIInv
<1> QED BY <1>3, <1>4 DEF SpiderSearch

LEMMA FailsStep ==
  ASSUME MailIInv, SpiderFails
  PROVE  MailIInv'
PROOF
<1>1. /\ Runs("spider") /\ item["spider"] = Absent /\ left # {}
      /\ UNCHANGED <<inbox, rows, watching, connected, running, item, journal, seen>>
      /\ Pending /\ left' = {}
      /\ UNCHANGED disk \/ HalfWritten(Next1)
  BY DEF SpiderFails, GivesUp
<1>2. running # <<>> /\ \A p \in Pipelines : item[p] = Absent
  BY <1>1, RunsFacts DEF MailIInv, Pipelines
<1>3. UNCHANGED disk \/ (left # {} /\ HalfWritten(Next1))
  BY <1>1
<1> QED BY ONLY MailIInv, <1>1, <1>2, <1>3, TurnStep

\* A reader who passed nothing over is not made to by a download: what lies above
\* the new mail was put there by hand.
LEMMA PassedFetch ==
  ASSUME MailIInv, left # {}, item["spider"] = Absent, rows[Next1] = Absent,
         NEW r, r = [rows EXCEPT ![Next1] = MailIdOf[Next1]],
         NEW id, NEW s, Passed(rows, id, s)
  PROVE  Passed(r, id, s)
PROOF
<1> SUFFICES ASSUME id # Absent PROVE Passed(r, id, s)
  BY DEF Passed
<1> DEFINE n == Next1
<1>1. n \in Uids /\ n \in ServerUids /\ n \in Nat
  BY NextFacts
<1>2. \A u \in Uids : r[u] = IF u = n THEN MailIdOf[n] ELSE rows[u]
  BY <1>1 DEF MailIInv, MailTyped
<1> HIDE DEF n
<1>3. \A w \in Rowed(rows) \cap ServerUids : ~ (n < w)
  <2>1. rows[n] = Absent
    BY DEF n
  <2> QED BY <1>1, <2>1 DEF MailIInv, RowsInOrder, Stored, Rowed
<1>4. /\ id \in s
      /\ \E w \in Uids : rows[w] = id
      /\ \A u \in Rowed(rows) :
           rows[u] \notin s /\ (\A w \in Uids : rows[w] = id => u <= w)
             => \E h \in HandUids \cap Rowed(rows) : h > u
  BY DEF Passed
<1>5. PICK w \in Uids : rows[w] = id
  BY <1>4
<1>6. w # n /\ r[w] = id /\ w \in Nat
  <2>1. rows[n] = Absent
    BY DEF n
  <2> QED BY <1>2, <1>5, <2>1, UidFacts
<1>7. \A x \in Uids : rows[x] = id => r[x] = id
  <2>1. rows[n] = Absent
    BY DEF n
  <2> QED BY <1>2, <2>1
<1>8. Rowed(rows) \subseteq Rowed(r)
  <2>1. rows[n] = Absent
    BY DEF n
  <2> QED BY <1>2, <2>1 DEF Rowed
<1>9. ASSUME NEW u \in Rowed(r), r[u] \notin s, \A x \in Uids : r[x] = id => u <= x
      PROVE  \E h \in HandUids \cap Rowed(r) : h > u
  <2>1. CASE u = n
    <3>1. n <= w
      BY <1>5, <1>6, <1>9, <2>1
    <3>2. n < w
      BY <1>1, <1>6, <3>1
    <3>3. w \in Rowed(rows)
      BY <1>5 DEF Rowed
    <3>4. w \in HandUids
      BY <1>3, <1>5, <3>2, <3>3 DEF Uids
    <3>5. w > u
      BY <1>1, <1>6, <2>1, <3>2
    <3> QED BY <1>8, <3>3, <3>4, <3>5
  <2>2. CASE u # n
    <3>1. u \in Uids /\ r[u] = rows[u] /\ u \in Rowed(rows)
      BY <1>2, <1>9, <2>2 DEF Rowed
    <3>2. \A x \in Uids : rows[x] = id => u <= x
      BY <1>7, <1>9
    <3>3. PICK h \in HandUids \cap Rowed(rows) : h > u
      BY <1>4, <1>9, <3>1, <3>2
    <3> QED BY <1>8, <3>3
  <2> QED BY <2>1, <2>2
<1> QED BY <1>4, <1>5, <1>6, <1>9 DEF Passed

LEMMA FetchStep ==
  ASSUME MailIInv, SpiderFetch
  PROVE  MailIInv'
PROOF
<1> DEFINE n == Next1
<1>1. /\ Runs("spider") /\ item["spider"] = Absent /\ left # {}
      /\ disk' = [disk EXCEPT ![n] = "whole"]
      /\ UNCHANGED <<inbox, watching, connected, running, journal, seen>>
  BY DEF SpiderFetch
<1>2. running # <<>> /\ item["local"] = Absent /\ \A p \in Pipelines : item[p] = Absent
  BY <1>1, RunsFacts DEF MailIInv, Pipelines
<1>3. /\ n \in left /\ n \in inbox /\ n \in ServerUids /\ n \in Uids /\ n \in Nat
      /\ n > From /\ From \in Nat
      /\ \A v \in left : n <= v
      /\ \A u \in inbox : u < n => u <= From
  <2>1. At = From
    BY <1>1 DEF At
  <2>2. From \in Nat
    BY FromFacts DEF MailIInv
  <2> QED BY <1>1, <2>1, <2>2, NextFacts
<1>4. CASE rows[n] # Absent
  <2>1. rows' = rows /\ item' = item /\ left' = {} /\ Pending
    BY <1>4 DEF SpiderFetch
  <2>2. HalfWritten(n)
    BY <1>1 DEF HalfWritten
  <2> QED BY <1>1, <1>2, <2>1, <2>2, TurnStep
<1>5. CASE rows[n] = Absent
  <2>1. /\ rows' = [rows EXCEPT ![n] = MailIdOf[n]]
        /\ item' = [item EXCEPT !["spider"] = n]
        /\ left' = left \ {n} /\ turn' = turn
    BY <1>5 DEF SpiderFetch
  <2>2. Passed(rows', journal["local"], seen)
    BY <1>1, <1>5, <2>1, PassedFetch DEF MailIInv, LocalPassed
  <2> HIDE DEF n
  <2>3. /\ \A u \in Uids : rows'[u] = IF u = n THEN MailIdOf[n] ELSE rows[u]
        /\ rows' \in [Uids -> MailIds \cup {Absent}]
    <3>1. rows \in [Uids -> MailIds \cup {Absent}] /\ MailIdOf[n] \in MailIds
      BY <1>3, UidFacts DEF MailIInv, MailTyped
    <3> QED BY <1>3, <2>1, <3>1
  <2>4. /\ \A u \in Uids : disk'[u] = IF u = n THEN "whole" ELSE disk[u]
        /\ disk' \in [Uids -> {"none", "part", "whole"}]
    <3>1. disk \in [Uids -> {"none", "part", "whole"}]
      BY DEF MailIInv, MailTyped
    <3> QED BY <1>1, <1>3, <3>1
  <2>5. /\ item'["spider"] = n /\ item'["local"] = item["local"]
        /\ DOMAIN item' = Pipelines
    <3>1. DOMAIN item = Pipelines
      BY DEF MailIInv, MailTyped
    <3> QED BY <2>1, <3>1 DEF Pipelines
  <2>6. MailTyped'
    <3>1. /\ inbox' = inbox /\ running' = running /\ turn' = turn
          /\ watching' = watching /\ connected' = connected /\ journal' = journal
          /\ left' \subseteq left
      BY <1>1, <2>1
    <3>2. item'["spider"] \in inbox' \cup {Absent} /\ item'["local"] \in MailIds \cup {Absent}
      BY <1>3, <2>5, <3>1 DEF MailIInv, MailTyped
    <3>3. left' \subseteq inbox'
      BY <3>1 DEF MailIInv, MailTyped
    <3> QED BY <2>3, <2>4, <2>5, <3>1, <3>2, <3>3 DEF MailIInv, MailTyped
  <2>7. ItemsRun'
    BY <1>1, <1>2, <2>1, <2>5 DEF Runs, ItemsRun, Pipelines
  <2>8. InboxIsBefore' /\ PipelinesOnce'
    BY <1>1 DEF MailIInv, InboxIsBefore, PipelinesOnce
  <2>9. rows'[n] # Absent /\ disk'[n] = "whole" /\ n # Absent
    BY <1>3, <2>3, <2>4, UidFacts
  <2>10. From' = From /\ At' = n
    BY <1>1, <2>5, <2>9 DEF From, At
  <2>11. ItemIsNext'
    BY <1>1, <1>3, <2>5, <2>9, <2>10 DEF ItemIsNext
  <2>12. LeftIsAhead'
    <3> SUFFICES ASSUME NEW v \in left \ {n}
                 PROVE  v > n /\ \A u \in inbox \ (left \ {n}) : u <= n \/ u > v
      BY <1>1, <2>1, <2>10 DEF LeftIsAhead
    <3>1. v \in Nat /\ n <= v /\ v # n
      BY <1>3, UidFacts DEF MailIInv, MailTyped
    <3>2. ASSUME NEW u \in inbox \ (left \ {n}), u # n
          PROVE  u <= n \/ u > v
      <4>1. u \in inbox \ left /\ u \in Nat
        BY <3>2, UidFacts DEF MailIInv, MailTyped
      <4>2. u <= From \/ u > v
        <5>1. At = From
          BY <1>1 DEF At
        <5> QED BY <4>1, <5>1 DEF MailIInv, LeftIsAhead
      <4> QED BY <1>3, <4>1, <4>2
    <3> QED BY <1>3, <3>1, <3>2
  <2>13. JournaledAreStored'
    <3> SUFFICES ASSUME NEW u \in inbox, Journaled(u) PROVE rows'[u] # Absent /\ disk'[u] = "whole"
      BY <1>1 DEF JournaledAreStored, Journaled
    <3>1. rows[u] # Absent /\ disk[u] = "whole" /\ u \in Uids
      BY UidFacts DEF MailIInv, MailTyped, JournaledAreStored
    <3> QED BY <2>3, <2>4, <2>9, <3>1
  <2>14. TornAreDownloads'
    <3> SUFFICES ASSUME NEW u \in Uids, rows'[u] # Absent, disk'[u] # "whole" PROVE u \in ServerUids
      BY DEF TornAreDownloads, Stored
    <3>1. u # n
      BY <2>9
    <3>2. u \in Stored /\ disk[u] # "whole"
      BY <2>3, <2>4, <3>1 DEF Stored
    <3> QED BY <3>2 DEF MailIInv, TornAreDownloads
  <2>15. RowsInOrder'
    <3> SUFFICES ASSUME NEW w \in ServerUids, rows'[w] # Absent, NEW u \in ServerUids, u < w
                 PROVE  rows'[u] # Absent
      BY DEF RowsInOrder, Stored
    <3>1. u \in Uids /\ w \in Uids /\ u \in Nat /\ w \in Nat
      BY UidFacts
    <3>2. CASE w # n
      <4>1. w \in Stored
        BY <2>3, <3>1, <3>2 DEF Stored
      <4>2. rows[u] # Absent
        BY <4>1 DEF MailIInv, RowsInOrder
      <4> QED BY <2>3, <2>9, <3>1, <4>2
    <3>3. CASE w = n
      <4>1. u \in inbox
        BY <1>3, <3>1, <3>3 DEF MailIInv, InboxIsBefore
      <4>2. u <= From
        BY <1>3, <3>3, <4>1
      <4>3. Journaled(u)
        BY <4>1, <4>2, FromFacts DEF MailIInv
      <4>4. rows[u] # Absent
        BY <4>1, <4>3 DEF MailIInv, JournaledAreStored
      <4> QED BY <2>3, <2>9, <3>1, <4>4
    <3> QED BY <3>2, <3>3
  <2>16. LocalPassed'
    BY <1>1, <1>2, <2>2, <2>5 DEF LocalPassed, Passed
  <2> QED BY <2>6, <2>7, <2>8, <2>11, <2>12, <2>13, <2>14, <2>15, <2>16 DEF MailIInv
<1> QED BY <1>4, <1>5


LEMMA ParsedStep ==
  ASSUME MailIInv, NEW p \in Pipelines, Parsed(p)
  PROVE  MailIInv'
PROOF
<1>1. /\ item[p] # Absent
      /\ journal' = [journal EXCEPT ![p] = item[p]]
      /\ item' = [item EXCEPT ![p] = Absent]
      /\ UNCHANGED <<inbox, disk, rows, watching, connected, running, turn, left>>
  BY DEF Parsed
<1>2. /\ journal'[p] = item[p] /\ item'[p] = Absent
      /\ \A q \in Pipelines : q # p => journal'[q] = journal[q] /\ item'[q] = item[q]
      /\ DOMAIN item' = Pipelines /\ DOMAIN journal' = Pipelines
  BY <1>1 DEF MailIInv, MailTyped
<1>3. MailTyped'
  BY <1>1, <1>2 DEF MailIInv, MailTyped, Pipelines
<1>4. ItemsRun' /\ InboxIsBefore' /\ RowsInOrder' /\ TornAreDownloads' /\ PipelinesOnce'
  BY <1>1, <1>2 DEF MailIInv, ItemsRun, InboxIsBefore, RowsInOrder, TornAreDownloads, Stored,
                    PipelinesOnce
<1>5. CASE p = "spider"
  <2> DEFINE i == item["spider"]
  <2>1. /\ i \in inbox /\ i \in Nat /\ From < i /\ From \in Nat
        /\ rows[i] # Absent /\ disk[i] = "whole"
        /\ \A u \in inbox : u < i => u <= From
    BY <1>1, <1>5, UidFacts, FromFacts DEF MailIInv, MailTyped, ItemIsNext
  <2>2. journal'["spider"] = i /\ item'["spider"] = Absent /\ i # Absent
    BY <1>1, <1>2, <1>5
  <2>3. From' = i /\ At' = i /\ At = i
    BY <2>2 DEF From, At
  <2>4. ItemIsNext'
    BY <2>2 DEF ItemIsNext
  <2>5. LeftIsAhead'
    BY <1>1, <2>3 DEF MailIInv, LeftIsAhead
  <2>6. JournaledAreStored'
    <3> SUFFICES ASSUME NEW u \in inbox, u <= i PROVE rows[u] # Absent /\ disk[u] = "whole"
      BY <1>1, <2>2 DEF JournaledAreStored, Journaled
    <3>1. u \in Nat
      BY FromFacts DEF MailIInv
    <3>2. CASE u = i
      BY <2>1, <3>2
    <3>3. CASE u < i
      <4>1. Journaled(u)
        BY <2>1, <3>3, FromFacts DEF MailIInv
      <4> QED BY <4>1 DEF MailIInv, JournaledAreStored
    <3>4. u < i \/ u = i
      BY <2>1, <3>1
    <3> QED BY <3>2, <3>3, <3>4
  <2>7. LocalPassed'
    <3>1. journal'["local"] = journal["local"] /\ item'["local"] = item["local"] /\ seen' = seen
      BY <1>2, <1>5 DEF Parsed, Pipelines
    <3> QED BY <1>1, <3>1 DEF MailIInv, LocalPassed, Passed, Rowed
  <2> QED BY <1>3, <1>4, <2>4, <2>5, <2>6, <2>7 DEF MailIInv
<1>6. CASE p = "local"
  <2>1. journal'["spider"] = journal["spider"] /\ item'["spider"] = item["spider"]
    BY <1>2, <1>6 DEF Pipelines
  <2>2. From' = From /\ At' = At
    BY <2>1 DEF From, At
  <2>3. ItemIsNext' /\ LeftIsAhead' /\ JournaledAreStored'
    BY <1>1, <2>1, <2>2 DEF MailIInv, ItemIsNext, LeftIsAhead, JournaledAreStored, Journaled
  <2>4. LocalPassed'
    <3>1. journal'["local"] = item["local"] /\ seen' = seen \cup {item["local"]}
          /\ item'["local"] = Absent
      BY <1>2, <1>6 DEF Parsed
    <3>2. Passed(rows', journal'["local"], seen')
      BY <1>1, <3>1 DEF MailIInv, LocalPassed
    <3>3. Passed(rows', item'["local"], (seen \cup {item["local"]})')
      BY <3>1 DEF Passed
    <3> QED BY <3>2, <3>3 DEF LocalPassed
  <2> QED BY <1>3, <1>4, <2>3, <2>4 DEF MailIInv
<1> QED BY <1>5, <1>6 DEF Pipelines

LEMMA RaisedStep ==
  ASSUME MailIInv, NEW p \in Pipelines, Raised(p)
  PROVE  MailIInv'
PROOF
<1>1. /\ item[p] # Absent
      /\ item' = [item EXCEPT ![p] = Absent]
      /\ left' = IF p = "spider" THEN {} ELSE left
      /\ Pending \/ turn' = 0
      /\ UNCHANGED <<inbox, disk, rows, watching, connected, running, journal, seen>>
  BY DEF Raised
<1>2. /\ DOMAIN item' = Pipelines /\ item'[p] = Absent
      /\ \A q \in Pipelines : q # p => item'[q] = item[q]
  BY <1>1 DEF MailIInv, MailTyped
<1>3. turn > 0 /\ running[turn] = p
  BY <1>1 DEF MailIInv, ItemsRun
<1>4. running # <<>> /\ \A q \in Pipelines : item'[q] = Absent
  <2>1. Runs(p)
    BY <1>3 DEF Runs
  <2>2. running # <<>> /\ \A q \in Pipelines : q # p => item[q] = Absent
    BY <2>1, RunsFacts DEF MailIInv
  <2> QED BY <1>2, <2>2
<1>5. turn' \in 0 .. Len(running')
  <2>1. CASE Pending
    BY <1>1, <1>4, <2>1, PendingFacts DEF MailIInv
  <2>2. CASE turn' = 0
    BY <1>1, <2>2 DEF MailIInv, MailTyped
  <2> QED BY <1>1, <2>1, <2>2
<1>6. item'["spider"] = Absent /\ item'["local"] = Absent
  BY <1>4 DEF Pipelines
<1>7. left' \subseteq left
  BY <1>1
<1>8. MailTyped'
  BY <1>1, <1>2, <1>5, <1>6, <1>7 DEF MailIInv, MailTyped
<1>9. ItemsRun' /\ ItemIsNext' /\ LocalPassed'
  BY <1>1, <1>4, <1>6 DEF MailIInv, ItemsRun, ItemIsNext, LocalPassed, Passed, Rowed
<1>10. InboxIsBefore' /\ RowsInOrder' /\ TornAreDownloads' /\ PipelinesOnce' /\ JournaledAreStored'
  BY <1>1 DEF MailIInv, InboxIsBefore, RowsInOrder, TornAreDownloads, Stored, PipelinesOnce,
              JournaledAreStored, Journaled
<1>11. LeftIsAhead'
  <2>1. CASE p = "spider"
    BY <1>1, <2>1 DEF LeftIsAhead
  <2>2. CASE p = "local"
    <3>1. item["spider"] = Absent /\ left' = left
      BY <1>1, <1>2, <1>6, <2>2 DEF Pipelines
    <3>2. At' = At
      BY <1>1, <1>6, <3>1 DEF At, From
    <3> QED BY <1>1, <3>1, <3>2 DEF MailIInv, LeftIsAhead
  <2> QED BY <2>1, <2>2 DEF Pipelines
<1> QED BY <1>8, <1>9, <1>10, <1>11 DEF MailIInv

\* The local input's next mail: nothing lies between the last one and it.
LEMMA LocalStep ==
  ASSUME MailIInv, LocalNext
  PROVE  MailIInv'
PROOF
<1> DEFINE j == journal["local"]
           id == NextMailId(j)
<1>1. /\ Runs("local") /\ item["local"] = Absent
      /\ UNCHANGED <<inbox, disk, rows, watching, connected, running, left, journal, seen>>
      /\ IF id = Absent THEN Pending /\ UNCHANGED item
         ELSE item' = [item EXCEPT !["local"] = id] /\ UNCHANGED turn
  BY DEF LocalNext
<1>2. running # <<>> /\ item["spider"] = Absent
  BY <1>1, RunsFacts DEF MailIInv, Pipelines
<1>3. CASE id = Absent
  <2>1. turn' \in 0 .. Len(running') /\ item' = item
    BY <1>1, <1>2, <1>3, PendingFacts DEF MailIInv
  <2>2. MailTyped'
    BY <1>1, <2>1 DEF MailIInv, MailTyped
  <2>3. ItemsRun'
    BY <1>1, <1>2, <2>1 DEF ItemsRun, Pipelines
  <2>4. ItemIsNext' /\ LeftIsAhead' /\ LocalPassed' /\ InboxIsBefore' /\ RowsInOrder'
        /\ TornAreDownloads' /\ PipelinesOnce' /\ JournaledAreStored'
    BY <1>1, <2>1 DEF MailIInv, ItemIsNext, LeftIsAhead, LocalPassed, Passed, Rowed, At, From,
                      InboxIsBefore, RowsInOrder, TornAreDownloads, Stored, PipelinesOnce,
                      JournaledAreStored, Journaled
  <2> QED BY <2>2, <2>3, <2>4 DEF MailIInv
<1>4. CASE id # Absent
  <2> DEFINE k == IF j = Absent THEN 0 ELSE UidOf(j)
             m == Least(After(k))
  <2>1. /\ k # Absent /\ k \in Nat
        /\ j # Absent => \A w \in Uids : rows[w] = j => k <= w
        /\ j # Absent => k \in Uids
    <3>1. CASE j = Absent
      BY <3>1, UidFacts
    <3>2. CASE j # Absent
      <4> DEFINE U == {u \in Stored : rows[u] = j}
      <4>1. PICK w \in Uids : rows[w] = j
        BY <3>2 DEF MailIInv, LocalPassed, Passed
      <4>2. U # {} /\ U \in SUBSET Nat /\ U \subseteq Uids /\ \A x \in Uids : rows[x] = j => x \in U
        BY <3>2, <4>1, UidFacts DEF Stored
      <4>3. UidOf(j) = Least(U)
        BY <4>2 DEF UidOf
      <4> HIDE DEF U
      <4>4. Least(U) \in U /\ \A x \in U : Least(U) <= x
        BY <4>2, LeastExists
      <4> QED BY <3>2, <4>2, <4>3, <4>4, UidFacts
    <3> QED BY <3>1, <3>2
  <2>2. id = IF After(k) = {} THEN Absent ELSE rows[Least(After(k))]
    BY DEF NextMailId
  <2>3. After(k) = {v \in Stored : v > k}
    BY <2>1 DEF After
  <2> HIDE DEF k
  <2>4. m \in Stored /\ m > k /\ id = rows[m] /\ \A v \in Stored : v > k => m <= v
    <3>1. After(k) \in SUBSET Nat /\ After(k) # {}
      BY <1>4, <2>2, <2>3, UidFacts DEF Stored
    <3> HIDE DEF id
    <3> QED BY <2>2, <2>3, <3>1, LeastExists
  <2> HIDE DEF m
  <2>5. m \in Uids /\ m \in Nat /\ id \in MailIds /\ id # Absent
    <3>1. rows \in [Uids -> MailIds \cup {Absent}]
      BY DEF MailIInv, MailTyped
    <3> QED BY <1>4, <2>4, <3>1, UidFacts DEF Stored
  <2>6. item' = [item EXCEPT !["local"] = id] /\ turn' = turn
    BY <1>1, <1>4
  <2> HIDE DEF id
  <2>7. item'["local"] = id /\ item'["spider"] = Absent /\ DOMAIN item' = Pipelines
    BY <1>2, <2>6 DEF MailIInv, MailTyped, Pipelines
  <2>8. MailTyped'
    BY <1>1, <2>5, <2>6, <2>7 DEF MailIInv, MailTyped
  <2>9. ItemsRun'
    BY <1>1, <2>6, <2>7 DEF ItemsRun, Runs, Pipelines
  <2>10. ItemIsNext' /\ LeftIsAhead' /\ InboxIsBefore' /\ RowsInOrder' /\ TornAreDownloads'
         /\ PipelinesOnce' /\ JournaledAreStored'
    BY <1>1, <1>2, <2>7 DEF MailIInv, ItemIsNext, LeftIsAhead, At, From, InboxIsBefore,
         RowsInOrder, TornAreDownloads, Stored, PipelinesOnce, JournaledAreStored, Journaled
  <2>11. Passed(rows, id, seen \cup {id})
    <3>1. ASSUME NEW u \in Rowed(rows), rows[u] \notin seen \cup {id},
                 \A w \in Uids : rows[w] = id => u <= w
          PROVE  \E h \in HandUids \cap Rowed(rows) : h > u
      <4>1. u \in Uids /\ u \in Nat /\ u # 0 /\ u \in Stored
        BY UidFacts DEF Rowed, Stored
      <4>2. u <= m /\ u # m
        BY <2>4, <2>5, <3>1
      <4>3. ~ (u > k)
        BY <2>4, <2>5, <4>1, <4>2
      <4>4. u <= k
        BY <2>1, <4>1, <4>3
      <4>5. j # Absent
        BY <4>1, <4>4 DEF k
      <4>6. \A w \in Uids : rows[w] = j => u <= w
        <5> SUFFICES ASSUME NEW w \in Uids, rows[w] = j PROVE u <= w
          OBVIOUS
        <5>1. k <= w /\ w \in Nat
          BY <2>1, <4>5, UidFacts
        <5> QED BY <2>1, <4>1, <4>4, <5>1
      <4> QED BY <3>1, <4>5, <4>6 DEF MailIInv, LocalPassed, Passed
    <3> QED BY <2>4, <2>5, <3>1 DEF Passed
  <2>12. LocalPassed'
    <3>1. Passed(rows', item'["local"], (seen \cup {item["local"]})')
      BY <1>1, <2>7, <2>11
    <3>2. Passed(rows', journal'["local"], seen')
      BY <1>1 DEF MailIInv, LocalPassed
    <3> QED BY <3>1, <3>2 DEF LocalPassed
  <2> QED BY <2>8, <2>9, <2>10, <2>12 DEF MailIInv
<1> QED BY <1>3, <1>4


\* watch_root only adds what lies above all that is stored, is whole, and was put
\* there by hand.
LEMMA PassedWatch ==
  ASSUME NEW r1 \in [Uids -> MailIds \cup {Absent}], NEW r2 \in [Uids -> MailIds \cup {Absent}],
         \A u \in Rowed(r1) : r2[u] = r1[u],
         \A u \in Rowed(r2) : u \in Rowed(r1) \/ (\A v \in Rowed(r1) : v < u),
         NEW id, NEW s, Passed(r1, id, s)
  PROVE  Passed(r2, id, s)
PROOF
<1> SUFFICES ASSUME id # Absent PROVE Passed(r2, id, s)
  BY DEF Passed
<1>1. /\ id \in s
      /\ \E w \in Uids : r1[w] = id
      /\ \A u \in Rowed(r1) :
           r1[u] \notin s /\ (\A w \in Uids : r1[w] = id => u <= w)
             => \E h \in HandUids \cap Rowed(r1) : h > u
  BY DEF Passed
<1>2. Rowed(r1) \subseteq Rowed(r2) /\ Rowed(r2) \subseteq Uids
  BY DEF Rowed
<1>3. \A w \in Uids : r1[w] = id => r2[w] = id /\ w \in Rowed(r1)
  BY DEF Rowed
<1>4. ASSUME NEW u \in Rowed(r2), r2[u] \notin s, \A x \in Uids : r2[x] = id => u <= x
      PROVE  \E h \in HandUids \cap Rowed(r2) : h > u
  <2>1. PICK w \in Uids : r1[w] = id
    BY <1>1
  <2>2. u <= w /\ w \in Rowed(r1) /\ u \in Nat /\ w \in Nat
    BY <1>2, <1>3, <1>4, <2>1, UidFacts
  <2>3. u \in Rowed(r1)
    <3>1. ~ (w < u)
      BY <2>2
    <3> QED BY <2>2, <3>1
  <2>4. \A x \in Uids : r1[x] = id => u <= x
    BY <1>3, <1>4
  <2>5. PICK h \in HandUids \cap Rowed(r1) : h > u
    BY <1>1, <1>4, <2>3, <2>4
  <2> QED BY <1>2, <2>5
<1> QED BY <1>1, <1>3, <1>4 DEF Passed

LEMMA WatchStep ==
  ASSUME MailIInv, Watch
  PROVE  MailIInv'
PROOF
<1>1. /\ UNCHANGED <<inbox, disk, connected, running, turn, left, item, journal, seen>>
      /\ watching' \in BOOLEAN
  BY DEF Watch, MailIInv, MailTyped
<1>2. PICK S \in SUBSET Uids :
        /\ rows' = [u \in Uids |-> IF u \in S THEN MailIdOf[u] ELSE rows[u]]
        /\ \A u \in S : disk[u] = "whole" /\ u \notin ServerUids /\ u > Biggest(Stored)
        /\ S # {} => Stored # {}
  <2>1. rows = [u \in Uids |-> rows[u]]
    BY DEF MailIInv, MailTyped
  <2>2. CASE rows' = rows
    <3>1. rows' = [u \in Uids |-> IF u \in {} THEN MailIdOf[u] ELSE rows[u]]
      BY <2>1, <2>2
    <3> QED BY <3>1
  <2> DEFINE dirs == {u \in Uids : disk[u] # "none"}
             new  == {u \in dirs : u > Biggest(Stored)}
             bad  == {u \in new : Unreadable(u)}
             take(S) == rows' = [u \in Uids |-> IF u \in S THEN MailIdOf[u] ELSE rows[u]]
  <2>3. CASE Stored # {} /\ bad = {} /\ take(new)
    <3>1. new \in SUBSET Uids /\ \A u \in new : ~ Unreadable(u) /\ u > Biggest(Stored)
      BY <2>3
    <3>2. \A u \in new : disk[u] = "whole" /\ u \notin ServerUids
      BY <3>1 DEF Unreadable
    <3> HIDE DEF new
    <3> QED BY <2>3, <3>1, <3>2
  <2>4. CASE Stored # {} /\ \E S \in SUBSET (new \ bad) : take(S)
    <3>1. PICK S \in SUBSET (new \ bad) : take(S)
      BY <2>4
    <3>2. S \in SUBSET Uids /\ \A u \in S : ~ Unreadable(u) /\ u > Biggest(Stored)
      <4>1. new \subseteq Uids /\ \A u \in new : u > Biggest(Stored) /\ (u \notin bad => ~ Unreadable(u))
        OBVIOUS
      <4> HIDE DEF new, bad
      <4> QED BY <4>1
    <3>3. \A u \in S : disk[u] = "whole" /\ u \notin ServerUids
      BY <3>2 DEF Unreadable
    <3> HIDE DEF new, bad
    <3> QED BY <2>4, <3>1, <3>2, <3>3
  <2>5. rows' = rows \/ (Stored # {} /\ bad = {} /\ take(new))
        \/ (Stored # {} /\ \E S \in SUBSET (new \ bad) : take(S))
    BY DEF Watch
  <2> QED BY <2>2, <2>3, <2>4, <2>5
<1>3. \A u \in S, v \in Stored : v < u
  <2> SUFFICES ASSUME NEW u \in S, NEW v \in Stored PROVE v < u
    OBVIOUS
  <2>1. Stored \in SUBSET Nat /\ IsFiniteSet(Stored) /\ Stored # {}
    <3>1. Stored \in SUBSET Uids /\ IsFiniteSet(Uids)
      BY MailsAreKnown DEF Stored
    <3> QED BY <3>1, FS_Subset, UidFacts
  <2>2. Biggest(Stored) \in Stored /\ v <= Biggest(Stored)
    BY <2>1, BiggestExists
  <2>3. u > Biggest(Stored) /\ u \in Nat /\ v \in Nat /\ Biggest(Stored) \in Nat
    BY <1>2, <2>1, <2>2, UidFacts
  <2> QED BY <2>2, <2>3
<1>4. /\ rows' \in [Uids -> MailIds \cup {Absent}]
      /\ \A u \in Uids : rows'[u] = IF u \in S THEN MailIdOf[u] ELSE rows[u]
      /\ rows \in [Uids -> MailIds \cup {Absent}]
  <2>1. \A u \in Uids : MailIdOf[u] \in MailIds /\ rows[u] \in MailIds \cup {Absent}
    BY UidFacts DEF MailIInv, MailTyped
  <2>2. rows \in [Uids -> MailIds \cup {Absent}]
    BY DEF MailIInv, MailTyped
  <2> QED BY <1>2, <2>1, <2>2
<1>5. \A u \in Stored : u \in Uids /\ u \notin S /\ rows'[u] = rows[u] /\ rows'[u] # Absent
  <2> SUFFICES ASSUME NEW u \in Stored PROVE u \in Uids /\ u \notin S /\ rows'[u] = rows[u] /\ rows'[u] # Absent
    OBVIOUS
  <2>1. u \in Uids /\ u \in Nat /\ rows[u] # Absent
    BY UidFacts DEF Stored
  <2>2. u \notin S
    BY <1>3, <2>1
  <2> QED BY <1>4, <2>1, <2>2
<1>6. \A u \in Stored' : u \in Stored \/ u \in S
  BY <1>4 DEF Stored
<1>7. MailTyped'
  BY <1>1, <1>4 DEF MailIInv, MailTyped
<1>8. ItemsRun' /\ InboxIsBefore' /\ PipelinesOnce'
  BY <1>1 DEF MailIInv, ItemsRun, InboxIsBefore, PipelinesOnce
<1>9. At' = At /\ From' = From
  BY <1>1 DEF At, From
<1>10. LeftIsAhead'
  BY <1>1, <1>9 DEF MailIInv, LeftIsAhead
<1>11. ItemIsNext'
  <2> SUFFICES ASSUME item["spider"] # Absent PROVE ItemIsNext'
    BY <1>1 DEF ItemIsNext
  <2>1. item["spider"] \in Stored
    BY UidFacts DEF MailIInv, MailTyped, ItemIsNext, Stored
  <2>2. rows'[item["spider"]] # Absent
    BY <1>5, <2>1
  <2> QED BY <1>1, <1>9, <2>2 DEF MailIInv, ItemIsNext
<1>12. JournaledAreStored'
  <2> SUFFICES ASSUME NEW u \in inbox, Journaled(u) PROVE rows'[u] # Absent /\ disk[u] = "whole"
    BY <1>1 DEF JournaledAreStored, Journaled
  <2>1. u \in Stored /\ disk[u] = "whole"
    BY UidFacts DEF MailIInv, MailTyped, JournaledAreStored, Stored
  <2> QED BY <1>5, <2>1
<1>13. TornAreDownloads'
  BY <1>1, <1>2, <1>6 DEF MailIInv, TornAreDownloads
<1>14. RowsInOrder'
  <2> SUFFICES ASSUME NEW w \in Stored', w \in ServerUids, NEW u \in ServerUids, u < w
               PROVE  rows'[u] # Absent
    BY DEF RowsInOrder
  <2>1. w \in Stored
    BY <1>2, <1>6
  <2>2. rows[u] # Absent /\ u \in Stored
    BY <2>1, UidFacts DEF MailIInv, RowsInOrder, Stored
  <2> QED BY <1>5, <2>2
<1>15. LocalPassed'
  <2>1. Rowed(rows) = Stored /\ Rowed(rows') = Stored'
    BY DEF Rowed, Stored
  <2>2. /\ \A u \in Rowed(rows) : rows'[u] = rows[u]
        /\ \A u \in Rowed(rows') : u \in Rowed(rows) \/ (\A v \in Rowed(rows) : v < u)
    BY <1>3, <1>5, <1>6, <2>1
  <2>3. Passed(rows', journal["local"], seen)
    BY <1>4, <2>2, PassedWatch DEF MailIInv, LocalPassed
  <2>4. Passed(rows', item["local"], seen \cup {item["local"]})
    BY <1>4, <2>2, PassedWatch DEF MailIInv, LocalPassed
  <2> QED BY <1>1, <2>3, <2>4 DEF LocalPassed
<1> QED BY <1>7, <1>8, <1>10, <1>11, <1>12, <1>13, <1>14, <1>15 DEF MailIInv

LEMMA ArriveStep ==
  ASSUME MailIInv, Arrive
  PROVE  MailIInv'
PROOF
<1> DEFINE a == Least(ServerUids \ inbox)
<1>1. /\ inbox # ServerUids /\ inbox' = inbox \cup {a}
      /\ UNCHANGED <<disk, rows, watching, connected, running, turn, left, item, journal, seen>>
  BY DEF Arrive
<1>2. /\ a \in ServerUids /\ a \notin inbox /\ a \in Nat
      /\ \A v \in ServerUids \ inbox : a <= v
      /\ inbox \subseteq ServerUids /\ ServerUids \subseteq Nat
  <2>1. ServerUids \ inbox # {} /\ ServerUids \ inbox \in SUBSET Nat /\ inbox \subseteq ServerUids
    BY <1>1, UidFacts DEF MailIInv, MailTyped
  <2>2. a \in ServerUids \ inbox /\ \A v \in ServerUids \ inbox : a <= v
    BY <2>1, LeastExists
  <2> HIDE DEF a
  <2> QED BY <2>1, <2>2, UidFacts
<1> HIDE DEF a
<1>3. \A u \in inbox : u < a /\ u \in Nat
  BY <1>2 DEF MailIInv, InboxIsBefore
<1>4. MailTyped'
  BY <1>1, <1>2 DEF MailIInv, MailTyped
<1>5. ItemsRun' /\ TornAreDownloads' /\ RowsInOrder' /\ LocalPassed' /\ PipelinesOnce'
  BY <1>1 DEF MailIInv, ItemsRun, TornAreDownloads, RowsInOrder, Stored, LocalPassed, Passed, Rowed,
              PipelinesOnce
<1>6. InboxIsBefore'
  <2> SUFFICES ASSUME NEW u \in inbox', NEW v \in ServerUids \ inbox' PROVE u < v
    BY DEF InboxIsBefore
  <2>1. v \in ServerUids \ inbox /\ v # a /\ v \in Nat /\ a <= v
    BY <1>1, <1>2
  <2>2. CASE u = a
    BY <1>2, <2>1, <2>2
  <2>3. CASE u \in inbox
    BY <2>1, <2>3 DEF MailIInv, InboxIsBefore
  <2> QED BY <1>1, <2>2, <2>3
<1>7. At' = At /\ From' = From /\ At \in Nat /\ From \in Nat
  BY <1>1, FromFacts DEF At, From, MailIInv
<1>8. item["spider"] \in inbox \cup {Absent} /\ journal["spider"] \in inbox \cup {Absent} /\ left \subseteq inbox
  BY DEF MailIInv, MailTyped
<1>9. ItemIsNext'
  <2> SUFFICES ASSUME item["spider"] # Absent, NEW u \in inbox', u < item["spider"] PROVE u <= From
    BY <1>1, <1>7 DEF MailIInv, ItemIsNext
  <2>1. u # a
    <3>1. item["spider"] < a /\ item["spider"] \in Nat
      BY <1>3, <1>8
    <3> QED BY <1>2, <3>1
  <2> QED BY <1>1, <2>1 DEF MailIInv, ItemIsNext
<1>10. LeftIsAhead'
  <2> SUFFICES ASSUME NEW v \in left
               PROVE  v > At /\ \A u \in inbox' \ left : u <= At \/ u > v
    BY <1>1, <1>7 DEF LeftIsAhead
  <2>1. v > At /\ \A u \in inbox \ left : u <= At \/ u > v
    BY DEF MailIInv, LeftIsAhead
  <2>2. a > v
    BY <1>2, <1>3, <1>8
  <2> QED BY <1>1, <2>1, <2>2
<1>11. JournaledAreStored'
  <2> SUFFICES ASSUME NEW u \in inbox', Journaled(u) PROVE rows[u] # Absent /\ disk[u] = "whole"
    BY <1>1 DEF JournaledAreStored, Journaled
  <2>1. u # a
    <3>1. u <= journal["spider"] /\ journal["spider"] # Absent
      BY DEF Journaled
    <3>2. journal["spider"] < a /\ journal["spider"] \in Nat
      BY <1>3, <1>8, <3>1
    <3> QED BY <1>2, <3>1, <3>2
  <2> QED BY <1>1, <2>1 DEF MailIInv, JournaledAreStored
<1> QED BY <1>4, <1>5, <1>6, <1>9, <1>10, <1>11 DEF MailIInv

LEMMA PlaceStep ==
  ASSUME MailIInv, NEW u \in HandUids, Place(u)
  PROVE  MailIInv'
PROOF
<1>1. /\ disk[u] # "whole" /\ u \in Uids
      /\ disk' = [disk EXCEPT ![u] = IF disk[u] = "none" THEN "part" ELSE "whole"]
      /\ UNCHANGED <<inbox, rows, watching, connected, running, turn, left, item, journal, seen>>
  BY UidFacts DEF Place
<1>2. /\ disk' \in [Uids -> {"none", "part", "whole"}]
      /\ \A v \in Uids : v # u => disk'[v] = disk[v]
  BY <1>1 DEF MailIInv, MailTyped
<1>3. \A v \in Uids : disk[v] = "whole" => disk'[v] = "whole"
  BY <1>1, <1>2
<1>4. MailTyped'
  BY <1>1, <1>2 DEF MailIInv, MailTyped
<1>5. ItemsRun' /\ InboxIsBefore' /\ LeftIsAhead' /\ RowsInOrder' /\ LocalPassed' /\ PipelinesOnce'
  BY <1>1 DEF MailIInv, ItemsRun, InboxIsBefore, LeftIsAhead, At, From, RowsInOrder, Stored,
              LocalPassed, Passed, Rowed, PipelinesOnce
<1>6. inbox \subseteq Uids /\ item["spider"] \in inbox \cup {Absent}
  BY UidFacts DEF MailIInv, MailTyped
<1>7. ItemIsNext'
  BY <1>1, <1>3, <1>6 DEF MailIInv, ItemIsNext, From
<1>8. JournaledAreStored'
  BY <1>1, <1>3, <1>6 DEF MailIInv, JournaledAreStored, Journaled
<1>9. TornAreDownloads'
  <2> SUFFICES ASSUME NEW v \in Stored, disk'[v] # "whole" PROVE v \in ServerUids
    BY <1>1 DEF TornAreDownloads, Stored
  <2>1. disk[v] # "whole"
    BY <1>3 DEF Stored
  <2> QED BY <2>1 DEF MailIInv, TornAreDownloads
<1> QED BY <1>4, <1>5, <1>7, <1>8, <1>9 DEF MailIInv


LEMMA LostStep ==
  ASSUME MailIInv, ConnectionLost
  PROVE  MailIInv'
PROOF
<1>1. /\ connected' = FALSE
      /\ UNCHANGED <<inbox, disk, rows, watching, running, turn, left, item, journal, seen>>
  BY DEF ConnectionLost
<1> QED BY <1>1 DEF MailIInv, MailTyped, ItemsRun, ItemIsNext, LeftIsAhead, LocalPassed, Passed,
      Rowed, At, From, InboxIsBefore, RowsInOrder, TornAreDownloads, Stored, JournaledAreStored,
      Journaled, PipelinesOnce

LEMMA CrashStep ==
  ASSUME MailIInv, Crash
  PROVE  MailIInv'
PROOF
<1>1. /\ running' = <<>> /\ turn' = 0 /\ watching' = FALSE /\ connected' = FALSE
      /\ left' = {} /\ item' = Idle
      /\ UNCHANGED <<inbox, rows, journal, seen>>
      /\ UNCHANGED disk \/ (item["spider"] = Absent /\ left # {} /\ HalfWritten(Next1))
  BY DEF Crash
<1>2. /\ disk' \in [Uids -> {"none", "part", "whole"}]
      /\ JournaledAreStored' /\ TornAreDownloads'
  BY <1>1, TornStep
<1>3. item'["spider"] = Absent /\ item'["local"] = Absent /\ DOMAIN item' = Pipelines
      /\ \A p \in Pipelines : item'[p] = Absent
  BY <1>1 DEF Idle, Pipelines
<1>4. running' \in Seq(Pipelines) /\ Len(running') = 0 /\ DOMAIN running' = {}
  BY <1>1, EmptySeq
<1>5. MailTyped'
  <2>1. turn' \in 0 .. Len(running') /\ watching' \in BOOLEAN /\ connected' \in BOOLEAN
    <3>1. turn' = 0 /\ Len(running') = 0
      BY <1>1, <1>4
    <3>2. turn' \in 0 .. Len(running')
      BY <3>1
    <3>3. watching' \in BOOLEAN /\ connected' \in BOOLEAN
      BY <1>1
    <3> QED BY <3>2, <3>3
  <2>2. inbox' = inbox /\ rows' = rows /\ journal' = journal /\ left' = {}
    BY <1>1
  <2> QED BY <1>2, <1>3, <1>4, <2>1, <2>2 DEF MailIInv, MailTyped
<1>6. ItemsRun' /\ ItemIsNext' /\ LeftIsAhead' /\ PipelinesOnce'
  BY <1>1, <1>3, <1>4 DEF ItemsRun, ItemIsNext, LeftIsAhead, PipelinesOnce
<1>7. InboxIsBefore' /\ RowsInOrder'
  BY <1>1 DEF MailIInv, InboxIsBefore, RowsInOrder, Stored
<1>8. LocalPassed'
  BY <1>1, <1>3 DEF MailIInv, LocalPassed, Passed, Rowed
<1> QED BY <1>2, <1>5, <1>6, <1>7, <1>8 DEF MailIInv

-----------------------------------------------------------------------------
(* The list of pipelines.                                                   *)

\* The names among the first n, each once.
LoadedOf(names, n, f) ==
  /\ f \in [0 .. n -> Seq(Pipelines)]
  /\ f[0] = <<>>
  /\ \A i \in 1 .. n : f[i] = IF Contains(f[i - 1], names[i]) THEN f[i - 1]
                              ELSE Append(f[i - 1], names[i])

LEMMA LoadingExists ==
  ASSUME NEW names \in Seq(Pipelines)
  PROVE  \E f : LoadedOf(names, Len(names), f)
PROOF
<1> DEFINE N == Len(names)
           S == {k \in 0 .. N : \E f : LoadedOf(names, k, f)}
<1>1. N \in Nat /\ \A i \in 1 .. N : names[i] \in Pipelines
  OBVIOUS
<1> HIDE DEF N
<1>2. 0 \in S
  <2> DEFINE z == [i \in 0 .. 0 |-> <<>>]
  <2>1. z \in [0 .. 0 -> Seq(Pipelines)] /\ z[0] = <<>>
    BY EmptySeq
  <2> HIDE DEF z
  <2>2. LoadedOf(names, 0, z)
    BY <2>1 DEF LoadedOf
  <2> QED BY <1>1, <2>2
<1>3. ASSUME NEW k \in 0 .. N - 1, k \in S
      PROVE  k + 1 \in S
  <2>1. PICK f : LoadedOf(names, k, f)
    BY <1>3
  <2> DEFINE v == IF Contains(f[k], names[k + 1]) THEN f[k] ELSE Append(f[k], names[k + 1])
             g == [i \in 0 .. k + 1 |-> IF i = k + 1 THEN v ELSE f[i]]
  <2>2. k + 1 \in 1 .. N /\ k + 1 \in 0 .. N /\ k \in 0 .. k /\ k + 1 \in 0 .. k + 1
        /\ k + 1 - 1 = k /\ k # k + 1 /\ k \in 0 .. k + 1
    BY <1>1
  <2>3. f \in [0 .. k -> Seq(Pipelines)] /\ f[k] \in Seq(Pipelines)
    BY <2>1, <2>2 DEF LoadedOf
  <2>4. v \in Seq(Pipelines)
    BY <1>1, <2>2, <2>3, AppendProperties
  <2>5. \A i \in 0 .. k : i \in 0 .. k + 1 /\ i # k + 1
    OBVIOUS
  <2>6. \A i \in 0 .. k + 1 : i \in 0 .. k \/ i = k + 1
    OBVIOUS
  <2>7. g[k + 1] = v /\ \A i \in 0 .. k : g[i] = f[i]
    <3> HIDE DEF v
    <3> QED BY <2>2, <2>5
  <2>8. g \in [0 .. k + 1 -> Seq(Pipelines)]
    <3> HIDE DEF v
    <3> QED BY <2>3, <2>4, <2>6
  <2>9. ASSUME NEW i \in 1 .. k + 1
        PROVE  g[i] = IF Contains(g[i - 1], names[i]) THEN g[i - 1] ELSE Append(g[i - 1], names[i])
    <3>1. CASE i = k + 1
      <4>1. g[i] = v /\ g[i - 1] = f[k]
        <5> HIDE DEF v, g
        <5> QED BY <2>2, <2>7, <3>1
      <4> HIDE DEF g
      <4> QED BY <3>1, <4>1
    <3>2. CASE i # k + 1
      <4>1. i \in 1 .. k /\ i \in 0 .. k /\ i - 1 \in 0 .. k
        BY <3>2
      <4>2. g[i] = f[i] /\ g[i - 1] = f[i - 1]
        BY <2>7, <4>1
      <4>3. f[i] = IF Contains(f[i - 1], names[i]) THEN f[i - 1] ELSE Append(f[i - 1], names[i])
        BY <2>1, <4>1 DEF LoadedOf
      <4> HIDE DEF g
      <4> QED BY <4>2, <4>3
    <3> QED BY <3>1, <3>2
  <2>10. g[0] = <<>>
    <3>1. 0 \in 0 .. k
      OBVIOUS
    <3>2. f[0] = <<>>
      BY <2>1 DEF LoadedOf
    <3> QED BY <2>7, <3>1, <3>2
  <2> HIDE DEF g
  <2>11. LoadedOf(names, k + 1, g)
    BY <2>8, <2>9, <2>10 DEF LoadedOf
  <2> QED BY <2>2, <2>11
<1>4. S = 0 .. N
  <2>1. S \in SUBSET (0 .. N)
    OBVIOUS
  <2> HIDE DEF S
  <2> QED BY <1>1, <1>2, <1>3, <2>1, UpTo
<1>5. N \in S
  BY <1>1, <1>4
<1> QED BY <1>5 DEF N

LEMMA LoadedFacts ==
  ASSUME NEW names \in Configs
  PROVE  /\ Loaded(names) \in Seq(Pipelines) /\ Loaded(names) # <<>>
         /\ \A i, j \in DOMAIN Loaded(names) : Loaded(names)[i] = Loaded(names)[j] => i = j
PROOF
<1> DEFINE N == Len(names)
           Eq(g) == g = [i \in 0 .. N |-> IF i = 0 THEN <<>>
                                          ELSE IF Contains(g[i - 1], names[i]) THEN g[i - 1]
                                          ELSE Append(g[i - 1], names[i])]
           run == CHOOSE g : Eq(g)
<1>1. names \in Seq(Pipelines) /\ N \in Nat /\ N # 0 /\ \A i \in 1 .. N : names[i] \in Pipelines
  <2>1. names \in Seq(Pipelines) /\ names # <<>>
    BY MailsAreKnown
  <2> QED BY <2>1, EmptySeq
<1>2. Loaded(names) = run[N]
  BY DEF Loaded
<1> HIDE DEF N
<1>3. \E g : Eq(g)
  <2>1. PICK f : LoadedOf(names, N, f)
    BY <1>1, LoadingExists DEF N
  <2>2. \A i \in 0 .. N : i = 0 \/ i \in 1 .. N
    BY <1>1
  <2>3. f = [i \in 0 .. N |-> f[i]]
    BY <2>1 DEF LoadedOf
  <2>4. \A i \in 0 .. N : f[i] = IF i = 0 THEN <<>>
                                 ELSE IF Contains(f[i - 1], names[i]) THEN f[i - 1]
                                 ELSE Append(f[i - 1], names[i])
    BY <2>1, <2>2 DEF LoadedOf
  <2>5. Eq(f)
    BY <2>3, <2>4
  <2> QED BY <2>5
<1>4. Eq(run)
  <2> HIDE DEF Eq
  <2> QED BY <1>3
<1>5. /\ run[0] = <<>>
      /\ \A i \in 1 .. N : run[i] = IF Contains(run[i - 1], names[i]) THEN run[i - 1]
                                    ELSE Append(run[i - 1], names[i])
  <2>1. \A i \in 1 .. N : i \in 0 .. N /\ i # 0
    BY <1>1
  <2>2. 0 \in 0 .. N
    BY <1>1
  <2> QED BY <1>4, <2>1, <2>2
<1> HIDE DEF run
<1> DEFINE Good(s, k) == /\ s \in Seq(Pipelines)
                         /\ k > 0 => s # <<>>
                         /\ \A i, j \in 1 .. Len(s) : s[i] = s[j] => i = j
           S == {k \in 0 .. N : Good(run[k], k)}
<1>6. 0 \in S
  <2>1. run[0] \in Seq(Pipelines) /\ Len(run[0]) = 0
    BY <1>5, EmptySeq
  <2> QED BY <1>1, <2>1
<1>7. ASSUME NEW k \in 0 .. N - 1, k \in S
      PROVE  k + 1 \in S
  <2>1. k + 1 \in 1 .. N /\ k + 1 \in 0 .. N /\ k + 1 - 1 = k
    BY <1>1
  <2>2. Good(run[k], k)
    BY <1>7
  <2> DEFINE s == run[k]
             n == names[k + 1]
  <2>3. run[k + 1] = IF Contains(s, n) THEN s ELSE Append(s, n)
    BY <1>5, <2>1
  <2>4. n \in Pipelines
    BY <1>1, <2>1
  <2> HIDE DEF n
  <2>5. s \in Seq(Pipelines) /\ \A i, j \in 1 .. Len(s) : s[i] = s[j] => i = j
    BY <2>2
  <2> HIDE DEF s
  <2>6. CASE Contains(s, n)
    <3>1. s # <<>>
      BY <2>6, EmptySeq DEF Contains
    <3>2. Good(s, k + 1)
      BY <2>5, <3>1
    <3> QED BY <2>1, <2>3, <2>6, <3>2
  <2>7. CASE ~ Contains(s, n)
    <3> DEFINE t == Append(s, n)
    <3>1. /\ t \in Seq(Pipelines) /\ Len(t) = Len(s) + 1 /\ Len(s) \in Nat
          /\ \A i \in 1 .. Len(s) : t[i] = s[i]
          /\ t[Len(s) + 1] = n
      BY <2>4, <2>5, AppendProperties
    <3>2. \A i \in 1 .. Len(s) : s[i] # n
      BY <2>7 DEF Contains
    <3> HIDE DEF t
    <3>3. \A i \in 1 .. Len(t) : i \in 1 .. Len(s) \/ i = Len(s) + 1
      BY <3>1
    <3>4. t # <<>>
      BY <3>1, EmptySeq
    <3>5. \A i, j \in 1 .. Len(t) : t[i] = t[j] => i = j
      BY <2>5, <3>1, <3>2, <3>3
    <3>6. Good(t, k + 1)
      BY <3>1, <3>4, <3>5
    <3> HIDE DEF Good
    <3>7. run[k + 1] = t
      BY <2>3, <2>7 DEF t
    <3> QED BY <2>1, <3>6, <3>7
  <2> QED BY <2>6, <2>7
<1>8. S = 0 .. N
  <2>1. S \in SUBSET (0 .. N)
    OBVIOUS
  <2> HIDE DEF S
  <2> QED BY <1>1, <1>6, <1>7, <2>1, UpTo
<1>9. Good(run[N], N)
  <2>1. N \in S
    BY <1>1, <1>8
  <2> QED BY <2>1
<1>10. N > 0
  BY <1>1
<1> DEFINE r == run[N]
<1>11. r \in Seq(Pipelines) /\ r # <<>> /\ \A i, j \in 1 .. Len(r) : r[i] = r[j] => i = j
  BY <1>9, <1>10
<1> HIDE DEF r
<1>12. DOMAIN r = 1 .. Len(r)
  BY <1>11
<1>13. Loaded(names) = r
  BY <1>2 DEF r
<1> QED BY <1>11, <1>12, <1>13

LEMMA StartStep ==
  ASSUME MailIInv, Start
  PROVE  MailIInv'
PROOF
<1>1. /\ running = <<>> /\ turn' \in {0, 1} /\ watching' \in BOOLEAN
      /\ connected' \in {connected, TRUE}
      /\ UNCHANGED <<inbox, disk, rows, left, item, journal, seen>>
  BY DEF Start
<1>2. PICK names \in Configs : running' = Loaded(names)
  BY DEF Start
<1>3. /\ running' \in Seq(Pipelines) /\ running' # <<>>
      /\ \A i, j \in DOMAIN running' : running'[i] = running'[j] => i = j
  BY <1>2, LoadedFacts
<1>4. turn' \in 0 .. Len(running')
  BY <1>1, <1>3, EmptySeq
<1>5. turn = 0
  <2>1. Len(running) = 0
    BY <1>1
  <2> QED BY <2>1 DEF MailIInv, MailTyped
<1>6. \A p \in Pipelines : item[p] = Absent
  BY <1>5 DEF MailIInv, ItemsRun
<1>7. MailTyped'
  BY <1>1, <1>3, <1>4 DEF MailIInv, MailTyped
<1>8. ItemsRun' /\ PipelinesOnce'
  BY <1>1, <1>3, <1>6 DEF ItemsRun, PipelinesOnce
<1>9. ItemIsNext' /\ LeftIsAhead' /\ LocalPassed' /\ InboxIsBefore' /\ RowsInOrder'
      /\ TornAreDownloads' /\ JournaledAreStored'
  BY <1>1 DEF MailIInv, ItemIsNext, LeftIsAhead, LocalPassed, Passed, Rowed, At, From,
              InboxIsBefore, RowsInOrder, TornAreDownloads, Stored, JournaledAreStored, Journaled
<1> QED BY <1>7, <1>8, <1>9 DEF MailIInv


LEMMA MailInitOK == MailInit => MailIInv
PROOF
<1> SUFFICES ASSUME MailInit PROVE MailIInv
  OBVIOUS
<1>1. item["spider"] = Absent /\ item["local"] = Absent /\ DOMAIN item = Pipelines
      /\ journal["spider"] = Absent /\ journal["local"] = Absent /\ DOMAIN journal = Pipelines
      /\ \A p \in Pipelines : item[p] = Absent
  BY DEF MailInit, Idle, Pipelines
<1>2. \A u \in Uids : rows[u] = Absent
  BY DEF MailInit
<1>3. running \in Seq(Pipelines) /\ Len(running) = 0 /\ DOMAIN running = {}
  BY EmptySeq DEF MailInit
<1>4. inbox = {} /\ left = {} /\ turn \in 0 .. Len(running)
      /\ watching \in BOOLEAN /\ connected \in BOOLEAN
  <2>1. inbox = {} /\ left = {} /\ turn = 0
    BY DEF MailInit
  <2>2. turn \in 0 .. Len(running)
    BY <1>3, <2>1
  <2>3. watching \in BOOLEAN /\ connected \in BOOLEAN
    BY DEF MailInit
  <2> QED BY <2>1, <2>2, <2>3
<1>5. MailTyped
  BY <1>1, <1>3, <1>4 DEF MailInit, MailTyped
<1> QED BY <1>1, <1>2, <1>3, <1>4, <1>5 DEF MailIInv, ItemsRun, InboxIsBefore, ItemIsNext,
      LeftIsAhead, JournaledAreStored, TornAreDownloads, Stored, RowsInOrder, LocalPassed, Passed,
      PipelinesOnce

LEMMA MailUnchanged ==
  ASSUME MailIInv, UNCHANGED mailVars
  PROVE  MailIInv'
PROOF
<1>1. UNCHANGED <<inbox, disk, rows, watching, connected, running, turn, left, item, journal, seen>>
  BY DEF mailVars
<1> QED BY <1>1 DEF MailIInv, MailTyped, ItemsRun, ItemIsNext, LeftIsAhead, LocalPassed, Passed,
      Rowed, At, From, InboxIsBefore, RowsInOrder, TornAreDownloads, Stored, JournaledAreStored,
      Journaled, PipelinesOnce

LEMMA MailNextOK == MailIInv /\ [Next]_vars => MailIInv'
PROOF
<1> SUFFICES ASSUME MailIInv, [Next]_vars PROVE MailIInv'
  OBVIOUS
<1>1. CASE MailNext
  <2>1. ASSUME NEW p \in Pipelines, Parsed(p) \/ Raised(p) PROVE MailIInv'
    BY <2>1, ParsedStep, RaisedStep
  <2>2. ASSUME NEW u \in HandUids, Place(u) PROVE MailIInv'
    BY <2>2, PlaceStep
  <2> QED BY <1>1, <2>1, <2>2, StartStep, SearchStep, FetchStep, FailsStep, LocalStep, WatchStep,
        ArriveStep, LostStep, CrashStep DEF MailNext
<1>2. CASE ParserRaises
  BY <1>2, RaisedStep DEF ParserRaises, Pipelines
<1>3. CASE UNCHANGED mailVars
  BY <1>3, MailUnchanged
<1>4. CASE UNCHANGED vars
  BY <1>4, MailUnchanged DEF vars, mailVars
<1> QED BY <1>1, <1>2, <1>3, <1>4 DEF Next

\* The state of the mails is as MailIInv says, whatever fails and restarts.
THEOREM MailsStay == Spec => []MailIInv
PROOF
<1>1. Init => MailIInv
  BY MailInitOK DEF Init
<1> QED BY <1>1, MailNextOK, PTL DEF Spec


-----------------------------------------------------------------------------
(* Places of a tree, and the order in which they are searched.              *)

LEMMA PrefixFacts ==
  ASSUME NEW p \in Seq(Nat), NEW q \in Seq(Nat)
  PROVE  IsPrefix(p, q) <=> Len(p) <= Len(q) /\ \A i \in 1 .. Len(p) : p[i] = q[i]
PROOF
<1>1. SubSeq(p, 1, Len(p)) = p /\ Len(p) \in Nat /\ Len(q) \in Nat
  BY SubSeqFull
<1>2. CASE Len(p) <= Len(q)
  <2> DEFINE r == SubSeq(q, 1, Len(p))
  <2>1. \A i \in 1 .. Len(p) : q[i] \in Nat
    BY <1>1, <1>2, ElementOfSeq
  <2>2. r \in Seq(Nat) /\ Len(r) = Len(p) /\ \A i \in 1 .. Len(p) : r[i] = q[i]
    <3>1. r \in Seq(Nat) /\ Len(r) = (IF 1 <= Len(p) THEN Len(p) - 1 + 1 ELSE 0)
          /\ \A i \in 1 .. Len(p) - 1 + 1 : r[i] = q[1 + i - 1]
      BY <1>1, <2>1, SubSeqProperties
    <3>2. Len(p) - 1 + 1 = Len(p) /\ \A i \in 1 .. Len(p) : 1 + i - 1 = i
      BY <1>1
    <3>3. Len(r) = Len(p)
      BY <1>1, <3>1
    <3> HIDE DEF r
    <3> QED BY <3>1, <3>2, <3>3
  <2> HIDE DEF r
  <2>3. p = r <=> \A i \in 1 .. Len(p) : p[i] = q[i]
    <3>1. ASSUME \A i \in 1 .. Len(p) : p[i] = q[i] PROVE p = r
      BY <2>2, <3>1, SeqEqual
    <3> QED BY <2>2, <3>1
  <2> QED BY <1>1, <1>2, <2>3 DEF IsPrefix, r
<1>3. CASE ~ (Len(p) <= Len(q))
  BY <1>3 DEF IsPrefix
<1> QED BY <1>2, <1>3

LEMMA FrontFacts ==
  ASSUME NEW S, NEW p \in Seq(S), p # <<>>
  PROVE  /\ Front(p) \in Seq(S) /\ Last(p) \in S
         /\ Len(p) \in Nat \ {0} /\ Len(Front(p)) = Len(p) - 1
         /\ \A i \in 1 .. Len(p) - 1 : Front(p)[i] = p[i]
         /\ p = Append(Front(p), Last(p))
PROOF
<1>1. Len(p) \in Nat \ {0} /\ Len(p) - 1 \in Nat
  BY EmptySeq
<1>2. \A i \in 1 .. Len(p) : p[i] \in S
  BY ElementOfSeq
<1> DEFINE f == SubSeq(p, 1, Len(p) - 1)
<1>3. \A i \in 1 .. Len(p) - 1 : p[i] \in S
  BY <1>1, <1>2
<1>4. f \in Seq(S) /\ Len(f) = (IF 1 <= Len(p) - 1 THEN Len(p) - 1 - 1 + 1 ELSE 0)
      /\ \A i \in 1 .. Len(p) - 1 - 1 + 1 : f[i] = p[1 + i - 1]
  BY <1>1, <1>3, SubSeqProperties
<1>5. Len(p) - 1 - 1 + 1 = Len(p) - 1 /\ \A i \in 1 .. Len(p) : 1 + i - 1 = i
  BY <1>1
<1> HIDE DEF f
<1>6. Len(f) = Len(p) - 1
  <2> DEFINE l == Len(p)
  <2>1. Len(f) = IF 1 <= l - 1 THEN l - 1 - 1 + 1 ELSE 0
    BY <1>4
  <2>2. l \in Nat \ {0}
    BY <1>1
  <2> HIDE DEF l
  <2>3. Len(f) = l - 1
    BY <2>1, <2>2
  <2> QED BY <2>3 DEF l
<1>7. \A i \in 1 .. Len(p) - 1 : f[i] = p[i]
  <2> SUFFICES ASSUME NEW i \in 1 .. Len(p) - 1 PROVE f[i] = p[i]
    OBVIOUS
  <2>1. i \in 1 .. Len(p) - 1 - 1 + 1 /\ 1 + i - 1 = i
    BY <1>1, <1>5
  <2>2. f[i] = p[1 + i - 1]
    BY <1>4, <2>1
  <2> QED BY <2>1, <2>2
<1>8. p[Len(p)] \in S
  BY <1>1, <1>2
<1>9. p = Append(f, p[Len(p)])
  <2> DEFINE a == Append(f, p[Len(p)])
  <2>1. /\ a \in Seq(S) /\ Len(a) = Len(f) + 1
        /\ \A i \in 1 .. Len(f) : a[i] = f[i]
        /\ a[Len(f) + 1] = p[Len(p)]
    BY <1>4, <1>8, AppendProperties
  <2> HIDE DEF a
  <2>2. Len(a) = Len(p) /\ Len(f) + 1 = Len(p)
    BY <1>1, <1>6, <2>1
  <2>3. \A i \in 1 .. Len(p) : i \in 1 .. Len(p) - 1 \/ i = Len(p)
    BY <1>1
  <2>4. \A i \in 1 .. Len(p) : p[i] = a[i]
    BY <1>6, <1>7, <2>1, <2>2, <2>3
  <2>5. p = a
    BY <2>1, <2>2, <2>4, SeqEqual
  <2> QED BY <2>5 DEF a
<1> QED BY <1>1, <1>4, <1>6, <1>7, <1>8, <1>9 DEF Front, Last, f

LEMMA AppendFront ==
  ASSUME NEW S, NEW p \in Seq(S), NEW n \in S
  PROVE  /\ Append(p, n) \in Seq(S) /\ Append(p, n) # <<>>
         /\ Len(Append(p, n)) = Len(p) + 1 /\ Len(p) \in Nat
         /\ Front(Append(p, n)) = p /\ Last(Append(p, n)) = n
PROOF
<1> DEFINE a == Append(p, n)
<1>1. a \in Seq(S) /\ a # <<>> /\ Len(a) = Len(p) + 1 /\ Len(p) \in Nat
  BY AppendProperties
<1>2. Front(a) \in Seq(S) /\ Last(a) \in S /\ a = Append(Front(a), Last(a))
  <2> HIDE DEF a
  <2> QED BY <1>1, FrontFacts
<1>3. Front(a) = p /\ Last(a) = n
  BY <1>2, AppendInjective
<1> QED BY <1>1, <1>3

\* q is a place behind p.
Behind == {pq \in Seq(Nat) \X Seq(Nat) : Before(pq[1], pq[2])}

\* p and q part at n, or p ends there.
Parts(p, q, n) ==
  /\ \A m \in 1 .. n - 1 : p[m] = q[m]
  /\ n <= Len(q)
  /\ n = Len(p) + 1 \/ (n <= Len(p) /\ p[n] < q[n])

LEMMA BeforeFacts ==
  ASSUME NEW p \in Seq(Nat), NEW q \in Seq(Nat)
  PROVE  Before(p, q) <=> \E n \in Nat \ {0} : Parts(p, q, n)
PROOF
<1>1. Len(p) \in Nat /\ Len(q) \in Nat
  OBVIOUS
<1>2. ASSUME IsStrictPrefix(p, q)
      PROVE  \E n \in Nat \ {0} : Parts(p, q, n)
  <2>1. Len(p) <= Len(q) /\ p # q /\ \A i \in 1 .. Len(p) : p[i] = q[i]
    BY <1>2, PrefixFacts DEF IsStrictPrefix
  <2>2. Len(p) # Len(q)
    BY <2>1, SeqEqual
  <2>3. Len(p) + 1 <= Len(q) /\ Len(p) + 1 \in Nat \ {0} /\ Len(p) + 1 - 1 = Len(p)
    BY <1>1, <2>1, <2>2
  <2>4. Parts(p, q, Len(p) + 1)
    BY <2>1, <2>3 DEF Parts
  <2> QED BY <2>3, <2>4
<1>3. ASSUME NEW n \in 1 .. Len(p), n <= Len(q), p[n] < q[n], \A m \in 1 .. (n - 1) : p[m] = q[m]
      PROVE  \E k \in Nat \ {0} : Parts(p, q, k)
  <2>1. Parts(p, q, n)
    BY <1>3 DEF Parts
  <2> QED BY <2>1
<1>4. ASSUME NEW n \in Nat \ {0}, Parts(p, q, n)
      PROVE  Before(p, q)
  <2>1. CASE n = Len(p) + 1
    <3>1. Len(p) <= Len(q) /\ Len(p) # Len(q) /\ n - 1 = Len(p)
      BY <1>1, <1>4, <2>1 DEF Parts
    <3>2. \A i \in 1 .. Len(p) : p[i] = q[i]
      BY <1>4, <3>1 DEF Parts
    <3>3. IsPrefix(p, q)
      BY <3>1, <3>2, PrefixFacts
    <3> QED BY <3>1, <3>3 DEF Before, IsStrictPrefix
  <2>2. CASE n <= Len(p) /\ p[n] < q[n]
    <3>1. n \in 1 .. Len(p)
      BY <1>1, <2>2
    <3> QED BY <1>4, <2>2, <3>1 DEF Before, Parts
  <2> QED BY <1>4, <2>1, <2>2 DEF Parts
<1> QED BY <1>2, <1>3, <1>4 DEF Before

LEMMA BehindOrders ==
  ASSUME NEW P \in SUBSET Seq(Nat)
  PROVE  Orders(Behind, P)
PROOF
<1>1. ASSUME NEW p \in P, NEW q \in P, p # q
      PROVE  Before(p, q) \/ Before(q, p)
  <2>1. p \in Seq(Nat) /\ q \in Seq(Nat) /\ Len(p) \in Nat /\ Len(q) \in Nat
    OBVIOUS
  <2> DEFINE D == {n \in Nat \ {0} : n <= Len(p) /\ n <= Len(q) /\ p[n] # q[n]}
  <2>2. CASE D = {}
    <3>1. \A m \in Nat \ {0} : m <= Len(p) /\ m <= Len(q) => p[m] = q[m]
      BY <2>2
    <3>2. Len(p) # Len(q)
      <4>1. Len(p) = Len(q) => \A m \in 1 .. Len(p) : p[m] = q[m]
        BY <2>1, <3>1
      <4> QED BY <1>1, <2>1, <4>1, SeqEqual
    <3>3. CASE Len(p) < Len(q)
      <4>1. Len(p) + 1 \in Nat \ {0} /\ Len(p) + 1 <= Len(q) /\ Len(p) + 1 - 1 = Len(p)
        BY <2>1, <3>3
      <4>2. \A m \in 1 .. Len(p) : p[m] = q[m]
        BY <2>1, <3>1, <3>3
      <4>3. Parts(p, q, Len(p) + 1)
        BY <4>1, <4>2 DEF Parts
      <4> QED BY <2>1, <4>1, <4>3, BeforeFacts
    <3>4. CASE Len(q) < Len(p)
      <4>1. Len(q) + 1 \in Nat \ {0} /\ Len(q) + 1 <= Len(p) /\ Len(q) + 1 - 1 = Len(q)
        BY <2>1, <3>4
      <4>2. \A m \in 1 .. Len(q) : q[m] = p[m]
        BY <2>1, <3>1, <3>4
      <4>3. Parts(q, p, Len(q) + 1)
        BY <4>1, <4>2 DEF Parts
      <4> QED BY <2>1, <4>1, <4>3, BeforeFacts
    <3> QED BY <2>1, <3>2, <3>3, <3>4
  <2>3. CASE D # {}
    <3> DEFINE n == Least(D)
    <3>1. D \in SUBSET Nat
      OBVIOUS
    <3>2. n \in D /\ \A k \in D : n <= k
      <4> HIDE DEF D
      <4> QED BY <2>3, <3>1, LeastExists
    <3> HIDE DEF n
    <3>3. n \in Nat \ {0} /\ n <= Len(p) /\ n <= Len(q) /\ p[n] # q[n]
      BY <3>2
    <3>4. \A m \in 1 .. n - 1 : m \in Nat \ {0} /\ ~ (n <= m) /\ m <= Len(p) /\ m <= Len(q)
      BY <2>1, <3>3
    <3>5. \A m \in 1 .. n - 1 : p[m] = q[m]
      BY <3>2, <3>4
    <3>6. p[n] \in Nat /\ q[n] \in Nat
      <4>1. n \in 1 .. Len(p) /\ n \in 1 .. Len(q)
        BY <2>1, <3>3
      <4> QED BY <2>1, <4>1, ElementOfSeq
    <3>7. CASE p[n] < q[n]
      <4>1. Parts(p, q, n)
        BY <3>3, <3>5, <3>7 DEF Parts
      <4> QED BY <2>1, <3>3, <4>1, BeforeFacts
    <3>8. CASE q[n] < p[n]
      <4>1. Parts(q, p, n)
        BY <3>3, <3>5, <3>8 DEF Parts
      <4> QED BY <2>1, <3>3, <4>1, BeforeFacts
    <3> QED BY <3>3, <3>6, <3>7, <3>8
  <2> QED BY <2>2, <2>3
<1>2. ASSUME NEW p \in P, NEW q \in P, NEW r \in P, Before(p, q), Before(q, r)
      PROVE  Before(p, r)
  <2>1. /\ p \in Seq(Nat) /\ q \in Seq(Nat) /\ r \in Seq(Nat)
        /\ Len(p) \in Nat /\ Len(q) \in Nat /\ Len(r) \in Nat
        /\ \A i \in 1 .. Len(p) : p[i] \in Nat
        /\ \A i \in 1 .. Len(q) : q[i] \in Nat
        /\ \A i \in 1 .. Len(r) : r[i] \in Nat
    BY ElementOfSeq
  <2>2. PICK n \in Nat \ {0} : Parts(p, q, n)
    BY <1>2, <2>1, BeforeFacts
  <2>3. PICK k \in Nat \ {0} : Parts(q, r, k)
    BY <1>2, <2>1, BeforeFacts
  <2>4. /\ \A m \in 1 .. n - 1 : p[m] = q[m]
        /\ n <= Len(q)
        /\ n = Len(p) + 1 \/ (n <= Len(p) /\ p[n] < q[n])
    BY <2>2 DEF Parts
  <2>5. /\ \A m \in 1 .. k - 1 : q[m] = r[m]
        /\ k <= Len(r)
        /\ k = Len(q) + 1 \/ (k <= Len(q) /\ q[k] < r[k])
    BY <2>3 DEF Parts
  <2>6. CASE n < k
    <3>1. n \in 1 .. k - 1 /\ n <= Len(r)
      BY <2>1, <2>5, <2>6
    <3>2. q[n] = r[n]
      BY <2>5, <3>1
    <3>3. \A m \in 1 .. n - 1 : m \in 1 .. k - 1
      BY <2>6
    <3>4. \A m \in 1 .. n - 1 : p[m] = r[m]
      BY <2>4, <2>5, <3>3
    <3>5. Parts(p, r, n)
      BY <2>4, <3>1, <3>2, <3>4 DEF Parts
    <3> QED BY <2>1, <3>5, BeforeFacts
  <2>7. CASE k <= n
    <3>1. k <= Len(q) /\ q[k] < r[k]
      BY <2>1, <2>4, <2>5, <2>7
    <3>2. \A m \in 1 .. k - 1 : m \in 1 .. n - 1
      BY <2>7
    <3>3. \A m \in 1 .. k - 1 : p[m] = r[m]
      BY <2>4, <2>5, <3>2
    <3>4. k = Len(p) + 1 \/ (k <= Len(p) /\ p[k] < r[k])
      <4>1. CASE k = n
        <5>1. CASE n = Len(p) + 1
          BY <4>1, <5>1
        <5>2. CASE n <= Len(p) /\ p[n] < q[n]
          <6>1. k \in 1 .. Len(p) /\ k \in 1 .. Len(q) /\ k \in 1 .. Len(r)
            BY <2>1, <2>5, <3>1, <4>1, <5>2
          <6>2. p[k] \in Nat /\ q[k] \in Nat /\ r[k] \in Nat
            BY <2>1, <6>1
          <6>3. p[k] < q[k]
            BY <4>1, <5>2
          <6>4. p[k] < r[k]
            BY ONLY <3>1, <6>2, <6>3
          <6> QED BY <4>1, <5>2, <6>4
        <5> QED BY <2>4, <5>1, <5>2
      <4>2. CASE k < n
        <5>1. k \in 1 .. n - 1 /\ k <= Len(p)
          BY <2>1, <2>4, <4>2
        <5>2. p[k] = q[k]
          BY <2>4, <5>1
        <5> QED BY <3>1, <5>1, <5>2
      <4>3. k < n \/ k = n
        BY <2>7
      <4> QED BY <4>1, <4>2, <4>3
    <3>5. Parts(p, r, k)
      BY <2>5, <3>3, <3>4 DEF Parts
    <3> QED BY <2>1, <3>5, BeforeFacts
  <2>8. n < k \/ k <= n
    OBVIOUS
  <2> QED BY <2>6, <2>7, <2>8
<1>3. \A p, q \in P : p = q \/ <<p, q>> \in Behind \/ <<q, p>> \in Behind
  BY <1>1 DEF Behind
<1>4. \A p, q, r \in P : <<p, q>> \in Behind /\ <<q, r>> \in Behind => <<p, r>> \in Behind
  BY <1>2 DEF Behind
<1> QED BY <1>3, <1>4 DEF Orders

\* What is searched for is found if it is there.
LEMMA FirstFacts ==
  ASSUME NEW P \in SUBSET Seq(Nat), IsFiniteSet(P), P # {}
  PROVE  First(P) \in P
PROOF
<1>1. PICK x : IsFirst(x, Behind, P)
  BY BehindOrders, FirstExists
<1>2. x \in P /\ \A q \in P \ {x} : Before(x, q)
  BY <1>1 DEF IsFirst, Behind
<1> QED BY <1>2 DEF First

-----------------------------------------------------------------------------
(* The issues.                                                              *)

\* t is a tree of issues: each has an id made of what it says, and notes the id of
\* the one it stands under.
IssueTree(t) ==
  /\ DOMAIN t \subseteq Seq(Nat \ {0}) /\ IsTree(t)
  /\ IsFiniteSet(DOMAIN t)
  /\ Cardinality(DOMAIN t) <= MaxIssues
  /\ \A p \in DOMAIN t :
       /\ t[p].id = <<t[p].summary, t[p].source, t[p].parent>>
       /\ t[p].parent = IF p = <<>> THEN NoId ELSE t[Front(p)].id

IssueIInv ==
  /\ tree = Missing \/ IssueTree(tree)
  /\ issueFile \in {Missing, Cut} \/ IssueTree(issueFile)
  /\ said \in {"none", "ok", "raised"}
  /\ ReturnedIsSaved


-----------------------------------------------------------------------------
(* Trees of issues.                                                         *)

LEMMA BeginFacts ==
  ASSUME NEW S, NEW p \in Seq(S), NEW k \in 0 .. Len(p)
  PROVE  /\ SubSeq(p, 1, k) \in Seq(S) /\ Len(SubSeq(p, 1, k)) = k
         /\ \A i \in 1 .. k : SubSeq(p, 1, k)[i] = p[i]
PROOF
<1> DEFINE f == SubSeq(p, 1, k)
<1>1. Len(p) \in Nat /\ k \in Nat /\ \A i \in 1 .. k : i \in 1 .. Len(p)
  OBVIOUS
<1>2. \A i \in 1 .. k : p[i] \in S
  BY <1>1, ElementOfSeq
<1>3. f \in Seq(S) /\ Len(f) = (IF 1 <= k THEN k - 1 + 1 ELSE 0)
      /\ \A i \in 1 .. k - 1 + 1 : f[i] = p[1 + i - 1]
  BY <1>1, <1>2, SubSeqProperties
<1> HIDE DEF f
<1>4. k - 1 + 1 = k /\ \A i \in 1 .. k : 1 + i - 1 = i
  BY <1>1
<1>5. Len(f) = k
  BY <1>1, <1>3
<1>6. \A i \in 1 .. k : f[i] = p[i]
  BY <1>3, <1>4
<1> QED BY <1>3, <1>5, <1>6 DEF f

\* A tree is not deeper than it has places.
LEMMA DepthFacts ==
  ASSUME NEW t, DOMAIN t \subseteq Seq(Nat \ {0}), IsTree(t), IsFiniteSet(DOMAIN t),
         NEW p \in DOMAIN t
  PROVE  Len(p) \in Nat /\ Cardinality(DOMAIN t) \in Nat /\ Len(p) < Cardinality(DOMAIN t)
PROOF
<1> DEFINE P == Nat \ {0}
           D == DOMAIN t
           N == Len(p)
<1>1. p \in Seq(P) /\ N \in Nat /\ D \subseteq Seq(P) /\ IsFiniteSet(D) /\ p \in D
  OBVIOUS
<1>2. \A q \in D : q # <<>> => Front(q) \in D
  BY DEF IsTree
<1> HIDE DEF P, D, N
<1> DEFINE S == {j \in 0 .. N : SubSeq(p, 1, N - j) \in D}
<1>3. 0 \in S
  <2>1. SubSeq(p, 1, N) = p
    BY <1>1, SubSeqFull DEF N
  <2>2. N - 0 = N /\ 0 \in 0 .. N
    BY <1>1
  <2> QED BY <1>1, <2>1, <2>2
<1>4. ASSUME NEW j \in 0 .. N - 1, j \in S
      PROVE  j + 1 \in S
  <2> DEFINE x == SubSeq(p, 1, N - j)
             y == SubSeq(p, 1, N - (j + 1))
  <2>1. j + 1 \in 0 .. N /\ N - j \in 0 .. N /\ N - (j + 1) \in 0 .. N /\ N - (j + 1) = N - j - 1
        /\ N - j > 0 /\ N - j \in Nat
    BY <1>1
  <2>2. x \in Seq(P) /\ Len(x) = N - j /\ \A i \in 1 .. N - j : x[i] = p[i]
    BY <1>1, <2>1, BeginFacts DEF N
  <2>3. y \in Seq(P) /\ Len(y) = N - (j + 1) /\ \A i \in 1 .. N - (j + 1) : y[i] = p[i]
    BY <1>1, <2>1, BeginFacts DEF N
  <2>4. x \in D
    BY <1>4
  <2> HIDE DEF x, y
  <2>5. x # <<>>
    BY <2>1, <2>2, EmptySeq
  <2>6. /\ Front(x) \in Seq(P) /\ Len(Front(x)) = Len(x) - 1
        /\ \A i \in 1 .. Len(x) - 1 : Front(x)[i] = x[i]
    BY <2>2, <2>5, FrontFacts
  <2>7. Len(Front(x)) = Len(y)
    BY <2>1, <2>2, <2>3, <2>6
  <2>8. \A i \in 1 .. Len(y) : Front(x)[i] = y[i]
    <3> SUFFICES ASSUME NEW i \in 1 .. Len(y) PROVE Front(x)[i] = y[i]
      OBVIOUS
    <3>1. i \in 1 .. Len(x) - 1 /\ i \in 1 .. N - j /\ i \in 1 .. N - (j + 1)
      BY <2>1, <2>2, <2>3
    <3> QED BY <2>2, <2>3, <2>6, <3>1
  <2>9. Front(x) = y
    BY <2>3, <2>6, <2>7, <2>8, SeqEqual
  <2>10. y \in D
    BY <1>2, <2>4, <2>5, <2>9
  <2> QED BY <2>1, <2>10 DEF y
<1>5. S = 0 .. N
  <2>1. S \in SUBSET (0 .. N)
    OBVIOUS
  <2> HIDE DEF S
  <2> QED BY <1>1, <1>3, <1>4, <2>1, UpTo
<1>6. \A k \in 0 .. N : SubSeq(p, 1, k) \in D /\ Len(SubSeq(p, 1, k)) = k
  <2> SUFFICES ASSUME NEW k \in 0 .. N PROVE SubSeq(p, 1, k) \in D /\ Len(SubSeq(p, 1, k)) = k
    OBVIOUS
  <2>1. N - k \in 0 .. N /\ N - (N - k) = k
    BY <1>1
  <2>2. N - k \in S
    BY <1>5, <2>1
  <2>3. SubSeq(p, 1, N - (N - k)) \in D
    BY <2>2
  <2>4. Len(SubSeq(p, 1, k)) = k
    BY <1>1, BeginFacts DEF N
  <2> QED BY <2>1, <2>3, <2>4
<1> DEFINE f == [k \in 0 .. N |-> SubSeq(p, 1, k)]
<1>7. f \in Injection(0 .. N, D)
  <2>1. f \in [0 .. N -> D]
    BY <1>6
  <2>2. \A k, l \in 0 .. N : f[k] = f[l] => k = l
    <3> SUFFICES ASSUME NEW k \in 0 .. N, NEW l \in 0 .. N, f[k] = f[l] PROVE k = l
      OBVIOUS
    <3>1. Len(f[k]) = k /\ Len(f[l]) = l
      BY <1>6
    <3> HIDE DEF f
    <3> QED BY <3>1
  <2> HIDE DEF f
  <2> QED BY <2>1, <2>2 DEF Injection, IsInjective
<1>8. Cardinality(0 .. N) <= Cardinality(D) /\ Cardinality(D) \in Nat
  <2> HIDE DEF f
  <2> QED BY <1>1, <1>7, FS_Injection, FS_CardinalityType
<1>9. Cardinality(0 .. N) = N + 1
  BY <1>1, FS_Interval
<1>10. N < Cardinality(D)
  BY <1>1, <1>8, <1>9
<1> QED BY <1>1, <1>8, <1>10 DEF N, D

\* Issues that share an id stand at the same depth.
LEMMA IdDepth ==
  ASSUME NEW t, IssueTree(t), NEW p \in DOMAIN t, NEW q \in DOMAIN t, t[p].id = t[q].id
  PROVE  Len(p) = Len(q)
PROOF
<1> DEFINE D == DOMAIN t
           Bad(k) == \E x, y \in D : Len(x) = k /\ t[x].id = t[y].id /\ Len(x) # Len(y)
           S == {k \in Nat : Bad(k)}
<1>1. D \subseteq Seq(Nat \ {0}) /\ \A x \in D : Len(x) \in Nat
  BY DEF IssueTree
<1> SUFFICES ASSUME Len(p) # Len(q) PROVE FALSE
  OBVIOUS
<1>2. S # {} /\ S \in SUBSET Nat
  BY <1>1
<1> DEFINE k == Least(S)
<1>3. k \in S /\ \A l \in S : k <= l
  <2> HIDE DEF S
  <2> QED BY <1>2, LeastExists
<1> HIDE DEF k
<1>4. PICK x \in D, y \in D : Len(x) = k /\ t[x].id = t[y].id /\ Len(x) # Len(y)
  BY <1>3
<1>5. \A z \in D : /\ t[z].id = <<t[z].summary, t[z].source, t[z].parent>>
                   /\ t[z].parent = IF z = <<>> THEN NoId ELSE t[Front(z)].id
                   /\ z # <<>> => Front(z) \in D /\ Len(Front(z)) = Len(z) - 1
                   /\ z \in Seq(Nat \ {0})
  <2> SUFFICES ASSUME NEW z \in D
               PROVE  /\ t[z].id = <<t[z].summary, t[z].source, t[z].parent>>
                      /\ t[z].parent = IF z = <<>> THEN NoId ELSE t[Front(z)].id
                      /\ z # <<>> => Front(z) \in D /\ Len(Front(z)) = Len(z) - 1
                      /\ z \in Seq(Nat \ {0})
    OBVIOUS
  <2>1. z # <<>> => Len(Front(z)) = Len(z) - 1
    BY <1>1, FrontFacts
  <2> QED BY <1>1, <2>1 DEF IssueTree, IsTree
<1>6. \A z \in D : t[z].id # NoId
  <2> SUFFICES ASSUME NEW z \in D PROVE t[z].id # NoId
    OBVIOUS
  <2>1. t[z].id = <<t[z].summary, t[z].source, t[z].parent>>
    BY <1>5
  <2> QED BY <2>1 DEF NoId
<1>7. t[x].parent = t[y].parent
  <2>1. <<t[x].summary, t[x].source, t[x].parent>> = <<t[y].summary, t[y].source, t[y].parent>>
    BY <1>4, <1>5
  <2> QED BY <2>1
<1>8. x = <<>> <=> y = <<>>
  BY <1>5, <1>6, <1>7
<1>9. x # <<>> /\ y # <<>>
  <2>1. x = <<>> /\ y = <<>> => Len(x) = Len(y)
    OBVIOUS
  <2> QED BY <1>4, <1>8, <2>1
<1> DEFINE fx == Front(x)
           fy == Front(y)
<1>10. fx \in D /\ fy \in D /\ Len(fx) = Len(x) - 1 /\ Len(fy) = Len(y) - 1 /\ t[fx].id = t[fy].id
  BY <1>5, <1>7, <1>9
<1> HIDE DEF fx, fy
<1>11. Len(x) \in Nat /\ Len(y) \in Nat /\ Len(fx) \in Nat
  BY <1>1, <1>4, <1>10
<1>12. Len(fx) # Len(fy)
  BY <1>4, <1>10, <1>11
<1>13. Len(fx) \in S
  BY <1>10, <1>11, <1>12
<1>14. k <= Len(fx)
  BY <1>3, <1>13
<1> QED BY <1>4, <1>10, <1>11, <1>14

\* Issues with some property are found among the places of a tree.
LEMMA FoundFacts ==
  ASSUME NEW t, IssueTree(t), NEW P \in SUBSET DOMAIN t, First(P) # Missing \/ P # {}
  PROVE  First(P) \in P /\ First(P) \in DOMAIN t
PROOF
<1>1. P # {}
  BY DEF First
<1>2. P \in SUBSET Seq(Nat)
  <2>1. \A p \in P : p \in Seq(Nat \ {0})
    BY DEF IssueTree
  <2>2. \A p \in P : p \in Seq(Nat)
    BY <2>1, SeqMonotonic
  <2> QED BY <2>2
<1>3. IsFiniteSet(P)
  BY FS_Subset DEF IssueTree
<1> QED BY <1>1, <1>2, <1>3, FirstFacts

\* A new issue is put where there was none.
LEMMA AddedTree ==
  ASSUME IssueTree(tree), NEW p \in DOMAIN tree, Cardinality(DOMAIN tree) < MaxIssues,
         NEW summary, NEW source
  PROVE  IssueTree(Added(summary, source, p))
PROOF
<1> DEFINE D == DOMAIN tree
           P == Nat \ {0}
           C == ChildrenOf(tree, p)
           c == Cardinality(C)
           q == Append(p, c + 1)
           t == [r \in D \cup {q} |-> IF r = q THEN Issue(summary, source, tree[p].id) ELSE tree[r]]
<1>1. Added(summary, source, p) = t
  BY DEF Added
<1>2. D \subseteq Seq(P) /\ IsFiniteSet(D) /\ p \in Seq(P) /\ Cardinality(D) \in Nat
      /\ Cardinality(D) < MaxIssues /\ MaxIssues \in Nat
  BY FS_CardinalityType, IssuesAssumption DEF IssueTree
<1>3. /\ <<>> \in D
      /\ \A r \in D : r # <<>> => Front(r) \in D /\ Last(r) <= Cardinality(ChildrenOf(tree, Front(r)))
      /\ \A r \in D : /\ tree[r].id = <<tree[r].summary, tree[r].source, tree[r].parent>>
                      /\ tree[r].parent = IF r = <<>> THEN NoId ELSE tree[Front(r)].id
  BY DEF IssueTree, IsTree
<1>4. C \subseteq D /\ IsFiniteSet(C) /\ c \in Nat
  <2>1. C \subseteq D
    BY DEF ChildrenOf
  <2> HIDE DEF C
  <2> QED BY <1>2, <2>1, FS_Subset, FS_CardinalityType
<1> HIDE DEF c
<1>5. /\ q \in Seq(P) /\ q # <<>> /\ Len(q) = Len(p) + 1 /\ Front(q) = p /\ Last(q) = c + 1
      /\ Len(p) \in Nat
  <2>1. c + 1 \in P
    BY <1>4
  <2> QED BY <1>2, <2>1, AppendFront
<1>6. IsPrefix(p, q)
  <2>1. \A i \in 1 .. Len(p) : q[i] = p[i]
    <3>1. c + 1 \in P
      BY <1>4
    <3> QED BY <1>2, <3>1, AppendProperties
  <2>2. p \in Seq(Nat) /\ q \in Seq(Nat)
    BY <1>2, <1>5, SeqMonotonic
  <2>3. Len(p) <= Len(q) /\ \A i \in 1 .. Len(p) : p[i] = q[i]
    BY <1>5, <2>1
  <2> HIDE DEF q
  <2> QED BY <2>2, <2>3, PrefixFacts
<1> HIDE DEF q
<1>7. q \notin D
  <2> SUFFICES ASSUME q \in D PROVE FALSE
    OBVIOUS
  <2>1. c + 1 <= c
    BY <1>3, <1>5 DEF c
  <2> QED BY <1>4, <2>1
<1> HIDE DEF t
<1>8. /\ DOMAIN t = D \cup {q}
      /\ t[q] = Issue(summary, source, tree[p].id)
      /\ \A r \in D : t[r] = tree[r]
  BY <1>7 DEF t
<1> HIDE DEF D
<1>9. IsFiniteSet(DOMAIN t) /\ Cardinality(DOMAIN t) = Cardinality(D) + 1
  BY <1>2, <1>7, <1>8, FS_AddElement
<1>10. DOMAIN t \subseteq Seq(P)
  BY <1>2, <1>5, <1>8
<1>11. \A r : IsFiniteSet(ChildrenOf(t, r)) /\ ChildrenOf(tree, r) \subseteq ChildrenOf(t, r)
  <2> SUFFICES ASSUME NEW r
               PROVE  IsFiniteSet(ChildrenOf(t, r)) /\ ChildrenOf(tree, r) \subseteq ChildrenOf(t, r)
    OBVIOUS
  <2>1. ChildrenOf(t, r) \subseteq DOMAIN t /\ ChildrenOf(tree, r) \subseteq ChildrenOf(t, r)
    BY <1>8 DEF ChildrenOf, D
  <2> QED BY <1>9, <2>1, FS_Subset
<1>12. Cardinality(ChildrenOf(t, p)) >= c + 1
  <2>1. C \cup {q} \subseteq ChildrenOf(t, p)
    <3>1. q \in ChildrenOf(t, p)
      BY <1>5, <1>6, <1>8 DEF ChildrenOf
    <3> QED BY <1>11, <3>1
  <2>2. q \notin C
    BY <1>4, <1>7
  <2>3. IsFiniteSet(ChildrenOf(t, p))
    BY <1>11
  <2> DEFINE Ct == ChildrenOf(t, p)
  <2> HIDE DEF C, Ct
  <2>4. Cardinality(C \cup {q}) = Cardinality(C) + 1
    BY <1>4, <2>2, FS_AddElement
  <2>5. Cardinality(C \cup {q}) <= Cardinality(Ct)
    BY <2>1, <2>3, FS_Subset DEF Ct
  <2>6. Cardinality(Ct) \in Nat /\ Cardinality(C \cup {q}) \in Nat
    BY <1>4, <2>3, <2>4, FS_CardinalityType DEF c, Ct
  <2>7. Cardinality(C \cup {q}) = c + 1
    BY <2>4 DEF c
  <2> QED BY <1>4, <2>5, <2>6, <2>7 DEF Ct
<1> HIDE DEF C
<1>13. IsTree(t)
  <2> SUFFICES ASSUME NEW r \in DOMAIN t \ {<<>>}
               PROVE  Front(r) \in DOMAIN t /\ Last(r) <= Cardinality(ChildrenOf(t, Front(r)))
    BY <1>3, <1>8 DEF IsTree
  <2>1. CASE r = q
    <3>1. Cardinality(ChildrenOf(t, p)) \in Nat
      BY <1>11, FS_CardinalityType
    <3>2. p \in D
      BY DEF D
    <3>3. c + 1 <= Cardinality(ChildrenOf(t, p))
      BY <1>4, <1>12, <3>1
    <3> QED BY <1>5, <1>8, <2>1, <3>2, <3>3
  <2>2. CASE r \in D
    <3> DEFINE A == ChildrenOf(tree, Front(r))
               B == ChildrenOf(t, Front(r))
    <3>1. Front(r) \in D /\ Last(r) <= Cardinality(A)
      BY <1>3, <2>2
    <3>2. IsFiniteSet(B) /\ A \subseteq B
      BY <1>11
    <3>3. Last(r) \in Nat
      <4>1. r \in Seq(P) /\ r # <<>>
        BY <1>2, <2>2
      <4>2. Last(r) \in P
        BY <4>1, FrontFacts
      <4> QED BY <4>2
    <3> HIDE DEF A, B
    <3>4. Cardinality(A) <= Cardinality(B) /\ Cardinality(A) \in Nat /\ Cardinality(B) \in Nat
      BY <3>2, FS_Subset, FS_CardinalityType
    <3>5. Last(r) <= Cardinality(B)
      BY <3>1, <3>3, <3>4
    <3> QED BY <1>8, <3>1, <3>5 DEF B
  <2> QED BY <1>8, <2>1, <2>2
<1>14. Cardinality(DOMAIN t) <= MaxIssues
  BY <1>2, <1>9
<1>15. \A r \in DOMAIN t : /\ t[r].id = <<t[r].summary, t[r].source, t[r].parent>>
                           /\ t[r].parent = IF r = <<>> THEN NoId ELSE t[Front(r)].id
  <2>1. t[q].id = <<t[q].summary, t[q].source, t[q].parent>> /\ t[q].parent = t[p].id
    <3>1. p \in D
      BY DEF D
    <3> QED BY <1>8, <3>1 DEF Issue
  <2>2. ASSUME NEW r \in D
        PROVE  /\ t[r].id = <<t[r].summary, t[r].source, t[r].parent>>
               /\ t[r].parent = IF r = <<>> THEN NoId ELSE t[Front(r)].id
    <3>1. r # <<>> => t[Front(r)] = tree[Front(r)]
      BY <1>3, <1>8
    <3> QED BY <1>3, <1>8, <3>1
  <2> QED BY <1>5, <1>8, <2>1, <2>2
<1>16. IssueTree(t)
  BY <1>9, <1>10, <1>13, <1>14, <1>15 DEF IssueTree
<1> QED BY <1>1, <1>16


-----------------------------------------------------------------------------
(* The configuration.                                                       *)

\* The issue at a place p, when f has the one above it.
ConfIssue(f, p) == Issue(RootConfig[p], Missing, IF p = <<>> THEN NoId ELSE f[Front(p)].id)

\* f has the issues down to depth n.
ConfOf(n, f) ==
  /\ f = [p \in {q \in DOMAIN RootConfig : Len(q) <= n} |-> f[p]]
  /\ \A p \in DOMAIN RootConfig : Len(p) <= n => f[p] = ConfIssue(f, p)

LEMMA RootConfigFacts ==
  ASSUME RootConfig # Missing
  PROVE  /\ DOMAIN RootConfig \subseteq Seq(Nat \ {0}) /\ IsTree(RootConfig)
         /\ IsFiniteSet(DOMAIN RootConfig) /\ Cardinality(DOMAIN RootConfig) <= MaxIssues
         /\ MaxIssues \in Nat
         /\ \A p \in DOMAIN RootConfig : Len(p) \in Nat /\ Len(p) <= MaxIssues
         /\ \A p \in DOMAIN RootConfig : p # <<>> =>
              Front(p) \in DOMAIN RootConfig /\ Len(Front(p)) = Len(p) - 1 /\ Len(p) > 0
PROOF
<1>1. /\ DOMAIN RootConfig \subseteq Seq(Nat \ {0}) /\ IsTree(RootConfig)
      /\ IsFiniteSet(DOMAIN RootConfig) /\ Cardinality(DOMAIN RootConfig) <= MaxIssues
      /\ MaxIssues \in Nat
  BY IssuesAssumption
<1>2. ASSUME NEW p \in DOMAIN RootConfig
      PROVE  Len(p) \in Nat /\ Len(p) <= MaxIssues
  <2>1. Len(p) \in Nat /\ Cardinality(DOMAIN RootConfig) \in Nat /\ Len(p) < Cardinality(DOMAIN RootConfig)
    BY <1>1, DepthFacts
  <2> QED BY <1>1, <2>1
<1>3. ASSUME NEW p \in DOMAIN RootConfig, p # <<>>
      PROVE  Front(p) \in DOMAIN RootConfig /\ Len(Front(p)) = Len(p) - 1 /\ Len(p) > 0
  <2>1. p \in Seq(Nat \ {0})
    BY <1>1
  <2>2. Len(p) \in Nat \ {0} /\ Len(Front(p)) = Len(p) - 1
    BY <1>3, <2>1, FrontFacts
  <2> QED BY <1>1, <1>3, <2>2 DEF IsTree
<1> QED BY <1>1, <1>2, <1>3

LEMMA ConfExists ==
  ASSUME RootConfig # Missing
  PROVE  \E f : ConfOf(MaxIssues, f)
PROOF
<1> DEFINE D == DOMAIN RootConfig
           S == {k \in 0 .. MaxIssues : \E f : ConfOf(k, f)}
<1>1. /\ MaxIssues \in Nat
      /\ \A p \in D : Len(p) \in Nat
      /\ \A p \in D : p # <<>> => Front(p) \in D /\ Len(Front(p)) = Len(p) - 1 /\ Len(p) > 0
  BY RootConfigFacts
<1> HIDE DEF D
<1>2. 0 \in S
  <2> DEFINE f == [p \in {q \in D : Len(q) <= 0} |-> Issue(RootConfig[p], Missing, NoId)]
  <2>1. \A p \in D : Len(p) <= 0 => p = <<>>
    BY <1>1
  <2>2. \A p \in D : Len(p) <= 0 => f[p] = Issue(RootConfig[p], Missing, NoId)
    OBVIOUS
  <2>3. f = [p \in {q \in D : Len(q) <= 0} |-> f[p]]
    OBVIOUS
  <2> HIDE DEF f
  <2>4. ConfOf(0, f)
    BY <2>1, <2>2, <2>3 DEF ConfOf, ConfIssue, D
  <2> QED BY <1>1, <2>4
<1>3. ASSUME NEW k \in 0 .. MaxIssues - 1, k \in S
      PROVE  k + 1 \in S
  <2>1. PICK f : ConfOf(k, f)
    BY <1>3
  <2> DEFINE E == {q \in D : Len(q) <= k + 1}
             g == [p \in E |-> IF Len(p) <= k THEN f[p] ELSE ConfIssue(f, p)]
  <2>2. \A p \in D : Len(p) <= k => f[p] = ConfIssue(f, p)
    BY <2>1 DEF ConfOf, D
  <2>3. \A p \in D : Len(p) <= k => p \in E
    BY <1>1
  <2>4. g = [p \in E |-> g[p]]
    OBVIOUS
  <2>5. \A p \in E : g[p] = ConfIssue(f, p)
    BY <2>2
  <2>6. \A p \in D : Len(p) <= k => g[p] = f[p]
    BY <2>3
  <2> HIDE DEF g
  <2>7. ASSUME NEW p \in D, Len(p) <= k + 1
        PROVE  g[p] = ConfIssue(g, p)
    <3>1. g[p] = ConfIssue(f, p)
      BY <2>5, <2>7
    <3>2. p # <<>> => g[Front(p)] = f[Front(p)]
      <4> SUFFICES ASSUME p # <<>> PROVE g[Front(p)] = f[Front(p)]
        OBVIOUS
      <4>1. Front(p) \in D /\ Len(Front(p)) = Len(p) - 1 /\ Len(p) \in Nat
        BY <1>1
      <4>2. Len(Front(p)) <= k
        BY <2>7, <4>1
      <4> QED BY <2>6, <4>1, <4>2
    <3> QED BY <3>1, <3>2 DEF ConfIssue
  <2>8. ConfOf(k + 1, g)
    BY <2>4, <2>7 DEF ConfOf, D
  <2>9. k + 1 \in 0 .. MaxIssues
    BY <1>1
  <2> QED BY <2>8, <2>9
<1>4. S = 0 .. MaxIssues
  <2>1. S \in SUBSET (0 .. MaxIssues)
    OBVIOUS
  <2> HIDE DEF S
  <2> QED BY <1>1, <1>2, <1>3, <2>1, UpTo
<1>5. MaxIssues \in S
  BY <1>1, <1>4
<1> QED BY <1>5

LEMMA ConfiguredFacts ==
  ASSUME RootConfig # Missing
  PROVE  /\ DOMAIN Configured = DOMAIN RootConfig
         /\ \A p \in DOMAIN RootConfig : Configured[p] = ConfIssue(Configured, p)
PROOF
<1> DEFINE D == DOMAIN RootConfig
           Eq(g) == g = [p \in D |-> Issue(RootConfig[p], Missing,
                                           IF p = <<>> THEN NoId ELSE g[Front(p)].id)]
<1>1. Configured = CHOOSE g : Eq(g)
  BY DEF Configured
<1>2. \E g : Eq(g)
  <2>1. PICK f : ConfOf(MaxIssues, f)
    BY ConfExists
  <2>2. {q \in D : Len(q) <= MaxIssues} = D
    BY RootConfigFacts
  <2>3. f = [p \in D |-> f[p]]
    BY <2>1, <2>2 DEF ConfOf
  <2>4. \A p \in D : f[p] = ConfIssue(f, p)
    BY <2>1, <2>2 DEF ConfOf
  <2>5. Eq(f)
    BY <2>3, <2>4 DEF ConfIssue
  <2> QED BY <2>5
<1>3. Eq(Configured)
  <2> HIDE DEF Eq
  <2> QED BY <1>1, <1>2
<1>4. DOMAIN Configured = D
  BY <1>3
<1>5. \A p \in D : Configured[p] = ConfIssue(Configured, p)
  BY <1>3 DEF ConfIssue
<1> QED BY <1>4, <1>5

LEMMA ConfiguredTree ==
  ASSUME RootConfig # Missing
  PROVE  IssueTree(Configured)
PROOF
<1> DEFINE t == Configured
<1>1. DOMAIN t = DOMAIN RootConfig /\ \A p \in DOMAIN RootConfig : t[p] = ConfIssue(t, p)
  BY ConfiguredFacts
<1> HIDE DEF t
<1>2. \A p : ChildrenOf(t, p) = ChildrenOf(RootConfig, p)
  BY <1>1 DEF ChildrenOf
<1>3. IsTree(t)
  BY <1>1, <1>2, RootConfigFacts DEF IsTree
<1>4. \A p \in DOMAIN t : /\ t[p].id = <<t[p].summary, t[p].source, t[p].parent>>
                          /\ t[p].parent = IF p = <<>> THEN NoId ELSE t[Front(p)].id
  <2> SUFFICES ASSUME NEW p \in DOMAIN t
               PROVE  /\ t[p].id = <<t[p].summary, t[p].source, t[p].parent>>
                      /\ t[p].parent = IF p = <<>> THEN NoId ELSE t[Front(p)].id
    OBVIOUS
  <2> DEFINE a == IF p = <<>> THEN NoId ELSE t[Front(p)].id
  <2>1. t[p] = Issue(RootConfig[p], Missing, a)
    BY <1>1 DEF ConfIssue
  <2> HIDE DEF a
  <2>2. t[p].parent = a /\ t[p].id = <<t[p].summary, t[p].source, t[p].parent>>
    BY <2>1 DEF Issue
  <2> QED BY <2>2 DEF a
<1>5. IssueTree(t)
  BY <1>1, <1>3, <1>4, RootConfigFacts DEF IssueTree
<1> QED BY <1>5 DEF t

-----------------------------------------------------------------------------
(* The way up.                                                              *)

\* One issue further up.
Up(l) == IF Last(l) = Missing \/ tree[Last(l)].parent = NoId THEN l
         ELSE Append(l, IssueById(tree, tree[Last(l)].parent))

UpOf(p, n, f) ==
  /\ f = [i \in 0 .. n |-> f[i]]
  /\ f[0] = <<p>>
  /\ \A i \in 1 .. n : f[i] = Up(f[i - 1])

LEMMA UpExists ==
  ASSUME NEW p, NEW n \in Nat
  PROVE  \E f : UpOf(p, n, f)
PROOF
<1> DEFINE S == {k \in 0 .. n : \E f : UpOf(p, k, f)}
<1>1. 0 \in S
  <2> DEFINE f == [i \in 0 .. 0 |-> <<p>>]
  <2>1. f = [i \in 0 .. 0 |-> f[i]] /\ f[0] = <<p>>
    OBVIOUS
  <2> HIDE DEF f
  <2>2. UpOf(p, 0, f)
    BY <2>1 DEF UpOf
  <2> QED BY <2>2
<1>2. ASSUME NEW k \in 0 .. n - 1, k \in S
      PROVE  k + 1 \in S
  <2>1. PICK f : UpOf(p, k, f)
    BY <1>2
  <2> DEFINE v == Up(f[k])
  <2> HIDE DEF v
  <2> DEFINE g == [i \in 0 .. k + 1 |-> IF i = k + 1 THEN v ELSE f[i]]
  <2>2. /\ k + 1 \in 0 .. n /\ k + 1 \in 0 .. k + 1 /\ k \in 0 .. k /\ k + 1 - 1 = k
        /\ \A i \in 0 .. k : i \in 0 .. k + 1 /\ i # k + 1
        /\ \A i \in 1 .. k + 1 : i = k + 1 \/ i \in 1 .. k
        /\ \A i \in 1 .. k : i \in 0 .. k /\ i - 1 \in 0 .. k
        /\ 0 \in 0 .. k
    OBVIOUS
  <2>3. g[k + 1] = v /\ \A i \in 0 .. k : g[i] = f[i]
    BY <2>2
  <2>4. g = [i \in 0 .. k + 1 |-> g[i]]
    OBVIOUS
  <2> HIDE DEF g
  <2>5. f[0] = <<p>> /\ \A i \in 1 .. k : f[i] = Up(f[i - 1])
    BY <2>1 DEF UpOf
  <2>6. g[0] = <<p>>
    BY <2>2, <2>3, <2>5
  <2>7. ASSUME NEW i \in 1 .. k + 1
        PROVE  g[i] = Up(g[i - 1])
    <3>1. CASE i = k + 1
      <4>1. g[i - 1] = f[k] /\ g[i] = v
        BY <2>2, <2>3, <3>1
      <4> QED BY <4>1 DEF v
    <3>2. CASE i \in 1 .. k
      <4>1. g[i] = f[i] /\ g[i - 1] = f[i - 1]
        BY <2>2, <2>3, <3>2
      <4> QED BY <2>5, <3>2, <4>1
    <3> QED BY <2>2, <3>1, <3>2
  <2>8. UpOf(p, k + 1, g)
    BY <2>4, <2>6, <2>7 DEF UpOf
  <2> QED BY <2>2, <2>8
<1>3. S = 0 .. n
  <2>1. S \in SUBSET (0 .. n)
    OBVIOUS
  <2> HIDE DEF S
  <2> QED BY <1>1, <1>2, <2>1, UpTo
<1>4. n \in S
  BY <1>3
<1> QED BY <1>4

LEMMA LineFacts ==
  ASSUME NEW p
  PROVE  \E f : UpOf(p, MaxIssues, f) /\ Line(p) = f[MaxIssues]
PROOF
<1> DEFINE Eq(g) == g = [n \in 0 .. MaxIssues |->
                           IF n = 0 THEN <<p>>
                           ELSE LET l == g[n - 1] IN
                                IF Last(l) = Missing \/ tree[Last(l)].parent = NoId THEN l
                                ELSE Append(l, IssueById(tree, tree[Last(l)].parent))]
           up == CHOOSE g : Eq(g)
<1>1. Line(p) = up[MaxIssues]
  BY DEF Line
<1> HIDE DEF up
<1>2. MaxIssues \in Nat /\ \A i \in 0 .. MaxIssues : i = 0 \/ i \in 1 .. MaxIssues
  BY IssuesAssumption
<1>3. \E g : Eq(g)
  <2>1. PICK f : UpOf(p, MaxIssues, f)
    BY <1>2, UpExists
  <2>2. \A n \in 0 .. MaxIssues : f[n] = IF n = 0 THEN <<p>> ELSE Up(f[n - 1])
    BY <1>2, <2>1 DEF UpOf
  <2>3. f = [n \in 0 .. MaxIssues |-> f[n]]
    BY <2>1 DEF UpOf
  <2>4. f = [n \in 0 .. MaxIssues |-> IF n = 0 THEN <<p>> ELSE Up(f[n - 1])]
    BY <2>2, <2>3
  <2>5. Eq(f)
    BY <2>4 DEF Up
  <2> QED BY <2>5
<1>4. Eq(up)
  <2> HIDE DEF Eq
  <2> QED BY <1>3 DEF up
<1>5. up = [n \in 0 .. MaxIssues |-> IF n = 0 THEN <<p>> ELSE Up(up[n - 1])]
  BY <1>4 DEF Up
<1>6. UpOf(p, MaxIssues, up)
  <2>1. 0 \in 0 .. MaxIssues /\ \A i \in 1 .. MaxIssues : i \in 0 .. MaxIssues /\ i # 0
    BY <1>2
  <2>2. up[0] = <<p>> /\ \A i \in 1 .. MaxIssues : up[i] = Up(up[i - 1])
    BY <1>5, <2>1
  <2>3. up = [n \in 0 .. MaxIssues |-> up[n]]
    BY <1>5
  <2> QED BY <2>2, <2>3 DEF UpOf
<1> QED BY <1>1, <1>6

\* From every issue the way up leads to the root, by as many steps as it is deep.
LEMMA WaysLeadUp ==
  ASSUME IssueTree(tree), NEW p \in DOMAIN tree
  PROVE  Last(Line(p)) = <<>> /\ Len(Line(p)) = Len(p) + 1
PROOF
<1> DEFINE D == DOMAIN tree
           N == MaxIssues
<1>1. PICK f : UpOf(p, N, f) /\ Line(p) = f[N]
  BY LineFacts
<1>2. f[0] = <<p>> /\ \A i \in 1 .. N : f[i] = Up(f[i - 1])
  BY <1>1 DEF UpOf
<1>3. /\ N \in Nat /\ Len(p) \in Nat /\ Len(p) < N
      /\ \A q \in D : Len(q) \in Nat
  <2>1. DOMAIN tree \subseteq Seq(Nat \ {0}) /\ IsTree(tree) /\ IsFiniteSet(DOMAIN tree)
        /\ Cardinality(DOMAIN tree) <= MaxIssues /\ MaxIssues \in Nat
    BY IssuesAssumption DEF IssueTree
  <2>2. \A q \in D : Len(q) \in Nat /\ Cardinality(DOMAIN tree) \in Nat /\ Len(q) < Cardinality(DOMAIN tree)
    BY <2>1, DepthFacts
  <2> QED BY <2>1, <2>2
<1> HIDE DEF N
<1>4. \A q \in D : /\ tree[q].parent = IF q = <<>> THEN NoId ELSE tree[Front(q)].id
                   /\ tree[q].id # NoId
                   /\ q # Missing
                   /\ q # <<>> => Front(q) \in D /\ Len(Front(q)) = Len(q) - 1
  <2> SUFFICES ASSUME NEW q \in D
               PROVE  /\ tree[q].parent = IF q = <<>> THEN NoId ELSE tree[Front(q)].id
                      /\ tree[q].id # NoId
                      /\ q # Missing
                      /\ q # <<>> => Front(q) \in D /\ Len(Front(q)) = Len(q) - 1
    OBVIOUS
  <2>1. tree[q].id = <<tree[q].summary, tree[q].source, tree[q].parent>>
    BY DEF IssueTree
  <2>2. tree[q].id # NoId
    BY <2>1 DEF NoId
  <2>3. q \in Seq(Nat \ {0})
    BY DEF IssueTree
  <2>4. q # Missing
    <3>1. q \in Seq(Nat)
      BY <2>3, SeqMonotonic
    <3> QED BY <3>1, IssuesAssumption
  <2>5. q # <<>> => Len(Front(q)) = Len(q) - 1
    BY <2>3, FrontFacts
  <2> QED BY <2>2, <2>4, <2>5 DEF IssueTree, IsTree
<1> DEFINE Good(l, n) == /\ l \in Seq(D) /\ Len(l) > 0
                         /\ Len(Last(l)) + Len(l) = Len(p) + 1
                         /\ Len(l) = n + 1 \/ Last(l) = <<>>
           S == {k \in 0 .. N : Good(f[k], k)}
<1>5. 0 \in S
  <2>1. <<p>> \in Seq(D) /\ Len(<<p>>) = 1 /\ <<p>>[1] = p
    OBVIOUS
  <2>2. Last(<<p>>) = p
    BY <2>1 DEF Last
  <2>3. Good(<<p>>, 0)
    BY <1>3, <2>1, <2>2
  <2>4. 0 \in 0 .. N
    BY <1>3
  <2> HIDE DEF Good
  <2> QED BY <1>2, <2>3, <2>4
<1>6. ASSUME NEW k \in 0 .. N - 1, k \in S
      PROVE  k + 1 \in S
  <2>1. k + 1 \in 1 .. N /\ k + 1 \in 0 .. N /\ k + 1 - 1 = k /\ k \in Nat
    BY <1>3
  <2> DEFINE l == f[k]
             r == Last(l)
  <2>2. f[k + 1] = Up(l)
    BY <1>2, <2>1
  <2>3. l \in Seq(D) /\ Len(l) > 0 /\ Len(r) + Len(l) = Len(p) + 1 /\ (Len(l) = k + 1 \/ r = <<>>)
    BY <1>6
  <2> HIDE DEF l
  <2>4. Len(l) \in Nat /\ r \in D
    BY <2>3, ElementOfSeq DEF Last
  <2> HIDE DEF r
  <2>5. CASE r = <<>>
    <3>1. Up(l) = l
      BY <1>4, <2>4, <2>5 DEF Up, r
    <3>2. Good(l, k + 1)
      BY <2>3, <2>5 DEF r
    <3> HIDE DEF Good
    <3> QED BY <2>1, <2>2, <3>1, <3>2
  <2>6. CASE r # <<>>
    <3> DEFINE id == tree[Front(r)].id
               P == {q \in D : tree[q].id = id}
               s == First(P)
    <3>1. Front(r) \in D /\ Len(Front(r)) = Len(r) - 1 /\ tree[r].parent = id /\ id # NoId /\ r # Missing
      BY <1>4, <2>4, <2>6
    <3>2. Up(l) = Append(l, s)
      <4>1. Up(l) = Append(l, IssueById(tree, id))
        <5> HIDE DEF id
        <5> QED BY <3>1 DEF Up, r
      <4>2. IssueById(tree, id) = s
        BY DEF IssueById
      <4> QED BY <4>1, <4>2
    <3>3. s \in P
      <4>1. P \in SUBSET D /\ P # {}
        BY <3>1
      <4> HIDE DEF P
      <4> QED BY <4>1, FoundFacts
    <3>4. s \in D /\ tree[s].id = tree[Front(r)].id
      BY <3>3
    <3> HIDE DEF s
    <3>5. Len(s) = Len(Front(r))
      BY <3>1, <3>4, IdDepth
    <3> DEFINE m == Append(l, s)
    <3>6. m \in Seq(D) /\ Len(m) = Len(l) + 1 /\ Last(m) = s
      BY <2>3, <3>4, AppendFront
    <3> HIDE DEF m
    <3>7. Len(r) \in Nat /\ Len(s) \in Nat
      BY <1>3, <2>4, <3>4
    <3>8. Len(m) > 0 /\ Len(s) + Len(m) = Len(p) + 1 /\ Len(m) = k + 1 + 1
      <4>1. Len(l) = k + 1 /\ k \in Nat /\ Len(p) \in Nat
        BY <1>3, <2>1, <2>3, <2>6
      <4>2. Len(s) = Len(r) - 1 /\ Len(r) + Len(l) = Len(p) + 1 /\ Len(m) = Len(l) + 1
        BY <2>3, <3>1, <3>5, <3>6
      <4> QED BY ONLY <2>4, <3>7, <4>1, <4>2
    <3>9. Good(m, k + 1)
      BY <3>6, <3>8
    <3> HIDE DEF Good
    <3> QED BY <2>1, <2>2, <3>2, <3>9 DEF m
  <2> QED BY <2>5, <2>6
<1>7. S = 0 .. N
  <2>1. S \in SUBSET (0 .. N)
    OBVIOUS
  <2> HIDE DEF S
  <2> QED BY <1>3, <1>5, <1>6, <2>1, UpTo
<1>8. Good(f[N], N)
  <2>1. N \in S
    <3>1. N \in 0 .. N
      BY <1>3
    <3> HIDE DEF S
    <3> QED BY <1>7, <3>1
  <2> QED BY <2>1
<1> DEFINE l == f[N]
<1>9. /\ l \in Seq(D) /\ Len(l) > 0
      /\ Len(Last(l)) + Len(l) = Len(p) + 1
      /\ Len(l) = N + 1 \/ Last(l) = <<>>
  BY <1>8
<1> HIDE DEF l
<1>10. Len(l) \in Nat /\ Last(l) \in D
  BY <1>9, ElementOfSeq DEF Last
<1>11. Last(l) = <<>>
  <2>1. Len(Last(l)) \in Nat
    BY <1>3, <1>10
  <2>2. Len(l) # N + 1
    BY <1>3, <1>9, <1>10, <2>1
  <2> QED BY <1>9, <2>2
<1>12. Len(l) = Len(p) + 1
  <2>1. Len(Last(l)) = 0
    BY <1>11
  <2> QED BY <1>3, <1>9, <1>10, <2>1
<1> QED BY <1>1, <1>11, <1>12 DEF l


-----------------------------------------------------------------------------
(* The steps of the issues.                                                 *)

LEMMA OpenStep ==
  ASSUME IssueIInv, OpenIssues
  PROVE  IssueIInv'
PROOF
<1>1. CASE issueFile = Missing /\ RootConfig # Missing /\ tree' = Configured /\ Flush(tree')
  <2>1. IssueTree(tree') /\ issueFile' = tree' /\ said' = "ok"
    BY <1>1, ConfiguredTree DEF OpenIssues, Flush
  <2> QED BY <2>1 DEF IssueIInv, IssueTree, ReturnedIsSaved, IsTree, ChildrenOf
<1>2. CASE issueFile \notin {Missing, Cut} /\ tree' = issueFile /\ UNCHANGED issueFile
  <2>1. IssueTree(tree') /\ issueFile' = tree' /\ said' = "ok"
    BY <1>2 DEF OpenIssues, IssueIInv
  <2> QED BY <2>1 DEF IssueIInv, IssueTree, ReturnedIsSaved, IsTree, ChildrenOf
<1> QED BY <1>1, <1>2 DEF OpenIssues

LEMMA CloseStep ==
  ASSUME IssueIInv, CloseIssues
  PROVE  IssueIInv'
PROOF
<1>1. tree' = Missing /\ said' = "none" /\ issueFile' \in {issueFile, Cut}
  BY DEF CloseIssues
<1>2. issueFile' \in {Missing, Cut} \/ IssueTree(issueFile')
  BY <1>1 DEF IssueIInv
<1> QED BY <1>1, <1>2 DEF IssueIInv, ReturnedIsSaved

\* Calls that raise before they make a change.
LEMMA RefusedStep ==
  ASSUME IssueIInv, said' = "raised", UNCHANGED <<tree, issueFile>>
  PROVE  IssueIInv'
PROOF
<1>1. tree' = Missing \/ IssueTree(tree')
  BY DEF IssueIInv
<1>2. issueFile' \in {Missing, Cut} \/ IssueTree(issueFile')
  BY DEF IssueIInv
<1> QED BY <1>1, <1>2 DEF IssueIInv, ReturnedIsSaved

LEMMA AddStep ==
  ASSUME IssueIInv, NEW s, NEW m, NEW parent, AddIssue(s, m, parent)
  PROVE  IssueIInv'
PROOF
<1> DEFINE p == IssueById(tree, parent)
           P == {q \in DOMAIN tree : tree[q].id = parent}
<1>1. CASE p = Missing
  BY <1>1, RefusedStep DEF AddIssue
<1>2. CASE p # Missing
  <2>1. IssueTree(tree)
    BY DEF IssueIInv, AddIssue
  <2>2. p \in DOMAIN tree
    <3>1. p = First(P) /\ P \in SUBSET DOMAIN tree
      BY DEF IssueById
    <3> HIDE DEF P, p
    <3> QED BY <1>2, <2>1, <3>1, FoundFacts
  <2>3. Cardinality(DOMAIN tree) < MaxIssues /\ tree' = Added(s, m, p) /\ Saved(tree')
    BY <1>2 DEF AddIssue
  <2> HIDE DEF p
  <2>4. IssueTree(tree')
    BY <2>1, <2>2, <2>3, AddedTree
  <2>5. CASE issueFile' = tree' /\ said' = "ok"
    BY <2>4, <2>5 DEF IssueIInv, ReturnedIsSaved
  <2>6. CASE issueFile' \in {issueFile, Cut} /\ said' = "raised"
    <3>1. issueFile' \in {Missing, Cut} \/ IssueTree(issueFile')
      BY <2>6 DEF IssueIInv
    <3> QED BY <2>4, <2>6, <3>1 DEF IssueIInv, ReturnedIsSaved
  <2> QED BY <2>3, <2>5, <2>6 DEF Saved, Flush
<1> QED BY <1>1, <1>2

LEMMA IssueUnchanged ==
  ASSUME IssueIInv, UNCHANGED issueVars
  PROVE  IssueIInv'
PROOF
<1>1. UNCHANGED <<tree, issueFile, said>>
  BY DEF issueVars
<1>2. tree' = Missing \/ IssueTree(tree')
  BY <1>1 DEF IssueIInv
<1>3. issueFile' \in {Missing, Cut} \/ IssueTree(issueFile')
  BY <1>1 DEF IssueIInv
<1> QED BY <1>1, <1>2, <1>3 DEF IssueIInv, ReturnedIsSaved

LEMMA IssueNextOK == IssueIInv /\ [Next]_vars => IssueIInv'
PROOF
<1> SUFFICES ASSUME IssueIInv, [Next]_vars PROVE IssueIInv'
  OBVIOUS
<1>1. CASE IssueNext
  <2>1. ASSUME NEW s \in Summaries, NEW m \in Sources,
               AddIssue(s, m, Missing) \/ \E p \in DOMAIN tree : AddIssue(s, m, tree[p].id)
        PROVE  IssueIInv'
    BY <2>1, AddStep
  <2>2. CASE UpdateIssue \/ ToolCall
    BY <2>2, RefusedStep DEF UpdateIssue, ToolCall
  <2> QED BY <1>1, <2>1, <2>2, OpenStep, CloseStep DEF IssueNext
<1>2. CASE UNCHANGED issueVars
  BY <1>2, IssueUnchanged
<1>3. CASE UNCHANGED vars
  BY <1>3, IssueUnchanged DEF vars, issueVars
<1> QED BY <1>1, <1>2, <1>3 DEF Next

\* The issues are a tree in memory and, unless it was cut off, in the file, and the
\* file holds what a call that returned made of them.
THEOREM IssuesStay == Spec => []IssueIInv
PROOF
<1>1. Init => IssueIInv
  BY DEF Init, IssueInit, IssueIInv, ReturnedIsSaved
<1> QED BY <1>1, IssueNextOK, PTL DEF Spec

-----------------------------------------------------------------------------
(* The results.                                                             *)

\* The uid of an object id is the lowest it is stored under.
LEMMA UidIsLeast ==
  ASSUME NEW w \in Stored
  PROVE  UidOf(rows[w]) \in Stored /\ UidOf(rows[w]) <= w
PROOF
<1> DEFINE U == {x \in Stored : rows[x] = rows[w]}
<1>1. w \in U /\ U \in SUBSET Nat /\ U \subseteq Stored
  BY UidFacts DEF Stored
<1>2. UidOf(rows[w]) = Least(U)
  BY <1>1 DEF UidOf
<1> HIDE DEF U
<1> QED BY <1>1, <1>2, LeastExists

LEMMA SkippedNone ==
  ASSUME MailIInv
  PROVE  NothingSkipped
PROOF
<1> DEFINE j == journal["local"]
<1> SUFFICES ASSUME j # Absent, NEW u \in Stored, u <= UidOf(j), rows[u] \notin seen
             PROVE  \E h \in HandUids \cap Stored : h > u
  BY DEF NothingSkipped
<1>1. Passed(rows, j, seen)
  BY DEF MailIInv, LocalPassed
<1>2. Rowed(rows) = Stored
  BY DEF Rowed, Stored
<1>3. \A w \in Uids : rows[w] = j => u <= w
  <2> SUFFICES ASSUME NEW w \in Uids, rows[w] = j PROVE u <= w
    OBVIOUS
  <2>1. w \in Stored
    BY DEF Stored
  <2>2. UidOf(j) \in Stored /\ UidOf(j) <= w
    BY <2>1, UidIsLeast
  <2>3. u \in Nat /\ w \in Nat /\ UidOf(j) \in Nat
    BY <2>1, <2>2, UidFacts DEF Stored
  <2> QED BY <2>2, <2>3
<1> HIDE DEF j
<1> QED BY <1>1, <1>2, <1>3 DEF Passed

LEMMA TornOnes ==
  ASSUME MailIInv
  PROVE  TornAreFetchedAgain
PROOF
<1> SUFFICES ASSUME NEW u \in Stored, disk[u] # "whole"
             PROVE  u \in ServerUids /\ ~Journaled(u)
  BY DEF TornAreFetchedAgain
<1>1. u \in ServerUids
  BY DEF MailIInv, TornAreDownloads
<1>2. ASSUME Journaled(u) PROVE FALSE
  <2> DEFINE v == journal["spider"]
  <2>1. v \in inbox /\ u <= v
    BY <1>2 DEF MailIInv, MailTyped, Journaled
  <2>2. u \notin inbox
    BY <1>2 DEF MailIInv, JournaledAreStored
  <2>3. v < u
    BY <1>1, <2>1, <2>2 DEF MailIInv, InboxIsBefore
  <2>4. u \in Nat /\ v \in Nat
    BY <1>1, <2>1, UidFacts DEF MailIInv, MailTyped
  <2> HIDE DEF v
  <2> QED BY <2>1, <2>3, <2>4
<1> QED BY <1>1, <1>2

\* No mail is passed over between the mailbox, the mail store and the pipelines:
\* what the spider journaled is stored with its files, a torn mail is one it
\* fetches again, and the local input skips a mail only behind one that was put
\* into the store by hand (EmailSpider.next, LocalEmail.next, MailStorage).
THEOREM MailsAreKept == Spec => []MailsKept
PROOF
<1>1. MailIInv /\ IssueIInv => MailsKept
  <2> SUFFICES ASSUME MailIInv, IssueIInv PROVE MailsKept
    OBVIOUS
  <2>1. issueFile \in {Missing, Cut} \/ <<>> \in DOMAIN issueFile
    BY DEF IssueIInv, IssueTree, IsTree
  <2>2. TypeOK
    BY <2>1 DEF MailIInv, MailTyped, IssueIInv, TypeOK
  <2> QED BY <2>2, SkippedNone, TornOnes DEF MailIInv, MailsKept
<1> QED BY <1>1, MailsStay, IssuesStay, PTL

LEMMA RepliesFind ==
  ASSUME IssueIInv
  PROVE  RepliesGoToTheirIssue
PROOF
<1> SUFFICES ASSUME tree # Missing, NEW u \in Stored \cap HandUids,
                    ReplyOf[u] # Absent, UidOf(rows[u]) = u, IssueOf(rows[u]) # "raises"
             PROVE  tree[IssueOf(rows[u])].source = ReplyOf[u]
  BY DEF RepliesGoToTheirIssue
<1> DEFINE P == {p \in DOMAIN tree : tree[p].source = ReplyOf[u]}
<1>1. ReplyTo(rows[u]) = ReplyOf[u]
  BY DEF ReplyTo
<1>2. IssueOf(rows[u]) = IssueBySource(tree, ReplyOf[u]) /\ IssueBySource(tree, ReplyOf[u]) # Missing
  BY <1>1 DEF IssueOf
<1>3. IssueBySource(tree, ReplyOf[u]) = First(P)
  BY DEF IssueBySource
<1>4. IssueTree(tree) /\ P \in SUBSET DOMAIN tree
  BY DEF IssueIInv
<1>5. First(P) \in P
  <2> HIDE DEF P
  <2> QED BY <1>2, <1>3, <1>4, FoundFacts
<1> QED BY <1>2, <1>3, <1>5

\* A reply goes to an issue with the mail it replies to for its source; a call that
\* returned is in the file; and each issue stands under the one whose id it notes,
\* also when issues share an id (IssueParser.get_issue_by_mail, IssueStorage).
THEOREM IssuesDoAgree == Spec => []IssuesAgree
PROOF
<1>1. IssueIInv => IssuesAgree
  <2> SUFFICES ASSUME IssueIInv PROVE IssuesAgree
    OBVIOUS
  <2>1. ParentsAreAbove
    <3> SUFFICES ASSUME tree # Missing, NEW p \in DOMAIN tree
                 PROVE  /\ p # <<>> => tree[p].parent = tree[Front(p)].id
                        /\ Last(Line(p)) = <<>> /\ Len(Line(p)) = Len(p) + 1
      BY DEF ParentsAreAbove
    <3>1. IssueTree(tree)
      BY DEF IssueIInv
    <3>2. Last(Line(p)) = <<>> /\ Len(Line(p)) = Len(p) + 1
      BY <3>1, WaysLeadUp
    <3>3. p # <<>> => tree[p].parent = tree[Front(p)].id
      BY <3>1 DEF IssueTree
    <3> QED BY <3>2, <3>3
  <2> QED BY <2>1, RepliesFind DEF IssueIInv, IssuesAgree
<1> QED BY <1>1, IssuesStay, PTL

=============================================================================
