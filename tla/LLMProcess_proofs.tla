------------------------- MODULE LLMProcess_proofs -------------------------
(* Proofs about LLMProcess and its ChatSession: what memory, table and prompts *)
(* know of a session agrees, what was done is logged once, and the saved       *)
(* position of a session never goes back.                                      *)
EXTENDS LLMProcess, FunctionTheorems, SequenceTheorems, FiniteSetTheorems,
        WellFoundedInduction, TLAPS

-----------------------------------------------------------------------------
(* Numbers and sets of numbers.                                                *)

LEMMA LeastExists ==
  ASSUME NEW S \in SUBSET Nat, S # {}
  PROVE  \E i \in S : \A k \in S : i <= k
PROOF
<1> DEFINE R == {ss \in Nat \X Nat : ss[1] < ss[2]}
<1>1. IsWellFoundedOn(R, Nat)
  BY NatLessThanWellFounded DEF OpToRel
<1> HIDE DEF R
<1>2. PICK x \in S : \A y \in S : ~ (<<y, x>> \in R)
  BY <1>1, WFMin
<1>3. ASSUME NEW y \in S
      PROVE  x <= y
  <2>1. x \in Nat /\ y \in Nat /\ ~ (<<y, x>> \in R)
    BY <1>2
  <2>2. ~ (y < x)
    BY <2>1 DEF R
  <2> QED BY <2>1, <2>2
<1> QED BY <1>2, <1>3, Zenon

\* Every rank below the size of a finite set of numbers is that of a member.
LEMMA RankExists ==
  ASSUME NEW S \in SUBSET Nat, IsFiniteSet(S), NEW k \in 0 .. Cardinality(S) - 1
  PROVE  \E x \in S : Cardinality({y \in S : y < x}) = k
PROOF
<1> DEFINE Below(x) == {y \in S : y < x}
           Bad == {j \in 0 .. Cardinality(S) - 1 : ~ \E x \in S : Cardinality(Below(x)) = j}
<1>1. SUFFICES Bad = {}
  OBVIOUS
<1>2. Cardinality(S) \in Nat
  BY FS_CardinalityType
<1>t. \A a, b \in S : a < b \/ a = b \/ b < a
  <2>1. \A a \in S : a \in Nat
    OBVIOUS
  <2> QED BY <2>1
<1>l. \A a, b \in S : ~ (a <= b /\ b < a)
  <2>1. \A a \in S : a \in Nat
    OBVIOUS
  <2> QED BY <2>1
<1>3. SUFFICES ASSUME Bad # {} PROVE FALSE
  OBVIOUS
<1>4. Bad \in SUBSET Nat
  BY <1>2
<1>5. PICK j \in Bad : \A i \in Bad : j <= i
  <2> HIDE DEF Bad
  <2> QED BY <1>3, <1>4, LeastExists
<1>6. j \in 0 .. Cardinality(S) - 1 /\ ~ \E x \in S : Cardinality(Below(x)) = j
  BY <1>5
<1>7. CASE j = 0
  <2>1. S # {}
    BY <1>2, <1>6, <1>7, FS_EmptySet
  <2>2. PICK x \in S : \A y \in S : x <= y
    BY <2>1, LeastExists
  <2>3. Below(x) = {}
    BY <2>2, <1>l
  <2>4. Cardinality(Below(x)) = 0
    BY <2>3, FS_EmptySet
  <2> QED BY <1>6, <1>7, <2>4
<1>8. CASE j # 0
  <2>1. j - 1 \in 0 .. Cardinality(S) - 1 /\ ~ (j <= j - 1)
    BY <1>2, <1>6, <1>8
  <2>2. j - 1 \notin Bad
    BY <1>5, <2>1
  <2>3. PICK x \in S : Cardinality(Below(x)) = j - 1
    BY <2>1, <2>2
  <2> DEFINE Above == {y \in S : x < y}
             Upto  == Below(x) \cup {x}
  <2>4. IsFiniteSet(Below(x)) /\ x \notin Below(x)
    <3>1. Below(x) \in SUBSET S
      OBVIOUS
    <3> QED BY <3>1, FS_Subset
  <2>5. Cardinality(Upto) = j
    <3>1. Cardinality(Upto) = Cardinality(Below(x)) + 1
      <4> HIDE DEF Below
      <4> QED BY <2>4, FS_AddElement
    <3> QED BY <1>2, <1>6, <2>3, <3>1
  <2>6. Above # {}
    <3>1. SUFFICES ASSUME Above = {} PROVE FALSE
      OBVIOUS
    <3>2. S = Upto
      BY <3>1, <1>t
    <3>3. Cardinality(S) = j
      BY <2>5, <3>2
    <3> QED BY <1>2, <1>6, <3>3
  <2>7. PICK z \in Above : \A y \in Above : z <= y
    <3>1. Above \in SUBSET Nat
      OBVIOUS
    <3> HIDE DEF Above
    <3> QED BY <2>6, <3>1, LeastExists
  <2>8. z \in S /\ x < z /\ \A y \in S : x < y => z <= y
    BY <2>7
  <2>9. Below(z) = Upto
    <3>1. ASSUME NEW y \in S
          PROVE  y < z <=> y < x \/ y = x
      <4>1. x \in Nat /\ y \in Nat /\ z \in Nat
        BY <2>8
      <4> QED BY <2>8, <4>1
    <3> QED BY <2>8, <3>1
  <2> QED BY <1>6, <2>5, <2>8, <2>9
<1> QED BY <1>7, <1>8
-----------------------------------------------------------------------------
(* The chat data.                                                              *)

Entry == [id : Nat, sid : Sids, to : Nat]
RowType == [topic : Topics, pos : Nat, summary : Summaries]
ObjectType == [topic : Topics \cup {None}, pos : Nat, summary : Summaries \cup {None}]
Loss == [id : Nat, to : Nat]
ChatType == [rows : Seq(RowType), messages : Seq(Entry), cache : [Sids -> ObjectType \cup {None}],
             lost : SUBSET Loss]

Chat(rows, messages, cache, lost) ==
  [rows |-> rows, messages |-> messages, cache |-> cache, lost |-> lost]

LEMMA ChatParts ==
  ASSUME NEW r, NEW m, NEW f, NEW l
  PROVE  /\ Chat(r, m, f, l).rows = r /\ Chat(r, m, f, l).messages = m
         /\ Chat(r, m, f, l).cache = f /\ Chat(r, m, f, l).lost = l
BY DEF Chat

LEMMA ChatTyped ==
  ASSUME NEW r \in Seq(RowType), NEW m \in Seq(Entry), NEW f \in [Sids -> ObjectType \cup {None}],
         NEW l \in SUBSET Loss
  PROVE  Chat(r, m, f, l) \in ChatType
BY DEF Chat, ChatType

\* c with a first row of topic and its object, and with more messages and losses.
WithRow(c, topic) ==
  Chat(Append(c.rows, Row(topic)), c.messages, [c.cache EXCEPT ![Len(c.rows) + 1] = Fresh], c.lost)

WithMessages(c, new, gone) == Chat(c.rows, c.messages \o new, c.cache, c.lost \cup gone)

\* What is known of an object of session s: not behind its row, and in the history.
ObjectOK(c, s, o) ==
  /\ s \in DOMAIN c.rows
  /\ o.topic \in {None, c.rows[s].topic}
  /\ o.pos >= c.rows[s].pos
  /\ o.pos <= Cardinality(InSession(c, s))
  /\ c.rows[s].summary = "text" => o.summary = "text"

ChatOK(c) ==
  /\ c \in ChatType
  /\ \A r, s \in DOMAIN c.rows : c.rows[r].topic = c.rows[s].topic => r = s
  /\ \A s \in DOMAIN c.rows : c.rows[s].pos <= Cardinality(InSession(c, s))
  /\ \A s \in Sids : c.cache[s] # None => ObjectOK(c, s, c.cache[s])

\* The rows of d are those of c or later ones: no row goes, no position goes back.
Later(c, d) ==
  \A s \in DOMAIN c.rows :
    /\ s \in DOMAIN d.rows
    /\ d.rows[s].topic = c.rows[s].topic
    /\ d.rows[s].pos >= c.rows[s].pos

LEMMA ChatFacts ==
  ASSUME NEW c \in ChatType
  PROVE  /\ c = [rows |-> c.rows, messages |-> c.messages, cache |-> c.cache, lost |-> c.lost]
         /\ c.rows \in Seq(RowType) /\ Len(c.rows) \in Nat
         /\ DOMAIN c.rows = 1 .. Len(c.rows)
         /\ \A s \in DOMAIN c.rows : c.rows[s] \in RowType
         /\ c.messages \in Seq(Entry) /\ Len(c.messages) \in Nat
         /\ DOMAIN c.messages = 1 .. Len(c.messages)
         /\ \A i \in DOMAIN c.messages : c.messages[i] \in Entry
         /\ c.cache \in [Sids -> ObjectType \cup {None}]
         /\ c.lost \in SUBSET Loss
PROOF
<1>1. /\ c = [rows |-> c.rows, messages |-> c.messages, cache |-> c.cache, lost |-> c.lost]
      /\ c.rows \in Seq(RowType) /\ c.messages \in Seq(Entry)
      /\ c.cache \in [Sids -> ObjectType \cup {None}] /\ c.lost \in SUBSET Loss
  BY DEF ChatType
<1>2. /\ Len(c.rows) \in Nat /\ DOMAIN c.rows = 1 .. Len(c.rows)
      /\ \A s \in 1 .. Len(c.rows) : c.rows[s] \in RowType
  BY <1>1, LenProperties, ElementOfSeq
<1>3. /\ Len(c.messages) \in Nat /\ DOMAIN c.messages = 1 .. Len(c.messages)
      /\ \A s \in 1 .. Len(c.messages) : c.messages[s] \in Entry
  BY <1>1, LenProperties, ElementOfSeq
<1> QED BY <1>1, <1>2, <1>3

\* The messages and what was lost are set.
LEMMA ChatSet ==
  ASSUME NEW c \in ChatType, NEW m, NEW l
  PROVE  [c EXCEPT !.messages = m, !.lost = l] = Chat(c.rows, m, c.cache, l)
PROOF
<1> DEFINE r == c.rows
           q == c.messages
           f == c.cache
           k == c.lost
<1>1. c = Chat(r, q, f, k)
  BY ChatFacts DEF Chat
<1> HIDE DEF r, q, f, k
<1>2. [c EXCEPT !.messages = m] = Chat(r, m, f, k)
  BY <1>1 DEF Chat
<1>3. [Chat(r, m, f, k) EXCEPT !.lost = l] = Chat(r, m, f, l)
  BY DEF Chat
<1>4. [c EXCEPT !.messages = m, !.lost = l] = Chat(r, m, f, l)
  BY <1>2, <1>3
<1> QED BY <1>4 DEF r, f

LEMMA RowFacts ==
  ASSUME NEW r \in RowType
  PROVE  /\ r = [topic |-> r.topic, pos |-> r.pos, summary |-> r.summary]
         /\ r.topic \in Topics /\ r.pos \in Nat /\ r.summary \in Summaries
         /\ r \in ObjectType
BY DEF RowType, ObjectType

LEMMA ObjectFacts ==
  ASSUME NEW o \in ObjectType
  PROVE  /\ o = [topic |-> o.topic, pos |-> o.pos, summary |-> o.summary]
         /\ o.topic \in Topics \cup {None} /\ o.pos \in Nat
         /\ o.summary \in Summaries \cup {None}
BY DEF ObjectType

\* The ids of a session are numbers, and finitely many.
LEMMA SessionFinite ==
  ASSUME NEW c \in ChatType, NEW s
  PROVE  /\ InSession(c, s) \in SUBSET Nat /\ IsFiniteSet(InSession(c, s))
         /\ Cardinality(InSession(c, s)) \in Nat
PROOF
<1> DEFINE I == {i \in DOMAIN c.messages : c.messages[i].sid = s}
           f == [i \in I |-> c.messages[i].id]
           T == InSession(c, s)
<1>1. /\ DOMAIN c.messages = 1 .. Len(c.messages) /\ Len(c.messages) \in Nat
      /\ \A i \in DOMAIN c.messages : c.messages[i] \in Entry
  BY ChatFacts
<1>2. IsFiniteSet(DOMAIN c.messages)
  BY <1>1, FS_Interval
<1>3. IsFiniteSet(I)
  BY <1>2, FS_Subset
<1>4. T = {c.messages[i].id : i \in I}
  BY DEF InSession, Range
<1>5. f \in Surjection(I, T)
  BY <1>4 DEF Surjection
<1>6. IsFiniteSet(T)
  <2> HIDE DEF I, f, T
  <2> QED BY <1>3, <1>5, FS_Surjection
<1>7. T \in SUBSET Nat
  BY <1>1, <1>4 DEF Entry
<1> QED BY <1>6, <1>7, FS_CardinalityType

\* As topics have one row each, there is room for the row of a topic that has none.
LEMMA RowsFit ==
  ASSUME NEW c, ChatOK(c)
  PROVE  /\ Len(c.rows) <= MaxSessions
         /\ \A topic \in Topics : Stored(c, topic) = {} => Len(c.rows) + 1 \in Sids
         /\ DOMAIN c.rows \subseteq Sids
PROOF
<1> DEFINE D == DOMAIN c.rows
           f == [s \in D |-> c.rows[s].topic]
<1>1. /\ c \in ChatType
      /\ \A r, s \in D : c.rows[r].topic = c.rows[s].topic => r = s
  BY DEF ChatOK
<1>2. /\ D = 1 .. Len(c.rows) /\ Len(c.rows) \in Nat
      /\ \A s \in D : c.rows[s].topic \in Topics
  BY <1>1, ChatFacts, RowFacts
<1>3. IsFiniteSet(Topics) /\ MaxSessions \in Nat /\ Cardinality(Topics) <= MaxSessions
      /\ Cardinality(Topics) \in Nat
  BY SessionsAssumption, FS_CardinalityType
<1>4. IsFiniteSet(D) /\ Cardinality(D) = Len(c.rows)
  BY <1>2, FS_Interval
<1>5. f \in Injection(D, Topics)
  BY <1>1, <1>2 DEF Injection, IsInjective
<1>6. /\ Cardinality(D) <= Cardinality(Topics)
      /\ Cardinality(D) = Cardinality(Topics) <=> f \in Surjection(D, Topics)
  <2> HIDE DEF D, f
  <2> QED BY <1>3, <1>5, FS_Injection
<1>7. ASSUME NEW topic \in Topics, Stored(c, topic) = {}
      PROVE  Len(c.rows) + 1 \in Sids
  <2>1. f \notin Surjection(D, Topics)
    BY <1>7 DEF Stored, Surjection
  <2>2. Cardinality(D) # Cardinality(Topics)
    BY <1>6, <2>1
  <2> QED BY <1>2, <1>3, <1>4, <1>6, <2>2 DEF Sids
<1>8. D \subseteq Sids
  BY <1>2, <1>3, <1>4, <1>6 DEF Sids
<1> QED BY <1>3, <1>4, <1>6, <1>7, <1>8

\* Objects are put into the dictionary, or the dictionary is emptied.
LEMMA CachePut ==
  ASSUME NEW c, ChatOK(c),
         NEW f \in [Sids -> ObjectType \cup {None}],
         \A s \in Sids : f[s] # None => ObjectOK(c, s, f[s])
  PROVE  LET d == [c EXCEPT !.cache = f]
         IN  /\ ChatOK(d) /\ d.rows = c.rows /\ d.messages = c.messages /\ d.cache = f
             /\ d.lost = c.lost
PROOF
<1> DEFINE d == [c EXCEPT !.cache = f]
<1>1. c \in ChatType
  BY DEF ChatOK
<1>2. d = [rows |-> c.rows, messages |-> c.messages, cache |-> f, lost |-> c.lost]
  BY <1>1, ChatFacts
<1>3. d.rows = c.rows /\ d.messages = c.messages /\ d.cache = f /\ d.lost = c.lost
  BY <1>2
<1>4. d \in ChatType
  BY <1>1, <1>2, ChatFacts DEF ChatType
<1>5. \A s : InSession(d, s) = InSession(c, s)
  BY <1>3 DEF InSession
<1> HIDE DEF d
<1>6. \A s \in Sids : d.cache[s] # None => ObjectOK(d, s, d.cache[s])
  BY <1>3, <1>5 DEF ObjectOK
<1>7. ChatOK(d)
  BY <1>3, <1>4, <1>5, <1>6 DEF ChatOK
<1> QED BY <1>3, <1>7 DEF d

LEMMA ObjectPut ==
  ASSUME NEW c, ChatOK(c), NEW s \in Sids, NEW o \in ObjectType, ObjectOK(c, s, o)
  PROVE  LET d == [c EXCEPT !.cache[s] = o]
         IN  /\ ChatOK(d) /\ d.rows = c.rows /\ d.messages = c.messages
             /\ d.lost = c.lost
             /\ d.cache = [c.cache EXCEPT ![s] = o] /\ d.cache[s] = o
PROOF
<1> DEFINE f == [c.cache EXCEPT ![s] = o]
           d == [c EXCEPT !.cache = f]
<1>1. c \in ChatType /\ \A t \in Sids : c.cache[t] # None => ObjectOK(c, t, c.cache[t])
  BY DEF ChatOK
<1>2. c.cache \in [Sids -> ObjectType \cup {None}]
  BY <1>1, ChatFacts
<1>3. f \in [Sids -> ObjectType \cup {None}] /\ f[s] = o
  BY <1>2
<1>4. \A t \in Sids : f[t] # None => ObjectOK(c, t, f[t])
  BY <1>1, <1>2
<1>5. [c EXCEPT !.cache[s] = o] = d
  OBVIOUS
<1>6. ChatOK(d) /\ d.rows = c.rows /\ d.messages = c.messages /\ d.cache = f /\ d.lost = c.lost
  <2> HIDE DEF f
  <2> QED BY <1>3, <1>4, CachePut
<1> QED BY <1>3, <1>5, <1>6

LEMMA ZeroPos ==
  ASSUME NEW c \in ChatType, NEW s \in DOMAIN c.rows
  PROVE  c.rows[s].pos \in Nat /\ Cardinality(InSession(c, s)) \in Nat
BY ChatFacts, RowFacts, SessionFinite

\* The row of a session is an object of it, if one is made of it now.
LEMMA RowIsObject ==
  ASSUME NEW c, ChatOK(c), NEW s \in DOMAIN c.rows
  PROVE  c.rows[s] \in ObjectType /\ ObjectOK(c, s, c.rows[s]) /\ s \in Sids
PROOF
<1>1. c \in ChatType /\ c.rows[s].pos <= Cardinality(InSession(c, s))
  BY DEF ChatOK
<1>2. c.rows[s] \in ObjectType /\ c.rows[s].pos \in Nat
  BY <1>1, ChatFacts, RowFacts
<1>3. ObjectOK(c, s, c.rows[s])
  BY <1>1, <1>2 DEF ObjectOK
<1> QED BY <1>2, <1>3, RowsFit

\* A row for a topic that has none, and its first object.
LEMMA RowAdded ==
  ASSUME NEW c, ChatOK(c), NEW topic \in Topics, Stored(c, topic) = {}, NEW d,
         d = WithRow(c, topic)
  PROVE  LET s == Len(c.rows) + 1
         IN  /\ ChatOK(d) /\ Later(c, d) /\ d.messages = c.messages /\ d.lost = c.lost
             /\ s \in DOMAIN d.rows /\ d.rows[s].topic = topic
PROOF
<1> DEFINE s == Len(c.rows) + 1
           rows == Append(c.rows, Row(topic))
           f == [c.cache EXCEPT ![s] = Fresh]
<1>1. c \in ChatType
  BY DEF ChatOK
<1>2. /\ c.rows \in Seq(RowType) /\ Len(c.rows) \in Nat /\ DOMAIN c.rows = 1 .. Len(c.rows)
      /\ c.cache \in [Sids -> ObjectType \cup {None}]
  BY <1>1, ChatFacts
<1>3. s \in Sids
  BY RowsFit
<1>4. Row(topic) \in RowType /\ Row(topic).pos = 0 /\ Row(topic).topic = topic
      /\ Row(topic).summary = ""
  BY DEF Row, RowType, Summaries
<1>5. /\ rows \in Seq(RowType) /\ Len(rows) = s
      /\ \A i \in 1 .. Len(c.rows) : rows[i] = c.rows[i]
      /\ rows[s] = Row(topic)
  <2> DEFINE q == c.rows
             e == Row(topic)
  <2>1. q \in Seq(RowType) /\ e \in RowType
    BY <1>2, <1>4
  <2> HIDE DEF q, e
  <2>2. /\ Append(q, e) \in Seq(RowType) /\ Len(Append(q, e)) = Len(q) + 1
        /\ \A i \in 1 .. Len(q) : Append(q, e)[i] = q[i]
        /\ Append(q, e)[Len(q) + 1] = e
    BY <2>1, AppendProperties
  <2> QED BY <2>2 DEF q, e
<1>6. DOMAIN rows = 1 .. s
  BY <1>5, LenProperties
<1>7. Fresh \in ObjectType /\ Fresh.pos = 0 /\ Fresh.topic = None /\ Fresh.summary = None
  BY DEF Fresh, ObjectType
<1>8. d = Chat(rows, c.messages, f, c.lost)
  BY DEF WithRow
<1>9. f \in [Sids -> ObjectType \cup {None}]
  BY <1>2, <1>7
<1>10. /\ d.rows = rows /\ d.messages = c.messages /\ d.cache = f /\ d.lost = c.lost
       /\ d \in ChatType
  <2>1. c.messages \in Seq(Entry) /\ c.lost \in SUBSET Loss
    BY <1>1, ChatFacts
  <2> HIDE DEF rows, f
  <2>2. d.rows = rows /\ d.messages = c.messages /\ d.cache = f /\ d.lost = c.lost
    BY <1>8, ChatParts
  <2>3. d \in ChatType
    BY <1>5, <1>8, <1>9, <2>1, ChatTyped
  <2> QED BY <2>2, <2>3
<1>11. \A t : InSession(d, t) = InSession(c, t)
  BY <1>10 DEF InSession
<1>12. \A t \in DOMAIN d.rows : t \in DOMAIN c.rows \/ t = s
  BY <1>2, <1>6, <1>10
<1>13. \A t \in DOMAIN c.rows : t \in DOMAIN d.rows /\ d.rows[t] = c.rows[t] /\ t # s
  BY <1>2, <1>5, <1>6, <1>10
<1>14. s \in DOMAIN d.rows /\ d.rows[s] = Row(topic)
  BY <1>2, <1>5, <1>6, <1>10
<1>15. \A t \in DOMAIN c.rows : c.rows[t].topic # topic
  BY DEF Stored
<1>16. Cardinality(InSession(d, s)) \in Nat
  BY <1>10, SessionFinite
<1>17. \A t \in Sids : t # s => d.cache[t] = c.cache[t]
  BY <1>2, <1>10
<1>18. d.cache[s] = Fresh
  BY <1>2, <1>3, <1>10
<1> HIDE DEF s, rows, f
<1>19. \A r, t \in DOMAIN d.rows : d.rows[r].topic = d.rows[t].topic => r = t
  <2>1. \A r, t \in DOMAIN c.rows : c.rows[r].topic = c.rows[t].topic => r = t
    BY DEF ChatOK
  <2>2. \A t \in DOMAIN c.rows : d.rows[t].topic # d.rows[s].topic
    BY <1>4, <1>13, <1>14, <1>15
  <2>3. \A r, t \in DOMAIN c.rows : d.rows[r].topic = d.rows[t].topic => r = t
    BY <1>13, <2>1
  <2> QED BY <1>12, <2>2, <2>3
<1>20. \A t \in DOMAIN d.rows : d.rows[t].pos <= Cardinality(InSession(d, t))
  <2>1. d.rows[s].pos <= Cardinality(InSession(d, s))
    <3>1. d.rows[s].pos = 0
      BY <1>4, <1>14
    <3> QED BY <1>16, <3>1
  <2> QED BY <1>11, <1>12, <1>13, <2>1 DEF ChatOK
<1>21. ObjectOK(d, s, Fresh)
  <2>1. d.rows[s].pos = 0 /\ d.rows[s].summary = ""
    BY <1>4, <1>14
  <2>2. 0 >= 0 /\ 0 <= Cardinality(InSession(d, s))
    BY <1>16
  <2> QED BY <1>7, <1>14, <2>1, <2>2 DEF ObjectOK
<1>22. \A t \in Sids : d.cache[t] # None => ObjectOK(d, t, d.cache[t])
  <2>1. ASSUME NEW t \in Sids, t # s, d.cache[t] # None
        PROVE  ObjectOK(d, t, d.cache[t])
    <3>1. ObjectOK(c, t, c.cache[t])
      BY <1>17, <2>1 DEF ChatOK
    <3> QED BY <1>11, <1>13, <1>17, <2>1, <3>1 DEF ObjectOK
  <2> QED BY <1>18, <1>21, <2>1
<1>23. ChatOK(d)
  BY <1>10, <1>19, <1>20, <1>22 DEF ChatOK
<1>24. Later(c, d)
  <2>1. \A t \in DOMAIN c.rows : c.rows[t].pos \in Nat
    BY <1>1, ZeroPos
  <2> QED BY <1>13, <2>1 DEF Later
<1>25. d.messages = c.messages /\ d.lost = c.lost /\ s \in DOMAIN d.rows /\ d.rows[s].topic = topic
  BY <1>4, <1>10, <1>14
<1> QED BY <1>23, <1>24, <1>25 DEF s

LEMMA LaterSame ==
  ASSUME NEW c, ChatOK(c), NEW d, d.rows = c.rows
  PROVE  Later(c, d)
PROOF
<1>1. \A t \in DOMAIN c.rows : c.rows[t].pos \in Nat
  BY ZeroPos DEF ChatOK
<1> QED BY <1>1 DEF Later

LEMMA LaterTrans ==
  ASSUME NEW c, ChatOK(c), NEW d, ChatOK(d), NEW e, ChatOK(e), Later(c, d), Later(d, e)
  PROVE  Later(c, e)
PROOF
<1>1. ASSUME NEW t \in DOMAIN c.rows
      PROVE  /\ t \in DOMAIN e.rows
             /\ e.rows[t].topic = c.rows[t].topic
             /\ e.rows[t].pos >= c.rows[t].pos
  <2>1. /\ t \in DOMAIN d.rows /\ d.rows[t].topic = c.rows[t].topic
        /\ d.rows[t].pos >= c.rows[t].pos
    BY DEF Later
  <2>2. /\ t \in DOMAIN e.rows /\ e.rows[t].topic = d.rows[t].topic
        /\ e.rows[t].pos >= d.rows[t].pos
    BY <2>1 DEF Later
  <2>3. c.rows[t].pos \in Nat /\ d.rows[t].pos \in Nat /\ e.rows[t].pos \in Nat
    BY <2>1, <2>2, ZeroPos DEF ChatOK
  <2> QED BY <2>1, <2>2, <2>3
<1> QED BY <1>1 DEF Later

\* A set of equal things has its least one.
LEMMA LeastOfOne ==
  ASSUME NEW S \in SUBSET Nat, NEW x \in S, \A y \in S : y = x
  PROVE  Least(S) = x
PROOF
<1>1. x \in Nat /\ S = {x}
  OBVIOUS
<1>2. x <= x
  BY <1>1
<1> QED BY <1>1, <1>2 DEF Least

\* get_session gives the one session of the topic, making it if need be.
LEMMA GetSessionFacts ==
  ASSUME NEW c, ChatOK(c), NEW topic \in Topics
  PROVE  /\ ChatOK(GetSession(c, topic)) /\ Later(c, GetSession(c, topic))
         /\ GetSession(c, topic).messages = c.messages
         /\ GetSession(c, topic).lost = c.lost
         /\ SessionOf(c, topic) \in DOMAIN GetSession(c, topic).rows
         /\ GetSession(c, topic).rows[SessionOf(c, topic)].topic = topic
PROOF
<1> DEFINE s == SessionOf(c, topic)
           d == GetSession(c, topic)
<1>1. /\ c \in ChatType
      /\ \A r, t \in DOMAIN c.rows : c.rows[r].topic = c.rows[t].topic => r = t
  BY DEF ChatOK
<1>2. DOMAIN c.rows \subseteq Sids /\ Sids \subseteq Nat
  BY RowsFit, SessionsAssumption DEF Sids
<1>3. Stored(c, topic) \in SUBSET Nat
      /\ \A x, y \in Stored(c, topic) : x = y
  BY <1>1, <1>2 DEF Stored
<1>4. ASSUME NEW x \in Stored(c, topic)
      PROVE  Least(Stored(c, topic)) = x
  BY <1>3, LeastOfOne
<1>5. Cached(c, topic) \subseteq Stored(c, topic)
  <2>1. ASSUME NEW x \in Cached(c, topic)
        PROVE  x \in Stored(c, topic)
    <3>1. x \in Sids /\ c.cache[x] # None /\ c.cache[x].topic = topic
      BY DEF Cached
    <3>2. ObjectOK(c, x, c.cache[x])
      BY <3>1 DEF ChatOK
    <3>3. topic # None
      BY SessionsAssumption
    <3> QED BY <3>1, <3>2, <3>3 DEF ObjectOK, Stored
  <2> QED BY <2>1
<1>6. CASE Cached(c, topic) # {}
  <2>1. PICK x \in Cached(c, topic) : TRUE
    BY <1>6
  <2>2. Least(Cached(c, topic)) = x
    BY <1>3, <1>5, <2>1, LeastOfOne
  <2>3. s = x /\ d = c
    BY <1>6, <2>2 DEF SessionOf, GetSession
  <2>4. x \in DOMAIN c.rows /\ c.rows[x].topic = topic
    BY <1>5, <2>1 DEF Stored
  <2> QED BY <2>3, <2>4, LaterSame
<1>7. CASE Cached(c, topic) = {} /\ Stored(c, topic) # {}
  <2>1. PICK x \in Stored(c, topic) : TRUE
    BY <1>7
  <2>2. x \in DOMAIN c.rows /\ c.rows[x].topic = topic /\ s = x
    BY <1>4, <1>7, <2>1 DEF Stored, SessionOf
  <2>3. d = [c EXCEPT !.cache[x] = c.rows[x]]
    BY <1>7, <2>2 DEF GetSession
  <2>4. c.rows[x] \in ObjectType /\ ObjectOK(c, x, c.rows[x]) /\ x \in Sids
    BY <2>2, RowIsObject
  <2>5. ChatOK(d) /\ d.rows = c.rows /\ d.messages = c.messages /\ d.lost = c.lost
    <3> DEFINE o == c.rows[x]
    <3>1. d = [c EXCEPT !.cache[x] = o]
      BY <2>3
    <3>2. o \in ObjectType /\ ObjectOK(c, x, o)
      BY <2>4
    <3> HIDE DEF o, d
    <3> QED BY <2>4, <3>1, <3>2, ObjectPut
  <2> QED BY <2>2, <2>5, LaterSame
<1>8. CASE Cached(c, topic) = {} /\ Stored(c, topic) = {}
  <2>1. s = Len(c.rows) + 1
    BY <1>8 DEF SessionOf
  <2>2. s \notin DOMAIN c.rows
    <3>1. Len(c.rows) \in Nat /\ DOMAIN c.rows = 1 .. Len(c.rows)
      BY <1>1, ChatFacts
    <3> QED BY <2>1, <3>1
  <2>3. d = WithRow(c, topic)
    <3> DEFINE rows == Append(c.rows, Row(topic))
               f == [c.cache EXCEPT ![Len(c.rows) + 1] = Fresh]
    <3>1. d = [[c EXCEPT !.rows = rows] EXCEPT !.cache = f]
      BY <1>8, <2>1, <2>2 DEF GetSession
    <3>2. c = [rows |-> c.rows, messages |-> c.messages, cache |-> c.cache, lost |-> c.lost]
      BY <1>1, ChatFacts
    <3> HIDE DEF rows, f, d
    <3>3. [c EXCEPT !.rows = rows]
            = [rows |-> rows, messages |-> c.messages, cache |-> c.cache, lost |-> c.lost]
      BY <3>2
    <3>4. d = [rows |-> rows, messages |-> c.messages, cache |-> f, lost |-> c.lost]
      BY <3>1, <3>3
    <3> QED BY <3>4 DEF WithRow, Chat, rows, f
  <2> HIDE DEF s, d
  <2>4. /\ ChatOK(d) /\ Later(c, d) /\ d.messages = c.messages /\ d.lost = c.lost
        /\ s \in DOMAIN d.rows /\ d.rows[s].topic = topic
    BY <1>8, <2>1, <2>3, RowAdded
  <2> QED BY <2>4 DEF s, d
<1> QED BY <1>6, <1>7, <1>8

LEMMA GetByIdFacts ==
  ASSUME NEW c, ChatOK(c), NEW s \in DOMAIN c.rows
  PROVE  /\ GetById(c, s).cache[s] \in ObjectType
         /\ ObjectOK(c, s, GetById(c, s).cache[s])
PROOF
<1>1. c.cache \in [Sids -> ObjectType \cup {None}] /\ s \in Sids
  BY ChatFacts, RowsFit DEF ChatOK
<1>2. CASE c.cache[s] # None
  BY <1>1, <1>2 DEF GetById, ChatOK
<1>3. CASE c.cache[s] = None
  <2> DEFINE o == c.rows[s]
             d == [c EXCEPT !.cache[s] = o]
  <2>1. o \in ObjectType /\ ObjectOK(c, s, o)
    BY RowIsObject
  <2>2. GetById(c, s) = d
    BY <1>3 DEF GetById
  <2>3. d.cache[s] = o
    <3> HIDE DEF o
    <3> QED BY <1>1, <2>1, ObjectPut
  <2> QED BY <2>1, <2>2, <2>3
<1> QED BY <1>2, <1>3

LEMMA LossesTyped ==
  ASSUME NEW ids \in Seq(Nat), ids # <<>>, NEW kept
  PROVE  Losses(ids, kept) \in SUBSET Loss
PROOF
<1>1. ids[1] \in Nat /\ Range(ids) \in SUBSET Nat
  BY LenProperties, EmptySeq, ElementOfSeq, RangeOfSeq
<1> QED BY <1>1 DEF Losses, Loss

\* Entries are added to the table of messages, and to what was lost.
LEMMA MessagesAdded ==
  ASSUME NEW c, ChatOK(c), NEW new \in Seq(Entry), NEW gone \in SUBSET Loss, NEW d,
         d = WithMessages(c, new, gone)
  PROVE  /\ ChatOK(d) /\ d.rows = c.rows /\ d.messages = c.messages \o new
         /\ d.lost = c.lost \cup gone
PROOF
<1> DEFINE all == c.messages \o new
           losses == c.lost \cup gone
<1>1. c \in ChatType
  BY DEF ChatOK
<1>2. c.messages \in Seq(Entry)
  BY <1>1, ChatFacts
<1>3. /\ all \in Seq(Entry)
      /\ Range(all) = Range(c.messages) \cup Range(new)
  BY <1>2, ConcatProperties, RangeConcatenation
<1>4. d = Chat(c.rows, all, c.cache, losses)
  BY DEF WithMessages
<1>5. d.rows = c.rows /\ d.messages = all /\ d.cache = c.cache /\ d.lost = losses
  <2> HIDE DEF all, losses
  <2> QED BY <1>4, ChatParts
<1>6. d \in ChatType
  <2>1. losses \in SUBSET Loss
    BY <1>1, ChatFacts
  <2>2. /\ c.rows \in Seq(RowType) /\ c.cache \in [Sids -> ObjectType \cup {None}]
    BY <1>1, ChatFacts
  <2> HIDE DEF losses, all
  <2> QED BY <1>3, <1>4, <2>1, <2>2, ChatTyped
<1>7. \A s : InSession(c, s) \subseteq InSession(d, s)
  BY <1>3, <1>5 DEF InSession
<1> HIDE DEF all, losses
<1>8. ASSUME NEW s
      PROVE  /\ Cardinality(InSession(c, s)) <= Cardinality(InSession(d, s))
             /\ Cardinality(InSession(c, s)) \in Nat /\ Cardinality(InSession(d, s)) \in Nat
  <2>1. /\ IsFiniteSet(InSession(d, s)) /\ Cardinality(InSession(d, s)) \in Nat
        /\ Cardinality(InSession(c, s)) \in Nat
    BY <1>1, <1>6, SessionFinite
  <2>2. InSession(c, s) \in SUBSET InSession(d, s)
    BY <1>7
  <2> QED BY <2>1, <2>2, FS_Subset
<1>9. \A s \in DOMAIN d.rows : d.rows[s].pos <= Cardinality(InSession(d, s))
  <2>1. ASSUME NEW s \in DOMAIN c.rows
        PROVE  c.rows[s].pos <= Cardinality(InSession(d, s))
    <3>1. c.rows[s].pos <= Cardinality(InSession(c, s)) /\ c.rows[s].pos \in Nat
      BY <1>1, ZeroPos DEF ChatOK
    <3> QED BY <1>8, <3>1
  <2> QED BY <1>5, <2>1
<1>10. \A s \in Sids : d.cache[s] # None => ObjectOK(d, s, d.cache[s])
  <2>1. ASSUME NEW s \in Sids, c.cache[s] # None
        PROVE  ObjectOK(d, s, c.cache[s])
    <3>1. ObjectOK(c, s, c.cache[s]) /\ c.cache[s] \in ObjectType
      BY <1>1, <2>1, ChatFacts DEF ChatOK
    <3>2. c.cache[s].pos <= Cardinality(InSession(d, s))
      <4>1. c.cache[s].pos \in Nat /\ c.cache[s].pos <= Cardinality(InSession(c, s))
        BY <3>1, ObjectFacts DEF ObjectOK
      <4> QED BY <1>8, <4>1
    <3> QED BY <1>5, <3>1, <3>2 DEF ObjectOK
  <2> QED BY <1>5, <2>1
<1>11. ChatOK(d)
  BY <1>5, <1>6, <1>9, <1>10 DEF ChatOK
<1> QED BY <1>5, <1>11 DEF all, losses

\* What of a message and its reply is stored goes to the session of its topic.
LEMMA AppendToFacts ==
  ASSUME NEW c, ChatOK(c), NEW topic \in Topics, NEW ids \in Seq(Nat), ids # <<>>,
         NEW kept \in Seq(Nat)
  PROVE  LET e == AppendTo(c, topic, ids, kept)
             s == SessionOf(c, topic)
             n == Len(c.messages)
         IN  /\ ChatOK(e) /\ Later(c, e)
             /\ s \in DOMAIN e.rows /\ e.rows[s].topic = topic
             /\ Len(e.messages) = n + Len(kept)
             /\ \A i \in 1 .. n : e.messages[i] = c.messages[i]
             /\ \A i \in 1 .. Len(kept) :
                  e.messages[n + i] = [id |-> kept[i], sid |-> s, to |-> ids[1]]
             /\ e.lost = c.lost \cup Losses(ids, kept)
PROOF
<1> DEFINE d == GetSession(c, topic)
           s == SessionOf(c, topic)
           n == Len(c.messages)
           m == ids[1]
           new == [i \in DOMAIN kept |-> [id |-> kept[i], sid |-> s, to |-> m]]
           gone == Losses(ids, kept)
           e == [d EXCEPT !.messages = @ \o new, !.lost = @ \cup gone]
<1>1. /\ ChatOK(d) /\ Later(c, d) /\ d.messages = c.messages /\ d.lost = c.lost
      /\ s \in DOMAIN d.rows /\ d.rows[s].topic = topic
  BY GetSessionFacts
<1>2. AppendTo(c, topic, ids, kept) = e
  BY DEF AppendTo
<1>3. Len(kept) \in Nat /\ DOMAIN kept = 1 .. Len(kept) /\ m \in Nat
  BY LenProperties, EmptySeq, ElementOfSeq
<1>4. \A i \in 1 .. Len(kept) : kept[i] \in Nat
  BY ElementOfSeq
<1>5. s \in Sids
  BY <1>1, RowsFit
<1>g. gone \in SUBSET Loss
  BY LossesTyped
<1> HIDE DEF m
<1>6. \A i \in 1 .. Len(kept) : [id |-> kept[i], sid |-> s, to |-> m] \in Entry
  <2> HIDE DEF s
  <2> QED BY <1>3, <1>4, <1>5 DEF Entry
<1>7. new \in [1 .. Len(kept) -> Entry]
  BY <1>3, <1>6
<1>8. new \in Seq(Entry) /\ Len(new) = Len(kept)
      /\ \A i \in 1 .. Len(kept) : new[i] = [id |-> kept[i], sid |-> s, to |-> m]
  <2>1. \A i \in 1 .. Len(kept) : new[i] = [id |-> kept[i], sid |-> s, to |-> m]
    BY <1>3
  <2>2. new \in Seq(Entry)
    <3> DEFINE k == Len(kept)
    <3>1. new \in [1 .. k -> Entry] /\ k \in Nat
      BY <1>3, <1>7
    <3> HIDE DEF new, k
    <3> QED BY <3>1, SeqDef
  <2>3. Len(new) = Len(kept)
    BY <1>3
  <2> QED BY <2>1, <2>2, <2>3
<1>9. c.messages \in Seq(Entry) /\ n \in Nat
  BY ChatFacts DEF ChatOK
<1> HIDE DEF new, s, d, gone
<1>10. ChatOK(e) /\ e.rows = d.rows /\ e.messages = c.messages \o new /\ e.lost = c.lost \cup gone
  <2>1. ChatOK(d) /\ new \in Seq(Entry)
    BY <1>1, <1>8
  <2>e. e = WithMessages(d, new, gone)
    <3> DEFINE q == d.messages \o new
               l == d.lost \cup gone
    <3>1. e = [d EXCEPT !.messages = q, !.lost = l]
      OBVIOUS
    <3>2. d \in ChatType
      BY <1>1 DEF ChatOK
    <3> HIDE DEF e, q, l
    <3> QED BY <3>1, <3>2, ChatSet DEF WithMessages, q, l
  <2> HIDE DEF e
  <2>2. ChatOK(e) /\ e.rows = d.rows /\ e.messages = d.messages \o new /\ e.lost = d.lost \cup gone
    BY <1>g, <2>1, <2>e, MessagesAdded
  <2> QED BY <1>1, <2>2
<1>11. /\ Len(e.messages) = n + Len(kept)
       /\ \A i \in 1 .. n : e.messages[i] = c.messages[i]
       /\ \A i \in 1 .. Len(kept) : e.messages[n + i] = new[i]
  <2> DEFINE q == c.messages
             all == q \o new
  <2>1. q \in Seq(Entry) /\ Len(q) = n
    BY <1>9
  <2>2. e.messages = all
    BY <1>10
  <2> HIDE DEF n, q, e
  <2>3. Len(all) = n + Len(kept)
    <3>1. Len(q \o new) = Len(q) + Len(new)
      BY <1>8, <2>1, ConcatProperties
    <3> QED BY <1>8, <2>1, <3>1
  <2>4. /\ \A i \in 1 .. Len(q) : all[i] = q[i]
        /\ \A i \in 1 .. Len(new) : all[Len(q) + i] = new[i]
    <3> HIDE DEF q
    <3>1. q \in Seq(Entry) /\ new \in Seq(Entry) /\ Len(q) \in Nat /\ Len(new) \in Nat
      BY <1>3, <1>8, <1>9, <2>1
    <3> QED BY <3>1, ConcatProperties
  <2> QED BY <1>8, <2>1, <2>2, <2>3, <2>4 DEF q
<1>12. Later(c, e)
  <2>1. Later(d, e)
    BY <1>1, <1>10, LaterSame
  <2> QED BY <1>1, <1>10, <2>1, LaterTrans
<1> QED BY <1>1, <1>2, <1>8, <1>10, <1>11, <1>12 DEF s, m, gone

\* update_chat_summary saves the position of the object, which is not behind.
LEMMA UpdateFacts ==
  ASSUME NEW c, ChatOK(c), NEW s \in DOMAIN c.rows, NEW saved \in BOOLEAN
  PROVE  LET d == UpdateSummary(c, s, saved)
         IN  ChatOK(d) /\ Later(c, d) /\ d.messages = c.messages /\ d.lost = c.lost
PROOF
<1> DEFINE o == GetById(c, s).cache[s]
           object == [o EXCEPT !.summary = "text"]
           row == IF saved THEN [c.rows[s] EXCEPT !.pos = object.pos, !.summary = "text"]
                           ELSE c.rows[s]
           rows == [c.rows EXCEPT ![s] = row]
           f == [c.cache EXCEPT ![s] = object]
           d == UpdateSummary(c, s, saved)
<1>1. c \in ChatType
  BY DEF ChatOK
<1>2. /\ c.rows \in Seq(RowType) /\ Len(c.rows) \in Nat /\ DOMAIN c.rows = 1 .. Len(c.rows)
      /\ c.cache \in [Sids -> ObjectType \cup {None}] /\ c.rows[s] \in RowType
      /\ c.messages \in Seq(Entry) /\ c.lost \in SUBSET Loss
  BY <1>1, ChatFacts
<1>3. o \in ObjectType /\ ObjectOK(c, s, o) /\ s \in Sids
  BY GetByIdFacts, RowIsObject
<1>4. /\ object = [topic |-> o.topic, pos |-> o.pos, summary |-> "text"]
      /\ object \in ObjectType /\ o.pos \in Nat /\ o.topic \in {None, c.rows[s].topic}
      /\ o.pos >= c.rows[s].pos /\ o.pos <= Cardinality(InSession(c, s))
  <2> HIDE DEF o
  <2>1. o = [topic |-> o.topic, pos |-> o.pos, summary |-> o.summary]
        /\ o.pos \in Nat /\ o.topic \in Topics \cup {None}
    BY <1>3, ObjectFacts
  <2>2. object = [topic |-> o.topic, pos |-> o.pos, summary |-> "text"]
    BY <2>1
  <2>3. object \in ObjectType
    BY <2>1, <2>2 DEF ObjectType, Summaries
  <2> QED BY <1>3, <2>1, <2>2, <2>3 DEF ObjectOK
<1>5. /\ row \in RowType /\ row.topic = c.rows[s].topic
      /\ row.pos <= o.pos /\ row.pos >= c.rows[s].pos
  <2>1. c.rows[s] = [topic |-> c.rows[s].topic, pos |-> c.rows[s].pos,
                     summary |-> c.rows[s].summary] /\ c.rows[s].topic \in Topics
        /\ c.rows[s].pos \in Nat /\ c.rows[s].summary \in Summaries
    BY <1>2, RowFacts
  <2>2. object.pos = o.pos
    BY <1>4
  <2> DEFINE r == c.rows[s]
             x == object.pos
  <2>r. /\ r = [topic |-> r.topic, pos |-> r.pos, summary |-> r.summary] /\ r.topic \in Topics
        /\ r.pos \in Nat /\ r \in RowType /\ x \in Nat /\ x >= r.pos /\ x = o.pos
    BY <1>2, <1>4, <2>1, <2>2
  <2> HIDE DEF object, o, r, x
  <2>3. CASE saved
    <3>1. row = [r EXCEPT !.pos = x, !.summary = "text"]
      BY <2>3 DEF r, x
    <3> HIDE DEF row
    <3>2. row = [topic |-> r.topic, pos |-> x, summary |-> "text"]
      BY <2>r, <3>1
    <3>3. row \in RowType /\ row.topic = r.topic /\ row.pos = x
      BY <2>r, <3>2 DEF RowType, Summaries
    <3>4. x <= x
      BY <2>r
    <3> QED BY <2>r, <3>3, <3>4 DEF r
  <2>4. CASE ~saved
    <3>1. row = r
      BY <2>4 DEF r
    <3> HIDE DEF row
    <3>2. r.pos >= r.pos /\ r.pos <= x
      BY <2>r
    <3> QED BY <2>r, <3>1, <3>2 DEF r
  <2> QED BY <2>3, <2>4
<1>6. d = [rows |-> rows, messages |-> c.messages, cache |-> f, lost |-> c.lost]
  <2>1. d = [c EXCEPT !.cache = f, !.rows = rows]
    BY DEF UpdateSummary
  <2>2. c = [rows |-> c.rows, messages |-> c.messages, cache |-> c.cache, lost |-> c.lost]
    BY <1>1, ChatFacts
  <2> HIDE DEF d, f, rows
  <2> QED BY <2>1, <2>2
<1>7. /\ rows \in Seq(RowType) /\ Len(rows) = Len(c.rows) /\ rows[s] = row
      /\ \A t \in DOMAIN c.rows : t # s => rows[t] = c.rows[t]
  <2> HIDE DEF row
  <2> QED BY <1>2, <1>5, ExceptSeq
<1>8. DOMAIN rows = DOMAIN c.rows
  BY <1>2
<1>9. f \in [Sids -> ObjectType \cup {None}] /\ f[s] = object
      /\ \A t \in Sids : t # s => f[t] = c.cache[t]
  <2> HIDE DEF object
  <2> QED BY <1>2, <1>3, <1>4
<1> HIDE DEF d, rows, f, o, object, row
<1>11. d.rows = rows /\ d.messages = c.messages /\ d.cache = f /\ d.lost = c.lost
  BY <1>6
<1>12. d \in ChatType
  BY <1>2, <1>6, <1>7, <1>9 DEF ChatType
<1>13. \A t : InSession(d, t) = InSession(c, t)
  BY <1>11 DEF InSession
<1>14. object.topic = o.topic /\ object.pos = o.pos /\ object.summary = "text"
  BY <1>4
<1>15. \A t \in DOMAIN c.rows : rows[t].topic = c.rows[t].topic
  BY <1>5, <1>7
<1>16. \A q, t \in DOMAIN d.rows : d.rows[q].topic = d.rows[t].topic => q = t
  BY <1>8, <1>11, <1>15 DEF ChatOK
<1>17. \A t \in DOMAIN d.rows : d.rows[t].pos <= Cardinality(InSession(d, t))
  <2>1. row.pos <= Cardinality(InSession(c, s))
    <3>1. row.pos \in Nat /\ Cardinality(InSession(c, s)) \in Nat
      BY <1>1, <1>5, RowFacts, ZeroPos
    <3> QED BY <1>4, <1>5, <3>1
  <2> QED BY <1>7, <1>8, <1>11, <1>13, <2>1 DEF ChatOK
<1>18. ObjectOK(d, s, object)
  <2>1. row.pos \in Nat
    BY <1>5, RowFacts
  <2>2. o.pos >= row.pos
    BY <1>4, <1>5, <2>1
  <2> QED BY <1>4, <1>5, <1>7, <1>8, <1>11, <1>13, <1>14, <2>2 DEF ObjectOK
<1>19. \A t \in Sids : d.cache[t] # None => ObjectOK(d, t, d.cache[t])
  <2>1. ASSUME NEW t \in Sids, t # s, d.cache[t] # None
        PROVE  ObjectOK(d, t, d.cache[t])
    <3>1. ObjectOK(c, t, c.cache[t])
      BY <1>9, <1>11, <2>1 DEF ChatOK
    <3> QED BY <1>7, <1>8, <1>9, <1>11, <1>13, <2>1, <3>1 DEF ObjectOK
  <2> QED BY <1>9, <1>11, <1>18, <2>1
<1>20. ChatOK(d)
  BY <1>12, <1>16, <1>17, <1>19 DEF ChatOK
<1>21. Later(c, d)
  <2>1. ASSUME NEW t \in DOMAIN c.rows
        PROVE  rows[t].pos >= c.rows[t].pos
    <3>1. c.rows[t].pos \in Nat
      BY <1>1, ZeroPos
    <3>2. CASE t = s
      BY <1>5, <1>7, <3>2
    <3>3. CASE t # s
      BY <1>7, <3>1, <3>3
    <3> QED BY <3>2, <3>3
  <2> QED BY <1>8, <1>11, <1>15, <2>1 DEF Later
<1> QED BY <1>11, <1>20, <1>21 DEF d

LEMMA ReopenedFacts ==
  ASSUME NEW c, ChatOK(c)
  PROVE  /\ ChatOK(Reopened(c)) /\ Reopened(c).rows = c.rows
         /\ Reopened(c).messages = c.messages /\ Reopened(c).lost = c.lost
PROOF
<1> DEFINE f == [s \in Sids |-> None]
<1>1. f \in [Sids -> ObjectType \cup {None}] /\ \A s \in Sids : f[s] = None
  OBVIOUS
<1>2. Reopened(c) = [c EXCEPT !.cache = f]
  BY DEF Reopened
<1> HIDE DEF f
<1> QED BY <1>1, <1>2, CachePut

\* A get_session, whether its write fails or not.
LEMMA LookUpsFacts ==
  ASSUME NEW c, ChatOK(c), NEW topic \in Topics, NEW d \in LookUps(c, topic)
  PROVE  ChatOK(d) /\ Later(c, d) /\ d.messages = c.messages /\ d.lost = c.lost
BY GetSessionFacts, LaterSame DEF LookUps

\* From c to d, what is in kept was added to the log, in one session of the topic.
Added(c, d, topic, to, kept) ==
  LET n == Len(c.messages) IN
  /\ Len(d.messages) = n + Len(kept)
  /\ \A i \in 1 .. n : d.messages[i] = c.messages[i]
  /\ kept # <<>> => \E s \in DOMAIN d.rows :
       /\ d.rows[s].topic = topic
       /\ \A i \in 1 .. Len(kept) : d.messages[n + i] = [id |-> kept[i], sid |-> s, to |-> to]

\* An append: each message is in the log, or was lost.
LEMMA AppendsFacts ==
  ASSUME NEW c, ChatOK(c), NEW topic \in Topics, NEW ids \in Seq(Nat), ids # <<>>,
         NEW d \in Appends(c, topic, ids)
  PROVE  /\ ChatOK(d) /\ Later(c, d)
         /\ \E kept \in {<<>>, ids} \cup {<<i>> : i \in Range(ids)} :
              Added(c, d, topic, ids[1], kept) /\ d.lost = c.lost \cup Losses(ids, kept)
PROOF
<1> DEFINE parts == {<<>>, ids} \cup {<<i>> : i \in Range(ids)}
           gone == Losses(ids, <<>>)
<1>1. CASE \E kept \in parts : d = AppendTo(c, topic, ids, kept)
  <2>1. PICK kept \in parts : d = AppendTo(c, topic, ids, kept)
    BY <1>1
  <2>2. kept \in Seq(Nat)
    <3>1. Range(ids) \in SUBSET Nat /\ <<>> \in Seq(Nat)
      BY RangeOfSeq, EmptySeq
    <3>2. ASSUME NEW i \in Nat
          PROVE  <<i>> \in Seq(Nat)
      OBVIOUS
    <3> QED BY <3>1, <3>2
  <2> HIDE DEF parts
  <2>3. /\ ChatOK(d) /\ Later(c, d)
        /\ Added(c, d, topic, ids[1], kept) /\ d.lost = c.lost \cup Losses(ids, kept)
    <3> DEFINE s == SessionOf(c, topic)
    <3>1. /\ ChatOK(d) /\ Later(c, d) /\ s \in DOMAIN d.rows /\ d.rows[s].topic = topic
          /\ Len(d.messages) = Len(c.messages) + Len(kept)
          /\ \A i \in 1 .. Len(c.messages) : d.messages[i] = c.messages[i]
          /\ \A i \in 1 .. Len(kept) :
               d.messages[Len(c.messages) + i] = [id |-> kept[i], sid |-> s, to |-> ids[1]]
          /\ d.lost = c.lost \cup Losses(ids, kept)
      BY <2>1, <2>2, AppendToFacts
    <3> HIDE DEF s
    <3> QED BY <3>1 DEF Added
  <2> QED BY <2>3 DEF parts
<1>2. CASE d = [c EXCEPT !.lost = @ \cup gone]
  <2>1. gone \in SUBSET Loss /\ <<>> \in Seq(Entry)
    BY LossesTyped, EmptySeq
  <2>2. /\ c = [rows |-> c.rows, messages |-> c.messages, cache |-> c.cache, lost |-> c.lost]
        /\ c.messages \in Seq(Entry)
    BY ChatFacts DEF ChatOK
  <2> HIDE DEF gone
  <2>3. d = WithMessages(c, <<>>, gone)
    <3>1. c.messages \o <<>> = c.messages
      BY <2>2, ConcatEmptySeq
    <3>2. d = [rows |-> c.rows, messages |-> c.messages, cache |-> c.cache,
               lost |-> c.lost \cup gone]
      BY <1>2, <2>2
    <3> QED BY <3>1, <3>2 DEF WithMessages, Chat
  <2>4. /\ ChatOK(d) /\ d.rows = c.rows /\ d.messages = c.messages \o <<>>
        /\ d.lost = c.lost \cup gone
    <3> DEFINE none == <<>>
    <3>1. none \in Seq(Entry) /\ d = WithMessages(c, none, gone)
      BY <2>1, <2>3
    <3> HIDE DEF none
    <3>2. /\ ChatOK(d) /\ d.rows = c.rows /\ d.messages = c.messages \o none
          /\ d.lost = c.lost \cup gone
      BY <2>1, <3>1, MessagesAdded
    <3> QED BY <3>2 DEF none
  <2>5. d.messages = c.messages /\ Len(c.messages) \in Nat
    BY <2>2, <2>4, ConcatEmptySeq
  <2>6. Added(c, d, topic, ids[1], <<>>)
    <3>1. Len(<<>>) = 0 /\ Len(c.messages) = Len(c.messages) + 0
      BY <2>5
    <3> QED BY <2>5, <3>1 DEF Added
  <2>7. Later(c, d)
    BY <2>4, LaterSame
  <2> QED BY <2>4, <2>6, <2>7 DEF gone
<1> QED BY <1>1, <1>2 DEF Appends

-----------------------------------------------------------------------------
(* Reading the sessions.                                                       *)

\* The history of a session has its messages, each once.
LEMMA HistoryFacts ==
  ASSUME NEW c \in ChatType, NEW s
  PROVE  /\ History(c, s) \in Seq(Nat)
         /\ Len(History(c, s)) = Cardinality(InSession(c, s))
PROOF
<1> DEFINE S == InSession(c, s)
           n == Cardinality(S)
           P(k, id) == Cardinality({m \in S : m < id}) = k - 1
           h == [k \in 1 .. n |-> CHOOSE id \in S : P(k, id)]
<1>1. S \in SUBSET Nat /\ IsFiniteSet(S) /\ n \in Nat
  BY SessionFinite
<1>2. History(c, s) = h
  BY DEF History
<1>3. ASSUME NEW k \in 1 .. n
      PROVE  h[k] \in Nat
  <2>1. k - 1 \in 0 .. Cardinality(S) - 1
    BY <1>1
  <2>2. \E id \in S : P(k, id)
    <3> HIDE DEF S
    <3> QED BY <1>1, <2>1, RankExists
  <2>3. h[k] = CHOOSE id \in S : P(k, id)
    OBVIOUS
  <2> HIDE DEF P, h
  <2>4. h[k] \in S
    BY <2>2, <2>3, Zenon
  <2> QED BY <1>1, <2>4
<1>4. h \in [1 .. n -> Nat]
  BY <1>3
<1>5. Len(h) = n
  BY <1>1
<1> HIDE DEF h, n, S
<1> QED BY <1>1, <1>2, <1>4, <1>5, SeqDef DEF n, S

LEMMA AheadFacts ==
  ASSUME ChatOK(chat), NEW s \in DOMAIN chat.rows
  PROVE  /\ Ahead(s) \in Seq(Nat) /\ Len(Ahead(s)) \in Nat
         /\ Len(Ahead(s)) = Cardinality(InSession(chat, s)) - GetById(chat, s).cache[s].pos
PROOF
<1> DEFINE h == History(chat, s)
           p == GetById(chat, s).cache[s].pos
           n == Cardinality(InSession(chat, s))
<1>1. h \in Seq(Nat) /\ Len(h) = n /\ n \in Nat
  BY HistoryFacts, SessionFinite DEF ChatOK
<1>2. p \in Nat /\ p <= n
  BY GetByIdFacts, ObjectFacts DEF ObjectOK
<1>3. Ahead(s) = SubSeq(h, p + 1, n)
  BY <1>1 DEF Ahead
<1> HIDE DEF h, p, n
<1>4. \A i \in p + 1 .. n : h[i] \in Nat
  BY <1>1, <1>2, ElementOfSeq
<1>5. /\ SubSeq(h, p + 1, n) \in Seq(Nat)
      /\ Len(SubSeq(h, p + 1, n)) = IF p + 1 <= n THEN n - (p + 1) + 1 ELSE 0
  BY <1>1, <1>2, <1>4, SubSeqProperties
<1>6. Len(Ahead(s)) = n - p
  BY <1>1, <1>2, <1>3, <1>5
<1> QED BY <1>1, <1>2, <1>3, <1>5, <1>6 DEF n, p

\* What is counted is at most what lies ahead, and what is seen are ids.
LEMMA CountedFacts ==
  ASSUME ChatOK(chat), NEW last \in Nat, NEW n \in Nat, NEW s \in DOMAIN chat.rows,
         s = last => n <= Len(Ahead(s))
  PROVE  /\ Counted(s, last, n) \in Nat /\ Counted(s, last, n) <= Len(Ahead(s))
         /\ Seen(s, last, n) \in SUBSET Nat
PROOF
<1>1. /\ Ahead(s) \in Seq(Nat) /\ Len(Ahead(s)) \in Nat /\ s \in Nat
      /\ DOMAIN Ahead(s) = 1 .. Len(Ahead(s))
  BY AheadFacts, ChatFacts, LenProperties DEF ChatOK
<1>2. Range(Ahead(s)) \in SUBSET Nat
  BY <1>1, RangeOfSeq
<1>3. CASE s > last
  <2>1. Counted(s, last, n) = Len(Ahead(s)) /\ Seen(s, last, n) = Range(Ahead(s))
    BY <1>1, <1>3 DEF Counted, Seen
  <2> QED BY <1>1, <1>2, <2>1
<1>4. CASE s < last
  <2>1. ~ (s > last) /\ s # last
    BY <1>1, <1>4
  <2>2. Counted(s, last, n) = 0 /\ Seen(s, last, n) = {}
    BY <1>4, <2>1 DEF Counted, Seen
  <2> QED BY <1>1, <2>2
<1>5. CASE s = last
  <2> DEFINE q == SubSeq(Ahead(s), 1, n - 1)
  <2>1. Counted(s, last, n) = n /\ Seen(s, last, n) = Range(q)
    <3>1. ~ (s > last) /\ ~ (s < last)
      BY <1>1, <1>5
    <3> QED BY <1>5, <3>1 DEF Counted, Seen
  <2>2. \A i \in 1 .. n - 1 : Ahead(s)[i] \in Nat
    BY <1>1, <1>5, ElementOfSeq
  <2>3. q \in Seq(Nat)
    BY <2>2, SubSeqProperties
  <2>4. Range(q) \in SUBSET Nat
    <3> HIDE DEF q
    <3> QED BY <2>3, RangeOfSeq
  <2> QED BY <1>5, <2>1, <2>4
<1> QED BY <1>1, <1>3, <1>4, <1>5

\* Reading loads objects and moves positions on, in the objects only.
LEMMA ReadingFacts ==
  ASSUME ChatOK(chat), NEW last \in 0 .. Len(chat.rows), NEW n \in Nat,
         n > 0 => last > 0 /\ n <= Len(Ahead(last)),
         NEW big \in SUBSET DOMAIN chat.rows
  PROVE  LET d == AfterReading(last, n, big)
         IN  /\ ChatOK(d) /\ d.rows = chat.rows /\ d.messages = chat.messages
             /\ d.lost = chat.lost
             /\ \A s \in DOMAIN chat.rows : Seen(s, last, n) \in SUBSET Nat
PROOF
<1> DEFINE Obj(s) == GetById(chat, s).cache[s]
           f == [s \in Sids |->
                   IF s \in big THEN [Obj(s) EXCEPT !.pos = @ + Counted(s, last, n)]
                   ELSE IF s \in DOMAIN chat.rows /\ s >= LookedUp(last, n) THEN Obj(s)
                   ELSE chat.cache[s]]
<1>1. chat \in ChatType /\ \A s \in Sids : chat.cache[s] # None => ObjectOK(chat, s, chat.cache[s])
  BY DEF ChatOK
<1>2. chat.cache \in [Sids -> ObjectType \cup {None}] /\ last \in Nat
  BY <1>1, ChatFacts
<1>3. AfterReading(last, n, big) = [chat EXCEPT !.cache = f]
  BY DEF AfterReading
<1>4. ASSUME NEW s \in DOMAIN chat.rows
      PROVE  /\ Obj(s) \in ObjectType /\ ObjectOK(chat, s, Obj(s))
             /\ Counted(s, last, n) \in Nat /\ Counted(s, last, n) <= Len(Ahead(s))
             /\ Seen(s, last, n) \in SUBSET Nat
             /\ Len(Ahead(s)) = Cardinality(InSession(chat, s)) - Obj(s).pos
  <2>1. Len(Ahead(s)) \in Nat
        /\ Len(Ahead(s)) = Cardinality(InSession(chat, s)) - Obj(s).pos
    BY AheadFacts
  <2>2. s = last => n <= Len(Ahead(s))
    BY <2>1
  <2>3. /\ Counted(s, last, n) \in Nat /\ Counted(s, last, n) <= Len(Ahead(s))
        /\ Seen(s, last, n) \in SUBSET Nat
    BY <1>2, <2>2, CountedFacts
  <2>4. Obj(s) \in ObjectType /\ ObjectOK(chat, s, Obj(s))
    BY GetByIdFacts
  <2> QED BY <2>1, <2>3, <2>4
<1>5. ASSUME NEW s \in DOMAIN chat.rows
      PROVE  LET o == [Obj(s) EXCEPT !.pos = @ + Counted(s, last, n)]
             IN  o \in ObjectType /\ ObjectOK(chat, s, o)
  <2> DEFINE o == Obj(s)
             k == Counted(s, last, n)
             p == [o EXCEPT !.pos = o.pos + k]
  <2>1. /\ o \in ObjectType /\ ObjectOK(chat, s, o) /\ k \in Nat
        /\ k <= Cardinality(InSession(chat, s)) - o.pos
    BY <1>4
  <2>2. Cardinality(InSession(chat, s)) \in Nat /\ chat.rows[s].pos \in Nat
    BY <1>1, ZeroPos
  <2> HIDE DEF o, k
  <2>3. o = [topic |-> o.topic, pos |-> o.pos, summary |-> o.summary]
        /\ o.pos \in Nat /\ o.topic \in Topics \cup {None} /\ o.summary \in Summaries \cup {None}
    BY <2>1, ObjectFacts
  <2>4. p = [topic |-> o.topic, pos |-> o.pos + k, summary |-> o.summary]
    BY <2>3
  <2>5. p \in ObjectType
    BY <2>1, <2>3, <2>4 DEF ObjectType
  <2>6. o.pos + k >= chat.rows[s].pos /\ o.pos + k <= Cardinality(InSession(chat, s))
    BY <2>1, <2>2, <2>3 DEF ObjectOK
  <2> HIDE DEF p
  <2>7. p.topic = o.topic /\ p.pos = o.pos + k /\ p.summary = o.summary
    BY <2>4
  <2>8. ObjectOK(chat, s, p)
    BY <2>1, <2>6, <2>7 DEF ObjectOK
  <2> QED BY <2>5, <2>8 DEF p, o, k
<1> HIDE DEF Obj
<1>6. ASSUME NEW s \in Sids
      PROVE  f[s] \in ObjectType \cup {None} /\ (f[s] # None => ObjectOK(chat, s, f[s]))
  <2>1. CASE s \in big
    <3>1. f[s] = [Obj(s) EXCEPT !.pos = @ + Counted(s, last, n)]
      BY <2>1
    <3> HIDE DEF f
    <3> QED BY <1>5, <2>1, <3>1
  <2>2. CASE s \notin big /\ s \in DOMAIN chat.rows /\ s >= LookedUp(last, n)
    <3>1. f[s] = Obj(s)
      BY <2>2
    <3> HIDE DEF f
    <3> QED BY <1>4, <2>2, <3>1
  <2>3. CASE s \notin big /\ ~(s \in DOMAIN chat.rows /\ s >= LookedUp(last, n))
    <3>1. f[s] = chat.cache[s]
      BY <2>3
    <3> HIDE DEF f
    <3> QED BY <1>1, <1>2, <3>1
  <2> QED BY <2>1, <2>2, <2>3
<1>7. f \in [Sids -> ObjectType \cup {None}]
  BY <1>6
<1> DEFINE d == [chat EXCEPT !.cache = f]
<1>8. ChatOK(d) /\ d.rows = chat.rows /\ d.messages = chat.messages /\ d.lost = chat.lost
  <2> HIDE DEF f
  <2> QED BY <1>6, <1>7, CachePut
<1> HIDE DEF f, d
<1> QED BY <1>3, <1>4, <1>8 DEF d

-----------------------------------------------------------------------------
(* The coroutines.                                                             *)

Pcs == {"idle", "hear", "ask", "function", "again", "act", "dead"}
Says == Texts \cup {"nothing"}
WorkOf(p) == IF p = "worker" THEN Message ELSE {"think"} \cup TaskNames
Jobs == Message \cup {None, "think"} \cup TaskNames

\* What coroutine p works on, where it is and what it was told fit together.
ProcOK(p, j, q, w) ==
  /\ j \in WorkOf(p) \cup {None}
  /\ q \in Pcs /\ w \in Says
  /\ (w # "nothing") <=> (q = "act")
  /\ q \notin {"idle", "dead"} => j \in WorkOf(p)

ProcsTyped ==
  /\ job \in [Procs -> Jobs] /\ pc \in [Procs -> Pcs] /\ says \in [Procs -> Says]
  /\ \A p \in Procs : ProcOK(p, job[p], pc[p], says[p])

\* What a process leaves alone when its coroutine p goes on, or ends.
Others(p) ==
  \A r \in Procs \ {p} : job'[r] = job[r] /\ pc'[r] = pc[r] /\ says'[r] = says[r]

LEMMA ProcSet ==
  ASSUME ProcsTyped, NEW p \in Procs, NEW j \in Jobs, NEW q \in Pcs, NEW w \in Says,
         ProcOK(p, j, q, w),
         job' = [job EXCEPT ![p] = j],
         pc' = [pc EXCEPT ![p] = q],
         says' = [says EXCEPT ![p] = w]
  PROVE  ProcsTyped' /\ Others(p) /\ job'[p] = j /\ pc'[p] = q /\ says'[p] = w
PROOF
<1>2. job \in [Procs -> Jobs] /\ pc \in [Procs -> Pcs] /\ says \in [Procs -> Says]
  BY DEF ProcsTyped
<1>3. job' \in [Procs -> Jobs] /\ pc' \in [Procs -> Pcs] /\ says' \in [Procs -> Says]
  BY <1>2
<1>4. /\ job'[p] = j /\ pc'[p] = q /\ says'[p] = w
      /\ \A r \in Procs \ {p} : job'[r] = job[r] /\ pc'[r] = pc[r] /\ says'[r] = says[r]
  BY <1>2
<1>5. \A r \in Procs : ProcOK(r, job'[r], pc'[r], says'[r])
  BY <1>4 DEF ProcsTyped
<1>6. ProcsTyped'
  BY <1>3, <1>5 DEF ProcsTyped, ProcOK
<1> QED BY <1>4, <1>6 DEF Others

\* A coroutine that is at work on something.
LEMMA AtWork ==
  ASSUME ProcsTyped, NEW p \in Procs, pc[p] \notin {"idle", "dead"}
  PROVE  job[p] \in WorkOf(p)
BY DEF ProcsTyped, ProcOK

LEMMA ProcEnds ==
  ASSUME ProcsTyped, NEW p \in Procs,
         \/ \E what : End(p, what)
         \/ Raise(p)
  PROVE  ProcsTyped' /\ Others(p) /\ pc'[p] \in {"idle", "dead"}
PROOF
<1>1. /\ ProcOK(p, None, "idle", "nothing") /\ ProcOK(p, None, "dead", "nothing")
      /\ None \in Jobs /\ "idle" \in Pcs /\ "dead" \in Pcs /\ "nothing" \in Says
  BY DEF ProcOK, Pcs, Says, Jobs
<1>2. job' = [job EXCEPT ![p] = None] /\ says' = [says EXCEPT ![p] = "nothing"]
  BY DEF End, Raise
<1>3. \/ pc' = [pc EXCEPT ![p] = "idle"]
      \/ pc' = [pc EXCEPT ![p] = "dead"]
  BY DEF End, Raise
<1>4. CASE pc' = [pc EXCEPT ![p] = "idle"]
  <2>1. ProcsTyped' /\ Others(p) /\ pc'[p] = "idle"
    BY <1>1, <1>2, <1>4, ProcSet
  <2> QED BY <2>1
<1>5. CASE pc' = [pc EXCEPT ![p] = "dead"]
  <2>1. ProcsTyped' /\ Others(p) /\ pc'[p] = "dead"
    BY <1>1, <1>2, <1>5, ProcSet
  <2> QED BY <2>1
<1> QED BY <1>3, <1>4, <1>5

\* The process of coroutine p is begun, with work j, or goes on with it.
LEMMA ProcGoesOn ==
  ASSUME ProcsTyped, NEW p \in Procs, NEW j \in WorkOf(p),
         NEW q \in {"hear", "ask", "function", "again"}, pc[p] # "act",
         \/ job' = [job EXCEPT ![p] = j]
         \/ job' = job /\ j = job[p],
         pc' = [pc EXCEPT ![p] = q], says' = says
  PROVE  ProcsTyped' /\ Others(p) /\ pc'[p] = q /\ job'[p] = j
PROOF
<1>1. says \in [Procs -> Says] /\ job \in [Procs -> Jobs] /\ says[p] = "nothing"
  BY DEF ProcsTyped, ProcOK
<1>2. says' = [says EXCEPT ![p] = "nothing"] /\ job' = [job EXCEPT ![p] = j]
  BY <1>1
<1>3. ProcOK(p, j, q, "nothing") /\ j \in Jobs /\ q \in Pcs /\ "nothing" \in Says
  BY DEF ProcOK, Pcs, Says, WorkOf, Jobs
<1> QED BY <1>2, <1>3, ProcSet

LEMMA ProcPosts ==
  ASSUME ProcsTyped, NEW p \in Procs, NEW what \in Texts, Post(p, what),
         pc[p] \notin {"idle", "dead"}
  PROVE  ProcsTyped' /\ Others(p) /\ pc'[p] = "act" /\ job' = job
PROOF
<1>1. job \in [Procs -> Jobs] /\ job[p] \in WorkOf(p)
  BY AtWork DEF ProcsTyped
<1>2. /\ job' = [job EXCEPT ![p] = job[p]] /\ job' = job
      /\ pc' = [pc EXCEPT ![p] = "act"] /\ says' = [says EXCEPT ![p] = what]
  BY <1>1 DEF Post
<1>3. ProcOK(p, job[p], "act", what) /\ job[p] \in Jobs /\ "act" \in Pcs /\ what \in Says
  BY <1>1 DEF ProcOK, Pcs, Says, Texts
<1>4. ProcsTyped' /\ Others(p) /\ pc'[p] = "act"
  <2> DEFINE j == job[p]
  <2>1. ProcOK(p, j, "act", what) /\ j \in Jobs /\ job' = [job EXCEPT ![p] = j]
    BY <1>2, <1>3
  <2> HIDE DEF j
  <2> QED BY <1>2, <1>3, <2>1, ProcSet
<1> QED BY <1>2, <1>4

\* No message was logged, and none was lost.
SameLog(c, d) == d.messages = c.messages /\ d.lost = c.lost

LEMMA ProcPrepares ==
  ASSUME ProcsTyped, NEW c, ChatOK(c), NEW m \in Message, Prepare(c, m),
         pc["worker"] # "act"
  PROVE  /\ ChatOK(chat') /\ Later(c, chat') /\ SameLog(c, chat')
         /\ ProcsTyped' /\ Others("worker") /\ returned' = returned
         /\ \/ pc'["worker"] \in {"idle", "dead"}
            \/ pc'["worker"] = "ask" /\ job'["worker"] = m
PROOF
<1>1. "worker" \in Procs /\ m.topic \in Topics /\ m \in WorkOf("worker")
  BY DEF Procs, Message, WorkOf
<1>2. CASE ctx = None
  <2>1. Raise("worker") /\ chat' = c /\ returned' = returned
    BY <1>2 DEF Prepare, Raise
  <2>2. ProcsTyped' /\ Others("worker") /\ pc'["worker"] \in {"idle", "dead"}
    BY <1>1, <2>1, ProcEnds
  <2> QED BY <2>1, <2>2, LaterSame DEF SameLog
<1>3. CASE ctx # None
  <2>1. /\ chat' \in LookUps(c, m.topic) /\ job' = [job EXCEPT !["worker"] = m]
        /\ pc' = [pc EXCEPT !["worker"] = "ask"] /\ says' = says /\ returned' = returned
    BY <1>3 DEF Prepare
  <2>2. ProcsTyped' /\ Others("worker") /\ pc'["worker"] = "ask" /\ job'["worker"] = m
    BY <1>1, <2>1, ProcGoesOn
  <2>3. ChatOK(chat') /\ Later(c, chat') /\ SameLog(c, chat')
    BY <1>1, <2>1, LookUpsFacts DEF SameLog
  <2> QED BY <2>1, <2>2, <2>3
<1> QED BY <1>2, <1>3

-----------------------------------------------------------------------------
(* The state of a program that runs.                                           *)

LLMTyped ==
  /\ ChatOK(chat)
  /\ clock \in Nat /\ reply \in Nat
  /\ inbox \in Seq(Message)
  /\ ProcsTyped
  /\ shown \in [Sids -> SUBSET Nat]
  /\ \A s \in Sids : shown[s] # {} => s \in DOMAIN chat.rows
  /\ restarts \in 0 .. MaxRestarts /\ arrived \in 0 .. MaxMsgs

LEMMA TypedStays ==
  ASSUME LLMTyped, ChatOK(chat)', Later(chat, chat'), ProcsTyped',
         clock' \in Nat, reply' \in Nat, inbox' \in Seq(Message),
         UNCHANGED <<shown, restarts, arrived>>
  PROVE  LLMTyped' /\ Later(chat, chat')
BY DEF LLMTyped, Later

LEMMA InitTyped == Init => LLMTyped
PROOF
<1> SUFFICES ASSUME Init PROVE LLMTyped
  OBVIOUS
<1>1. /\ chat = NoChat /\ clock = 0 /\ inbox = <<>> /\ job = [p \in Procs |-> None]
      /\ pc = [p \in Procs |-> "idle"] /\ says = [p \in Procs |-> "nothing"]
      /\ reply = 0 /\ shown = NothingShown /\ restarts = 0 /\ arrived = 0
  BY DEF Init
<1>2. ProcsTyped
  BY <1>1 DEF ProcsTyped, ProcOK, Jobs, Pcs, Says, WorkOf
<1>3. ChatOK(chat)
  <2> DEFINE f == [s \in Sids |-> None]
  <2>1. chat = [rows |-> <<>>, messages |-> <<>>, cache |-> f, lost |-> {}]
    BY <1>1 DEF NoChat
  <2>2. f \in [Sids -> ObjectType \cup {None}] /\ \A s \in Sids : f[s] = None
    OBVIOUS
  <2> HIDE DEF f
  <2>3. chat \in ChatType
    BY <2>1, <2>2, EmptySeq DEF ChatType
  <2>4. DOMAIN chat.rows = {} /\ chat.cache = f
    BY <2>1
  <2> QED BY <2>2, <2>3, <2>4 DEF ChatOK
<1>4. inbox \in Seq(Message)
  BY <1>1, EmptySeq
<1>5. shown \in [Sids -> SUBSET Nat] /\ \A s \in Sids : shown[s] = {}
  BY <1>1 DEF NothingShown
<1>6. restarts \in 0 .. MaxRestarts /\ arrived \in 0 .. MaxMsgs
  <2>1. MaxRestarts \in Nat /\ MaxMsgs \in Nat
    BY LLMAssumption
  <2> QED BY <1>1, <2>1
<1> QED BY <1>1, <1>2, <1>3, <1>4, <1>5, <1>6 DEF LLMTyped

LEMMA ArriveTyped ==
  ASSUME LLMTyped, NEW t \in Topics, NEW k \in KindsOf(t), Arrive(t, k)
  PROVE  /\ LLMTyped' /\ Later(chat, chat')
         /\ clock' = clock + 1 /\ inbox' \in Seq(Message) /\ Len(inbox') = Len(inbox) + 1
         /\ \A i \in 1 .. Len(inbox) : inbox'[i] = inbox[i]
         /\ inbox'[Len(inbox) + 1].id = clock + 1
PROOF
<1> DEFINE m == [id |-> clock + 1, topic |-> t, kind |-> k]
<1>1. m \in Message /\ m.id = clock + 1
  BY DEF KindsOf, Message, LLMTyped
<1>2. /\ inbox' = Append(inbox, m) /\ clock' = clock + 1 /\ arrived < MaxMsgs
      /\ arrived' = arrived + 1 /\ chat' = chat
      /\ UNCHANGED <<job, pc, says, reply, shown, restarts>>
  BY DEF Arrive
<1> HIDE DEF m
<1>3. inbox' \in Seq(Message) /\ Len(inbox') = Len(inbox) + 1
      /\ \A i \in 1 .. Len(inbox) : inbox'[i] = inbox[i]
      /\ inbox'[Len(inbox) + 1] = m
  BY <1>1, <1>2, AppendProperties DEF LLMTyped
<1>4. clock' \in Nat /\ arrived' \in 0 .. MaxMsgs
  <2>1. MaxMsgs \in Nat
    BY LLMAssumption
  <2>2. clock \in Nat /\ arrived \in 0 .. MaxMsgs
    BY DEF LLMTyped
  <2> QED BY <1>2, <2>1, <2>2
<1>5. ProcsTyped'
  BY <1>2 DEF LLMTyped, ProcsTyped
<1>6. LLMTyped'
  BY <1>2, <1>3, <1>4, <1>5 DEF LLMTyped
<1>7. Later(chat, chat')
  BY <1>2, LaterSame DEF LLMTyped
<1> QED BY <1>1, <1>2, <1>3, <1>6, <1>7

\* The first message of the queue is taken out of it.
LEMMA HeadFacts ==
  ASSUME LLMTyped, inbox # <<>>
  PROVE  /\ Head(inbox) \in Message /\ Head(inbox).topic \in Topics /\ Head(inbox).id \in Nat
         /\ Head(inbox) = inbox[1] /\ 1 \in 1 .. Len(inbox) /\ Len(inbox) \in Nat
         /\ Tail(inbox) \in Seq(Message) /\ Len(Tail(inbox)) = Len(inbox) - 1
         /\ \A i \in 1 .. Len(inbox) - 1 : Tail(inbox)[i] = inbox[i + 1]
PROOF
<1>1. inbox \in Seq(Message)
  BY DEF LLMTyped
<1>2. Len(inbox) \in Nat \ {0}
  BY <1>1, EmptySeq
<1>3. /\ Head(inbox) \in Message /\ Tail(inbox) \in Seq(Message)
      /\ Len(Tail(inbox)) = Len(inbox) - 1
      /\ \A i \in 1 .. Len(inbox) - 1 : Tail(inbox)[i] = inbox[i + 1]
  BY <1>1, HeadTailProperties
<1>4. Head(inbox).topic \in Topics /\ Head(inbox).id \in Nat
  BY <1>3 DEF Message
<1>5. Head(inbox) = inbox[1]
  BY <1>1, <1>2
<1> QED BY <1>2, <1>3, <1>4, <1>5

LEMMA GroupTyped ==
  ASSUME LLMTyped, TakeGroupMessage
  PROVE  /\ LLMTyped' /\ Later(chat, chat')
         /\ \E kept \in {<<>>, <<Head(inbox).id>>} :
              /\ Added(chat, chat', Head(inbox).topic, Head(inbox).id, kept)
              /\ chat'.lost = chat.lost \cup Losses(<<Head(inbox).id>>, kept)
PROOF
<1> DEFINE m == Head(inbox)
           ids == <<m.id>>
<1>1. /\ inbox # <<>> /\ inbox' = Tail(inbox)
      /\ UNCHANGED <<clock, job, pc, says, reply, shown, restarts, arrived>>
  BY DEF TakeGroupMessage
<1>2. m \in Message /\ m.topic \in Topics /\ m.id \in Nat /\ inbox' \in Seq(Message)
  BY <1>1, HeadFacts
<1>3. ChatOK(chat)
  BY DEF LLMTyped
<1>4. PICK c \in LookUps(chat, m.topic) : chat' \in Appends(c, m.topic, ids)
  BY DEF TakeGroupMessage
<1>5. ids \in Seq(Nat) /\ ids # <<>> /\ ids[1] = m.id /\ Range(ids) = {m.id}
  <2>1. ids \in Seq(Nat) /\ ids # <<>> /\ ids[1] = m.id /\ DOMAIN ids = {1}
    BY <1>2
  <2> HIDE DEF ids
  <2> QED BY <2>1 DEF Range
<1>6. ids = <<m.id>>
  OBVIOUS
<1> HIDE DEF m, ids
<1>7. ChatOK(c) /\ Later(chat, c) /\ SameLog(chat, c)
  BY <1>2, <1>3, <1>4, LookUpsFacts DEF SameLog
<1>8. /\ ChatOK(chat') /\ Later(c, chat')
      /\ \E kept \in {<<>>, ids} \cup {<<i>> : i \in Range(ids)} :
           Added(c, chat', m.topic, ids[1], kept) /\ chat'.lost = c.lost \cup Losses(ids, kept)
  BY <1>2, <1>4, <1>5, <1>7, AppendsFacts
<1>9. Later(chat, chat')
  BY <1>3, <1>7, <1>8, LaterTrans
<1>10. LLMTyped' /\ Later(chat, chat')
  <2>1. ProcsTyped' /\ clock' \in Nat /\ reply' \in Nat
    BY <1>1 DEF LLMTyped, ProcsTyped
  <2> QED BY <1>1, <1>2, <1>8, <1>9, <2>1, TypedStays
<1>11. PICK kept \in {<<>>, ids} :
         Added(c, chat', m.topic, m.id, kept) /\ chat'.lost = c.lost \cup Losses(ids, kept)
  BY <1>5, <1>6, <1>8
<1>12. Added(chat, chat', m.topic, m.id, kept)
       /\ chat'.lost = chat.lost \cup Losses(ids, kept)
  BY <1>7, <1>11 DEF Added, SameLog
<1> QED BY <1>6, <1>10, <1>12 DEF m

\* What comes of an answer, or of a function: the process of p ends with an error,
\* reaches its actions, raises, or waits again.
Completes(p) ==
  /\ pc[p] \in {"ask", "function", "again"}
  /\ \/ /\ \E what \in {"refused", "error"} : End(p, what)
        /\ UNCHANGED <<clock, reply, posted>>
     \/ \E what \in Texts : Post(p, what)
     \/ Raise(p) /\ UNCHANGED <<clock, reply, posted>>
     \/ /\ \E q \in {"function", "again"} : pc' = [pc EXCEPT ![p] = q]
        /\ UNCHANGED <<job, says, returned, clock, reply, posted>>
  /\ UNCHANGED <<chat, ctx, inbox, shown, worklog, restarts, arrived>>

LEMMA CompletesSteps ==
  ASSUME NEW p \in Procs,
         \/ \E c \in Codes : Answer(p, c) \/ AnswerAgain(p, c)
         \/ \E how \in {"string", "no string", "too long"} : FunctionEnds(p, how)
  PROVE  Completes(p)
PROOF
<1> "ignore" \in Texts
  BY DEF Texts
<1>1. ASSUME NEW c \in Codes, Answer(p, c)
      PROVE  Completes(p)
  <2>1. CASE c # "OK"
    <3> DEFINE what == IF c = "plain OK" THEN "refused" ELSE "error"
    <3>1. End(p, what) /\ what \in {"refused", "error"} /\ UNCHANGED <<clock, reply, posted>>
      BY <1>1, <2>1 DEF Answer
    <3>2. pc[p] = "ask" /\ UNCHANGED <<chat, ctx, inbox, shown, worklog, restarts, arrived>>
      BY <1>1 DEF Answer
    <3> HIDE DEF what
    <3> QED BY <3>1, <3>2 DEF Completes
  <2>2. CASE c = "OK"
    BY <1>1, <2>2 DEF Answer, Completes
  <2> QED BY <2>1, <2>2
<1>2. ASSUME NEW c \in Codes, AnswerAgain(p, c)
      PROVE  Completes(p)
  <2>1. \/ \E what \in Texts : Post(p, what)
        \/ /\ pc' = [pc EXCEPT ![p] = "function"]
           /\ UNCHANGED <<job, says, returned, clock, reply, posted>>
        \/ Raise(p) /\ UNCHANGED <<clock, reply, posted>>
    BY <1>2 DEF AnswerAgain
  <2>2. pc[p] = "again" /\ UNCHANGED <<chat, ctx, inbox, shown, worklog, restarts, arrived>>
    BY <1>2 DEF AnswerAgain
  <2> QED BY <2>1, <2>2 DEF Completes
<1>3. ASSUME NEW how \in {"string", "no string", "too long"}, FunctionEnds(p, how)
      PROVE  Completes(p)
  BY <1>3 DEF FunctionEnds, Completes
<1> QED BY <1>1, <1>2, <1>3

LEMMA CompletesTyped ==
  ASSUME LLMTyped, NEW p \in Procs, Completes(p)
  PROVE  /\ LLMTyped' /\ Later(chat, chat') /\ Others(p)
         /\ \/ pc'[p] \in {"idle", "dead"}
            \/ pc'[p] = "act" /\ \E what \in Texts : Post(p, what)
            \/ /\ pc'[p] \in {"function", "again"}
               /\ UNCHANGED <<job, says, returned, clock, reply, posted>>
PROOF
<1>1. ProcsTyped /\ pc[p] \in {"ask", "function", "again"} /\ job[p] \in WorkOf(p)
  BY AtWork DEF LLMTyped, Completes
<1>2. /\ UNCHANGED <<chat, inbox, shown, restarts, arrived>>
      /\ clock \in Nat /\ reply \in Nat /\ inbox \in Seq(Message)
      /\ ChatOK(chat) /\ ChatOK(chat') /\ Later(chat, chat')
  BY LaterSame DEF LLMTyped, Completes
<1>3. CASE \/ \E what \in {"refused", "error"} : End(p, what) /\ UNCHANGED <<clock, reply>>
           \/ Raise(p) /\ UNCHANGED <<clock, reply>>
  <2>1. ProcsTyped' /\ Others(p) /\ pc'[p] \in {"idle", "dead"}
    BY <1>1, <1>3, ProcEnds
  <2> QED BY <1>2, <1>3, <2>1, TypedStays
<1>4. CASE \E what \in Texts : Post(p, what)
  <2>1. PICK what \in Texts : Post(p, what)
    BY <1>4
  <2>2. ProcsTyped' /\ Others(p) /\ pc'[p] = "act"
    BY <1>1, <2>1, ProcPosts
  <2>3. clock' \in Nat /\ reply' \in Nat
    BY <1>2, <2>1 DEF Post
  <2> QED BY <1>2, <1>4, <2>2, <2>3, TypedStays
<1>5. CASE /\ \E q \in {"function", "again"} : pc' = [pc EXCEPT ![p] = q]
           /\ UNCHANGED <<job, says, returned, clock, reply, posted>>
  <2>1. PICK q \in {"function", "again"} : pc' = [pc EXCEPT ![p] = q]
    BY <1>5
  <2> DEFINE j == job[p]
  <2>2. j \in WorkOf(p) /\ q \in {"hear", "ask", "function", "again"} /\ job' = job
        /\ says' = says /\ pc[p] # "act"
    BY <1>1, <1>5
  <2>3. ProcsTyped' /\ Others(p) /\ pc'[p] = q
    <3>1. job' = job /\ j = job[p]
      BY <1>5
    <3> HIDE DEF j
    <3> QED BY <1>1, <2>1, <2>2, <3>1, ProcGoesOn
  <2>4. clock' \in Nat /\ reply' \in Nat /\ inbox' \in Seq(Message)
        /\ UNCHANGED <<shown, restarts, arrived>>
    BY <1>2, <1>5
  <2>5. LLMTyped' /\ Later(chat, chat')
    BY <1>2, <2>3, <2>4, TypedStays
  <2> QED BY <1>5, <2>3, <2>5
<1> QED BY <1>3, <1>4, <1>5 DEF Completes

\* The worker takes a message, from the queue or from the speech node.
LEMMA TakeTyped ==
  ASSUME LLMTyped, TakeMessage
  PROVE  /\ LLMTyped' /\ Later(chat, chat') /\ SameLog(chat, chat')
         /\ Others("worker") /\ returned' = returned /\ inbox # <<>> /\ inbox' = Tail(inbox)
         /\ \/ pc'["worker"] \in {"idle", "dead"}
            \/ pc'["worker"] \in {"hear", "ask"} /\ job'["worker"] = Head(inbox)
PROOF
<1> DEFINE m == Head(inbox)
<1>1. /\ inbox # <<>> /\ inbox' = Tail(inbox) /\ pc["worker"] = "idle"
      /\ UNCHANGED <<clock, reply, shown, restarts, arrived>>
  BY DEF TakeMessage
<1>2. m \in Message /\ m.topic \in Topics /\ inbox' \in Seq(Message)
  BY <1>1, HeadFacts
<1>3. ChatOK(chat) /\ ProcsTyped /\ clock' \in Nat /\ reply' \in Nat
  BY <1>1 DEF LLMTyped
<1>4. \/ Prepare(chat, m)
      \/ \E d \in LookUps(chat, m.topic) : Prepare(d, m)
      \/ /\ job' = [job EXCEPT !["worker"] = m]
         /\ pc' = [pc EXCEPT !["worker"] = "hear"]
         /\ UNCHANGED <<chat, says, returned>>
  BY DEF TakeMessage
<1> HIDE DEF m
<1>5. CASE Prepare(chat, m)
  <2>1. /\ ChatOK(chat') /\ Later(chat, chat') /\ SameLog(chat, chat')
        /\ ProcsTyped' /\ Others("worker") /\ returned' = returned
        /\ \/ pc'["worker"] \in {"idle", "dead"}
           \/ pc'["worker"] = "ask" /\ job'["worker"] = m
    BY <1>1, <1>2, <1>3, <1>5, ProcPrepares
  <2>2. LLMTyped'
    BY <1>1, <1>2, <1>3, <2>1, TypedStays
  <2> QED BY <1>1, <2>1, <2>2 DEF m
<1>6. CASE \E d \in LookUps(chat, m.topic) : Prepare(d, m)
  <2>2. PICK c \in LookUps(chat, m.topic) : Prepare(c, m)
    BY <1>6
  <2>1. ChatOK(c) /\ Later(chat, c) /\ SameLog(chat, c)
    BY <1>2, <1>3, <2>2, LookUpsFacts DEF SameLog
  <2>3. /\ ChatOK(chat') /\ Later(c, chat') /\ SameLog(c, chat')
        /\ ProcsTyped' /\ Others("worker") /\ returned' = returned
        /\ \/ pc'["worker"] \in {"idle", "dead"}
           \/ pc'["worker"] = "ask" /\ job'["worker"] = m
    BY <1>1, <1>2, <1>3, <2>1, <2>2, ProcPrepares
  <2>4. Later(chat, chat') /\ SameLog(chat, chat')
    BY <1>3, <2>1, <2>3, LaterTrans DEF SameLog
  <2>5. LLMTyped'
    BY <1>1, <1>2, <1>3, <2>3, <2>4, TypedStays
  <2> QED BY <1>1, <2>1, <2>3, <2>4, <2>5 DEF m
<1>7. CASE /\ job' = [job EXCEPT !["worker"] = m]
           /\ pc' = [pc EXCEPT !["worker"] = "hear"]
           /\ UNCHANGED <<chat, says, returned>>
  <2>1. "worker" \in Procs /\ m \in WorkOf("worker") /\ pc["worker"] # "act"
        /\ "hear" \in {"hear", "ask", "function", "again"}
    BY <1>1, <1>2 DEF Procs, WorkOf
  <2>2. ProcsTyped' /\ Others("worker") /\ pc'["worker"] = "hear" /\ job'["worker"] = m
    BY <1>3, <1>7, <2>1, ProcGoesOn
  <2>3. ChatOK(chat') /\ Later(chat, chat') /\ SameLog(chat, chat')
    BY <1>3, <1>7, LaterSame DEF SameLog
  <2>4. LLMTyped'
    BY <1>1, <1>2, <1>3, <2>2, <2>3, TypedStays
  <2> QED BY <1>1, <1>7, <2>2, <2>3, <2>4 DEF m
<1> QED BY <1>4, <1>5, <1>6, <1>7

LEMMA HeardTyped ==
  ASSUME LLMTyped, NEW code, Heard(code)
  PROVE  /\ LLMTyped' /\ Later(chat, chat') /\ SameLog(chat, chat')
         /\ Others("worker") /\ returned' = returned
         /\ \/ pc'["worker"] \in {"idle", "dead"}
            \/ pc'["worker"] = "ask" /\ job'["worker"] = job["worker"]
PROOF
<1> DEFINE m == job["worker"]
<1>1. /\ inbox' = inbox /\ pc["worker"] = "hear"
      /\ UNCHANGED <<clock, reply, shown, restarts, arrived>>
  BY DEF Heard
<1>2. /\ ChatOK(chat) /\ ProcsTyped /\ clock' \in Nat /\ reply' \in Nat
      /\ inbox' \in Seq(Message) /\ "worker" \in Procs
  BY <1>1 DEF LLMTyped, Procs
<1>3. m \in Message
  BY <1>1, <1>2, AtWork DEF WorkOf
<1>4. \/ Prepare(chat, m)
      \/ Raise("worker") /\ chat' = chat
  BY DEF Heard
<1>5. CASE Prepare(chat, m)
  <2> HIDE DEF m
  <2>1. /\ ChatOK(chat') /\ Later(chat, chat') /\ SameLog(chat, chat')
        /\ ProcsTyped' /\ Others("worker") /\ returned' = returned
        /\ \/ pc'["worker"] \in {"idle", "dead"}
           \/ pc'["worker"] = "ask" /\ job'["worker"] = m
    BY <1>1, <1>2, <1>3, <1>5, ProcPrepares
  <2>2. LLMTyped'
    BY <1>1, <1>2, <2>1, TypedStays
  <2> QED BY <2>1, <2>2 DEF m
<1>6. CASE Raise("worker") /\ chat' = chat
  <2>1. ProcsTyped' /\ Others("worker") /\ pc'["worker"] \in {"idle", "dead"}
    BY <1>2, <1>6, ProcEnds
  <2>2. ChatOK(chat') /\ Later(chat, chat') /\ SameLog(chat, chat') /\ returned' = returned
    BY <1>2, <1>6, LaterSame DEF Raise, SameLog
  <2>3. LLMTyped'
    BY <1>1, <1>2, <2>1, <2>2, TypedStays
  <2> QED BY <1>6, <2>1, <2>2, <2>3
<1> QED BY <1>4, <1>5, <1>6

LEMMA ThinkTyped ==
  ASSUME LLMTyped, Think
  PROVE  /\ LLMTyped' /\ Later(chat, chat') /\ SameLog(chat, chat')
         /\ Others("timer") /\ pc["timer"] = "idle"
         /\ \/ pc' = pc /\ job' = job
            \/ pc'["timer"] = "ask" /\ job'["timer"] = "think"
PROOF
<1>1. pc["timer"] = "idle" /\ UNCHANGED <<clock, inbox, says, reply, restarts, arrived>>
  BY DEF Think
<1>2. /\ ChatOK(chat) /\ ProcsTyped /\ clock' \in Nat /\ reply' \in Nat
      /\ inbox' \in Seq(Message) /\ "timer" \in Procs
  BY <1>1 DEF LLMTyped, Procs
<1>3. PICK last \in 0 .. Len(chat.rows), n \in 0 .. 2 * MaxMsgs :
        /\ n > 0 => last > 0 /\ n <= Len(Ahead(last)) /\ ~IsFresh(last)
        /\ \E big \in SUBSET {s \in DOMAIN chat.rows : Seen(s, last, n) # {}} :
             /\ chat' = AfterReading(last, n, big)
             /\ \/ UNCHANGED <<job, pc, shown>>
                \/ /\ job' = [job EXCEPT !["timer"] = "think"]
                   /\ pc' = [pc EXCEPT !["timer"] = "ask"]
                   /\ shown' = [s \in Sids |-> IF s \in big THEN Seen(s, last, n) ELSE {}]
  BY DEF Think
<1>4. PICK big \in SUBSET DOMAIN chat.rows :
        /\ chat' = AfterReading(last, n, big)
        /\ \/ UNCHANGED <<job, pc, shown>>
           \/ /\ job' = [job EXCEPT !["timer"] = "think"]
              /\ pc' = [pc EXCEPT !["timer"] = "ask"]
              /\ shown' = [s \in Sids |-> IF s \in big THEN Seen(s, last, n) ELSE {}]
  BY <1>3
<1>5. n \in Nat
  <2>1. MaxMsgs \in Nat
    BY LLMAssumption
  <2> QED BY <1>3, <2>1
<1>6. /\ ChatOK(chat') /\ chat'.rows = chat.rows /\ chat'.messages = chat.messages
      /\ SameLog(chat, chat')
      /\ \A s \in DOMAIN chat.rows : Seen(s, last, n) \in SUBSET Nat
  BY <1>2, <1>3, <1>4, <1>5, ReadingFacts DEF SameLog
<1>7. Later(chat, chat')
  BY <1>2, <1>6, LaterSame
<1>8. CASE UNCHANGED <<job, pc, shown>>
  <2>1. ProcsTyped' /\ Others("timer")
    BY <1>1, <1>2, <1>8 DEF ProcsTyped, Others
  <2>2. LLMTyped'
    BY <1>1, <1>2, <1>6, <1>7, <1>8, <2>1, TypedStays
  <2> QED BY <1>1, <1>6, <1>7, <1>8, <2>1, <2>2
<1>9. CASE /\ job' = [job EXCEPT !["timer"] = "think"]
           /\ pc' = [pc EXCEPT !["timer"] = "ask"]
           /\ shown' = [s \in Sids |-> IF s \in big THEN Seen(s, last, n) ELSE {}]
  <2>1. "think" \in WorkOf("timer") /\ pc["timer"] # "act" /\ says' = says
        /\ "ask" \in {"hear", "ask", "function", "again"}
    BY <1>1 DEF WorkOf
  <2>2. ProcsTyped' /\ Others("timer") /\ pc'["timer"] = "ask" /\ job'["timer"] = "think"
    BY <1>2, <1>9, <2>1, ProcGoesOn
  <2>3. /\ shown' \in [Sids -> SUBSET Nat]
        /\ \A s \in Sids : shown'[s] # {} => s \in DOMAIN chat'.rows
    BY <1>4, <1>6, <1>9
  <2>4. LLMTyped'
    BY <1>1, <1>2, <1>6, <2>2, <2>3 DEF LLMTyped
  <2> QED BY <1>1, <1>6, <1>7, <2>2, <2>4
<1> QED BY <1>4, <1>8, <1>9

LEMMA StartTyped ==
  ASSUME LLMTyped, NEW name \in TaskNames, StartTask(name)
  PROVE  /\ LLMTyped' /\ Later(chat, chat') /\ Others("timer")
         /\ pc["timer"] = "idle" /\ pc'["timer"] = "ask" /\ job'["timer"] = name
PROOF
<1>1. /\ pc["timer"] = "idle" /\ "timer" \in Procs
      /\ UNCHANGED <<chat, clock, inbox, reply, says, shown, restarts, arrived>>
      /\ job' = [job EXCEPT !["timer"] = name] /\ pc' = [pc EXCEPT !["timer"] = "ask"]
  BY DEF StartTask, Procs
<1>2. /\ ChatOK(chat') /\ Later(chat, chat') /\ ProcsTyped /\ clock' \in Nat /\ reply' \in Nat
      /\ inbox' \in Seq(Message)
  BY <1>1, LaterSame DEF LLMTyped
<1>3. name \in WorkOf("timer") /\ pc["timer"] # "act"
      /\ "ask" \in {"hear", "ask", "function", "again"}
  BY <1>1 DEF WorkOf
<1>4. ProcsTyped' /\ Others("timer") /\ pc'["timer"] = "ask" /\ job'["timer"] = name
  BY <1>1, <1>2, <1>3, ProcGoesOn
<1>5. LLMTyped'
  BY <1>1, <1>2, <1>4, TypedStays
<1> QED BY <1>1, <1>2, <1>4, <1>5

LEMMA SummariseTyped ==
  ASSUME LLMTyped, NEW s \in Sids, Summarise(s)
  PROVE  /\ LLMTyped' /\ Later(chat, chat') /\ SameLog(chat, chat')
PROOF
<1>1. /\ shown[s] # {}
      /\ UNCHANGED <<clock, inbox, job, pc, says, reply, shown, restarts, arrived>>
  BY DEF Summarise
<1>2. ChatOK(chat) /\ s \in DOMAIN chat.rows
  BY <1>1 DEF LLMTyped
<1>3. ChatOK(chat') /\ Later(chat, chat') /\ SameLog(chat, chat')
  <2>1. PICK saved \in BOOLEAN : chat' = UpdateSummary(chat, s, saved)
    BY DEF Summarise
  <2> QED BY <1>2, <2>1, UpdateFacts DEF SameLog
<1>4. ProcsTyped' /\ clock' \in Nat /\ reply' \in Nat /\ inbox' \in Seq(Message)
  BY <1>1 DEF LLMTyped, ProcsTyped
<1> QED BY <1>1, <1>3, <1>4, TypedStays

LEMMA TimerActedTyped ==
  ASSUME LLMTyped, ThinkingActed \/ \E how : TaskActed(how)
  PROVE  /\ LLMTyped' /\ Later(chat, chat') /\ SameLog(chat, chat')
         /\ Others("timer") /\ pc'["timer"] \in {"idle", "dead"} /\ returned' = returned
PROOF
<1>1. /\ End("timer", "done") \/ Raise("timer")
      /\ shown' \in {shown, NothingShown} /\ "timer" \in Procs
      /\ UNCHANGED <<chat, clock, inbox, reply, restarts, arrived>>
  BY DEF ThinkingActed, TaskActed, AppendWorklog, WorklogFails, Procs
<1>2. ProcsTyped' /\ Others("timer") /\ pc'["timer"] \in {"idle", "dead"}
  BY <1>1, ProcEnds DEF LLMTyped
<1>3. ChatOK(chat) /\ Later(chat, chat') /\ SameLog(chat, chat')
  BY <1>1, LaterSame DEF LLMTyped, SameLog
<1>4. /\ shown' \in [Sids -> SUBSET Nat]
      /\ \A s \in Sids : shown'[s] # {} => s \in DOMAIN chat.rows
  <2>1. NothingShown \in [Sids -> SUBSET Nat] /\ \A s \in Sids : NothingShown[s] = {}
    BY DEF NothingShown
  <2> QED BY <1>1, <2>1 DEF LLMTyped
<1>5. LLMTyped'
  BY <1>1, <1>2, <1>3, <1>4 DEF LLMTyped
<1>6. returned' = returned
  BY <1>1 DEF End, Raise
<1> QED BY <1>1, <1>2, <1>3, <1>5, <1>6

\* The actions of a message end: both entries were tried, or the worker is dead.
LEMMA MessageActedTyped ==
  ASSUME LLMTyped, NEW how, MessageActed(how)
  PROVE  /\ LLMTyped' /\ Later(chat, chat') /\ Others("worker")
         /\ pc'["worker"] \in {"idle", "dead"}
         /\ \/ chat' = chat /\ returned' = returned
            \/ LET m == job["worker"]
                   ids == <<m.id, reply>>
               IN  /\ m \in Message
                   /\ \E kept \in {<<>>, ids, <<m.id>>, <<reply>>} :
                        /\ Added(chat, chat', m.topic, m.id, kept)
                        /\ chat'.lost = chat.lost \cup Losses(ids, kept)
                   /\ returned' = returned \cup {[msg |-> m, what |-> "answered"]}
PROOF
<1> DEFINE m == job["worker"]
           ids == <<m.id, reply>>
<1>1. /\ UNCHANGED <<clock, inbox, reply, shown, restarts, arrived>>
      /\ pc["worker"] = "act" /\ "worker" \in Procs
  BY DEF MessageActed, Procs
<1>2. /\ ChatOK(chat) /\ ProcsTyped /\ clock' \in Nat /\ reply' \in Nat
      /\ inbox' \in Seq(Message) /\ reply \in Nat
  BY <1>1 DEF LLMTyped
<1>3. m \in Message /\ m.topic \in Topics /\ m.id \in Nat
  <2>1. m \in Message
    BY <1>1, <1>2, AtWork DEF WorkOf
  <2> QED BY <2>1 DEF Message
<1>4. \/ Raise("worker") /\ chat' = chat
      \/ chat' \in Appends(chat, m.topic, ids) /\ End("worker", "answered")
  BY DEF MessageActed
<1>5. CASE Raise("worker") /\ chat' = chat
  <2>1. ProcsTyped' /\ Others("worker") /\ pc'["worker"] \in {"idle", "dead"}
    BY <1>1, <1>2, <1>5, ProcEnds
  <2>2. ChatOK(chat') /\ Later(chat, chat') /\ returned' = returned
    BY <1>2, <1>5, LaterSame DEF Raise
  <2>3. LLMTyped'
    BY <1>1, <1>2, <2>1, <2>2, TypedStays
  <2> QED BY <1>5, <2>1, <2>2, <2>3
<1>6. CASE chat' \in Appends(chat, m.topic, ids) /\ End("worker", "answered")
  <2>1. ProcsTyped' /\ Others("worker") /\ pc'["worker"] \in {"idle", "dead"}
    BY <1>1, <1>2, <1>6, ProcEnds
  <2>2. returned' = returned \cup {[msg |-> m, what |-> "answered"]}
    BY <1>6 DEF End
  <2>3. ids = <<m.id, reply>>
    OBVIOUS
  <2>4. ids \in Seq(Nat) /\ ids # <<>> /\ ids[1] = m.id /\ Range(ids) = {m.id, reply}
    <3>1. ids \in Seq(Nat) /\ ids # <<>> /\ ids[1] = m.id /\ ids[2] = reply
          /\ DOMAIN ids = {1, 2}
      BY <1>2, <1>3
    <3> HIDE DEF ids
    <3> QED BY <3>1 DEF Range
  <2> HIDE DEF ids, m
  <2>5. /\ ChatOK(chat') /\ Later(chat, chat')
        /\ \E kept \in {<<>>, ids} \cup {<<i>> : i \in Range(ids)} :
             /\ Added(chat, chat', m.topic, ids[1], kept)
             /\ chat'.lost = chat.lost \cup Losses(ids, kept)
    BY <1>2, <1>3, <1>6, <2>4, AppendsFacts
  <2>6. LLMTyped' /\ Later(chat, chat')
    BY <1>1, <1>2, <2>1, <2>5, TypedStays
  <2>7. \E kept \in {<<>>, ids, <<m.id>>, <<reply>>} :
             /\ Added(chat, chat', m.topic, m.id, kept)
             /\ chat'.lost = chat.lost \cup Losses(ids, kept)
    BY <2>4, <2>5
  <2> QED BY <1>3, <2>1, <2>2, <2>3, <2>6, <2>7 DEF m
<1> QED BY <1>4, <1>5, <1>6

LEMMA RestartTyped ==
  ASSUME LLMTyped, Restart
  PROVE  /\ LLMTyped' /\ Later(chat, chat') /\ SameLog(chat, chat')
         /\ chat'.rows = chat.rows
PROOF
<1>1. /\ restarts < MaxRestarts /\ restarts' = restarts + 1 /\ chat' = Reopened(chat)
      /\ inbox' = <<>> /\ job' = [p \in Procs |-> None] /\ pc' = [p \in Procs |-> "idle"]
      /\ says' = [p \in Procs |-> "nothing"] /\ shown' = NothingShown
      /\ UNCHANGED <<clock, reply, arrived>>
  BY DEF Restart
<1>2. /\ ChatOK(chat) /\ clock \in Nat /\ reply \in Nat
      /\ restarts \in 0 .. MaxRestarts /\ arrived \in 0 .. MaxMsgs
  BY DEF LLMTyped
<1>3. ChatOK(chat') /\ chat'.rows = chat.rows /\ SameLog(chat, chat')
  BY <1>1, <1>2, ReopenedFacts DEF SameLog
<1>4. Later(chat, chat')
  BY <1>2, <1>3, LaterSame DEF SameLog
<1>5. ProcsTyped'
  BY <1>1 DEF ProcsTyped, ProcOK, Jobs, Pcs, Says, WorkOf
<1>6. inbox' \in Seq(Message)
  BY <1>1, EmptySeq
<1>7. shown' \in [Sids -> SUBSET Nat] /\ \A s \in Sids : shown'[s] = {}
  BY <1>1 DEF NothingShown
<1>8. restarts' \in 0 .. MaxRestarts
  <2>1. MaxRestarts \in Nat
    BY LLMAssumption
  <2> QED BY <1>1, <1>2, <2>1
<1> QED BY <1>1, <1>2, <1>3, <1>4, <1>5, <1>6, <1>7, <1>8 DEF LLMTyped

\* Every step keeps the types and the agreement, and no position goes back.
LEMMA NextTyped == LLMTyped /\ [Next]_vars => LLMTyped' /\ Later(chat, chat')
PROOF
<1> SUFFICES ASSUME LLMTyped, [Next]_vars
             PROVE  LLMTyped' /\ Later(chat, chat')
  OBVIOUS
<1>1. CASE \E t \in Topics : \E k \in KindsOf(t) : Arrive(t, k)
  BY <1>1, ArriveTyped
<1>2. CASE TakeGroupMessage
  BY <1>2, GroupTyped
<1>3. CASE TakeMessage
  BY <1>3, TakeTyped
<1>4. CASE \E c \in {"OK", "failed"} : Heard(c)
  BY <1>4, HeardTyped
<1>5. CASE Think
  BY <1>5, ThinkTyped
<1>6. CASE \E name \in TaskNames : StartTask(name)
  BY <1>6, StartTyped
<1>7. CASE \/ \E p \in Procs, c \in Codes : Answer(p, c) \/ AnswerAgain(p, c)
           \/ \E p \in Procs, how \in {"string", "no string", "too long"} : FunctionEnds(p, how)
  <2>1. PICK p \in Procs : Completes(p)
    BY <1>7, CompletesSteps
  <2> QED BY <2>1, CompletesTyped
<1>8. CASE \E s \in Sids : Summarise(s)
  BY <1>8, SummariseTyped
<1>9. CASE \E how \in {"all", "not found", "raises"} : MessageActed(how)
  BY <1>9, MessageActedTyped
<1>10. CASE ThinkingActed \/ \E how \in {"all", "not found", "raises"} : TaskActed(how)
  BY <1>10, TimerActedTyped
<1>11. CASE Restart
  BY <1>11, RestartTyped
<1>12. CASE UNCHANGED vars
  <2>1. LLMTyped'
    BY <1>12 DEF LLMTyped, ProcsTyped, vars, llmVars
  <2>2. chat' = chat
    BY <1>12 DEF vars
  <2> QED BY <2>1, <2>2, LaterSame DEF LLMTyped
<1> QED BY <1>1, <1>2, <1>3, <1>4, <1>5, <1>6, <1>7, <1>8, <1>9, <1>10, <1>11, <1>12 DEF Next

THEOREM LLMTypes == Spec => []LLMTyped
PROOF
<1>1. Init => LLMTyped
  BY InitTyped
<1>2. LLMTyped /\ [Next]_vars => LLMTyped'
  BY NextTyped
<1> QED BY <1>1, <1>2, PTL DEF Spec

LEMMA TypedIsAgreed == LLMTyped => SessionsAgree
PROOF
<1> SUFFICES ASSUME LLMTyped PROVE SessionsAgree
  OBVIOUS
<1>1. ChatOK(chat) /\ chat \in ChatType
  BY DEF LLMTyped, ChatOK
<1>2. ChatTypeOK
  <2>1. /\ \A s \in DOMAIN chat.rows : chat.rows[s] \in RowType
        /\ \A i \in DOMAIN chat.messages : chat.messages[i] \in Entry
        /\ chat.cache \in [Sids -> ObjectType \cup {None}]
    BY <1>1, ChatFacts
  <2>4. \A l \in chat.lost : l \in Loss
    BY <1>1 DEF ChatType
  <2>2. Len(chat.rows) <= MaxSessions
    BY <1>1, RowsFit
  <2>3. /\ DOMAIN chat.cache = Sids
        /\ \A s \in Sids : chat.cache[s] = None \/ chat.cache[s] \in ObjectType
    BY <2>1
  <2> QED BY <2>1, <2>2, <2>3, <2>4 DEF ChatTypeOK, RowType, Entry, ObjectType, Loss
<1>3. OneSessionPerTopic /\ CacheNotBehind /\ PosInHistory
  BY <1>1 DEF ChatOK, ObjectOK, OneSessionPerTopic, CacheNotBehind, PosInHistory
<1>4. \A i \in DOMAIN inbox : inbox[i] \in Message
  <2>1. inbox \in Seq(Message)
    BY DEF LLMTyped
  <2> QED BY <2>1, LenProperties, ElementOfSeq
<1>5. /\ job["worker"] \in Message \cup {None}
      /\ job["timer"] \in {"think", None} \cup TaskNames
      /\ pc \in [Procs -> {"idle", "hear", "ask", "function", "again", "act", "dead"}]
      /\ says \in [Procs -> Texts \cup {"nothing"}]
      /\ \A p \in Procs : (says[p] # "nothing") <=> (pc[p] = "act")
  BY DEF LLMTyped, ProcsTyped, ProcOK, WorkOf, Pcs, Says, Procs
<1>6. TypeOK
  BY <1>2, <1>4, <1>5 DEF TypeOK, LLMTyped
<1> QED BY <1>3, <1>6 DEF SessionsAgree

\* What memory, table and prompts know of the sessions agrees: a topic has one row,
\* no object of AIChatSession is behind its row, no summary claims more messages than
\* there are, whatever objects are loaded and thrown away.
THEOREM SessionsDoAgree == Spec => []SessionsAgree
BY LLMTypes, TypedIsAgreed, PTL

\* update_chat_summary never moves the saved position of a session back, although
\* it saves that of an object which another row's reading may have made.
THEOREM PosGoesOn == Spec => PosNeverBack
PROOF
<1>1. LLMTyped /\ [Next]_vars
        => [\A s \in DOMAIN chat.rows : chat'.rows[s].pos >= chat.rows[s].pos]_vars
  BY NextTyped DEF Later
<1> QED BY <1>1, LLMTypes, PTL DEF Spec, PosNeverBack

-----------------------------------------------------------------------------
(* Messages and their log.                                                     *)

EntriesOf(c, id) == {i \in DOMAIN c.messages : c.messages[i].to = id}
LostOf(c, id)    == {l.id : l \in {k \in c.lost : k.to = id}}
TriedOf(c, id)   == {c.messages[i].id : i \in EntriesOf(c, id)} \cup LostOf(c, id)

Whats == {"answered", "kept", "refused", "error"}

\* The entries of one message are in order, in one topic, and none of them is lost.
InOrder(c, id, topic) ==
  /\ \A i, j \in EntriesOf(c, id) :
       i < j => j = i + 1 /\ c.messages[i].id < c.messages[j].id
  /\ \A i \in EntriesOf(c, id) :
       /\ c.messages[i].id \notin LostOf(c, id)
       /\ c.messages[i].sid \in DOMAIN c.rows
       /\ c.rows[c.messages[i].sid].topic = topic

\* What the log c, and what was lost of it, hold of a message that was returned.
LoggedAs(c, r) ==
  /\ InOrder(c, r.msg.id, r.msg.topic)
  /\ r.what = "answered" =>
       \E n \in TriedOf(c, r.msg.id) : n > r.msg.id /\ TriedOf(c, r.msg.id) = {r.msg.id, n}
  /\ r.what = "kept" => TriedOf(c, r.msg.id) = {r.msg.id}
  /\ r.what \in {"refused", "error"} => TriedOf(c, r.msg.id) = {}

\* A message that is still to be done: nothing of it is in the log, lost or returned.
Open(c, now, rets, id) ==
  /\ id <= now
  /\ EntriesOf(c, id) = {} /\ LostOf(c, id) = {}
  /\ \A r \in rets : r.msg.id # id

Busy == pc["worker"] \notin {"idle", "dead"}

\* Everything in the log, or lost of it, is of a message that was made.
LogsBefore(c, now) ==
  /\ \A i \in DOMAIN c.messages : c.messages[i].to <= now
  /\ \A l \in c.lost : l.to <= now

DoneIInv ==
  /\ LogsBefore(chat, clock)
  /\ \A r \in returned : r.msg.id \in Nat /\ r.msg.id <= clock /\ r.what \in Whats
  /\ \A r \in returned : LoggedAs(chat, r)
  /\ \A i \in DOMAIN inbox : Open(chat, clock, returned, inbox[i].id)
  /\ \A i, j \in DOMAIN inbox : inbox[i].id = inbox[j].id => i = j
  /\ Busy => /\ Open(chat, clock, returned, job["worker"].id)
             /\ \A i \in DOMAIN inbox : inbox[i].id # job["worker"].id
  /\ pc["worker"] = "act" => reply > job["worker"].id

LEMMA DoneIsAnswered ==
  ASSUME DoneIInv
  PROVE  AnsweredIsLogged
PROOF
<1> SUFFICES ASSUME NEW r \in returned
             PROVE  /\ EntriesInOrder(r.msg)
                    /\ CASE r.what = "answered" ->
                              \E n \in Tried(r.msg) :
                                n > r.msg.id /\ Tried(r.msg) = {r.msg.id, n}
                         [] r.what = "kept" -> Tried(r.msg) = {r.msg.id}
                         [] r.what \in {"refused", "error"} -> Tried(r.msg) = {}
  BY DEF AnsweredIsLogged
<1>1. LoggedAs(chat, r) /\ r.what \in Whats
  BY DEF DoneIInv
<1>2. /\ Entries(r.msg) = EntriesOf(chat, r.msg.id)
      /\ Lost(r.msg) = LostOf(chat, r.msg.id)
      /\ Tried(r.msg) = TriedOf(chat, r.msg.id)
  BY DEF Entries, EntriesOf, Lost, LostOf, Tried, TriedOf
<1>3. EntriesInOrder(r.msg)
  BY <1>1, <1>2 DEF LoggedAs, InOrder, EntriesInOrder
<1>4. CASE r.what = "answered"
  BY <1>1, <1>2, <1>3, <1>4 DEF LoggedAs
<1>5. CASE r.what = "kept"
  BY <1>1, <1>2, <1>3, <1>5 DEF LoggedAs
<1>6. CASE r.what \in {"refused", "error"}
  BY <1>1, <1>2, <1>3, <1>6 DEF LoggedAs
<1> QED BY <1>1, <1>4, <1>5, <1>6 DEF Whats

LEMMA InitDone == Init => DoneIInv
PROOF
<1> SUFFICES ASSUME Init PROVE DoneIInv
  OBVIOUS
<1>1. chat.messages = <<>> /\ chat.lost = {} /\ inbox = <<>> /\ returned = {}
      /\ pc["worker"] = "idle"
  BY DEF Init, NoChat, Procs
<1> QED BY <1>1 DEF DoneIInv, Busy, LogsBefore

\* The log d is that of c and entries of the message with this id, or none, and
\* what is lost since is of that message.
GrowsBy(c, d, id) ==
  /\ Later(c, d)
  /\ Len(d.messages) >= Len(c.messages)
  /\ \A i \in 1 .. Len(c.messages) : d.messages[i] = c.messages[i]
  /\ \A i \in Len(c.messages) + 1 .. Len(d.messages) : d.messages[i].to = id
  /\ c.lost \subseteq d.lost
  /\ \A l \in d.lost : l \in c.lost \/ l.to = id

LEMMA LoggedStays ==
  ASSUME NEW c, ChatOK(c), NEW d, ChatOK(d), NEW id, GrowsBy(c, d, id)
  PROVE  /\ \A x : x # id => /\ EntriesOf(d, x) = EntriesOf(c, x)
                            /\ LostOf(d, x) = LostOf(c, x)
         /\ \A r : r.msg.id # id /\ LoggedAs(c, r) => LoggedAs(d, r)
PROOF
<1>1. /\ DOMAIN c.messages = 1 .. Len(c.messages) /\ Len(c.messages) \in Nat
      /\ DOMAIN d.messages = 1 .. Len(d.messages) /\ Len(d.messages) \in Nat
  BY ChatFacts DEF ChatOK
<1>2. /\ DOMAIN c.messages \subseteq DOMAIN d.messages
      /\ \A i \in DOMAIN c.messages : d.messages[i] = c.messages[i]
      /\ \A i \in DOMAIN d.messages : i \notin DOMAIN c.messages => d.messages[i].to = id
  BY <1>1 DEF GrowsBy
<1>3. ASSUME NEW x, x # id
      PROVE  EntriesOf(d, x) = EntriesOf(c, x) /\ LostOf(d, x) = LostOf(c, x)
  <2>1. EntriesOf(d, x) = EntriesOf(c, x)
    BY <1>2, <1>3 DEF EntriesOf
  <2>2. {k \in d.lost : k.to = x} = {k \in c.lost : k.to = x}
    BY <1>3 DEF GrowsBy
  <2> QED BY <2>1, <2>2 DEF LostOf
<1>4. ASSUME NEW r, r.msg.id # id, LoggedAs(c, r)
      PROVE  LoggedAs(d, r)
  <2> DEFINE x == r.msg.id
             E == EntriesOf(c, x)
  <2>1. EntriesOf(d, x) = E /\ LostOf(d, x) = LostOf(c, x)
    BY <1>3, <1>4
  <2>2. \A i \in E : i \in DOMAIN c.messages /\ d.messages[i] = c.messages[i]
    BY <1>2 DEF EntriesOf
  <2>3. \A s \in DOMAIN c.rows : s \in DOMAIN d.rows /\ d.rows[s].topic = c.rows[s].topic
    BY DEF GrowsBy, Later
  <2>4. {d.messages[i].id : i \in E} = {c.messages[i].id : i \in E}
    BY <2>2
  <2>5. TriedOf(d, x) = TriedOf(c, x)
    BY <2>1, <2>4 DEF TriedOf
  <2>6. InOrder(c, x, r.msg.topic)
    BY <1>4 DEF LoggedAs
  <2>7. InOrder(d, x, r.msg.topic)
    <3> DEFINE t == r.msg.topic
    <3> HIDE DEF x, E, t
    <3>1. InOrder(c, x, t)
      BY <2>6 DEF t
    <3>2. InOrder(d, x, t)
      BY <2>1, <2>2, <2>3, <3>1 DEF InOrder, E
    <3> QED BY <3>2 DEF t
  <2> QED BY <1>4, <2>5, <2>7 DEF LoggedAs
<1> QED BY <1>3, <1>4

\* An append for a message that was open: what is kept is in the log, in order, the
\* rest of what should be there is lost.
LEMMA AddedLogs ==
  ASSUME NEW c, ChatOK(c), NEW d, ChatOK(d), Later(c, d), NEW topic, NEW id \in Nat,
         NEW ids \in Seq(Nat), ids[1] = id, NEW kept \in Seq(Nat),
         Range(kept) \subseteq Range(ids), Len(kept) <= 2,
         Len(kept) = 2 => kept[1] < kept[2],
         Added(c, d, topic, id, kept), d.lost = c.lost \cup Losses(ids, kept),
         EntriesOf(c, id) = {}, LostOf(c, id) = {}
  PROVE  /\ GrowsBy(c, d, id)
         /\ InOrder(d, id, topic)
         /\ TriedOf(d, id) = Range(ids)
PROOF
<1> DEFINE n == Len(c.messages)
           k == Len(kept)
<1>1. /\ DOMAIN c.messages = 1 .. n /\ n \in Nat /\ k \in Nat
      /\ DOMAIN d.messages = 1 .. Len(d.messages)
      /\ Len(d.messages) = n + k
      /\ \A i \in 1 .. n : d.messages[i] = c.messages[i]
      /\ DOMAIN kept = 1 .. k
  BY ChatFacts, LenProperties DEF ChatOK, Added
<1>2. k > 0 => \E s \in DOMAIN d.rows :
        /\ d.rows[s].topic = topic
        /\ \A i \in 1 .. k : d.messages[n + i] = [id |-> kept[i], sid |-> s, to |-> id]
  <2>1. k > 0 => kept # <<>>
    OBVIOUS
  <2> QED BY <2>1 DEF Added
<1> HIDE DEF n, k
<1>3. ASSUME NEW i \in 1 .. k
      PROVE  /\ d.messages[n + i].id = kept[i] /\ d.messages[n + i].to = id
             /\ d.messages[n + i].sid \in DOMAIN d.rows
             /\ d.rows[d.messages[n + i].sid].topic = topic
  <2>1. k > 0
    BY <1>1
  <2>2. PICK s \in DOMAIN d.rows :
          /\ d.rows[s].topic = topic
          /\ \A j \in 1 .. k : d.messages[n + j] = [id |-> kept[j], sid |-> s, to |-> id]
    BY <1>2, <2>1
  <2>3. d.messages[n + i] = [id |-> kept[i], sid |-> s, to |-> id]
    BY <2>2
  <2> QED BY <2>2, <2>3
<1>4. \A i \in n + 1 .. n + k : i - n \in 1 .. k /\ n + (i - n) = i
  BY <1>1
<1>5. \A l \in Losses(ids, kept) : l.to = id
  BY DEF Losses
<1>6. GrowsBy(c, d, id)
  <2>1. \A i \in n + 1 .. n + k : d.messages[i].to = id
    BY <1>3, <1>4
  <2>2. n + k >= n
    BY <1>1
  <2> QED BY <1>1, <1>5, <2>1, <2>2 DEF GrowsBy, n
<1>7. EntriesOf(d, id) = n + 1 .. n + k
  <2>1. \A i \in 1 .. n : d.messages[i].to # id
    BY <1>1 DEF EntriesOf
  <2>2. \A i \in 1 .. n + k : i \in 1 .. n \/ i \in n + 1 .. n + k
    BY <1>1
  <2>3. \A i \in n + 1 .. n + k : i \in 1 .. n + k /\ i \notin 1 .. n
    BY <1>1
  <2>4. \A i \in n + 1 .. n + k : d.messages[i].to = id
    BY <1>3, <1>4
  <2>5. DOMAIN d.messages = 1 .. n + k
    BY <1>1
  <2> QED BY <2>1, <2>2, <2>3, <2>4, <2>5 DEF EntriesOf
<1>8. LostOf(d, id) = Range(ids) \ Range(kept)
  <2>1. {l \in d.lost : l.to = id} = Losses(ids, kept)
    <3>1. \A l \in c.lost : l.to # id
      BY DEF LostOf
    <3> QED BY <1>5, <3>1
  <2>2. {l.id : l \in Losses(ids, kept)} = Range(ids) \ Range(kept)
    <3> DEFINE S == Range(ids) \ Range(kept)
               L == {[id |-> i, to |-> ids[1]] : i \in S}
    <3>1. Losses(ids, kept) = L
      BY DEF Losses
    <3> HIDE DEF S
    <3>2. \A l \in L : l.id \in S
      OBVIOUS
    <3>3. ASSUME NEW i \in S
          PROVE  \E l \in L : l.id = i
      <4>1. [id |-> i, to |-> ids[1]] \in L /\ [id |-> i, to |-> ids[1]].id = i
        OBVIOUS
      <4> HIDE DEF L
      <4> QED BY <4>1
    <3> HIDE DEF L
    <3> QED BY <3>1, <3>2, <3>3 DEF S
  <2> QED BY <2>1, <2>2 DEF LostOf
<1>9. {d.messages[i].id : i \in EntriesOf(d, id)} = Range(kept)
  <2>1. \A i \in n + 1 .. n + k : d.messages[i].id \in Range(kept)
    <3>1. ASSUME NEW i \in n + 1 .. n + k
          PROVE  d.messages[i].id = kept[i - n] /\ i - n \in DOMAIN kept
      BY <1>1, <1>3, <1>4 DEF k
    <3> QED BY <3>1 DEF Range
  <2>2. ASSUME NEW x \in Range(kept)
        PROVE  \E i \in n + 1 .. n + k : d.messages[i].id = x
    <3>1. PICK i \in 1 .. k : kept[i] = x
      BY <1>1 DEF Range, k
    <3>2. n + i \in n + 1 .. n + k
      BY <1>1
    <3> QED BY <1>3, <3>1, <3>2
  <2> QED BY <1>7, <2>1, <2>2
<1>10. TriedOf(d, id) = Range(ids)
  BY <1>8, <1>9 DEF TriedOf
<1>11. InOrder(d, id, topic)
  <2>1. ASSUME NEW i \in n + 1 .. n + k
        PROVE  /\ d.messages[i].id \in Range(kept)
               /\ d.messages[i].sid \in DOMAIN d.rows
               /\ d.rows[d.messages[i].sid].topic = topic
    BY <1>3, <1>4, <1>7, <1>9
  <2>2. ASSUME NEW i \in n + 1 .. n + k, NEW j \in n + 1 .. n + k, i < j
        PROVE  j = i + 1 /\ d.messages[i].id < d.messages[j].id
    <3>1. k <= 2
      BY DEF k
    <3>2. i = n + 1 /\ j = n + 2 /\ k = 2
      BY <1>1, <2>2, <3>1
    <3>3. 1 \in 1 .. k /\ 2 \in 1 .. k
      BY <3>2
    <3>4. d.messages[i].id = kept[1] /\ d.messages[j].id = kept[2]
      BY <1>3, <3>2, <3>3
    <3>5. kept[1] < kept[2]
      BY <3>2 DEF k
    <3> QED BY <1>1, <3>2, <3>4, <3>5
  <2> QED BY <1>7, <1>8, <2>1, <2>2 DEF InOrder
<1> QED BY <1>6, <1>10, <1>11

LEMMA OpenStays ==
  ASSUME ChatOK(chat), ChatOK(chat'), NEW id, GrowsBy(chat, chat', id), NEW x \in Nat, x # id,
         clock \in Nat, clock' \in Nat, clock' >= clock,
         \A r \in returned' : r \in returned \/ r.msg.id = id,
         Open(chat, clock, returned, x)
  PROVE  Open(chat', clock', returned', x)
PROOF
<1>1. EntriesOf(chat', x) = EntriesOf(chat, x) /\ LostOf(chat', x) = LostOf(chat, x)
  BY LoggedStays
<1>2. EntriesOf(chat', x) = {} /\ LostOf(chat', x) = {}
  BY <1>1 DEF Open
<1>3. x <= clock'
  BY DEF Open
<1>4. \A r \in returned' : r.msg.id # x
  BY DEF Open
<1> QED BY <1>2, <1>3, <1>4 DEF Open

LEMMA InboxFacts ==
  ASSUME LLMTyped
  PROVE  /\ inbox \in Seq(Message) /\ Len(inbox) \in Nat /\ DOMAIN inbox = 1 .. Len(inbox)
         /\ \A i \in DOMAIN inbox : inbox[i] \in Message /\ inbox[i].id \in Nat
PROOF
<1>1. inbox \in Seq(Message)
  BY DEF LLMTyped
<1>2. Len(inbox) \in Nat /\ DOMAIN inbox = 1 .. Len(inbox)
  BY <1>1, LenProperties
<1>3. \A i \in DOMAIN inbox : inbox[i] \in Message
  BY <1>1, <1>2, ElementOfSeq
<1>4. \A i \in DOMAIN inbox : inbox[i].id \in Nat
  BY <1>3 DEF Message
<1> QED BY <1>1, <1>2, <1>3, <1>4

LEMMA LogTyped ==
  ASSUME ChatOK(chat)
  PROVE  /\ DOMAIN chat.messages = 1 .. Len(chat.messages) /\ Len(chat.messages) \in Nat
         /\ \A i \in DOMAIN chat.messages : chat.messages[i].to \in Nat
         /\ \A l \in chat.lost : l.to \in Nat
PROOF
<1>1. chat \in ChatType
  BY DEF ChatOK
<1>2. \A i \in DOMAIN chat.messages : chat.messages[i] \in Entry
  BY <1>1, ChatFacts
<1>3. \A i \in DOMAIN chat.messages : chat.messages[i].to \in Nat
  BY <1>2 DEF Entry
<1>4. \A l \in chat.lost : l.to \in Nat
  BY <1>1 DEF ChatType, Loss
<1> QED BY <1>1, <1>3, <1>4, ChatFacts

\* A message that was open is returned, with what the log then holds of it.
LEMMA MessageDone ==
  ASSUME LLMTyped, LLMTyped', DoneIInv, NEW m \in Message, NEW w \in Whats,
         Open(chat, clock, returned, m.id), GrowsBy(chat, chat', m.id),
         clock' = clock, returned' = returned \cup {[msg |-> m, what |-> w]},
         LoggedAs(chat', [msg |-> m, what |-> w]),
         pc'["worker"] \in {"idle", "dead"},
         \A i \in DOMAIN inbox' : \E j \in DOMAIN inbox : inbox'[i].id = inbox[j].id,
         \A i \in DOMAIN inbox' : inbox'[i].id # m.id,
         \A i, j \in DOMAIN inbox' : inbox'[i].id = inbox'[j].id => i = j
  PROVE  DoneIInv'
PROOF
<1> DEFINE id == m.id
           r0 == [msg |-> m, what |-> w]
<1>1. /\ ChatOK(chat) /\ ChatOK(chat') /\ clock \in Nat /\ clock' \in Nat /\ clock' >= clock
      /\ id \in Nat /\ r0.msg = m /\ r0.what = w
  BY DEF LLMTyped, Message
<1>2. LogsBefore(chat', clock')
  <2>1. /\ DOMAIN chat.messages = 1 .. Len(chat.messages) /\ Len(chat.messages) \in Nat
        /\ DOMAIN chat'.messages = 1 .. Len(chat'.messages) /\ Len(chat'.messages) \in Nat
    BY <1>1, ChatFacts DEF ChatOK
  <2>2. ASSUME NEW i \in 1 .. Len(chat'.messages)
        PROVE  chat'.messages[i].to <= clock'
    <3>1. CASE i \in 1 .. Len(chat.messages)
      BY <2>1, <3>1 DEF DoneIInv, GrowsBy, LogsBefore
    <3>2. CASE i \notin 1 .. Len(chat.messages)
      <4>1. chat'.messages[i].to = m.id
        BY <2>1, <3>2 DEF GrowsBy
      <4> QED BY <4>1 DEF Open
    <3> QED BY <3>1, <3>2
  <2>3. \A l \in chat'.lost : l.to <= clock'
    BY DEF GrowsBy, DoneIInv, LogsBefore, Open
  <2> QED BY <2>1, <2>2, <2>3 DEF LogsBefore
<1>3. \A r \in returned' : r.msg.id \in Nat /\ r.msg.id <= clock' /\ r.what \in Whats
  <2>1. id <= clock'
    BY DEF Open
  <2> QED BY <1>1, <2>1 DEF DoneIInv
<1>4. \A r \in returned' : LoggedAs(chat', r)
  <2>1. ASSUME NEW r \in returned
        PROVE  LoggedAs(chat', r)
    <3>1. LoggedAs(chat, r) /\ r.msg.id # m.id
      BY DEF DoneIInv, Open
    <3> QED BY <1>1, <3>1, LoggedStays
  <2> QED BY <2>1
<1>5. \A i \in DOMAIN inbox' : Open(chat', clock', returned', inbox'[i].id)
  <2>1. ASSUME NEW i \in DOMAIN inbox'
        PROVE  Open(chat', clock', returned', inbox'[i].id)
    <3>1. PICK j \in DOMAIN inbox : inbox'[i].id = inbox[j].id
      OBVIOUS
    <3> DEFINE x == inbox[j].id
    <3>2. x \in Nat /\ Open(chat, clock, returned, x) /\ inbox'[i].id = x /\ x # id
      BY <3>1, InboxFacts DEF DoneIInv
    <3>3. \A r \in returned' : r \in returned \/ r.msg.id = id
      BY <1>1
    <3>4. GrowsBy(chat, chat', id)
      OBVIOUS
    <3> HIDE DEF x, id
    <3>5. Open(chat', clock', returned', x)
      BY <1>1, <3>2, <3>3, <3>4, OpenStays
    <3> QED BY <3>2, <3>5
  <2> QED BY <2>1
<1> QED BY <1>2, <1>3, <1>4, <1>5 DEF DoneIInv, Busy

\* The log is as it was: what is open stays open, whatever is returned.
LEMMA StillOpen ==
  ASSUME LLMTyped, LLMTyped', Later(chat, chat'), SameLog(chat, chat'),
         clock' >= clock, returned' = returned
  PROVE  /\ \A x \in Nat : Open(chat, clock, returned, x) => Open(chat', clock', returned', x)
         /\ DoneIInv => \A r \in returned' : LoggedAs(chat', r)
         /\ DoneIInv => LogsBefore(chat', clock')
         /\ DoneIInv => \A r \in returned' :
                          r.msg.id \in Nat /\ r.msg.id <= clock' /\ r.what \in Whats
PROOF
<1>1. ChatOK(chat) /\ ChatOK(chat') /\ clock \in Nat /\ clock' \in Nat
      /\ Len(chat.messages) \in Nat
      /\ DOMAIN chat.messages = 1 .. Len(chat.messages)
      /\ \A i \in DOMAIN chat.messages : chat.messages[i].to \in Nat
  BY LogTyped DEF LLMTyped
<1>7. chat'.messages = chat.messages /\ chat'.lost = chat.lost
  BY DEF SameLog
<1>2. ASSUME NEW id
      PROVE  GrowsBy(chat, chat', id)
  <2> DEFINE n == Len(chat.messages)
  <2>1. Len(chat'.messages) = n /\ n >= n /\ \A i \in n + 1 .. n : FALSE
    BY <1>1, <1>7
  <2>2. \A i \in 1 .. n : chat'.messages[i] = chat.messages[i]
    BY <1>7
  <2> HIDE DEF n
  <2> QED BY <1>7, <2>1, <2>2 DEF GrowsBy, n
<1>3. ASSUME NEW x \in Nat, Open(chat, clock, returned, x)
      PROVE  Open(chat', clock', returned', x)
  <2> DEFINE id == x + 1
  <2>1. GrowsBy(chat, chat', id) /\ x # id
    BY <1>2
  <2>2. \A r \in returned' : r \in returned \/ r.msg.id = id
    OBVIOUS
  <2> HIDE DEF id
  <2> QED BY <1>1, <1>3, <2>1, <2>2, OpenStays
<1>4. ASSUME DoneIInv, NEW r \in returned
      PROVE  LoggedAs(chat', r)
  <2>1. LoggedAs(chat, r) /\ r.msg.id \in Nat /\ r.msg.id # r.msg.id + 1
    BY <1>4 DEF DoneIInv
  <2>2. GrowsBy(chat, chat', r.msg.id + 1)
    BY <1>2
  <2> QED BY <1>1, <2>1, <2>2, LoggedStays
<1>5. DoneIInv => LogsBefore(chat', clock')
  <2>1. \A l \in chat.lost : l.to \in Nat
    BY LogTyped DEF LLMTyped
  <2> QED BY <1>1, <1>7, <2>1 DEF DoneIInv, LogsBefore
<1>6. DoneIInv => \A r \in returned' :
                    r.msg.id \in Nat /\ r.msg.id <= clock' /\ r.what \in Whats
  BY <1>1 DEF DoneIInv
<1> QED BY <1>3, <1>4, <1>5, <1>6

\* A step that logs nothing, returns nothing and takes no message.
LEMMA NothingDone ==
  ASSUME LLMTyped, LLMTyped', DoneIInv,
         Later(chat, chat'), SameLog(chat, chat'),
         clock' >= clock, returned' = returned, inbox' = inbox,
         pc'["worker"] \notin {"idle", "dead"} => Busy /\ job'["worker"] = job["worker"],
         pc'["worker"] = "act" => reply' > job'["worker"].id
  PROVE  DoneIInv'
PROOF
<1>1. /\ \A x \in Nat : Open(chat, clock, returned, x) => Open(chat', clock', returned', x)
      /\ \A r \in returned' : LoggedAs(chat', r)
      /\ LogsBefore(chat', clock')
      /\ \A r \in returned' : r.msg.id \in Nat /\ r.msg.id <= clock' /\ r.what \in Whats
  BY StillOpen
<1>2. \A i \in DOMAIN inbox' : Open(chat', clock', returned', inbox'[i].id)
  BY <1>1, InboxFacts DEF DoneIInv
<1>3. Busy' => /\ Open(chat', clock', returned', job'["worker"].id)
               /\ \A i \in DOMAIN inbox' : inbox'[i].id # job'["worker"].id
  <2>1. SUFFICES ASSUME Busy'
                 PROVE  /\ Open(chat', clock', returned', job'["worker"].id)
                        /\ \A i \in DOMAIN inbox' : inbox'[i].id # job'["worker"].id
    OBVIOUS
  <2>2. Busy /\ job'["worker"] = job["worker"]
    BY <2>1 DEF Busy
  <2>3. job["worker"] \in Message
    BY <2>2, AtWork DEF LLMTyped, Busy, Procs, WorkOf
  <2>4. job["worker"].id \in Nat
    BY <2>3 DEF Message
  <2> DEFINE x == job["worker"].id
  <2>5. x \in Nat /\ Open(chat, clock, returned, x) /\ job'["worker"].id = x
    BY <2>2, <2>4 DEF DoneIInv
  <2> HIDE DEF x
  <2>6. Open(chat', clock', returned', x)
    BY <1>1, <2>5
  <2> QED BY <2>2, <2>5, <2>6 DEF DoneIInv, x
<1> QED BY <1>1, <1>2, <1>3 DEF DoneIInv

LEMMA ArriveDone ==
  ASSUME LLMTyped, DoneIInv, NEW t \in Topics, NEW k \in KindsOf(t), Arrive(t, k)
  PROVE  DoneIInv'
PROOF
<1> DEFINE n == Len(inbox)
<1>1. /\ LLMTyped' /\ Later(chat, chat') /\ clock' = clock + 1
      /\ inbox' \in Seq(Message) /\ Len(inbox') = n + 1
      /\ \A i \in 1 .. n : inbox'[i] = inbox[i]
      /\ inbox'[n + 1].id = clock + 1
  BY ArriveTyped
<1>2. UNCHANGED <<chat, job, pc, reply, returned>> /\ clock \in Nat
  BY DEF Arrive, LLMTyped
<1>3. /\ \A x \in Nat : Open(chat, clock, returned, x) => Open(chat', clock', returned', x)
      /\ \A r \in returned' : LoggedAs(chat', r)
      /\ LogsBefore(chat', clock')
      /\ \A r \in returned' : r.msg.id \in Nat /\ r.msg.id <= clock' /\ r.what \in Whats
  <2>1. clock' >= clock /\ returned' = returned /\ SameLog(chat, chat')
    BY <1>1, <1>2 DEF SameLog
  <2> QED BY <1>1, <2>1, StillOpen
<1>4. Open(chat', clock', returned', clock + 1)
  <2>1. EntriesOf(chat', clock + 1) = {}
    <3>1. ASSUME NEW i \in DOMAIN chat.messages
          PROVE  chat.messages[i].to # clock + 1
      <4>1. chat.messages[i].to \in Nat /\ chat.messages[i].to <= clock
        BY LogTyped DEF LLMTyped, DoneIInv, LogsBefore
      <4> QED BY <1>2, <4>1
    <3> QED BY <1>2, <3>1 DEF EntriesOf
  <2>3. LostOf(chat', clock + 1) = {}
    <3>1. ASSUME NEW l \in chat.lost
          PROVE  l.to # clock + 1
      <4>1. l.to \in Nat /\ l.to <= clock
        BY LogTyped DEF LLMTyped, DoneIInv, LogsBefore
      <4> QED BY <1>2, <4>1
    <3> QED BY <1>2, <3>1 DEF LostOf
  <2>2. \A r \in returned' : r.msg.id # clock + 1
    <3>1. ASSUME NEW r \in returned
          PROVE  r.msg.id # clock + 1
      <4>1. r.msg.id \in Nat /\ r.msg.id <= clock
        BY DEF DoneIInv
      <4> QED BY <1>2, <4>1
    <3> QED BY <1>2, <3>1
  <2> QED BY <1>1, <1>2, <2>1, <2>2, <2>3 DEF Open
<1>5. DOMAIN inbox' = 1 .. n + 1 /\ n \in Nat /\ DOMAIN inbox = 1 .. n
  BY <1>1, InboxFacts, LenProperties
<1>6. ASSUME NEW i \in 1 .. n
      PROVE  inbox[i].id \in Nat /\ inbox[i].id # clock + 1
             /\ Open(chat', clock', returned', inbox'[i].id)
  <2>1. inbox[i].id \in Nat /\ Open(chat, clock, returned, inbox[i].id)
    BY <1>5, InboxFacts DEF DoneIInv
  <2>2. inbox[i].id <= clock
    BY <2>1 DEF Open
  <2> QED BY <1>1, <1>2, <1>3, <2>1, <2>2
<1>7. \A i \in DOMAIN inbox' : Open(chat', clock', returned', inbox'[i].id)
  <2>1. ASSUME NEW i \in DOMAIN inbox'
        PROVE  Open(chat', clock', returned', inbox'[i].id)
    <3>1. i \in 1 .. n \/ i = n + 1
      BY <1>5
    <3> HIDE DEF n
    <3> QED BY <1>1, <1>4, <1>6, <3>1
  <2> QED BY <2>1
<1>8. \A i, j \in DOMAIN inbox' : inbox'[i].id = inbox'[j].id => i = j
  <2>1. ASSUME NEW i \in DOMAIN inbox', NEW j \in DOMAIN inbox', inbox'[i].id = inbox'[j].id
        PROVE  i = j
    <3>1. (i \in 1 .. n \/ i = n + 1) /\ (j \in 1 .. n \/ j = n + 1)
      BY <1>5
    <3>2. CASE i \in 1 .. n /\ j \in 1 .. n
      BY <1>1, <1>5, <2>1, <3>2 DEF DoneIInv
    <3> HIDE DEF n
    <3>3. CASE i = n + 1 /\ j \in 1 .. n
      BY <1>1, <1>6, <2>1, <3>3
    <3>4. CASE i \in 1 .. n /\ j = n + 1
      BY <1>1, <1>6, <2>1, <3>4
    <3> QED BY <3>1, <3>2, <3>3, <3>4
  <2> QED BY <2>1
<1>9. Busy' => /\ Open(chat', clock', returned', job'["worker"].id)
               /\ \A i \in DOMAIN inbox' : inbox'[i].id # job'["worker"].id
  <2> SUFFICES ASSUME Busy'
               PROVE  /\ Open(chat', clock', returned', job'["worker"].id)
                      /\ \A i \in DOMAIN inbox' : inbox'[i].id # job'["worker"].id
    OBVIOUS
  <2>1. Busy /\ job' = job
    BY <1>2 DEF Busy
  <2>2. job["worker"] \in Message
    BY <2>1, AtWork DEF LLMTyped, Busy, Procs, WorkOf
  <2>3. job["worker"].id \in Nat /\ Open(chat, clock, returned, job["worker"].id)
    BY <2>1, <2>2 DEF Message, DoneIInv
  <2>4. job["worker"].id # clock + 1
    BY <1>2, <2>3 DEF Open
  <2>5. ASSUME NEW i \in DOMAIN inbox'
        PROVE  inbox'[i].id # job["worker"].id
    <3>1. i \in 1 .. n \/ i = n + 1
      BY <1>5
    <3>2. \A j \in 1 .. n : inbox[j].id # job["worker"].id
      BY <1>5, <2>1 DEF DoneIInv
    <3> HIDE DEF n
    <3> QED BY <1>1, <2>4, <3>1, <3>2
  <2> QED BY <1>3, <2>1, <2>3, <2>5
<1>10. pc'["worker"] = "act" => reply' > job'["worker"].id
  BY <1>2 DEF DoneIInv
<1> QED BY <1>3, <1>7, <1>8, <1>9, <1>10 DEF DoneIInv

LEMMA GroupDone ==
  ASSUME LLMTyped, DoneIInv, TakeGroupMessage
  PROVE  DoneIInv'
PROOF
<1> DEFINE m == Head(inbox)
           ids == <<m.id>>
<1>1. LLMTyped' /\ Later(chat, chat')
  BY GroupTyped
<1>2. /\ returned' = returned \cup {[msg |-> m, what |-> "kept"]} /\ clock' = clock
      /\ inbox # <<>> /\ inbox' = Tail(inbox) /\ pc' = pc /\ pc["worker"] = "idle"
  BY DEF TakeGroupMessage
<1>3. /\ m \in Message /\ m = inbox[1] /\ 1 \in 1 .. Len(inbox) /\ Len(inbox) \in Nat
      /\ inbox' \in Seq(Message) /\ Len(inbox') = Len(inbox) - 1
      /\ \A i \in 1 .. Len(inbox) - 1 : inbox'[i] = inbox[i + 1]
  BY <1>2, HeadFacts
<1>4. DOMAIN inbox' = 1 .. Len(inbox) - 1 /\ DOMAIN inbox = 1 .. Len(inbox)
  BY <1>3, InboxFacts, LenProperties
<1>5. Open(chat, clock, returned, m.id)
  BY <1>3, <1>4 DEF DoneIInv
<1>6. PICK kept \in {<<>>, ids} :
        /\ Added(chat, chat', m.topic, m.id, kept)
        /\ chat'.lost = chat.lost \cup Losses(ids, kept)
  BY GroupTyped
<1>7. /\ GrowsBy(chat, chat', m.id) /\ InOrder(chat', m.id, m.topic)
      /\ TriedOf(chat', m.id) = {m.id}
  <2>1. /\ ChatOK(chat) /\ ChatOK(chat') /\ m.id \in Nat
        /\ EntriesOf(chat, m.id) = {} /\ LostOf(chat, m.id) = {}
    BY <1>1, <1>3, <1>5 DEF LLMTyped, Open, Message
  <2>2. ids \in Seq(Nat) /\ ids[1] = m.id /\ Len(ids) = 1 /\ DOMAIN ids = {1}
    BY <2>1
  <2> HIDE DEF ids
  <2>3. kept \in Seq(Nat) /\ Len(kept) \in {0, 1} /\ DOMAIN kept \subseteq DOMAIN ids
        /\ \A i \in DOMAIN kept : kept[i] = ids[i]
    <3>1. CASE kept = <<>>
      BY <3>1
    <3>2. CASE kept = ids
      BY <2>2, <3>2
    <3> QED BY <1>6, <3>1, <3>2
  <2>4. Range(ids) = {m.id} /\ Range(kept) \subseteq Range(ids)
    BY <2>2, <2>3 DEF Range
  <2>5. Len(kept) <= 2 /\ (Len(kept) = 2 => kept[1] < kept[2])
    BY <2>3
  <2>8. ChatOK(chat) /\ ChatOK(chat') /\ Later(chat, chat')
    BY <1>1, <2>1
  <2> HIDE DEF m
  <2> DEFINE id == m.id
             t == m.topic
  <2>6. /\ id \in Nat /\ ids[1] = id /\ EntriesOf(chat, id) = {} /\ LostOf(chat, id) = {}
        /\ Added(chat, chat', t, id, kept) /\ chat'.lost = chat.lost \cup Losses(ids, kept)
    BY <1>6, <2>1, <2>2
  <2> HIDE DEF id, t
  <2>7. /\ GrowsBy(chat, chat', id) /\ InOrder(chat', id, t) /\ TriedOf(chat', id) = Range(ids)
    <3>1. kept \in Seq(Nat) /\ ids \in Seq(Nat)
      BY <2>2, <2>3
    <3> QED BY <2>4, <2>5, <2>6, <2>8, <3>1, AddedLogs, ZenonT(60)
  <2> QED BY <2>4, <2>7 DEF id, t
<1>8. LoggedAs(chat', [msg |-> m, what |-> "kept"])
  <2> HIDE DEF m
  <2> QED BY <1>7 DEF LoggedAs
<1>9. ASSUME NEW i \in DOMAIN inbox'
      PROVE  /\ i + 1 \in DOMAIN inbox /\ inbox'[i] = inbox[i + 1]
             /\ i + 1 # 1
  BY <1>3, <1>4
<1>10. \A i \in DOMAIN inbox' : \E j \in DOMAIN inbox : inbox'[i].id = inbox[j].id
  BY <1>9
<1>11. \A i \in DOMAIN inbox' : inbox'[i].id # m.id
  BY <1>3, <1>4, <1>9 DEF DoneIInv
<1>12. ASSUME NEW i \in DOMAIN inbox', NEW j \in DOMAIN inbox', inbox'[i].id = inbox'[j].id
       PROVE  i = j
  <2>1. i + 1 = j + 1
    BY <1>9, <1>12 DEF DoneIInv
  <2>2. i \in Nat /\ j \in Nat
    BY <1>4
  <2> QED BY <2>1, <2>2
<1>13. "kept" \in Whats /\ pc'["worker"] \in {"idle", "dead"}
  BY <1>2 DEF Whats
<1> HIDE DEF m
<1> QED BY <1>1, <1>2, <1>3, <1>5, <1>7, <1>8, <1>10, <1>11, <1>12, <1>13, MessageDone

LEMMA TakeDone ==
  ASSUME LLMTyped, DoneIInv, TakeMessage
  PROVE  DoneIInv'
PROOF
<1> DEFINE m == Head(inbox)
<1>1. /\ LLMTyped' /\ Later(chat, chat') /\ SameLog(chat, chat')
      /\ returned' = returned /\ inbox # <<>> /\ inbox' = Tail(inbox)
      /\ \/ pc'["worker"] \in {"idle", "dead"}
         \/ pc'["worker"] \in {"hear", "ask"} /\ job'["worker"] = m
  BY TakeTyped
<1>2. clock' = clock /\ clock \in Nat
  BY DEF TakeMessage, LLMTyped
<1>3. /\ m \in Message /\ m = inbox[1] /\ 1 \in 1 .. Len(inbox) /\ Len(inbox) \in Nat
      /\ inbox' \in Seq(Message) /\ Len(inbox') = Len(inbox) - 1 /\ m.id \in Nat
      /\ \A i \in 1 .. Len(inbox) - 1 : inbox'[i] = inbox[i + 1]
  BY <1>1, HeadFacts
<1>4. DOMAIN inbox' = 1 .. Len(inbox) - 1 /\ DOMAIN inbox = 1 .. Len(inbox)
  BY <1>3, InboxFacts, LenProperties
<1>5. /\ \A x \in Nat : Open(chat, clock, returned, x) => Open(chat', clock', returned', x)
      /\ \A r \in returned' : LoggedAs(chat', r)
      /\ LogsBefore(chat', clock')
      /\ \A r \in returned' : r.msg.id \in Nat /\ r.msg.id <= clock' /\ r.what \in Whats
  <2>1. clock' >= clock
    BY <1>2
  <2> QED BY <1>1, <2>1, StillOpen
<1>6. ASSUME NEW i \in DOMAIN inbox'
      PROVE  /\ i + 1 \in DOMAIN inbox /\ inbox'[i] = inbox[i + 1]
             /\ i + 1 # 1
  BY <1>3, <1>4
<1>7. ASSUME NEW i \in DOMAIN inbox'
      PROVE  Open(chat', clock', returned', inbox'[i].id) /\ inbox'[i].id # m.id
  <2>1. i + 1 \in DOMAIN inbox /\ inbox'[i] = inbox[i + 1] /\ i + 1 # 1
    BY <1>6
  <2>2. inbox[i + 1].id \in Nat /\ Open(chat, clock, returned, inbox[i + 1].id)
    BY <2>1, InboxFacts DEF DoneIInv
  <2>3. inbox[i + 1].id # m.id
    BY <1>3, <1>4, <2>1 DEF DoneIInv
  <2> QED BY <1>5, <2>1, <2>2, <2>3
<1>8. ASSUME NEW i \in DOMAIN inbox', NEW j \in DOMAIN inbox', inbox'[i].id = inbox'[j].id
      PROVE  i = j
  <2>1. i + 1 = j + 1
    BY <1>6, <1>8 DEF DoneIInv
  <2>2. i \in Nat /\ j \in Nat
    BY <1>4
  <2> QED BY <2>1, <2>2
<1>9. Open(chat', clock', returned', m.id)
  BY <1>3, <1>4, <1>5 DEF DoneIInv
<1>10. Busy' => /\ Open(chat', clock', returned', job'["worker"].id)
                /\ \A i \in DOMAIN inbox' : inbox'[i].id # job'["worker"].id
  BY <1>1, <1>7, <1>9 DEF Busy
<1>11. pc'["worker"] # "act"
  BY <1>1
<1> QED BY <1>5, <1>7, <1>8, <1>10, <1>11 DEF DoneIInv

LEMMA MessageActedDone ==
  ASSUME LLMTyped, DoneIInv, NEW how, MessageActed(how)
  PROVE  DoneIInv'
PROOF
<1> DEFINE m == job["worker"]
           ids == <<m.id, reply>>
<1>1. LLMTyped' /\ Later(chat, chat') /\ pc'["worker"] \in {"idle", "dead"}
  BY MessageActedTyped
<1>2. UNCHANGED <<inbox, clock, reply>> /\ pc["worker"] = "act" /\ clock \in Nat
  BY DEF MessageActed, LLMTyped
<1>3. CASE chat' = chat /\ returned' = returned
  <2>1. clock' >= clock /\ pc'["worker"] # "act" /\ ~(pc'["worker"] \notin {"idle", "dead"})
        /\ SameLog(chat, chat')
    BY <1>1, <1>2, <1>3 DEF SameLog
  <2> QED BY <1>1, <1>2, <1>3, <2>1, NothingDone
<1>4. CASE returned' # returned \/ chat' # chat
  <2>1. /\ m \in Message
        /\ returned' = returned \cup {[msg |-> m, what |-> "answered"]}
        /\ \E kept \in {<<>>, ids, <<m.id>>, <<reply>>} :
             /\ Added(chat, chat', m.topic, m.id, kept)
             /\ chat'.lost = chat.lost \cup Losses(ids, kept)
    BY <1>4, MessageActedTyped
  <2>2. PICK kept \in {<<>>, ids, <<m.id>>, <<reply>>} :
          /\ Added(chat, chat', m.topic, m.id, kept)
          /\ chat'.lost = chat.lost \cup Losses(ids, kept)
    BY <2>1
  <2>3. Busy
    BY <1>2 DEF Busy
  <2>4. /\ Open(chat, clock, returned, m.id) /\ reply > m.id
        /\ \A i \in DOMAIN inbox : inbox[i].id # m.id
    BY <1>2, <2>3 DEF DoneIInv
  <2>5. /\ ChatOK(chat) /\ ChatOK(chat') /\ m.id \in Nat /\ reply \in Nat
        /\ EntriesOf(chat, m.id) = {} /\ LostOf(chat, m.id) = {}
    BY <1>1, <2>1, <2>4 DEF LLMTyped, Open, Message
  <2>6. /\ ids \in Seq(Nat) /\ ids[1] = m.id /\ ids[2] = reply /\ Len(ids) = 2
        /\ DOMAIN ids = {1, 2}
    BY <2>5
  <2>7. /\ kept \in Seq(Nat) /\ Len(kept) <= 2
        /\ \A i \in DOMAIN kept : kept[i] \in {m.id, reply}
        /\ Len(kept) = 2 => kept[1] < kept[2]
    <3>1. CASE kept = <<>>
      BY <3>1
    <3>2. CASE kept = ids
      BY <2>4, <2>5, <2>6, <3>2
    <3>3. CASE kept = <<m.id>> \/ kept = <<reply>>
      BY <2>5, <3>3
    <3> QED BY <2>2, <3>1, <3>2, <3>3
  <2> HIDE DEF ids
  <2>8. Range(ids) = {m.id, reply} /\ Range(kept) \subseteq Range(ids)
    BY <2>6, <2>7 DEF Range
  <2> HIDE DEF m
  <2>9. /\ GrowsBy(chat, chat', m.id) /\ InOrder(chat', m.id, m.topic)
        /\ TriedOf(chat', m.id) = {m.id, reply}
    <3> DEFINE id == m.id
               t == m.topic
    <3>1. /\ id \in Nat /\ ids[1] = id /\ EntriesOf(chat, id) = {} /\ LostOf(chat, id) = {}
          /\ Added(chat, chat', t, id, kept) /\ chat'.lost = chat.lost \cup Losses(ids, kept)
      BY <2>2, <2>5, <2>6
    <3> HIDE DEF id, t
    <3>2. /\ GrowsBy(chat, chat', id) /\ InOrder(chat', id, t)
          /\ TriedOf(chat', id) = Range(ids)
      BY <1>1, <2>5, <2>6, <2>7, <2>8, <3>1, AddedLogs
    <3> QED BY <2>8, <3>2 DEF id, t
  <2>10. LoggedAs(chat', [msg |-> m, what |-> "answered"])
    BY <2>4, <2>9 DEF LoggedAs
  <2>11. "answered" \in Whats
    BY DEF Whats
  <2> QED BY <1>1, <1>2, <2>1, <2>4, <2>9, <2>10, <2>11, MessageDone DEF DoneIInv
<1> QED BY <1>3, <1>4

LEMMA CompletesDone ==
  ASSUME LLMTyped, DoneIInv, NEW p \in Procs, Completes(p)
  PROVE  DoneIInv'
PROOF
<1>1. /\ LLMTyped' /\ Later(chat, chat') /\ Others(p)
      /\ \/ pc'[p] \in {"idle", "dead"}
         \/ pc'[p] = "act" /\ \E what \in Texts : Post(p, what)
         \/ /\ pc'[p] \in {"function", "again"}
            /\ UNCHANGED <<job, says, returned, clock, reply, posted>>
  BY CompletesTyped
<1>2. /\ chat' = chat /\ inbox' = inbox /\ pc[p] \notin {"idle", "dead"}
      /\ clock \in Nat /\ reply \in Nat /\ SameLog(chat, chat')
  BY DEF Completes, LLMTyped, SameLog
<1>3. CASE p = "timer"
  <2>1. "worker" \in Procs \ {p}
    BY <1>3 DEF Procs
  <2>2. pc'["worker"] = pc["worker"] /\ job'["worker"] = job["worker"]
    BY <1>1, <2>1 DEF Others
  <2>3. UNCHANGED <<clock, reply, returned>>
    BY <1>3 DEF Completes, End, Post, Raise
  <2>4. clock' >= clock
    BY <1>2, <2>3
  <2>5. pc'["worker"] = "act" => reply' > job'["worker"].id
    BY <2>2, <2>3 DEF DoneIInv
  <2> QED BY <1>1, <1>2, <2>2, <2>3, <2>4, <2>5, NothingDone DEF Busy
<1>4. CASE p = "worker"
  <2> DEFINE m == job["worker"]
  <2>1. Busy /\ m \in Message
    BY <1>2, <1>4, AtWork DEF Busy, LLMTyped, WorkOf
  <2>2. /\ Open(chat, clock, returned, m.id) /\ m.id \in Nat
        /\ \A i \in DOMAIN inbox : inbox[i].id # m.id
    BY <2>1 DEF DoneIInv, Message
  <2>3. CASE \E what \in {"refused", "error"} : End("worker", what) /\ clock' = clock
    <3>1. PICK what \in {"refused", "error"} : End("worker", what) /\ clock' = clock
      BY <2>3
    <3>2. returned' = returned \cup {[msg |-> m, what |-> what]} /\ what \in Whats
      BY <3>1 DEF End, Whats
    <3>3. pc'["worker"] \in {"idle", "dead"}
      <4>1. pc' = [pc EXCEPT !["worker"] = "idle"] /\ pc \in [Procs -> Pcs]
        BY <3>1 DEF End, LLMTyped, ProcsTyped
      <4> QED BY <4>1 DEF Procs
    <3>4. GrowsBy(chat, chat', m.id)
      <4>1. Len(chat.messages) \in Nat
        BY LogTyped DEF LLMTyped
      <4> QED BY <1>1, <1>2, <4>1 DEF GrowsBy
    <3>5. LoggedAs(chat', [msg |-> m, what |-> what])
      <4>1. what \notin {"answered", "kept"}
        OBVIOUS
      <4>2. EntriesOf(chat', m.id) = {} /\ LostOf(chat', m.id) = {}
        BY <1>2, <2>2 DEF Open
      <4> HIDE DEF m
      <4> QED BY <4>1, <4>2 DEF LoggedAs, InOrder, TriedOf
    <3> HIDE DEF m
    <3> QED BY <1>1, <1>2, <2>1, <2>2, <3>1, <3>2, <3>3, <3>4, <3>5, MessageDone DEF DoneIInv
  <2>4. CASE \E what \in Texts : Post("worker", what)
    <3>1. clock' = clock + 1 /\ reply' = clock + 1 /\ job' = job /\ returned' = returned
      BY <2>4 DEF Post
    <3>2. reply' > job'["worker"].id /\ clock' >= clock
      <4>1. m.id <= clock
        BY <2>2 DEF Open
      <4> QED BY <1>2, <2>2, <3>1, <4>1
    <3> QED BY <1>1, <1>2, <2>1, <3>1, <3>2, NothingDone
  <2>5. CASE Raise("worker") /\ clock' = clock
    <3>1. returned' = returned /\ clock' >= clock
      BY <1>2, <2>5 DEF Raise
    <3>2. ~(pc'["worker"] \notin {"idle", "dead"}) /\ pc'["worker"] # "act"
      <4>1. "worker" \in Procs /\ ProcsTyped
        BY DEF Procs, LLMTyped
      <4>2. pc'["worker"] \in {"idle", "dead"}
        BY <2>5, <4>1, ProcEnds
      <4> QED BY <4>2
    <3> QED BY <1>1, <1>2, <3>1, <3>2, NothingDone
  <2>6. CASE /\ pc'["worker"] \in {"function", "again"}
             /\ UNCHANGED <<job, says, returned, clock, reply, posted>>
    <3>1. clock' >= clock /\ pc'["worker"] # "act"
      BY <1>2, <2>6
    <3> QED BY <1>1, <1>2, <2>1, <2>6, <3>1, NothingDone
  <2>7. CASE /\ \E q \in {"function", "again"} : pc' = [pc EXCEPT !["worker"] = q]
             /\ UNCHANGED <<job, says, returned, clock, reply, posted>>
    <3>1. pc'["worker"] \in {"function", "again"}
      <4>1. pc \in [Procs -> Pcs] /\ "worker" \in Procs
        BY DEF LLMTyped, ProcsTyped, Procs
      <4> QED BY <2>7, <4>1
    <3> QED BY <2>6, <2>7, <3>1
  <2> QED BY <1>4, <2>3, <2>4, <2>5, <2>7 DEF Completes
<1> QED BY <1>3, <1>4 DEF Procs

LEMMA RestartDone ==
  ASSUME LLMTyped, DoneIInv, Restart
  PROVE  DoneIInv'
PROOF
<1>1. LLMTyped' /\ Later(chat, chat') /\ SameLog(chat, chat')
  BY RestartTyped
<1>2. /\ inbox' = <<>> /\ pc'["worker"] = "idle" /\ clock' = clock /\ returned' = returned
      /\ clock' >= clock
  <2>1. clock' = clock /\ clock \in Nat
    BY DEF Restart, LLMTyped
  <2>2. clock' >= clock
    BY <2>1
  <2> QED BY <2>1, <2>2 DEF Restart, Procs
<1>3. /\ \A r \in returned' : LoggedAs(chat', r)
      /\ LogsBefore(chat', clock')
      /\ \A r \in returned' : r.msg.id \in Nat /\ r.msg.id <= clock' /\ r.what \in Whats
  BY <1>1, <1>2, StillOpen
<1>4. DOMAIN inbox' = {}
  BY <1>2
<1> QED BY <1>2, <1>3, <1>4 DEF DoneIInv, Busy

\* The steps of the timer leave the worker and what it keeps alone.
LEMMA TimerDone ==
  ASSUME LLMTyped, DoneIInv,
         \/ Think
         \/ \E name \in TaskNames : StartTask(name)
         \/ \E s \in Sids : Summarise(s)
         \/ ThinkingActed
         \/ \E how \in {"all", "not found", "raises"} : TaskActed(how)
         \/ UNCHANGED vars
  PROVE  DoneIInv'
PROOF
<1>1. LLMTyped' /\ Later(chat, chat')
  BY NextTyped DEF Next
<1>2. SameLog(chat, chat')
  <2>1. CASE Think
    BY <2>1, ThinkTyped
  <2>2. CASE \E s \in Sids : Summarise(s)
    BY <2>2, SummariseTyped
  <2>3. CASE ~Think /\ ~ \E s \in Sids : Summarise(s)
    BY <2>3 DEF StartTask, ThinkingActed, TaskActed, vars, llmVars, SameLog
  <2> QED BY <2>1, <2>2, <2>3
<1>3. pc'["worker"] = pc["worker"] /\ job'["worker"] = job["worker"]
  <2>1. "worker" \in Procs \ {"timer"}
    BY DEF Procs
  <2>2. CASE Others("timer")
    BY <2>1, <2>2 DEF Others
  <2>3. CASE Think
    BY <2>2, <2>3, ThinkTyped
  <2>4. CASE \E name \in TaskNames : StartTask(name)
    BY <2>2, <2>4, StartTyped
  <2>5. CASE ThinkingActed \/ \E how \in {"all", "not found", "raises"} : TaskActed(how)
    BY <2>2, <2>5, TimerActedTyped
  <2>6. CASE UNCHANGED <<pc, job>>
    BY <2>6
  <2> QED BY <2>3, <2>4, <2>5, <2>6 DEF Summarise, vars, llmVars
<1>4. UNCHANGED <<clock, reply, inbox, returned>>
  <2>1. CASE \/ ThinkingActed \/ \E how \in {"all", "not found", "raises"} : TaskActed(how)
    BY <2>1, TimerActedTyped DEF ThinkingActed, TaskActed
  <2>2. CASE Think
    BY <2>2 DEF Think
  <2> QED BY <2>1, <2>2 DEF StartTask, Summarise, vars, llmVars
<1>5. clock' >= clock
  <2>1. clock' = clock /\ clock \in Nat
    BY <1>4 DEF LLMTyped
  <2> QED BY ONLY <2>1
<1>6. pc'["worker"] = "act" => reply' > job'["worker"].id
  BY <1>3, <1>4 DEF DoneIInv
<1> QED BY <1>1, <1>2, <1>3, <1>4, <1>5, <1>6, NothingDone DEF Busy

LEMMA HeardDone ==
  ASSUME LLMTyped, DoneIInv, NEW code, Heard(code)
  PROVE  DoneIInv'
PROOF
<1>1. /\ LLMTyped' /\ Later(chat, chat') /\ SameLog(chat, chat')
      /\ returned' = returned
      /\ \/ pc'["worker"] \in {"idle", "dead"}
         \/ pc'["worker"] = "ask" /\ job'["worker"] = job["worker"]
  BY HeardTyped
<1>2. UNCHANGED <<inbox, clock, reply>> /\ pc["worker"] = "hear" /\ clock' >= clock
  BY DEF Heard, LLMTyped
<1>3. /\ pc'["worker"] \notin {"idle", "dead"} => Busy /\ job'["worker"] = job["worker"]
      /\ pc'["worker"] # "act"
  BY <1>1, <1>2 DEF Busy
<1> QED BY <1>1, <1>2, <1>3, NothingDone

LEMMA NextDone == LLMTyped /\ DoneIInv /\ [Next]_vars => DoneIInv'
PROOF
<1> SUFFICES ASSUME LLMTyped, DoneIInv, [Next]_vars
             PROVE  DoneIInv'
  OBVIOUS
<1>1. CASE \E t \in Topics : \E k \in KindsOf(t) : Arrive(t, k)
  BY <1>1, ArriveDone
<1>2. CASE TakeGroupMessage
  BY <1>2, GroupDone
<1>3. CASE TakeMessage
  BY <1>3, TakeDone
<1>4. CASE \E c \in {"OK", "failed"} : Heard(c)
  BY <1>4, HeardDone
<1>5. CASE \/ \E p \in Procs, c \in Codes : Answer(p, c) \/ AnswerAgain(p, c)
           \/ \E p \in Procs, how \in {"string", "no string", "too long"} : FunctionEnds(p, how)
  <2>1. PICK p \in Procs : Completes(p)
    BY <1>5, CompletesSteps
  <2> QED BY <2>1, CompletesDone
<1>6. CASE \E how \in {"all", "not found", "raises"} : MessageActed(how)
  BY <1>6, MessageActedDone
<1>7. CASE Restart
  BY <1>7, RestartDone
<1>8. CASE \/ Think
           \/ \E name \in TaskNames : StartTask(name)
           \/ \E s \in Sids : Summarise(s)
           \/ ThinkingActed
           \/ \E how \in {"all", "not found", "raises"} : TaskActed(how)
           \/ UNCHANGED vars
  BY <1>8, TimerDone
<1> QED BY <1>1, <1>2, <1>3, <1>4, <1>5, <1>6, <1>7, <1>8 DEF Next

-----------------------------------------------------------------------------
(* The task processes and the work log.                                        *)

Logs == {LogOf[name] : name \in DOMAIN LogOf}
WorkEntry == [log : Logs, result : {"OK", "failed"}]

LogsOf(w) == [i \in DOMAIN w |-> w[i].log]

\* A task process has posted, and has not written its entry yet.
Tasking == pc["timer"] = "act" /\ job["timer"] # "think"

WorkIInv ==
  /\ worklog \in Seq(WorkEntry) /\ posted \in Seq(Logs)
  /\ ~Tasking => posted = LogsOf(worklog)
  /\ Tasking => posted = Append(LogsOf(worklog), LogOf[job["timer"]])

LEMMA WorkIsThere == WorkIInv => WorkIsLogged
BY DEF WorkIInv, Tasking, LogsOf, WorkIsLogged

LEMMA LogsFacts ==
  ASSUME NEW w \in Seq(WorkEntry)
  PROVE  /\ LogsOf(w) \in Seq(Logs) /\ Len(LogsOf(w)) = Len(w) /\ Len(w) \in Nat
         /\ DOMAIN w = 1 .. Len(w)
         /\ \A e \in WorkEntry : LogsOf(Append(w, e)) = Append(LogsOf(w), e.log)
PROOF
<1> DEFINE n == Len(w)
<1>1. n \in Nat /\ DOMAIN w = 1 .. n
  BY LenProperties
<1>2. \A i \in 1 .. n : w[i].log \in Logs
  <2>1. \A i \in 1 .. n : w[i] \in WorkEntry
    BY ElementOfSeq
  <2> QED BY <2>1 DEF WorkEntry
<1>3. LogsOf(w) \in [1 .. n -> Logs] /\ Len(LogsOf(w)) = n
  BY <1>1, <1>2 DEF LogsOf
<1>4. LogsOf(w) \in Seq(Logs)
  BY <1>1, <1>3, SeqDef
<1>5. ASSUME NEW e \in WorkEntry
      PROVE  LogsOf(Append(w, e)) = Append(LogsOf(w), e.log)
  <2> DEFINE v == Append(w, e)
             f == LogsOf(w)
             g == Append(f, e.log)
  <2>1. /\ v \in Seq(WorkEntry) /\ Len(v) = n + 1
        /\ \A i \in 1 .. n : v[i] = w[i]
        /\ v[n + 1] = e
    BY <1>5, AppendProperties
  <2>2. DOMAIN v = 1 .. n + 1
    BY <2>1, LenProperties
  <2>3. e.log \in Logs
    BY DEF WorkEntry
  <2>4. f \in Seq(Logs) /\ Len(f) = n
    BY <1>3, <1>4
  <2>5. \A i \in 1 .. n : f[i] = w[i].log
    BY <1>1 DEF LogsOf
  <2> HIDE DEF f
  <2>6. /\ g \in Seq(Logs) /\ Len(g) = n + 1
        /\ \A i \in 1 .. n : g[i] = f[i]
        /\ g[n + 1] = e.log
    BY <2>3, <2>4, AppendProperties
  <2>7. DOMAIN g = 1 .. n + 1
    BY <2>6, LenProperties
  <2> HIDE DEF v, g, n
  <2>8. ASSUME NEW i \in 1 .. n + 1
        PROVE  g[i] = v[i].log
    <3>1. i \in 1 .. n \/ i = n + 1
      BY <1>1
    <3> QED BY <2>1, <2>5, <2>6, <3>1
  <2>9. LogsOf(v) = [i \in 1 .. n + 1 |-> v[i].log]
    BY <2>2 DEF LogsOf
  <2>10. g = [i \in 1 .. n + 1 |-> g[i]]
    <3>1. g \in [1 .. n + 1 -> Logs]
      BY <2>6, <2>7, LenProperties
    <3> QED BY <3>1
  <2>11. LogsOf(v) = g
    BY <2>8, <2>9, <2>10
  <2> QED BY <2>11 DEF v, g, f
<1> QED BY <1>1, <1>3, <1>4, <1>5

LEMMA InitWork == Init => WorkIInv
PROOF
<1> SUFFICES ASSUME Init PROVE WorkIInv
  OBVIOUS
<1>1. worklog = <<>> /\ posted = <<>> /\ pc["timer"] = "idle"
  BY DEF Init, Procs
<1>2. worklog \in Seq(WorkEntry) /\ posted \in Seq(Logs)
  BY <1>1, EmptySeq
<1>3. LogsOf(worklog) = <<>>
  BY <1>1 DEF LogsOf
<1> QED BY <1>1, <1>2, <1>3 DEF WorkIInv, Tasking

\* A step that posts nothing, writes nothing and ends no task process.
LEMMA NothingPosted ==
  ASSUME WorkIInv, worklog' = worklog, posted' = posted,
         Tasking' <=> Tasking, Tasking => job'["timer"] = job["timer"]
  PROVE  WorkIInv'
BY DEF WorkIInv, Tasking

LEMMA WorkerWork ==
  ASSUME WorkIInv, Others("worker"), worklog' = worklog, posted' = posted
  PROVE  WorkIInv'
PROOF
<1>1. "timer" \in Procs \ {"worker"}
  BY DEF Procs
<1>2. pc'["timer"] = pc["timer"] /\ job'["timer"] = job["timer"]
  BY <1>1 DEF Others
<1> QED BY <1>2, NothingPosted DEF Tasking

LEMMA CompletesWork ==
  ASSUME LLMTyped, WorkIInv, NEW p \in Procs, Completes(p)
  PROVE  WorkIInv'
PROOF
<1>1. /\ Others(p) /\ worklog' = worklog
      /\ \/ pc'[p] \in {"idle", "dead"}
         \/ pc'[p] = "act" /\ \E what \in Texts : Post(p, what)
         \/ /\ pc'[p] \in {"function", "again"}
            /\ UNCHANGED <<job, says, returned, clock, reply, posted>>
  BY CompletesTyped DEF Completes
<1>2. CASE p = "worker"
  <2>1. posted' = posted
    BY <1>2 DEF Completes, Post
  <2> QED BY <1>1, <1>2, <2>1, WorkerWork
<1>3. CASE p = "timer"
  <2>1. ~Tasking /\ job["timer"] \in {"think"} \cup TaskNames
    BY <1>3, AtWork DEF Completes, Tasking, LLMTyped, WorkOf
  <2>2. CASE posted' = posted /\ pc'["timer"] # "act"
    BY <1>1, <2>1, <2>2, NothingPosted DEF Tasking
  <2>3. CASE \E what \in Texts : Post("timer", what)
    <3>1. PICK what \in Texts : Post("timer", what)
      BY <2>3
    <3>2. pc'["timer"] = "act" /\ job' = job
      BY <3>1, <1>3, ProcPosts DEF LLMTyped, Completes
    <3>3. posted' = IF job["timer"] = "think" THEN posted ELSE Append(posted, LogOf[job["timer"]])
      BY <3>1 DEF Post
    <3>4. CASE job["timer"] = "think"
      BY <1>1, <2>1, <3>2, <3>3, <3>4, NothingPosted DEF Tasking
    <3>5. CASE job["timer"] # "think"
      <4>1. Tasking' /\ posted' = Append(posted, LogOf[job["timer"]])
        BY <3>2, <3>3, <3>5 DEF Tasking
      <4>2. LogOf[job["timer"]] \in Logs
        <5>1. TaskNames \subseteq DOMAIN LogOf
          BY LLMAssumption DEF LogOf
        <5>2. job["timer"] \in DOMAIN LogOf
          BY <2>1, <3>5, <5>1
        <5> QED BY <5>2 DEF Logs
      <4>3. posted' \in Seq(Logs)
        BY <4>1, <4>2, AppendProperties DEF WorkIInv
      <4>4. posted' = Append(LogsOf(worklog'), LogOf[job'["timer"]])
        BY <1>1, <2>1, <3>2, <4>1 DEF WorkIInv
      <4>5. worklog' \in Seq(WorkEntry)
        BY <1>1 DEF WorkIInv
      <4> QED BY <4>1, <4>3, <4>4, <4>5 DEF WorkIInv
    <3> QED BY <3>4, <3>5
  <2>4. \/ \E what \in {"refused", "error"} : End("timer", what) /\ posted' = posted
        \/ \E what \in Texts : Post("timer", what)
        \/ Raise("timer") /\ posted' = posted
        \/ /\ \E q \in {"function", "again"} : pc' = [pc EXCEPT !["timer"] = q]
           /\ posted' = posted
    BY <1>3 DEF Completes
  <2>5. pc \in [Procs -> Pcs] /\ "timer" \in Procs
    BY DEF LLMTyped, ProcsTyped, Procs
  <2>6. CASE \/ \E what \in {"refused", "error"} : End("timer", what) /\ posted' = posted
             \/ Raise("timer") /\ posted' = posted
    BY <2>2, <2>5, <2>6 DEF End, Raise
  <2>7. CASE /\ \E q \in {"function", "again"} : pc' = [pc EXCEPT !["timer"] = q]
             /\ posted' = posted
    BY <2>2, <2>5, <2>7
  <2> QED BY <2>3, <2>4, <2>6, <2>7
<1> QED BY <1>2, <1>3 DEF Procs

\* A restart, or a failing write, forgets the process whose entry was not written.
LEMMA WorkForgotten ==
  ASSUME WorkIInv, posted' = SubSeq(posted, 1, Len(worklog)), worklog' = worklog,
         pc'["timer"] # "act"
  PROVE  WorkIInv'
PROOF
<1> DEFINE n == Len(worklog)
           f == LogsOf(worklog)
<1>1. /\ posted' = SubSeq(posted, 1, n) /\ worklog' = worklog /\ pc'["timer"] # "act"
  OBVIOUS
<1>2. worklog \in Seq(WorkEntry) /\ posted \in Seq(Logs)
  BY DEF WorkIInv
<1>3. f \in Seq(Logs) /\ Len(f) = n /\ n \in Nat
  BY <1>2, LogsFacts
<1>4. /\ Len(posted) >= n /\ Len(posted) \in Nat
      /\ \A i \in 1 .. n : posted[i] = f[i]
  <2>1. CASE ~Tasking
    <3>1. posted = f
      BY <2>1 DEF WorkIInv
    <3> HIDE DEF f
    <3> QED BY <1>3, <3>1
  <2>2. CASE Tasking
    <3> DEFINE x == LogOf[job["timer"]]
    <3>1. posted = Append(f, x)
      BY <2>2 DEF WorkIInv
    <3> HIDE DEF f, x
    <3>2. Len(posted) \in Nat
      BY <1>2, LenProperties
    <3> QED BY <1>3, <3>1, <3>2
  <2> QED BY <2>1, <2>2
<1>5. \A i \in 1 .. n : posted[i] \in Logs
  <2>1. \A i \in 1 .. n : i \in 1 .. Len(posted)
    BY <1>3, <1>4
  <2> QED BY <1>2, <2>1, ElementOfSeq
<1>6. /\ SubSeq(posted, 1, n) \in Seq(Logs)
      /\ Len(SubSeq(posted, 1, n)) = n
      /\ \A i \in 1 .. n : SubSeq(posted, 1, n)[i] = posted[i]
  <2> HIDE DEF n
  <2>1. /\ SubSeq(posted, 1, n) \in Seq(Logs)
        /\ Len(SubSeq(posted, 1, n)) = IF 1 <= n THEN n - 1 + 1 ELSE 0
        /\ \A i \in 1 .. n - 1 + 1 : SubSeq(posted, 1, n)[i] = posted[1 + i - 1]
    BY <1>3, <1>5, SubSeqProperties
  <2>2. Len(SubSeq(posted, 1, n)) = n /\ n - 1 + 1 = n
    BY <1>3, <2>1
  <2>3. \A i \in 1 .. n : 1 + i - 1 = i
    BY <1>3
  <2> QED BY <2>1, <2>2, <2>3
<1> HIDE DEF f, n
<1>7. SubSeq(posted, 1, n) = f
  <2> DEFINE s == SubSeq(posted, 1, n)
  <2>1. s \in Seq(Logs) /\ Len(s) = n /\ \A i \in 1 .. n : s[i] = f[i]
    BY <1>4, <1>6
  <2> HIDE DEF s
  <2>2. s = f
    BY <1>3, <2>1, SeqEqual
  <2> QED BY <2>2 DEF s
<1>8. posted' = LogsOf(worklog') /\ ~Tasking'
  BY <1>1, <1>7 DEF f, Tasking
<1> QED BY <1>1, <1>2, <1>6, <1>8 DEF WorkIInv

LEMMA TaskWork ==
  ASSUME LLMTyped, WorkIInv, NEW how, TaskActed(how)
  PROVE  WorkIInv'
PROOF
<1> DEFINE e == [log |-> LogOf[job["timer"]], result |-> IF how = "all" THEN "OK" ELSE "failed"]
<1>1. pc["timer"] = "act" /\ job["timer"] \in DOMAIN LogOf
  BY DEF TaskActed
<1>2. job["timer"] # "think"
  BY <1>1 DEF LogOf
<1>3. e \in WorkEntry /\ e.log = LogOf[job["timer"]]
  BY <1>1 DEF WorkEntry, Logs
<1>4. pc'["timer"] \in {"idle", "dead"}
  BY TimerActedTyped
<1>5. CASE worklog' = Append(worklog, e) /\ posted' = posted
  <2>1. posted = Append(LogsOf(worklog), LogOf[job["timer"]]) /\ worklog \in Seq(WorkEntry)
        /\ posted \in Seq(Logs)
    BY <1>1, <1>2 DEF WorkIInv, Tasking
  <2> HIDE DEF e
  <2>2. LogsOf(worklog') = Append(LogsOf(worklog), LogOf[job["timer"]])
    BY <1>3, <1>5, <2>1, LogsFacts
  <2>3. worklog' \in Seq(WorkEntry)
    BY <1>3, <1>5, <2>1, AppendProperties
  <2>4. ~Tasking'
    BY <1>4 DEF Tasking
  <2> QED BY <1>5, <2>1, <2>2, <2>3, <2>4 DEF WorkIInv
<1>6. CASE posted' = SubSeq(posted, 1, Len(worklog)) /\ worklog' = worklog
  BY <1>4, <1>6, WorkForgotten
<1>7. AppendWorklog(how) \/ WorklogFails
  BY DEF TaskActed
<1> QED BY <1>5, <1>6, <1>7 DEF AppendWorklog, WorklogFails

LEMMA NextWork == LLMTyped /\ WorkIInv /\ [Next]_vars => WorkIInv'
PROOF
<1> SUFFICES ASSUME LLMTyped, WorkIInv, [Next]_vars
             PROVE  WorkIInv'
  OBVIOUS
<1>1. CASE \/ \E p \in Procs, c \in Codes : Answer(p, c) \/ AnswerAgain(p, c)
           \/ \E p \in Procs, how \in {"string", "no string", "too long"} : FunctionEnds(p, how)
  <2>1. PICK p \in Procs : Completes(p)
    BY <1>1, CompletesSteps
  <2> QED BY <2>1, CompletesWork
<1>2. CASE \E how \in {"all", "not found", "raises"} : TaskActed(how)
  BY <1>2, TaskWork
<1>3. CASE Restart
  <2>1. posted' = SubSeq(posted, 1, Len(worklog)) /\ worklog' = worklog /\ pc'["timer"] = "idle"
    BY <1>3 DEF Restart, Procs
  <2> QED BY <2>1, WorkForgotten
<1>4. CASE TakeMessage
  <2>1. Others("worker")
    BY <1>4, TakeTyped
  <2> QED BY <1>4, <2>1, WorkerWork DEF TakeMessage
<1>5. CASE \E c \in {"OK", "failed"} : Heard(c)
  <2>1. Others("worker")
    BY <1>5, HeardTyped
  <2> QED BY <1>5, <2>1, WorkerWork DEF Heard
<1>6. CASE \E how \in {"all", "not found", "raises"} : MessageActed(how)
  <2>1. Others("worker")
    BY <1>6, MessageActedTyped
  <2> QED BY <1>6, <2>1, WorkerWork DEF MessageActed
<1>7. CASE Think
  <2>1. worklog' = worklog /\ posted' = posted /\ pc["timer"] = "idle"
    BY <1>7 DEF Think
  <2>2. pc' = pc \/ pc'["timer"] = "ask"
    BY <1>7, ThinkTyped
  <2> QED BY <2>1, <2>2, NothingPosted DEF Tasking
<1>8. CASE \E name \in TaskNames : StartTask(name)
  <2>1. worklog' = worklog /\ posted' = posted /\ pc["timer"] = "idle"
    BY <1>8 DEF StartTask
  <2>2. pc'["timer"] = "ask"
    BY <1>8, StartTyped
  <2> QED BY <2>1, <2>2, NothingPosted DEF Tasking
<1>9. CASE ThinkingActed
  <2>1. worklog' = worklog /\ posted' = posted /\ job["timer"] = "think"
    BY <1>9 DEF ThinkingActed
  <2>2. pc'["timer"] \in {"idle", "dead"}
    BY <1>9, TimerActedTyped
  <2> QED BY <2>1, <2>2, NothingPosted DEF Tasking
<1>10. CASE UNCHANGED <<job, pc, worklog, posted>>
  BY <1>10, NothingPosted DEF Tasking
<1>11. CASE \E t \in Topics : \E k \in KindsOf(t) : Arrive(t, k)
  BY <1>10, <1>11 DEF Arrive
<1>12. CASE TakeGroupMessage
  BY <1>10, <1>12 DEF TakeGroupMessage
<1>13. CASE \E s \in Sids : Summarise(s)
  BY <1>10, <1>13 DEF Summarise
<1>14. CASE UNCHANGED vars
  BY <1>10, <1>14 DEF vars, llmVars
<1> QED BY <1>1, <1>2, <1>3, <1>4, <1>5, <1>6, <1>7, <1>8, <1>9, <1>11, <1>12, <1>13, <1>14
        DEF Next

\* What an agent has done is in its log once: a message and its reply in the session of
\* the message's topic (nothing of one that met an error), each task process that
\* posted in the work log, in order, up to the rows that could not be written.
THEOREM DoneGetsLogged == Spec => []DoneIsLogged
PROOF
<1>1. Init => LLMTyped /\ DoneIInv /\ WorkIInv
  BY InitTyped, InitDone, InitWork
<1>2. LLMTyped /\ DoneIInv /\ WorkIInv /\ [Next]_vars => (LLMTyped /\ DoneIInv /\ WorkIInv)'
  BY NextTyped, NextDone, NextWork
<1>3. LLMTyped /\ DoneIInv /\ WorkIInv => DoneIsLogged
  BY DoneIsAnswered, WorkIsThere DEF DoneIsLogged
<1> QED BY <1>1, <1>2, <1>3, PTL DEF Spec

=============================================================================
