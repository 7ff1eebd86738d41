--------------------------- MODULE Tunnels_proofs ---------------------------
(* Proofs about Tunnels: what comes in is handed to an agent once, and the     *)
(* services forget only what the code has taken up or stepped over; and the    *)
(* tunnels, the contacts and their file agree on who somebody is.              *)
EXTENDS Tunnels, SequenceTheorems, FiniteSetTheorems, WellFoundedInduction, TLAPS

-----------------------------------------------------------------------------
(* The updates of the bots.                                                    *)

Update == [from : People, chat : Chats, usable : BOOLEAN, num : Nat]

Pcs == {"off", "fetch", "convert", "send", "reply", "dead"}

BotsTyped ==
  /\ updates \in [Bots -> Seq(Update)]
  /\ confirmed \in [Bots -> Nat]
  /\ offset \in [Bots -> Int]
  /\ pc \in [Bots -> Pcs]
  /\ current \in [Bots -> Nat]
  /\ marked \in [Bots -> SUBSET Nat]
  /\ handed \in [Bots -> Seq(Nat)]
  /\ entered \in [Bots -> SUBSET Nat]
  /\ skipped \in [Bots -> SUBSET Int]

\* An update the code has seen: stepped over, of no use, or taken up, itself or
\* another one of its number.
Handled(b, i) ==
  \/ i \in skipped[b]
  \/ /\ i \in 1 .. Len(updates[b])
     /\ updates[b][i].usable =>
          i \in entered[b] \/ \E j \in entered[b] : updates[b][j].num = updates[b][i].num

\* What is confirmed, or lies before the offset, has been seen.
PassedIsHandled(b) ==
  \A i \in Nat \ {0} : i < offset[b] \/ i <= confirmed[b] => Handled(b, i)

\* A number is marked for an update that was taken up.
MarkedWasEntered(b) ==
  /\ entered[b] \subseteq 1 .. Len(updates[b])
  /\ \A m \in marked[b] : \E j \in entered[b] : updates[b][j].num = m

\* The number of what was handed to the bus is marked.
HandedIsMarked(b) ==
  \A n \in DOMAIN handed[b] :
    /\ handed[b][n] \in 1 .. Len(updates[b])
    /\ updates[b][handed[b][n]].num \in marked[b]

\* The update in work was taken up, all before it is confirmed, and it is not yet
\* with the bus while it is converted.
InWork(b) ==
  pc[b] \in {"convert", "send", "reply"} =>
    /\ current[b] \in entered[b] /\ current[b] <= confirmed[b] + 1
    /\ updates[b][current[b]].num \in marked[b]
    /\ pc[b] = "convert" => \A n \in DOMAIN handed[b] : handed[b][n] # current[b]

BotIInv(b) ==
  /\ confirmed[b] <= Len(updates[b])
  /\ PassedIsHandled(b)
  /\ MarkedWasEntered(b)
  /\ HandedIsMarked(b)
  /\ InWork(b)
  /\ Distinct(handed[b])

BotsIInv == BotsTyped /\ \A b \in Bots : BotIInv(b)

LEMMA BotFacts ==
  ASSUME BotsTyped, NEW b \in Bots
  PROVE  /\ updates[b] \in Seq(Update) /\ confirmed[b] \in Nat /\ offset[b] \in Int
         /\ pc[b] \in Pcs /\ current[b] \in Nat /\ marked[b] \in SUBSET Nat
         /\ handed[b] \in Seq(Nat) /\ entered[b] \in SUBSET Nat /\ skipped[b] \in SUBSET Int
         /\ Len(updates[b]) \in Nat /\ DOMAIN updates[b] = 1 .. Len(updates[b])
         /\ \A i \in 1 .. Len(updates[b]) : updates[b][i] \in Update
         /\ Len(handed[b]) \in Nat /\ DOMAIN handed[b] = 1 .. Len(handed[b])
PROOF
<1>1. /\ updates[b] \in Seq(Update) /\ confirmed[b] \in Nat /\ offset[b] \in Int
      /\ pc[b] \in Pcs /\ current[b] \in Nat /\ marked[b] \in SUBSET Nat
      /\ handed[b] \in Seq(Nat) /\ entered[b] \in SUBSET Nat /\ skipped[b] \in SUBSET Int
  BY DEF BotsTyped
<1>2. Len(updates[b]) \in Nat /\ DOMAIN updates[b] = 1 .. Len(updates[b])
  BY <1>1, LenProperties
<1>3. Len(handed[b]) \in Nat /\ DOMAIN handed[b] = 1 .. Len(handed[b])
  BY <1>1, LenProperties
<1>4. \A i \in 1 .. Len(updates[b]) : updates[b][i] \in Update
  BY <1>1, ElementOfSeq
<1> QED BY <1>1, <1>2, <1>3, <1>4

\* Bot b goes through a step unchanged.
Same(b) ==
  /\ updates'[b] = updates[b] /\ confirmed'[b] = confirmed[b] /\ offset'[b] = offset[b]
  /\ pc'[b] = pc[b] /\ current'[b] = current[b] /\ marked'[b] = marked[b]
  /\ handed'[b] = handed[b] /\ entered'[b] = entered[b] /\ skipped'[b] = skipped[b]

LEMMA BotAlone ==
  ASSUME NEW b \in Bots, BotIInv(b), Same(b)
  PROVE  BotIInv(b)'
PROOF
<1>1. PassedIsHandled(b)'
  BY DEF BotIInv, Same, PassedIsHandled, Handled
<1>2. MarkedWasEntered(b)'
  BY DEF BotIInv, Same, MarkedWasEntered
<1>3. HandedIsMarked(b)' /\ Distinct(handed[b])'
  BY DEF BotIInv, Same, HandedIsMarked, Distinct
<1>4. InWork(b)'
  BY DEF BotIInv, Same, InWork
<1> QED BY <1>1, <1>2, <1>3, <1>4 DEF BotIInv, Same

\* The offset confirms what lies before it, as far as there is anything.
LEMMA ConfirmedFacts ==
  ASSUME BotsTyped, NEW b \in Bots, confirmed[b] <= Len(updates[b])
  PROVE  /\ Confirmed(b) \in confirmed[b] .. Len(updates[b])
         /\ Confirmed(b) = confirmed[b] \/ Confirmed(b) < offset[b]
PROOF
<1> DEFINE R == confirmed[b] .. Len(updates[b])
           P(c) == \A d \in R : d <= c <=> d < offset[b] \/ d = confirmed[b]
<1>1. confirmed[b] \in Nat /\ offset[b] \in Int /\ Len(updates[b]) \in Nat
  BY BotFacts
<1>2. \E c \in R : P(c)
  <2>1. CASE offset[b] - 1 <= confirmed[b]
    <3>1. confirmed[b] \in R /\ P(confirmed[b])
      BY <1>1, <2>1
    <3> QED BY <3>1
  <2>2. CASE offset[b] - 1 >= Len(updates[b])
    <3>1. Len(updates[b]) \in R /\ P(Len(updates[b]))
      BY <1>1, <2>2
    <3> QED BY <3>1
  <2>3. CASE offset[b] - 1 > confirmed[b] /\ offset[b] - 1 < Len(updates[b])
    <3>1. offset[b] - 1 \in R /\ P(offset[b] - 1)
      BY <1>1, <2>3
    <3> QED BY <3>1
  <2> QED BY <1>1, <2>1, <2>2, <2>3
<1>3. Confirmed(b) = CHOOSE c \in R : P(c)
  BY DEF Confirmed
<1>4. Confirmed(b) \in R /\ P(Confirmed(b))
  BY <1>2, <1>3, Zenon
<1>5. Confirmed(b) <= Confirmed(b)
  BY <1>1, <1>4
<1> QED BY <1>4, <1>5

-----------------------------------------------------------------------------
(* The steps of a bot.                                                         *)

\* A new update comes behind all there are.
LEMMA ArrivedUpdate ==
  ASSUME BotsIInv, NEW b \in Bots, NEW p \in People, NEW chat \in Chats, NEW usable \in BOOLEAN,
         UpdateArrives(b, p, chat, usable)
  PROVE  BotsIInv'
PROOF
<1> DEFINE before == {i \in DOMAIN updates[b] :
                        Numbering(updates[b][i].chat) = Numbering(chat)}
           u == [from |-> p, chat |-> chat, usable |-> usable, num |-> Cardinality(before) + 1]
<1>1. BotsTyped /\ BotIInv(b)
  BY DEF BotsIInv
<1>2. /\ updates[b] \in Seq(Update) /\ Len(updates[b]) \in Nat
      /\ DOMAIN updates[b] = 1 .. Len(updates[b])
  BY <1>1, BotFacts
<1>3. /\ updates' = [updates EXCEPT ![b] = Append(@, u)]
      /\ UNCHANGED <<confirmed, pc, offset, current, marked, handed, entered, skipped>>
  BY DEF UpdateArrives
<1>4. Cardinality(before) \in Nat
  <2>1. IsFiniteSet(1 .. Len(updates[b]))
    <3>1. 1 \in Int /\ Len(updates[b]) \in Int
      BY <1>2
    <3> QED BY <3>1, FS_Interval
  <2>2. IsFiniteSet(before)
    BY <1>2, <2>1, FS_Subset
  <2> QED BY <2>2, FS_CardinalityType
<1>5. u \in Update
  BY <1>4 DEF Update
<1> HIDE DEF u
<1>6. /\ Append(updates[b], u) \in Seq(Update)
      /\ Len(Append(updates[b], u)) = Len(updates[b]) + 1
      /\ \A i \in 1 .. Len(updates[b]) : Append(updates[b], u)[i] = updates[b][i]
  BY <1>2, <1>5, AppendProperties
<1>7. /\ updates'[b] \in Seq(Update)
      /\ Len(updates'[b]) = Len(updates[b]) + 1
      /\ \A i \in 1 .. Len(updates[b]) : updates'[b][i] = updates[b][i]
  BY <1>1, <1>3, <1>6 DEF BotsTyped
<1>8. \A c \in Bots \ {b} : updates'[c] = updates[c]
  BY <1>1, <1>3 DEF BotsTyped
<1>9. BotsTyped'
  BY <1>1, <1>3, <1>6 DEF BotsTyped
<1>10. BotIInv(b)'
  <2>1. entered[b] \subseteq 1 .. Len(updates[b]) /\ 1 .. Len(updates[b]) \subseteq 1 .. Len(updates'[b])
    BY <1>1, <1>2, <1>7 DEF BotIInv, MarkedWasEntered
  <2>2. \A i : Handled(b, i) => Handled(b, i)'
    BY <1>3, <1>7, <2>1 DEF Handled
  <2>3. PassedIsHandled(b)'
    BY <1>1, <1>3, <2>2 DEF BotIInv, PassedIsHandled
  <2>4. MarkedWasEntered(b)'
    BY <1>1, <1>3, <1>7, <2>1 DEF BotIInv, MarkedWasEntered
  <2>5. HandedIsMarked(b)' /\ Distinct(handed[b])'
    BY <1>1, <1>3, <1>7, <2>1 DEF BotIInv, HandedIsMarked, Distinct
  <2>6. InWork(b)'
    BY <1>1, <1>3, <1>7, <2>1 DEF BotIInv, InWork
  <2>7. confirmed'[b] <= Len(updates'[b])
    BY <1>1, <1>2, <1>3, <1>7, BotFacts DEF BotIInv
  <2> QED BY <2>3, <2>4, <2>5, <2>6, <2>7 DEF BotIInv
<1>11. ASSUME NEW c \in Bots, c # b
       PROVE  BotIInv(c)'
  BY <1>3, <1>8, <1>11, BotAlone DEF BotsIInv, Same
<1> QED BY <1>9, <1>10, <1>11 DEF BotsIInv

\* A loop begins, at the first update that is not confirmed or at none.
LEMMA StartedBot ==
  ASSUME BotsIInv, NEW b \in Bots, StartBot(b)
  PROVE  BotsIInv'
PROOF
<1>1. BotsTyped /\ BotIInv(b)
  BY DEF BotsIInv
<1>2. confirmed[b] \in Nat
  BY <1>1, BotFacts
<1>3. PICK o \in {confirmed[b] + 1, 0, -1} : offset' = [offset EXCEPT ![b] = o]
  BY DEF StartBot
<1>4. /\ pc' = [pc EXCEPT ![b] = "fetch"]
      /\ UNCHANGED <<updates, confirmed, current, marked, handed, entered, skipped>>
  BY DEF StartBot
<1>5. offset'[b] = o /\ pc'[b] = "fetch" /\ o \in Int
  BY <1>1, <1>2, <1>3, <1>4 DEF BotsTyped
<1>6. BotsTyped'
  BY <1>1, <1>3, <1>4, <1>5 DEF BotsTyped, Pcs
<1>7. BotIInv(b)'
  <2>1. PassedIsHandled(b)'
    <3> SUFFICES ASSUME NEW i \in Nat \ {0}, i < o \/ i <= confirmed[b]
                 PROVE  Handled(b, i)'
      BY <1>4, <1>5 DEF PassedIsHandled
    <3>1. i <= confirmed[b]
      BY <1>2, <1>3
    <3> QED BY <1>1, <1>4, <3>1 DEF BotIInv, PassedIsHandled, Handled
  <2>2. MarkedWasEntered(b)' /\ HandedIsMarked(b)' /\ Distinct(handed[b])'
    BY <1>1, <1>4 DEF BotIInv, MarkedWasEntered, HandedIsMarked, Distinct
  <2>3. InWork(b)'
    BY <1>5 DEF InWork
  <2> QED BY <1>1, <1>4, <2>1, <2>2, <2>3 DEF BotIInv
<1>8. ASSUME NEW c \in Bots, c # b
      PROVE  BotIInv(c)'
  BY <1>1, <1>3, <1>4, <1>8, BotAlone DEF BotsIInv, BotsTyped, Same
<1> QED BY <1>6, <1>7, <1>8 DEF BotsIInv

\* A message is taken up: it was not handed over before, as its number was not
\* marked.  Or an update of no use, or of a number that is marked, is passed.
LEMMA FetchedUpdate ==
  ASSUME BotsIInv, NEW b \in Bots, Fetch(b)
  PROVE  BotsIInv'
PROOF
<1> DEFINE i == Confirmed(b) + 1
           u == updates[b][i]
<1>1. BotsTyped /\ BotIInv(b)
  BY DEF BotsIInv
<1>2. /\ updates[b] \in Seq(Update) /\ confirmed[b] \in Nat /\ offset[b] \in Int
      /\ Len(updates[b]) \in Nat
      /\ \A j \in 1 .. Len(updates[b]) : updates[b][j] \in Update
  BY <1>1, BotFacts
<1>3. /\ Confirmed(b) \in confirmed[b] .. Len(updates[b])
      /\ Confirmed(b) = confirmed[b] \/ Confirmed(b) < offset[b]
  BY <1>1, ConfirmedFacts DEF BotIInv
<1>4. /\ pc[b] = "fetch" /\ i <= Len(updates[b])
      /\ confirmed' = [confirmed EXCEPT ![b] = i - 1]
      /\ UNCHANGED <<updates, handed, skipped>>
  BY DEF Fetch
<1>5. Confirmed(b) \in Nat /\ i \in 1 .. Len(updates[b]) /\ i - 1 = Confirmed(b) /\ i \in Nat
  BY <1>2, <1>3, <1>4
<1>6. \A j \in Nat \ {0} : j < i => Handled(b, j)
  <2> SUFFICES ASSUME NEW j \in Nat \ {0}, j < i
               PROVE  j < offset[b] \/ j <= confirmed[b]
    BY <1>1 DEF BotIInv, PassedIsHandled
  <2> QED BY <1>2, <1>3, <1>5
<1>7. \A j \in Nat \ {0} : j < offset[b] => Handled(b, j)
  BY <1>1 DEF BotIInv, PassedIsHandled
<1>8. u \in Update /\ u.num \in Nat
  BY <1>2, <1>5 DEF Update
<1>9. confirmed'[b] = Confirmed(b) /\ confirmed' \in [Bots -> Nat]
  BY <1>1, <1>4, <1>5 DEF BotsTyped
<1>10. \A c \in Bots \ {b} : confirmed'[c] = confirmed[c]
  BY <1>1, <1>4 DEF BotsTyped
<1> HIDE DEF i, u
<1>11. CASE u.usable /\ u.num \notin marked[b]
  <2>1. /\ marked' = [marked EXCEPT ![b] = @ \cup {u.num}]
        /\ entered' = [entered EXCEPT ![b] = @ \cup {i}]
        /\ current' = [current EXCEPT ![b] = i]
        /\ pc' = [pc EXCEPT ![b] = "convert"]
        /\ UNCHANGED offset
    BY <1>11 DEF Fetch, i, u
  <2>2. /\ marked'[b] = marked[b] \cup {u.num} /\ entered'[b] = entered[b] \cup {i}
        /\ current'[b] = i /\ pc'[b] = "convert"
    BY <1>1, <2>1 DEF BotsTyped
  <2>3. BotsTyped'
    BY <1>1, <1>4, <1>5, <1>8, <1>9, <2>1 DEF BotsTyped, Pcs
  <2>4. \A j : Handled(b, j) => Handled(b, j)'
    BY <1>4, <2>2 DEF Handled
  <2>5. PassedIsHandled(b)'
    <3> SUFFICES ASSUME NEW j \in Nat \ {0}, j < offset[b] \/ j <= Confirmed(b)
                 PROVE  Handled(b, j)
      BY <1>9, <2>1, <2>4 DEF PassedIsHandled
    <3> QED BY <1>5, <1>6, <1>7
  <2>6. MarkedWasEntered(b)'
    BY <1>1, <1>4, <1>5, <2>2 DEF BotIInv, MarkedWasEntered, u
  <2>7. HandedIsMarked(b)' /\ Distinct(handed[b])'
    BY <1>1, <1>4, <2>2 DEF BotIInv, HandedIsMarked, Distinct
  <2>8. InWork(b)'
    <3>1. \A n \in DOMAIN handed[b] : handed[b][n] # i
      BY <1>1, <1>11 DEF BotIInv, HandedIsMarked, u
    <3> QED BY <1>4, <1>5, <1>9, <2>2, <3>1 DEF InWork, u
  <2>9. confirmed'[b] <= Len(updates'[b])
    BY <1>2, <1>3, <1>4, <1>9
  <2>10. BotIInv(b)'
    BY <2>5, <2>6, <2>7, <2>8, <2>9 DEF BotIInv
  <2>11. ASSUME NEW c \in Bots, c # b
         PROVE  BotIInv(c)'
    BY <1>1, <1>4, <1>10, <2>1, <2>11, BotAlone DEF BotsIInv, BotsTyped, Same
  <2> QED BY <2>3, <2>10, <2>11 DEF BotsIInv
<1>12. CASE ~(u.usable /\ u.num \notin marked[b])
  <2>1. /\ offset' = [offset EXCEPT ![b] = i + 1]
        /\ UNCHANGED <<marked, entered, current, pc>>
    BY <1>12 DEF Fetch, i, u
  <2>2. offset'[b] = i + 1 /\ offset' \in [Bots -> Int]
    BY <1>1, <1>5, <2>1 DEF BotsTyped
  <2>3. BotsTyped'
    BY <1>1, <1>4, <1>9, <2>1, <2>2 DEF BotsTyped
  <2>4. Handled(b, i)
    BY <1>1, <1>5, <1>12 DEF BotIInv, MarkedWasEntered, Handled, u
  <2>5. PassedIsHandled(b)'
    <3> SUFFICES ASSUME NEW j \in Nat \ {0}, j < i + 1 \/ j <= Confirmed(b)
                 PROVE  Handled(b, j)
      BY <1>4, <1>9, <2>1, <2>2 DEF PassedIsHandled, Handled
    <3> QED BY <1>5, <1>6, <2>4
  <2>6. MarkedWasEntered(b)' /\ HandedIsMarked(b)' /\ Distinct(handed[b])'
    BY <1>1, <1>4, <2>1 DEF BotIInv, MarkedWasEntered, HandedIsMarked, Distinct
  <2>7. InWork(b)'
    BY <1>4, <2>1 DEF InWork
  <2>8. confirmed'[b] <= Len(updates'[b])
    BY <1>2, <1>3, <1>4, <1>9
  <2>9. BotIInv(b)'
    BY <2>5, <2>6, <2>7, <2>8 DEF BotIInv
  <2>10. ASSUME NEW c \in Bots, c # b
         PROVE  BotIInv(c)'
    BY <1>1, <1>4, <1>10, <2>1, <2>10, BotAlone DEF BotsIInv, BotsTyped, Same
  <2> QED BY <2>3, <2>9, <2>10 DEF BotsIInv
<1> QED BY <1>11, <1>12

\* The poll ends without an update: everything before the offset is forgotten.
LEMMA FetchedNothing ==
  ASSUME BotsIInv, NEW b \in Bots, FetchNothing(b)
  PROVE  BotsIInv'
PROOF
<1>1. BotsTyped /\ BotIInv(b)
  BY DEF BotsIInv
<1>2. confirmed[b] \in Nat /\ Len(updates[b]) \in Nat /\ offset[b] \in Int
  BY <1>1, BotFacts
<1>3. /\ pc[b] = "fetch"
      /\ Confirmed(b) = Len(updates[b]) /\ confirmed[b] < Len(updates[b])
      /\ confirmed' = [confirmed EXCEPT ![b] = Len(updates[b])]
      /\ UNCHANGED <<updates, pc, offset, current, marked, handed, entered, skipped>>
  BY DEF FetchNothing
<1>4. Len(updates[b]) < offset[b]
  BY <1>1, <1>2, <1>3, ConfirmedFacts DEF BotIInv
<1>5. confirmed'[b] = Len(updates[b])
  BY <1>1, <1>3 DEF BotsTyped
<1>6. BotsTyped'
  BY <1>1, <1>2, <1>3 DEF BotsTyped
<1>7. PassedIsHandled(b)'
  <2> SUFFICES ASSUME NEW i \in Nat \ {0}, i < offset[b] \/ i <= Len(updates[b])
               PROVE  Handled(b, i)
    BY <1>3, <1>5 DEF PassedIsHandled, Handled
  <2>1. i < offset[b]
    BY <1>2, <1>4
  <2> QED BY <1>1, <2>1 DEF BotIInv, PassedIsHandled
<1>8. MarkedWasEntered(b)' /\ HandedIsMarked(b)' /\ Distinct(handed[b])'
  BY <1>1, <1>3 DEF BotIInv, MarkedWasEntered, HandedIsMarked, Distinct
<1>9. InWork(b)'
  BY <1>3 DEF InWork
<1>10. BotIInv(b)'
  BY <1>2, <1>3, <1>5, <1>7, <1>8, <1>9 DEF BotIInv
<1>11. ASSUME NEW c \in Bots, c # b
       PROVE  BotIInv(c)'
  BY <1>1, <1>3, <1>11, BotAlone DEF BotsIInv, BotsTyped, Same
<1> QED BY <1>6, <1>10, <1>11 DEF BotsIInv

\* The message is handed to the bus, for the first time, or refused.
LEMMA ConvertedUpdate ==
  ASSUME BotsIInv, NEW b \in Bots, Converted(b)
  PROVE  BotsIInv'
PROOF
<1>1. BotsTyped /\ BotIInv(b)
  BY DEF BotsIInv
<1>2. /\ pc[b] = "convert"
      /\ UNCHANGED <<updates, confirmed, offset, current, marked, entered, skipped>>
  BY DEF Converted
<1>3. \/ pc' = [pc EXCEPT ![b] = "send"] /\ handed' = [handed EXCEPT ![b] = Append(@, current[b])]
      \/ pc' = [pc EXCEPT ![b] = "reply"] /\ handed' = handed
  BY DEF Converted, Deliver, Refuse
<1>4. current[b] \in Nat /\ handed[b] \in Seq(Nat) /\ Len(handed[b]) \in Nat
  BY <1>1, BotFacts
<1> DEFINE h == Append(handed[b], current[b])
<1>5. /\ h \in Seq(Nat) /\ Len(h) = Len(handed[b]) + 1
      /\ \A n \in 1 .. Len(handed[b]) : h[n] = handed[b][n]
      /\ h[Len(handed[b]) + 1] = current[b]
  BY <1>4, AppendProperties
<1>6. DOMAIN h = 1 .. Len(handed[b]) + 1 /\ DOMAIN handed[b] = 1 .. Len(handed[b])
  BY <1>4, <1>5, LenProperties
<1> HIDE DEF h
<1>7. /\ current[b] \in entered[b] /\ current[b] <= confirmed[b] + 1
      /\ updates[b][current[b]].num \in marked[b]
      /\ \A n \in DOMAIN handed[b] : handed[b][n] # current[b]
  BY <1>1, <1>2 DEF BotIInv, InWork
<1>8. handed'[b] = h \/ handed'[b] = handed[b]
  BY <1>1, <1>3 DEF BotsTyped, h
<1>9. BotsTyped'
  <2>1. pc' \in [Bots -> Pcs]
    BY <1>1, <1>3 DEF BotsTyped, Pcs
  <2>2. handed' \in [Bots -> Seq(Nat)]
    BY <1>1, <1>3, <1>5 DEF BotsTyped, h
  <2> QED BY <1>1, <1>2, <2>1, <2>2 DEF BotsTyped
<1>10. PassedIsHandled(b)' /\ MarkedWasEntered(b)'
  BY <1>1, <1>2 DEF BotIInv, PassedIsHandled, Handled, MarkedWasEntered
<1>11. HandedIsMarked(b)' /\ Distinct(handed[b])'
  <2>1. CASE handed'[b] = handed[b]
    BY <1>1, <1>2, <2>1 DEF BotIInv, HandedIsMarked, Distinct
  <2>2. CASE handed'[b] = h
    <3>1. ASSUME NEW n \in DOMAIN h
          PROVE  \/ /\ n \in DOMAIN handed[b]
                    /\ h[n] = handed[b][n]
                 \/ /\ n = Len(handed[b]) + 1
                    /\ h[n] = current[b]
      <4>1. Len(handed[b]) \in Nat /\ n \in 1 .. Len(handed[b]) + 1
        BY <1>4, <1>6, LenProperties
      <4>2. n \in 1 .. Len(handed[b]) \/ n = Len(handed[b]) + 1
        BY <4>1
      <4> QED BY <1>5, <1>6, <4>2
    <3>2. current[b] \in 1 .. Len(updates[b])
      BY <1>1, <1>7 DEF BotIInv, MarkedWasEntered
    <3>3. HandedIsMarked(b)'
      <4> SUFFICES ASSUME NEW n \in DOMAIN h
                   PROVE  h[n] \in 1 .. Len(updates[b]) /\ updates[b][h[n]].num \in marked[b]
        BY <1>2, <2>2 DEF HandedIsMarked
      <4> QED BY <1>1, <1>7, <3>1, <3>2 DEF BotIInv, HandedIsMarked
    <3>4. Distinct(h)
      BY <1>1, <1>7, <3>1 DEF BotIInv, Distinct
    <3> QED BY <2>2, <3>3, <3>4
  <2> QED BY <1>8, <2>1, <2>2
<1>12. InWork(b)'
  <2>1. pc'[b] \in {"send", "reply"}
    BY <1>1, <1>3 DEF BotsTyped
  <2> QED BY <1>2, <1>7, <2>1 DEF InWork
<1>13. BotIInv(b)'
  BY <1>1, <1>2, <1>10, <1>11, <1>12 DEF BotIInv
<1>14. ASSUME NEW c \in Bots, c # b
       PROVE  BotIInv(c)'
  BY <1>1, <1>2, <1>3, <1>14, BotAlone DEF BotsIInv, BotsTyped, Same
<1> QED BY <1>9, <1>13, <1>14 DEF BotsIInv

LEMMA AnsweredUpdate ==
  ASSUME BotsIInv, NEW b \in Bots, Answered(b)
  PROVE  BotsIInv'
PROOF
<1>1. BotsTyped /\ BotIInv(b)
  BY DEF BotsIInv
<1>2. /\ pc[b] = "send" /\ pc' = [pc EXCEPT ![b] = "reply"]
      /\ UNCHANGED <<updates, confirmed, offset, current, marked, handed, entered, skipped>>
  BY DEF Answered
<1>3. pc'[b] = "reply" /\ BotsTyped'
  BY <1>1, <1>2 DEF BotsTyped, Pcs
<1>4. /\ PassedIsHandled(b)' /\ MarkedWasEntered(b)' /\ HandedIsMarked(b)'
      /\ Distinct(handed[b])'
  BY <1>1, <1>2 DEF BotIInv, PassedIsHandled, Handled, MarkedWasEntered, HandedIsMarked,
     Distinct
<1>5. InWork(b)'
  BY <1>1, <1>2, <1>3 DEF BotIInv, InWork
<1>6. BotIInv(b)'
  BY <1>1, <1>2, <1>4, <1>5 DEF BotIInv
<1>7. ASSUME NEW c \in Bots, c # b
      PROVE  BotIInv(c)'
  BY <1>1, <1>2, <1>7, BotAlone DEF BotsIInv, BotsTyped, Same
<1> QED BY <1>3, <1>6, <1>7 DEF BotsIInv

\* The update in work is done: it and all before it have been seen.
LEMMA RepliedUpdate ==
  ASSUME BotsIInv, NEW b \in Bots, Replied(b)
  PROVE  BotsIInv'
PROOF
<1>1. BotsTyped /\ BotIInv(b)
  BY DEF BotsIInv
<1>2. /\ pc[b] = "reply" /\ pc' = [pc EXCEPT ![b] = "fetch"]
      /\ offset' = [offset EXCEPT ![b] = current[b] + 1]
      /\ UNCHANGED <<updates, confirmed, current, marked, handed, entered, skipped>>
  BY DEF Replied
<1>3. current[b] \in Nat /\ confirmed[b] \in Nat
  BY <1>1, BotFacts
<1>4. pc'[b] = "fetch" /\ offset'[b] = current[b] + 1 /\ BotsTyped'
  BY <1>1, <1>2, <1>3 DEF BotsTyped, Pcs
<1>5. PassedIsHandled(b)'
  <2> SUFFICES ASSUME NEW i \in Nat \ {0}, i < current[b] + 1 \/ i <= confirmed[b]
               PROVE  Handled(b, i)
    BY <1>2, <1>4 DEF PassedIsHandled, Handled
  <2>1. current[b] \in entered[b] /\ current[b] <= confirmed[b] + 1
    BY <1>1, <1>2 DEF BotIInv, InWork
  <2>2. Handled(b, current[b])
    BY <1>1, <2>1 DEF BotIInv, MarkedWasEntered, Handled
  <2>3. i <= confirmed[b] \/ i = current[b]
    BY <1>3, <2>1
  <2> QED BY <1>1, <2>2, <2>3 DEF BotIInv, PassedIsHandled
<1>6. MarkedWasEntered(b)' /\ HandedIsMarked(b)' /\ Distinct(handed[b])'
  BY <1>1, <1>2 DEF BotIInv, MarkedWasEntered, HandedIsMarked, Distinct
<1>7. InWork(b)'
  BY <1>4 DEF InWork
<1>8. BotIInv(b)'
  BY <1>1, <1>2, <1>5, <1>6, <1>7 DEF BotIInv
<1>9. ASSUME NEW c \in Bots, c # b
      PROVE  BotIInv(c)'
  BY <1>1, <1>2, <1>9, BotAlone DEF BotsIInv, BotsTyped, Same
<1> QED BY <1>4, <1>8, <1>9 DEF BotsIInv

\* The loop tries again, from its offset or one behind it.
LEMMA FailedUpdate ==
  ASSUME BotsIInv, NEW b \in Bots, NEW forbidden \in BOOLEAN,
         Exception(b, forbidden) \/ SendRaises(b)
  PROVE  BotsIInv'
PROOF
<1>1. BotsTyped /\ BotIInv(b)
  BY DEF BotsIInv
<1>2. offset[b] \in Int /\ confirmed[b] \in Nat
  BY <1>1, BotFacts
<1>3. PICK next \in {"dead", "fetch"} : pc' = [pc EXCEPT ![b] = next]
  BY DEF Exception, SendRaises
<1>4. \/ /\ offset' = [offset EXCEPT ![b] = @ + 1]
         /\ skipped' = [skipped EXCEPT ![b] = @ \cup {offset[b]}]
      \/ UNCHANGED <<offset, skipped>>
  BY DEF Exception, SendRaises
<1>5. UNCHANGED <<updates, confirmed, current, marked, handed, entered>>
  BY DEF Exception, SendRaises
<1>6. pc'[b] = next /\ pc' \in [Bots -> Pcs]
  BY <1>1, <1>3 DEF BotsTyped, Pcs
<1>7. BotsTyped'
  <2>1. offset[b] + 1 \in Int /\ skipped[b] \cup {offset[b]} \in SUBSET Int
    BY <1>1, <1>2 DEF BotsTyped
  <2>2. offset' \in [Bots -> Int]
    BY <1>1, <1>4, <2>1 DEF BotsTyped
  <2>3. skipped' \in [Bots -> SUBSET Int]
    BY <1>1, <1>4, <2>1 DEF BotsTyped
  <2> QED BY <1>1, <1>5, <1>6, <2>2, <2>3 DEF BotsTyped
<1>8. \/ offset'[b] = offset[b] + 1 /\ skipped'[b] = skipped[b] \cup {offset[b]}
      \/ offset'[b] = offset[b] /\ skipped'[b] = skipped[b]
  BY <1>1, <1>4 DEF BotsTyped
<1>9. PassedIsHandled(b)'
  <2> SUFFICES ASSUME NEW i \in Nat \ {0}, i < offset'[b] \/ i <= confirmed[b]
               PROVE  Handled(b, i)'
    BY <1>5 DEF PassedIsHandled
  <2>1. i < offset[b] \/ i <= confirmed[b] \/ (i = offset[b] /\ skipped'[b] = skipped[b] \cup {offset[b]})
    BY <1>2, <1>8
  <2>2. Handled(b, i) => Handled(b, i)'
    BY <1>5, <1>8 DEF Handled
  <2> QED BY <1>1, <2>1, <2>2 DEF BotIInv, PassedIsHandled, Handled
<1>10. MarkedWasEntered(b)' /\ HandedIsMarked(b)' /\ Distinct(handed[b])'
  BY <1>1, <1>5 DEF BotIInv, MarkedWasEntered, HandedIsMarked, Distinct
<1>11. InWork(b)'
  BY <1>6 DEF InWork
<1>12. BotIInv(b)'
  BY <1>1, <1>5, <1>9, <1>10, <1>11 DEF BotIInv
<1>13. ASSUME NEW c \in Bots, c # b
       PROVE  BotIInv(c)'
  BY <1>1, <1>3, <1>4, <1>5, <1>13, BotAlone DEF BotsIInv, BotsTyped, Same
<1> QED BY <1>7, <1>12, <1>13 DEF BotsIInv

\* What a restart loses is what was handed over in the run and the marks.
LEMMA RestartedBots ==
  ASSUME BotsIInv, Restart
  PROVE  BotsIInv'
PROOF
<1>1. /\ pc' = [b \in Bots |-> "off"] /\ offset' = [b \in Bots |-> 0]
      /\ current' = [b \in Bots |-> 0] /\ marked' = [b \in Bots |-> {}]
      /\ handed' = [b \in Bots |-> <<>>]
      /\ UNCHANGED <<updates, confirmed, entered, skipped>>
  BY DEF Restart
<1>2. <<>> \in Seq(Nat) /\ DOMAIN <<>> = {}
  BY EmptySeq
<1>3. BotsTyped'
  BY <1>1, <1>2 DEF BotsIInv, BotsTyped, Pcs
<1>4. ASSUME NEW b \in Bots
      PROVE  BotIInv(b)'
  <2>1. /\ pc'[b] = "off" /\ offset'[b] = 0 /\ marked'[b] = {} /\ handed'[b] = <<>>
    BY <1>1
  <2>2. PassedIsHandled(b)'
    BY <1>1, <2>1 DEF BotsIInv, BotIInv, PassedIsHandled, Handled
  <2>3. MarkedWasEntered(b)' /\ HandedIsMarked(b)' /\ Distinct(handed[b])'
    BY <1>1, <1>2, <2>1 DEF BotsIInv, BotIInv, MarkedWasEntered, HandedIsMarked, Distinct
  <2>4. InWork(b)'
    BY <2>1 DEF InWork
  <2> QED BY <1>1, <2>2, <2>3, <2>4 DEF BotsIInv, BotIInv
<1> QED BY <1>3, <1>4 DEF BotsIInv

LEMMA NextBots == BotsIInv /\ [Next]_vars => BotsIInv'
PROOF
<1> SUFFICES ASSUME BotsIInv, [Next]_vars
             PROVE  BotsIInv'
  OBVIOUS
<1>1. ASSUME UNCHANGED <<updates, confirmed, pc, offset, current, marked, handed, entered, skipped>>
      PROVE  BotsIInv'
  <2>1. BotsTyped'
    BY <1>1 DEF BotsIInv, BotsTyped
  <2>2. ASSUME NEW b \in Bots
        PROVE  BotIInv(b)'
    BY <1>1, BotAlone DEF BotsIInv, Same
  <2> QED BY <2>1, <2>2 DEF BotsIInv
<1>2. CASE UNCHANGED vars
  BY <1>1, <1>2 DEF vars, botVars
<1>3. CASE \E b \in Bots : BotStep(b)
  BY <1>3, StartedBot, FetchedUpdate, FetchedNothing, ConvertedUpdate, AnsweredUpdate,
     RepliedUpdate DEF BotStep
<1>4. CASE \E b \in Bots, p \in People, c \in Chats, u \in BOOLEAN : UpdateArrives(b, p, c, u)
  BY <1>4, ArrivedUpdate
<1>5. CASE \/ \E b \in Bots : SendRaises(b)
           \/ \E b \in Bots, f \in BOOLEAN : Exception(b, f)
  <2>1. TRUE \in BOOLEAN
    OBVIOUS
  <2> QED BY <1>5, <2>1, FailedUpdate
<1>6. CASE \/ \E e \in Events, n \in Names : EventArrives(e, n)
           \/ \E e \in Events : EventStep(e) \/ EventFails(e)
  BY <1>1, <1>6 DEF EventArrives, EventStep, EventFails, SlackTaken, DiscordTaken,
     SlackReplied, DiscordReplied, botVars
<1>7. CASE \/ \E m \in Mails : MailArrives(m)
           \/ \E i \in 1..Cardinality(Mails) : MailDeleted(i)
           \/ MailStep \/ MailRaises
  BY <1>1, <1>7 DEF MailArrives, MailDeleted, MailStep, StartMail, Search, FetchMail, MailReplied,
     MailRaises, botVars
<1>8. CASE \/ \E b \in Bots, n \in Names : AgentPosts(b, n) \/ PostRaises(b, n)
           \/ ShellDialogue \/ StartFails \/ \E t \in {"slack", "discord"} : StartChat(t)
  BY <1>1, <1>8 DEF StartFails, StartChat, AgentPosts, PostRaises, ShellDialogue, botVars
<1>9. CASE Restart
  BY <1>9, RestartedBots
<1> QED BY <1>2, <1>3, <1>4, <1>5, <1>6, <1>7, <1>8, <1>9 DEF Next

LEMMA InitBots == Init => BotsIInv
PROOF
<1> SUFFICES ASSUME Init PROVE BotsIInv
  OBVIOUS
<1>1. <<>> \in Seq(Nat) /\ <<>> \in Seq(Update) /\ DOMAIN <<>> = {} /\ Len(<<>>) = 0
  BY EmptySeq
<1>2. BotsTyped
  BY <1>1 DEF Init, BotsTyped, Pcs
<1>3. ASSUME NEW b \in Bots
      PROVE  BotIInv(b)
  <2>1. /\ updates[b] = <<>> /\ confirmed[b] = 0 /\ pc[b] = "off" /\ offset[b] = 0
        /\ marked[b] = {} /\ handed[b] = <<>> /\ entered[b] = {}
    BY <1>3 DEF Init
  <2>2. PassedIsHandled(b)
    BY <2>1 DEF PassedIsHandled
  <2>3. MarkedWasEntered(b) /\ HandedIsMarked(b) /\ InWork(b) /\ Distinct(handed[b])
    BY <1>1, <2>1 DEF MarkedWasEntered, HandedIsMarked, InWork, Distinct
  <2> QED BY <1>1, <2>1, <2>2, <2>3 DEF BotIInv
<1> QED BY <1>2, <1>3 DEF BotsIInv

\* The updates of every bot keep their invariant, through exceptions that fetch them
\* again and restarts (TelegramTunnel).
THEOREM BotsInvariance == Spec => []BotsIInv
PROOF
BY InitBots, NextBots, PTL DEF Spec

-----------------------------------------------------------------------------
(* The mails.                                                                  *)

MailsTyped ==
  /\ box \in Seq(Mails)
  /\ mailed \in Seq(Mails)
  /\ mailPc \in {"off", "sleep", "fetch", "send", "dead"}
  /\ found \subseteq Nat

\* No mail is in the box twice, what was handed over is marked as read, and what the
\* search has found and not come to is not: nothing is deleted meanwhile.
MailsIInv ==
  /\ MailsTyped
  /\ Distinct(box)
  /\ Distinct(mailed)
  /\ \A n \in DOMAIN mailed : mailed[n] \in seen
  /\ mailPc \in {"fetch", "send"} => found \subseteq Unseen

LEMMA LeastExists ==
  ASSUME NEW S \in SUBSET Nat, S # {}
  PROVE  LET i == CHOOSE j \in S : \A k \in S : j <= k
         IN  i \in S /\ \A k \in S : i <= k
PROOF
<1> DEFINE R == {ss \in Nat \X Nat : ss[1] < ss[2]}
<1>1. IsWellFoundedOn(R, Nat)
  BY NatLessThanWellFounded DEF OpToRel
<1> HIDE DEF R
<1>2. PICK x \in S : \A y \in S : ~ (<<y, x>> \in R)
  BY <1>1, WFMin
<1>3. ASSUME NEW y \in S
      PROVE  x <= y
  <2>1. x \in Nat /\ y \in Nat /\ ~ (<<y, x>> \in R)
    BY <1>2
  <2>2. ~ (y < x)
    BY <2>1 DEF R
  <2> QED BY <2>1, <2>2
<1> QED BY <1>2, <1>3, Zenon

LEMMA ArrivedMail ==
  ASSUME MailsIInv, NEW m \in Mails, MailArrives(m)
  PROVE  MailsIInv'
PROOF
<1>1. /\ m \notin seen /\ \A i \in DOMAIN box : box[i] # m
      /\ box' = Append(box, m)
      /\ UNCHANGED <<seen, mailPc, found, mailed>>
  BY DEF MailArrives
<1>2. box \in Seq(Mails) /\ Len(box) \in Nat /\ DOMAIN box = 1 .. Len(box)
  BY LenProperties DEF MailsIInv, MailsTyped
<1>3. /\ box' \in Seq(Mails) /\ Len(box') = Len(box) + 1
      /\ \A i \in 1 .. Len(box) : box'[i] = box[i]
      /\ box'[Len(box) + 1] = m
  BY <1>1, <1>2, AppendProperties
<1>4. DOMAIN box' = 1 .. Len(box) + 1
  BY <1>3, LenProperties
<1>5. Distinct(box')
  BY <1>1, <1>2, <1>3, <1>4 DEF MailsIInv, Distinct
<1>6. Unseen \subseteq Unseen'
  BY <1>1, <1>2, <1>3, <1>4 DEF Unseen
<1> QED BY <1>1, <1>3, <1>5, <1>6 DEF MailsIInv, MailsTyped, Distinct

\* The mails that are left keep their order.
LEMMA DeletedMail ==
  ASSUME MailsIInv, NEW i, MailDeleted(i)
  PROVE  MailsIInv'
PROOF
<1>1. /\ i \in DOMAIN box /\ mailPc = "sleep"
      /\ box' = SubSeq(box, 1, i - 1) \o SubSeq(box, i + 1, Len(box))
      /\ UNCHANGED <<seen, mailPc, found, mailed>>
  BY DEF MailDeleted
<1>2. box \in Seq(Mails) /\ Len(box) \in Nat /\ DOMAIN box = 1 .. Len(box)
  BY LenProperties DEF MailsIInv, MailsTyped
<1>3. i \in 1 .. Len(box)
  BY <1>1, <1>2
<1> DEFINE front == SubSeq(box, 1, i - 1)
           rest  == SubSeq(box, i + 1, Len(box))
<1>4. /\ front \in Seq(Mails) /\ Len(front) = i - 1
      /\ \A k \in 1 .. (i - 1) : front[k] = box[k]
  <2>1. 1 \in 1 .. Len(box) + 1 /\ i - 1 \in 1 - 1 .. Len(box)
    BY <1>2, <1>3
  <2> QED BY <1>2, <1>3, <2>1, SubSeqProperties
<1>5. /\ rest \in Seq(Mails) /\ Len(rest) = Len(box) - i
      /\ \A k \in 1 .. (Len(box) - i) : rest[k] = box[i + k]
  <2>1. i + 1 \in 1 .. Len(box) + 1 /\ Len(box) \in (i + 1) - 1 .. Len(box)
    BY <1>2, <1>3
  <2> QED BY <1>2, <1>3, <2>1, SubSeqProperties
<1> HIDE DEF front, rest
<1>6. /\ box' \in Seq(Mails) /\ Len(box') = Len(box) - 1
      /\ \A k \in 1 .. Len(box') :
           box'[k] = IF k <= i - 1 THEN front[k] ELSE rest[k - (i - 1)]
  <2>1. box' = front \o rest
    BY <1>1 DEF front, rest
  <2>2. front \in Seq(Mails) /\ rest \in Seq(Mails)
    BY <1>4, <1>5
  <2>3. /\ front \o rest \in Seq(Mails)
        /\ Len(front \o rest) = Len(front) + Len(rest)
        /\ \A k \in 1 .. Len(front) + Len(rest) :
             (front \o rest)[k] = IF k <= Len(front) THEN front[k] ELSE rest[k - Len(front)]
    BY <2>2, ConcatProperties
  <2>4. Len(front) = i - 1 /\ Len(front) + Len(rest) = Len(box) - 1
    BY <1>2, <1>3, <1>4, <1>5
  <2> QED BY <2>1, <2>3, <2>4
<1>7. ASSUME NEW k \in 1 .. Len(box')
      PROVE  box'[k] = box[IF k <= i - 1 THEN k ELSE k + 1]
  <2>1. CASE k <= i - 1
    BY <1>2, <1>3, <1>4, <1>6, <1>7, <2>1
  <2>2. CASE ~(k <= i - 1)
    <3>1. k - (i - 1) \in 1 .. (Len(box) - i) /\ i + (k - (i - 1)) = k + 1
      BY <1>2, <1>3, <1>6, <1>7, <2>2
    <3> QED BY <1>5, <1>6, <2>2, <3>1
  <2> QED BY <2>1, <2>2
<1>8. Distinct(box')
  <2> SUFFICES ASSUME NEW j \in DOMAIN box', NEW k \in DOMAIN box', box'[j] = box'[k]
               PROVE  j = k
    BY DEF Distinct
  <2>1. j \in 1 .. Len(box') /\ k \in 1 .. Len(box')
    BY <1>6, LenProperties
  <2> DEFINE f(x) == IF x <= i - 1 THEN x ELSE x + 1
  <2>2. f(j) \in DOMAIN box /\ f(k) \in DOMAIN box
    BY <1>2, <1>3, <1>6, <2>1
  <2>3. box[f(j)] = box[f(k)]
    BY <1>7, <2>1
  <2>4. f(j) = f(k)
    BY <2>2, <2>3 DEF MailsIInv, Distinct
  <2> QED BY <1>2, <1>3, <2>1, <2>4
<1> QED BY <1>1, <1>6, <1>8 DEF MailsIInv, MailsTyped, Distinct

\* A mail that was found is not read, and is marked when it is handed over.
LEMMA FetchedMail ==
  ASSUME MailsIInv, NEW n, FetchMail(n)
  PROVE  MailsIInv'
PROOF
<1> DEFINE i == CHOOSE j \in found : \A k \in found : j <= k
<1>1. mailPc = "fetch" /\ box' = box /\ found \subseteq Unseen /\ found \subseteq Nat
  BY DEF FetchMail, MailsIInv, MailsTyped
<1>2. CASE found = {}
  <2>1. mailPc' = "sleep" /\ UNCHANGED <<seen, found, mailed>>
    BY <1>2 DEF FetchMail
  <2> QED BY <1>1, <2>1 DEF MailsIInv, MailsTyped, Distinct
<1>3. CASE found # {}
  <2>1. i \in found
    BY <1>1, <1>3, LeastExists
  <2>2. found' = found \ {i}
    BY <1>3 DEF FetchMail
  <2>3. i \in DOMAIN box /\ box[i] \notin seen
    BY <1>1, <2>1 DEF Unseen
  <2>4. \/ UNCHANGED <<seen, mailPc, mailed>>
        \/ seen' = seen \cup {box[i]} /\ mailed' = Append(mailed, box[i]) /\ mailPc' = "send"
    BY <1>3 DEF FetchMail
  <2> HIDE DEF i
  <2>5. CASE UNCHANGED <<seen, mailPc, mailed>>
    <3>1. Unseen' = Unseen
      BY <1>1, <2>5 DEF Unseen
    <3> QED BY <1>1, <2>2, <2>5, <3>1 DEF MailsIInv, MailsTyped, Distinct
  <2>6. CASE seen' = seen \cup {box[i]} /\ mailed' = Append(mailed, box[i]) /\ mailPc' = "send"
    <3>1. mailed \in Seq(Mails) /\ Len(mailed) \in Nat /\ DOMAIN mailed = 1 .. Len(mailed)
      BY LenProperties DEF MailsIInv, MailsTyped
    <3>2. box[i] \in Mails
      BY <2>3, ElementOfSeq, LenProperties DEF MailsIInv, MailsTyped
    <3>3. /\ mailed' \in Seq(Mails) /\ Len(mailed') = Len(mailed) + 1
          /\ \A k \in 1 .. Len(mailed) : mailed'[k] = mailed[k]
          /\ mailed'[Len(mailed) + 1] = box[i]
      BY <2>6, <3>1, <3>2, AppendProperties
    <3>4. DOMAIN mailed' = 1 .. Len(mailed) + 1
      BY <3>3, LenProperties
    <3>5. \A k \in DOMAIN mailed : mailed[k] \in seen /\ mailed[k] # box[i]
      BY <2>3 DEF MailsIInv
    <3>6. Distinct(mailed')
      BY <3>1, <3>3, <3>4, <3>5 DEF MailsIInv, Distinct
    <3>7. \A k \in DOMAIN mailed' : mailed'[k] \in seen'
      BY <2>6, <3>1, <3>3, <3>4, <3>5
    <3>8. found' \subseteq Unseen'
      BY <1>1, <2>1, <2>2, <2>3, <2>6 DEF Unseen, MailsIInv, Distinct
    <3>9. MailsTyped' /\ Distinct(box)'
      BY <1>1, <2>2, <2>6, <3>3 DEF MailsIInv, MailsTyped, Distinct
    <3> QED BY <3>6, <3>7, <3>8, <3>9 DEF MailsIInv
  <2> QED BY <2>4, <2>5, <2>6
<1> QED BY <1>2, <1>3

LEMMA NextMails == MailsIInv /\ [Next]_vars => MailsIInv'
PROOF
<1> SUFFICES ASSUME MailsIInv, [Next]_vars
             PROVE  MailsIInv'
  OBVIOUS
<1>1. ASSUME UNCHANGED <<box, seen, mailed>>, MailsTyped',
             mailPc' \in {"fetch", "send"} => found' \subseteq Unseen
      PROVE  MailsIInv'
  BY <1>1 DEF MailsIInv, Unseen, Distinct
<1>2. ASSUME UNCHANGED mailVars
      PROVE  MailsIInv'
  BY <1>1, <1>2 DEF mailVars, MailsIInv, MailsTyped
<1>3. CASE UNCHANGED vars
  BY <1>2, <1>3 DEF vars
<1>4. CASE \/ \E b \in Bots : BotStep(b)
           \/ \E b \in Bots, p \in People, c \in Chats, u \in BOOLEAN : UpdateArrives(b, p, c, u)
           \/ \E b \in Bots : SendRaises(b)
           \/ \E b \in Bots, f \in BOOLEAN : Exception(b, f)
  BY <1>2, <1>4 DEF BotStep, StartBot, Fetch, FetchNothing, Converted, Answered, Replied,
     UpdateArrives, SendRaises, Exception
<1>5. CASE \/ \E e \in Events, n \in Names : EventArrives(e, n)
           \/ \E e \in Events : EventStep(e) \/ EventFails(e)
           \/ \E b \in Bots, n \in Names : AgentPosts(b, n) \/ PostRaises(b, n)
           \/ ShellDialogue \/ StartFails \/ \E t \in {"slack", "discord"} : StartChat(t)
  BY <1>2, <1>5 DEF StartFails, StartChat, EventArrives, EventStep, EventFails, SlackTaken, DiscordTaken,
     SlackReplied, DiscordReplied, AgentPosts, PostRaises, ShellDialogue
<1>6. CASE \E m \in Mails : MailArrives(m)
  BY <1>6, ArrivedMail
<1>7. CASE \E i \in 1..Cardinality(Mails) : MailDeleted(i)
  BY <1>7, DeletedMail
<1>8. CASE MailStep
  <2>1. CASE Search
    <3>1. Unseen \subseteq Nat
      BY LenProperties DEF Unseen, MailsIInv, MailsTyped
    <3> QED BY <1>1, <2>1, <3>1 DEF Search, MailsIInv, MailsTyped
  <2>2. CASE \E n \in Names : FetchMail(n)
    BY <2>2, FetchedMail
  <2>3. CASE MailReplied
    BY <1>1, <2>3 DEF MailReplied, MailsIInv, MailsTyped
  <2>4. CASE StartMail
    BY <1>1, <2>4 DEF StartMail, MailsIInv, MailsTyped
  <2> QED BY <1>8, <2>1, <2>2, <2>3, <2>4 DEF MailStep
<1>9. CASE MailRaises \/ Restart
  <2>1. UNCHANGED <<box, seen, mailed>> /\ mailPc' \in {"off", "sleep", "dead"} /\ found' = {}
    BY <1>9 DEF MailRaises, Restart
  <2> QED BY <1>1, <2>1 DEF MailsIInv, MailsTyped
<1> QED BY <1>3, <1>4, <1>5, <1>6, <1>7, <1>8, <1>9 DEF Next

LEMMA InitMails == Init => MailsIInv
PROOF
<1> SUFFICES ASSUME Init PROVE MailsIInv
  OBVIOUS
<1>1. <<>> \in Seq(Mails) /\ DOMAIN <<>> = {}
  BY EmptySeq
<1> QED BY <1>1 DEF Init, MailsIInv, MailsTyped, Distinct

\* The mails keep theirs: the server's mark is what tells them apart, whatever number
\* they have (EmailTunnel.read_email).
THEOREM MailsInvariance == Spec => []MailsIInv
PROOF
BY InitMails, NextMails, PTL DEF Spec

-----------------------------------------------------------------------------
\* A message reaches an agent once at most, and is forgotten by the service only
\* when the code has taken it up or stepped over it, whatever is fetched again after
\* exceptions and restarts (TelegramTunnel._run_bot, EmailTunnel.check_email).
THEOREM HandsOverOnce == Spec => []HandedAndAccounted
PROOF
<1>1. BotsIInv => HandedOnce /\ Accounted
  <2> SUFFICES ASSUME BotsIInv PROVE HandedOnce /\ Accounted
    OBVIOUS
  <2>1. HandedOnce
    BY DEF BotsIInv, BotIInv, HandedOnce
  <2>2. Accounted
    <3> SUFFICES ASSUME NEW b \in Bots, NEW i \in DOMAIN updates[b], i <= confirmed[b],
                        updates[b][i].usable
                 PROVE  \/ i \in entered[b] \cup skipped[b]
                        \/ \E j \in entered[b] : updates[b][j].num = updates[b][i].num
      BY DEF Accounted
    <3>1. i \in Nat \ {0}
      BY BotFacts DEF BotsIInv
    <3>2. Handled(b, i)
      BY <3>1 DEF BotsIInv, BotIInv, PassedIsHandled
    <3> QED BY <3>2 DEF Handled
  <2> QED BY <2>1, <2>2
<1>2. MailsIInv => MailOnce
  BY DEF MailsIInv, MailOnce
<1>3. BotsIInv /\ MailsIInv => HandedAndAccounted
  BY <1>1, <1>2 DEF HandedAndAccounted
<1> QED BY <1>3, BotsInvariance, MailsInvariance, PTL

-----------------------------------------------------------------------------
(* The contacts.                                                               *)

Telegrams == Accounts \cup {NoAccount}

CardType ==
  [name : Names, telegram : Telegrams, family : BOOLEAN, active : SUBSET Bots]

SavedType == [name : Names, telegram : Telegrams, family : BOOLEAN]

Steps == {"none", "update", "family", "telegram", "email"}

ContactsTyped ==
  /\ cards \in Seq(CardType)
  /\ contacts \in Seq(DOMAIN cards)
  /\ saved \in Seq(SavedType)
  /\ dialog \in [step : Steps, card : {0} \cup DOMAIN cards]
  /\ dialogs \in Nat

\* The dialogue has an object, one of the list when it asks what to do with it.
DialogHasCard ==
  /\ dialog.step # "none" => dialog.card \in DOMAIN cards
  /\ dialog.step = "update" => dialog.card \in Listed

\* Where account a is in a list of objects, and where in a file.
Holders(cs, list, a) == {i \in DOMAIN list : cs[list[i]].telegram = a}

FileHolders(file, a) == {i \in DOMAIN file : file[i].telegram = a}

\* A dialogue can still add its contact to those of an account: by the account if
\* the contact is in the list, and otherwise by its end.
Pending(d, list) ==
  IF d.step \in (IF \E i \in DOMAIN list : list[i] = d.card
                 THEN {"update", "family", "telegram"}
                 ELSE {"family", "telegram", "email"})
  THEN 1 ELSE 0

\* The owner was removed, and will be added by the next start.
OwnerGone(cs, list) ==
  IF \E i \in DOMAIN list : cs[list[i]].name = Owner THEN 0 ELSE 1

\* Every contact more than one of an account was, or will be, paid for by a dialogue.
DialogsPay ==
  /\ Pending(dialog, contacts) + OwnerGone(cards, contacts) <= dialogs
  /\ \A a \in Accounts :
       /\ Cardinality(Holders(cards, contacts, a)) + Pending(dialog, contacts)
            + OwnerGone(cards, contacts) <= 1 + dialogs
       /\ Cardinality(FileHolders(saved, a)) + OwnerGone(cards, contacts) <= 1 + dialogs

ContactsIInv ==
  /\ ContactsTyped /\ DialogHasCard /\ Distinct(contacts)
  /\ FileHoldsContacts /\ DialogsPay

LEMMA PlacesFinite ==
  ASSUME NEW S, NEW s \in Seq(S), NEW P \in SUBSET DOMAIN s
  PROVE  IsFiniteSet(P) /\ Cardinality(P) \in Nat
PROOF
<1>1. DOMAIN s = 1 .. Len(s) /\ Len(s) \in Nat
  BY LenProperties
<1>2. IsFiniteSet(1 .. Len(s))
  BY <1>1, FS_Interval
<1>3. IsFiniteSet(P)
  BY <1>1, <1>2, FS_Subset
<1> QED BY <1>3, FS_CardinalityType

LEMMA OneMore ==
  ASSUME NEW T, IsFiniteSet(T), NEW x, NEW H \in SUBSET (T \cup {x})
  PROVE  Cardinality(H) <= Cardinality(T) + 1
PROOF
<1>1. /\ IsFiniteSet(T \cup {x}) /\ Cardinality(T) \in Nat
      /\ Cardinality(T \cup {x}) \in {Cardinality(T), Cardinality(T) + 1}
  BY FS_AddElement, FS_CardinalityType
<1>2. IsFiniteSet(H) /\ Cardinality(H) <= Cardinality(T \cup {x})
  BY <1>1, FS_Subset
<1>3. Cardinality(H) \in Nat
  BY <1>2, FS_CardinalityType
<1> QED BY <1>1, <1>2, <1>3

\* The state of the contacts, as the lemmas use it.
LEMMA CardFacts ==
  ASSUME ContactsTyped
  PROVE  /\ Len(cards) \in Nat /\ DOMAIN cards = 1 .. Len(cards)
         /\ \A k \in DOMAIN cards :
              /\ cards[k] \in CardType
              /\ cards[k] = [name |-> cards[k].name, telegram |-> cards[k].telegram,
                             family |-> cards[k].family, active |-> cards[k].active]
              /\ cards[k].name \in Names /\ cards[k].telegram \in Telegrams
              /\ cards[k].family \in BOOLEAN /\ cards[k].active \in SUBSET Bots
         /\ Len(contacts) \in Nat /\ DOMAIN contacts = 1 .. Len(contacts)
         /\ \A i \in DOMAIN contacts : contacts[i] \in DOMAIN cards
         /\ Len(saved) \in Nat /\ DOMAIN saved = 1 .. Len(saved)
         /\ \A i \in DOMAIN saved : saved[i] \in SavedType
PROOF
<1>1. Len(cards) \in Nat /\ DOMAIN cards = 1 .. Len(cards)
  BY LenProperties DEF ContactsTyped
<1>2. ASSUME NEW k \in DOMAIN cards
      PROVE  cards[k] \in CardType
  BY <1>1, <1>2, ElementOfSeq DEF ContactsTyped
<1>3. ASSUME NEW k \in DOMAIN cards
      PROVE  /\ cards[k] = [name |-> cards[k].name, telegram |-> cards[k].telegram,
                             family |-> cards[k].family, active |-> cards[k].active]
             /\ cards[k].name \in Names /\ cards[k].telegram \in Telegrams
             /\ cards[k].family \in BOOLEAN /\ cards[k].active \in SUBSET Bots
  BY <1>2, <1>3 DEF CardType
<1>4. /\ Len(contacts) \in Nat /\ DOMAIN contacts = 1 .. Len(contacts)
      /\ Len(saved) \in Nat /\ DOMAIN saved = 1 .. Len(saved)
  BY LenProperties DEF ContactsTyped
<1>5. ASSUME NEW i \in DOMAIN contacts
      PROVE  contacts[i] \in DOMAIN cards
  BY <1>4, <1>5, ElementOfSeq DEF ContactsTyped
<1>6. ASSUME NEW i \in DOMAIN saved
      PROVE  saved[i] \in SavedType
  BY <1>4, <1>6, ElementOfSeq DEF ContactsTyped
<1> QED BY <1>1, <1>2, <1>3, <1>4, <1>5, <1>6

LEMMA PlacesFacts ==
  ASSUME ContactsTyped, NEW a
  PROVE  /\ IsFiniteSet(Holders(cards, contacts, a))
         /\ Cardinality(Holders(cards, contacts, a)) \in Nat
         /\ IsFiniteSet(FileHolders(saved, a))
         /\ Cardinality(FileHolders(saved, a)) \in Nat
         /\ Pending(dialog, contacts) \in {0, 1}
         /\ OwnerGone(cards, contacts) \in {0, 1}
PROOF
<1>1. /\ IsFiniteSet(Holders(cards, contacts, a))
      /\ Cardinality(Holders(cards, contacts, a)) \in Nat
  <2>1. Holders(cards, contacts, a) \in SUBSET DOMAIN contacts
    BY DEF Holders
  <2> QED BY <2>1, PlacesFinite DEF ContactsTyped
<1>2. /\ IsFiniteSet(FileHolders(saved, a))
      /\ Cardinality(FileHolders(saved, a)) \in Nat
  <2>1. FileHolders(saved, a) \in SUBSET DOMAIN saved
    BY DEF FileHolders
  <2> QED BY <2>1, PlacesFinite DEF ContactsTyped
<1>3. Pending(dialog, contacts) \in {0, 1} /\ OwnerGone(cards, contacts) \in {0, 1}
  BY DEF Pending, OwnerGone
<1> QED BY <1>1, <1>2, <1>3

LEMMA ToDictType ==
  ASSUME NEW c \in CardType
  PROVE  ToDict(c) \in SavedType
BY DEF ToDict, CardType, SavedType

\* What save_data writes agrees with the list.
LEMMA SavedAgain ==
  ASSUME cards' \in Seq(CardType), contacts' \in Seq(DOMAIN cards'), Save(cards', contacts')
  PROVE  /\ saved' \in Seq(SavedType)
         /\ FileHoldsContacts'
         /\ \A a : FileHolders(saved', a) = Holders(cards', contacts', a)
PROOF
<1>1. saved' = [i \in DOMAIN contacts' |-> ToDict(cards'[contacts'[i]])]
  BY DEF Save
<1>2. Len(contacts') \in Nat /\ DOMAIN contacts' = 1 .. Len(contacts')
  BY LenProperties
<1>3. DOMAIN cards' = 1 .. Len(cards')
  BY LenProperties
<1>4. ASSUME NEW i \in DOMAIN contacts'
      PROVE  /\ cards'[contacts'[i]] \in CardType
             /\ saved'[i] = ToDict(cards'[contacts'[i]])
  <2>1. contacts'[i] \in DOMAIN cards'
    BY <1>2, ElementOfSeq
  <2> QED BY <1>1, <1>3, <2>1, ElementOfSeq
<1>5. \A i \in DOMAIN contacts' : saved'[i] \in SavedType
  BY <1>4, ToDictType
<1>6. saved' \in Seq(SavedType) /\ Len(saved') = Len(contacts') /\ DOMAIN saved' = DOMAIN contacts'
  <2>1. DOMAIN saved' = 1 .. Len(contacts') /\ saved' \in [1 .. Len(contacts') -> SavedType]
    BY <1>1, <1>2, <1>5
  <2>2. saved' \in Seq(SavedType)
    BY <1>2, <2>1, SeqDef
  <2>3. Len(saved') = Len(contacts')
    BY <1>2, <2>1, <2>2, LenProperties
  <2> QED BY <1>2, <2>1, <2>2, <2>3
<1>7. FileHoldsContacts'
  BY <1>4, <1>6 DEF FileHoldsContacts, ToDict
<1>8. ASSUME NEW a
      PROVE  FileHolders(saved', a) = Holders(cards', contacts', a)
  BY <1>4, <1>6 DEF FileHolders, Holders, ToDict
<1> QED BY <1>6, <1>7, <1>8

\* An object is changed in place, or is new.
LEMMA EditedCard ==
  ASSUME ContactsTyped, NEW k \in DOMAIN cards, NEW c \in CardType,
         cards' = [cards EXCEPT ![k] = c]
  PROVE  /\ cards' \in Seq(CardType) /\ DOMAIN cards' = DOMAIN cards
         /\ \A j \in DOMAIN cards : cards'[j] = IF j = k THEN c ELSE cards[j]
PROOF
<1>1. cards \in Seq(CardType) /\ DOMAIN cards = 1 .. Len(cards)
  BY CardFacts DEF ContactsTyped
<1> QED BY <1>1, ExceptSeq

LEMMA NewCard ==
  ASSUME ContactsTyped, NEW c \in CardType, cards' = Append(cards, c)
  PROVE  /\ cards' \in Seq(CardType) /\ DOMAIN cards' = DOMAIN cards \cup {Len(cards) + 1}
         /\ Len(cards) + 1 \notin DOMAIN cards /\ cards'[Len(cards) + 1] = c
         /\ \A j \in DOMAIN cards : cards'[j] = cards[j]
PROOF
<1>1. cards \in Seq(CardType) /\ DOMAIN cards = 1 .. Len(cards) /\ Len(cards) \in Nat
  BY CardFacts DEF ContactsTyped
<1>2. /\ cards' \in Seq(CardType) /\ Len(cards') = Len(cards) + 1
      /\ cards'[Len(cards) + 1] = c
      /\ \A j \in 1 .. Len(cards) : cards'[j] = cards[j]
  BY <1>1, AppendProperties
<1>3. DOMAIN cards' = 1 .. Len(cards) + 1
  BY <1>2, LenProperties
<1>4. 1 .. Len(cards) + 1 = (1 .. Len(cards)) \cup {Len(cards) + 1}
  BY <1>1
<1> QED BY <1>1, <1>2, <1>3, <1>4

LEMMA PaidLater ==
  ASSUME NEW n \in Nat, NEW p \in {0, 1}, NEW q \in {0, 1}, NEW o \in {0, 1},
         NEW d \in Nat, NEW e \in Nat, d <= e, q + d <= p + e
  PROVE  /\ n + p + o <= 1 + d => n + q + o <= 1 + e
         /\ p + o <= d => q + o <= e
         /\ n + o <= 1 + d => n + o <= 1 + e
OBVIOUS

\* The list and the file are left alone, and no account of the list changes.
LEMMA ListLeftAlone ==
  ASSUME ContactsIInv, contacts' = contacts, saved' = saved, unsaved \subseteq unsaved',
         cards' \in Seq(CardType), DOMAIN cards \subseteq DOMAIN cards',
         \A k \in DOMAIN cards : /\ cards'[k].name = cards[k].name
                                 /\ cards'[k].telegram = cards[k].telegram,
         dialog' \in [step : Steps, card : {0} \cup DOMAIN cards'], DialogHasCard',
         dialogs' \in Nat, dialogs <= dialogs',
         Pending(dialog', contacts) + dialogs <= Pending(dialog, contacts) + dialogs'
  PROVE  ContactsIInv'
PROOF
<1>1. ContactsTyped /\ dialogs \in Nat
  BY DEF ContactsIInv, ContactsTyped
<1>2. \A i \in DOMAIN contacts : contacts[i] \in DOMAIN cards
  BY <1>1, CardFacts
<1>3. ContactsTyped'
  <2>1. contacts' \in Seq(DOMAIN cards')
    BY <1>1, SeqMonotonic DEF ContactsTyped
  <2> QED BY <1>1, <2>1 DEF ContactsTyped
<1>4. FileHoldsContacts'
  BY <1>2 DEF ContactsIInv, FileHoldsContacts
<1>5. OwnerGone(cards', contacts') = OwnerGone(cards, contacts)
  BY <1>2 DEF OwnerGone
<1>6. ASSUME NEW a
      PROVE  Holders(cards', contacts', a) = Holders(cards, contacts, a)
  BY <1>2 DEF Holders
<1> DEFINE P == Pending(dialog, contacts)
           Q == Pending(dialog', contacts')
           O == OwnerGone(cards, contacts)
<1>7. P \in {0, 1} /\ O \in {0, 1} /\ Q \in {0, 1} /\ Q + dialogs <= P + dialogs'
      /\ P + O <= dialogs
  BY <1>1, PlacesFacts DEF Pending, OwnerGone, ContactsIInv, DialogsPay
<1>8. Pending(dialog', contacts') + OwnerGone(cards', contacts') <= dialogs'
  <2> HIDE DEF P, Q, O
  <2>1. Q + O <= dialogs'
    BY <1>1, <1>7, PaidLater
  <2> QED BY <1>5, <2>1 DEF Q, O
<1>9. ASSUME NEW a \in Accounts
      PROVE  /\ Cardinality(Holders(cards', contacts', a)) + Pending(dialog', contacts')
                  + OwnerGone(cards', contacts') <= 1 + dialogs'
             /\ Cardinality(FileHolders(saved', a)) + OwnerGone(cards', contacts') <= 1 + dialogs'
  <2> DEFINE H == Cardinality(Holders(cards, contacts, a))
             F == Cardinality(FileHolders(saved, a))
  <2>1. H \in Nat /\ F \in Nat
    BY <1>1, PlacesFacts
  <2>2. H + P + O <= 1 + dialogs /\ F + O <= 1 + dialogs
    BY DEF ContactsIInv, DialogsPay
  <2>3. /\ Cardinality(Holders(cards', contacts', a)) = H
        /\ Cardinality(FileHolders(saved', a)) = F
    BY <1>6
  <2> HIDE DEF H, F, P, Q, O
  <2>4. H + Q + O <= 1 + dialogs' /\ F + O <= 1 + dialogs'
    BY <1>1, <1>7, <2>1, <2>2, PaidLater
  <2> QED BY <1>5, <2>3, <2>4 DEF Q, O
<1>10. DialogsPay'
  BY <1>8, <1>9 DEF DialogsPay
<1> QED BY <1>3, <1>4, <1>10 DEF ContactsIInv, Distinct

\* A look up finds an object of the list, or there is none.
LEMMA FirstFacts ==
  ASSUME ContactsTyped, NEW S \in SUBSET DOMAIN contacts
  PROVE  /\ FirstOf(S) \in {0} \cup DOMAIN cards
         /\ FirstOf(S) # 0 => \E i \in S : FirstOf(S) = contacts[i]
         /\ FirstOf(S) = 0 => S = {}
PROOF
<1>1. CASE S = {}
  BY <1>1 DEF FirstOf
<1>2. CASE S # {}
  <2> DEFINE i == CHOOSE i \in S : \A j \in S : i <= j
  <2>1. i \in S
    <3>1. S \in SUBSET Nat
      BY CardFacts
    <3> QED BY <1>2, <3>1, LeastExists
  <2>2. FirstOf(S) = contacts[i]
    BY <1>2 DEF FirstOf
  <2> HIDE DEF i
  <2>3. contacts[i] \in DOMAIN cards /\ contacts[i] # 0
    BY <2>1, CardFacts
  <2> QED BY <1>2, <2>1, <2>2, <2>3
<1> QED BY <1>1, <1>2

LEMMA AskedContact ==
  ASSUME ContactsIInv, NEW n \in Names, AskContact(n)
  PROVE  ContactsIInv'
PROOF
<1>1. ContactsTyped /\ dialogs \in Nat
  BY DEF ContactsIInv, ContactsTyped
<1>2. dialog.step = "none" /\ dialogs' = dialogs + 1 /\ contacts' = contacts /\ saved' = saved
      /\ unsaved' = unsaved
  BY DEF AskContact
<1>3. Pending(dialog, contacts) = 0
  BY <1>2 DEF Pending
<1>4. dialogs' \in Nat /\ dialogs <= dialogs'
      /\ Pending(dialog', contacts) + dialogs <= Pending(dialog, contacts) + dialogs'
  <2>1. Pending(dialog', contacts) \in {0, 1}
    BY DEF Pending
  <2> QED BY <1>1, <1>2, <1>3, <2>1
<1>5. CASE FindByName(n) # 0
  <2> DEFINE S == {i \in DOMAIN contacts : cards[contacts[i]].name = n}
  <2>1. cards' = cards /\ dialog' = [step |-> "update", card |-> FindByName(n)]
    BY <1>5 DEF AskContact
  <2>2. PICK i \in S : FindByName(n) = contacts[i]
    <3>1. S \in SUBSET DOMAIN contacts
      OBVIOUS
    <3> QED BY <1>1, <1>5, <3>1, FirstFacts DEF FindByName
  <2>3. FindByName(n) \in DOMAIN cards /\ FindByName(n) \in Listed
    BY <1>1, <2>2, CardFacts DEF Listed
  <2>4. DialogHasCard'
    BY <1>2, <2>1, <2>3 DEF DialogHasCard, Listed
  <2>5. dialog' \in [step : Steps, card : {0} \cup DOMAIN cards']
    BY <2>1, <2>3 DEF Steps
  <2>6. cards' \in Seq(CardType)
    BY <1>1, <2>1 DEF ContactsTyped
  <2> QED BY <1>2, <1>4, <2>1, <2>4, <2>5, <2>6, ListLeftAlone
<1>6. CASE FindByName(n) = 0
  <2> DEFINE c == Card(n, NoAccount)
  <2>1. cards' = Append(cards, c) /\ dialog' = [step |-> "family", card |-> Len(cards) + 1]
    BY <1>6 DEF AskContact
  <2>2. c \in CardType
    BY DEF Card, CardType, Telegrams
  <2> HIDE DEF c
  <2>3. /\ cards' \in Seq(CardType) /\ DOMAIN cards' = DOMAIN cards \cup {Len(cards) + 1}
        /\ \A j \in DOMAIN cards : cards'[j] = cards[j]
    BY <1>1, <2>1, <2>2, NewCard
  <2>4. DialogHasCard' /\ dialog' \in [step : Steps, card : {0} \cup DOMAIN cards']
    BY <2>1, <2>3 DEF DialogHasCard, Steps
  <2> QED BY <1>2, <1>4, <2>3, <2>4, ListLeftAlone
<1> QED BY <1>5, <1>6

\* A question about the family changes no account; the object stays the same.
LEMMA AskedFamily ==
  ASSUME ContactsIInv, NEW y \in BOOLEAN,
         \/ /\ dialog.step = "update"
            /\ dialog' = [dialog EXCEPT !.step = "family"]
         \/ /\ dialog.step = "family"
            /\ dialog' = [dialog EXCEPT !.step = "telegram"],
         cards' = [cards EXCEPT ![dialog.card].family = y],
         Edited, UNCHANGED <<contacts, saved, dialogs>>
  PROVE  ContactsIInv'
PROOF
<1> DEFINE k == dialog.card
           c == [name |-> cards[k].name, telegram |-> cards[k].telegram,
                 family |-> y, active |-> cards[k].active]
<1>1. ContactsTyped /\ dialogs \in Nat /\ DialogHasCard
      /\ dialog \in [step : Steps, card : {0} \cup DOMAIN cards]
  BY DEF ContactsIInv, ContactsTyped
<1>2. k \in DOMAIN cards
  BY <1>1 DEF DialogHasCard
<1>3. cards[k] = [name |-> cards[k].name, telegram |-> cards[k].telegram,
                  family |-> cards[k].family, active |-> cards[k].active]
      /\ c \in CardType
  BY <1>1, <1>2, CardFacts DEF CardType
<1>4. cards' = [cards EXCEPT ![k] = c]
  <2>1. [cards[k] EXCEPT !.family = y] = c
    BY <1>3
  <2> QED BY <2>1
<1>5. c.name = cards[k].name /\ c.telegram = cards[k].telegram
  OBVIOUS
<1> HIDE DEF c, k
<1>6. /\ cards' \in Seq(CardType) /\ DOMAIN cards' = DOMAIN cards
      /\ \A j \in DOMAIN cards : cards'[j] = IF j = k THEN c ELSE cards[j]
  BY <1>1, <1>2, <1>3, <1>4, EditedCard
<1>7. dialog'.card = k /\ dialog'.step \in {"family", "telegram"}
      /\ dialog' \in [step : Steps, card : {0} \cup DOMAIN cards']
  BY <1>1, <1>6 DEF Steps, k
<1>8. DialogHasCard'
  BY <1>2, <1>6, <1>7 DEF DialogHasCard
<1>9. Pending(dialog', contacts) <= Pending(dialog, contacts)
  <2>1. dialog.step = "update" => \E i \in DOMAIN contacts : contacts[i] = dialog.card
    BY <1>1 DEF DialogHasCard, Listed
  <2>2. Pending(dialog, contacts) = 1
    BY <2>1 DEF Pending
  <2>3. Pending(dialog', contacts) \in {0, 1}
    BY DEF Pending
  <2> QED BY <2>2, <2>3
<1>10. Pending(dialog', contacts) + dialogs <= Pending(dialog, contacts) + dialogs'
       /\ dialogs <= dialogs'
  BY <1>1, <1>9 DEF Pending
<1> QED BY <1>1, <1>5, <1>6, <1>7, <1>8, <1>10, ListLeftAlone DEF Edited

LEMMA Aborted ==
  ASSUME ContactsIInv, Abort
  PROVE  ContactsIInv'
PROOF
<1>1. ContactsTyped /\ dialogs \in Nat /\ cards \in Seq(CardType)
  BY DEF ContactsIInv, ContactsTyped
<1>2. dialog' = NoDialog /\ UNCHANGED <<cards, contacts, saved, dialogs, unsaved>>
  BY DEF Abort
<1>3. DialogHasCard' /\ dialog' \in [step : Steps, card : {0} \cup DOMAIN cards']
  BY <1>2 DEF DialogHasCard, NoDialog, Steps
<1>4. Pending(dialog', contacts) + dialogs <= Pending(dialog, contacts) + dialogs'
      /\ dialogs <= dialogs'
  <2>1. Pending(dialog', contacts) = 0 /\ Pending(dialog, contacts) \in {0, 1}
    BY <1>2 DEF Pending, NoDialog
  <2> QED BY <1>1, <1>2, <2>1
<1> QED BY <1>1, <1>2, <1>3, <1>4, ListLeftAlone

\* A pending dialogue pays for one more.
LEMMA PaidNow ==
  ASSUME NEW n \in Nat, NEW m \in Nat, NEW p \in {0, 1}, NEW q \in {0, 1}, NEW o \in {0, 1},
         NEW u \in {0, 1}, NEW d \in Nat, n + p + o <= 1 + d, m + q + u <= n + p + o
  PROVE  m + q + u <= 1 + d /\ m + u <= 1 + d
OBVIOUS

\* The account of an object is changed: in the list it is one more of its account at
\* most, and the dialogue has nothing more to add.
LEMMA AskedTelegram ==
  ASSUME ContactsIInv, NEW t \in Accounts, AskTelegram(t)
  PROVE  ContactsIInv'
PROOF
<1> DEFINE k == dialog.card
           c == [name |-> cards[k].name, telegram |-> t,
                 family |-> cards[k].family, active |-> cards[k].active]
<1>1. ContactsTyped /\ dialogs \in Nat /\ DialogHasCard /\ Distinct(contacts)
      /\ dialog \in [step : Steps, card : {0} \cup DOMAIN cards]
  BY DEF ContactsIInv, ContactsTyped
<1>2. /\ dialog.step = "telegram" /\ dialog' = [dialog EXCEPT !.step = "email"]
      /\ cards' = [cards EXCEPT ![k].telegram = t]
      /\ unsaved' = unsaved \cup {k} /\ UNCHANGED <<contacts, saved, dialogs>>
  BY DEF AskTelegram, Edited
<1>3. k \in DOMAIN cards
  BY <1>1, <1>2 DEF DialogHasCard
<1>4. cards[k] = [name |-> cards[k].name, telegram |-> cards[k].telegram,
                  family |-> cards[k].family, active |-> cards[k].active]
      /\ c \in CardType
  BY <1>1, <1>3, CardFacts DEF CardType, Telegrams
<1>5. cards' = [cards EXCEPT ![k] = c]
  <2>1. [cards[k] EXCEPT !.telegram = t] = c
    BY <1>4
  <2> QED BY <1>2, <2>1
<1>6. c.name = cards[k].name
  OBVIOUS
<1> HIDE DEF c
<1>7. /\ cards' \in Seq(CardType) /\ DOMAIN cards' = DOMAIN cards
      /\ \A j \in DOMAIN cards : cards'[j] = IF j = k THEN c ELSE cards[j]
  BY <1>1, <1>3, <1>4, <1>5, EditedCard
<1>8. dialog'.card = k /\ dialog'.step = "email"
      /\ dialog' \in [step : Steps, card : {0} \cup DOMAIN cards']
  BY <1>1, <1>2, <1>7 DEF Steps
<1>9. \A i \in DOMAIN contacts : contacts[i] \in DOMAIN cards
  BY <1>1, CardFacts
<1>10. ContactsTyped' /\ DialogHasCard' /\ Distinct(contacts)'
  BY <1>1, <1>2, <1>3, <1>7, <1>8 DEF ContactsTyped, DialogHasCard, Distinct
<1>11. FileHoldsContacts'
  BY <1>2, <1>6, <1>7, <1>9 DEF ContactsIInv, FileHoldsContacts
<1>12. OwnerGone(cards', contacts') = OwnerGone(cards, contacts)
  BY <1>2, <1>6, <1>7, <1>9 DEF OwnerGone
<1>13. Pending(dialog', contacts') <= Pending(dialog, contacts)
  BY <1>2, <1>8 DEF Pending
<1>14. ASSUME NEW a \in Accounts
       PROVE  Cardinality(Holders(cards', contacts', a)) + Pending(dialog', contacts')
                 <= Cardinality(Holders(cards, contacts, a)) + Pending(dialog, contacts)
  <2>1. Cardinality(Holders(cards, contacts, a)) \in Nat /\ IsFiniteSet(Holders(cards, contacts, a))
    BY <1>1, PlacesFacts
  <2>2. Cardinality(Holders(cards', contacts', a)) \in Nat
    BY <1>10, PlacesFinite DEF ContactsTyped, Holders
  <2>3. CASE \E i \in DOMAIN contacts : contacts[i] = k
    <3>1. PICK i \in DOMAIN contacts : contacts[i] = k
      BY <2>3
    <3>2. Holders(cards', contacts', a) \in SUBSET (Holders(cards, contacts, a) \cup {i})
      BY <1>1, <1>2, <1>7, <1>9, <3>1 DEF Holders, Distinct
    <3>3. Cardinality(Holders(cards', contacts', a)) <= Cardinality(Holders(cards, contacts, a)) + 1
      BY <2>1, <3>2, OneMore
    <3>4. Pending(dialog', contacts') = 0 /\ Pending(dialog, contacts) = 1
      BY <1>2, <1>8, <2>3 DEF Pending
    <3> QED BY <2>1, <2>2, <3>3, <3>4
  <2>4. CASE ~\E i \in DOMAIN contacts : contacts[i] = k
    <3>1. Holders(cards', contacts', a) = Holders(cards, contacts, a)
      BY <1>2, <1>7, <1>9, <2>4 DEF Holders
    <3>2. Pending(dialog', contacts') \in {0, 1} /\ Pending(dialog, contacts) \in {0, 1}
      BY DEF Pending
    <3> QED BY <1>13, <2>1, <3>1, <3>2
  <2> QED BY <2>3, <2>4
<1>15. DialogsPay'
  <2> DEFINE p == Pending(dialog, contacts)
             q == Pending(dialog', contacts')
             o == OwnerGone(cards, contacts)
  <2>1. p \in {0, 1} /\ q \in {0, 1} /\ o \in {0, 1} /\ q <= p /\ p + o <= dialogs
    BY <1>13 DEF Pending, OwnerGone, ContactsIInv, DialogsPay
  <2>2. ASSUME NEW a \in Accounts
        PROVE  /\ Cardinality(Holders(cards', contacts', a)) + q + o <= 1 + dialogs
               /\ Cardinality(FileHolders(saved', a)) + o <= 1 + dialogs
    <3> DEFINE n == Cardinality(Holders(cards, contacts, a))
               m == Cardinality(Holders(cards', contacts', a))
    <3>1. n \in Nat /\ m \in Nat
      BY <1>1, <1>10, PlacesFacts, PlacesFinite DEF ContactsTyped, Holders
    <3>2. n + p + o <= 1 + dialogs /\ m + q <= n + p
      BY <1>14 DEF ContactsIInv, DialogsPay
    <3>3. Cardinality(FileHolders(saved', a)) + o <= 1 + dialogs
      BY <1>2 DEF ContactsIInv, DialogsPay
    <3> HIDE DEF n, m, p, q, o
    <3>4. m + q + o <= n + p + o
      BY <2>1, <3>1, <3>2
    <3>5. m + q + o <= 1 + dialogs
      BY <1>1, <2>1, <3>1, <3>2, <3>4, PaidNow
    <3> QED BY <3>3, <3>5 DEF m
  <2>3. q + o <= dialogs
    <3> HIDE DEF p, q, o
    <3> QED BY <1>1, <2>1
  <2> QED BY <1>2, <1>12, <2>2, <2>3 DEF DialogsPay
<1> QED BY <1>10, <1>11, <1>15 DEF ContactsIInv

\* A step that saves the list has only the list to account for.
LEMMA ListSaved ==
  ASSUME ContactsIInv, cards' \in Seq(CardType), contacts' \in Seq(DOMAIN cards'),
         Save(cards', contacts'), Distinct(contacts'), dialogs' = dialogs,
         dialog' \in [step : Steps, card : {0} \cup DOMAIN cards'], DialogHasCard',
         Pending(dialog', contacts') + OwnerGone(cards', contacts') <= dialogs,
         \A a \in Accounts :
           Cardinality(Holders(cards', contacts', a)) + Pending(dialog', contacts')
             + OwnerGone(cards', contacts') <= 1 + dialogs
  PROVE  ContactsIInv'
PROOF
<1>1. dialogs \in Nat
  BY DEF ContactsIInv, ContactsTyped
<1>2. /\ saved' \in Seq(SavedType) /\ FileHoldsContacts'
      /\ \A a : FileHolders(saved', a) = Holders(cards', contacts', a)
  BY SavedAgain
<1>3. ContactsTyped'
  BY <1>1, <1>2 DEF ContactsTyped
<1>4. ASSUME NEW a \in Accounts
      PROVE  Cardinality(FileHolders(saved', a)) + OwnerGone(cards', contacts') <= 1 + dialogs
  <2> DEFINE m == Cardinality(Holders(cards', contacts', a))
             q == Pending(dialog', contacts')
             o == OwnerGone(cards', contacts')
  <2>1. m \in Nat
    BY PlacesFinite DEF Holders
  <2>2. q \in {0, 1} /\ o \in {0, 1}
    BY DEF Pending, OwnerGone
  <2>3. m + q + o <= 1 + dialogs /\ Cardinality(FileHolders(saved', a)) = m
    BY <1>2
  <2> HIDE DEF m, q, o
  <2>4. m + o <= 1 + dialogs
    BY <1>1, <2>1, <2>2, <2>3
  <2> QED BY <2>3, <2>4 DEF o
<1>5. DialogsPay'
  BY <1>4 DEF DialogsPay
<1> QED BY <1>2, <1>3, <1>5 DEF ContactsIInv, Distinct

\* An object is put at the end of the list.
LEMMA PutAtEnd ==
  ASSUME ContactsIInv, NEW k \in DOMAIN cards', contacts' = Append(contacts, k),
         k \notin Listed, DOMAIN cards \subseteq DOMAIN cards',
         \A j \in DOMAIN cards : /\ cards'[j].name = cards[j].name
                                 /\ cards'[j].telegram = cards[j].telegram
  PROVE  /\ contacts' \in Seq(DOMAIN cards') /\ Distinct(contacts')
         /\ Listed' = Listed \cup {k}
         /\ OwnerGone(cards', contacts') <= OwnerGone(cards, contacts)
         /\ \A a : /\ cards'[k].telegram # a =>
                        Holders(cards', contacts', a) = Holders(cards, contacts, a)
                   /\ Holders(cards', contacts', a)
                        \in SUBSET (Holders(cards, contacts, a) \cup {Len(contacts) + 1})
PROOF
<1>1. /\ contacts \in Seq(DOMAIN cards) /\ Distinct(contacts) /\ Len(contacts) \in Nat
      /\ DOMAIN contacts = 1 .. Len(contacts)
      /\ \A i \in DOMAIN contacts : contacts[i] \in DOMAIN cards
  BY CardFacts DEF ContactsIInv, ContactsTyped
<1>2. contacts \in Seq(DOMAIN cards')
  BY <1>1, SeqMonotonic
<1>3. /\ contacts' \in Seq(DOMAIN cards') /\ Len(contacts') = Len(contacts) + 1
      /\ \A i \in 1 .. Len(contacts) : contacts'[i] = contacts[i]
      /\ contacts'[Len(contacts) + 1] = k
  BY <1>2, AppendProperties
<1>4. DOMAIN contacts' = DOMAIN contacts \cup {Len(contacts) + 1}
      /\ Len(contacts) + 1 \notin DOMAIN contacts
  <2>1. DOMAIN contacts' = 1 .. Len(contacts) + 1
    BY <1>3, LenProperties
  <2>2. 1 .. Len(contacts) + 1 = (1 .. Len(contacts)) \cup {Len(contacts) + 1}
    BY <1>1
  <2>3. Len(contacts) + 1 \notin 1 .. Len(contacts)
    BY <1>1
  <2> QED BY <1>1, <2>1, <2>2, <2>3
<1>5. /\ \A i \in DOMAIN contacts : contacts'[i] = contacts[i] /\ contacts[i] # k
      /\ contacts'[Len(contacts) + 1] = k
  BY <1>1, <1>3 DEF Listed
<1>6. Distinct(contacts')
  BY <1>1, <1>4, <1>5 DEF Distinct
<1>7. Listed' = Listed \cup {k}
  BY <1>4, <1>5 DEF Listed
<1>8. OwnerGone(cards', contacts') <= OwnerGone(cards, contacts)
  BY <1>1, <1>4, <1>5 DEF OwnerGone
<1>9. ASSUME NEW a
      PROVE  /\ cards'[k].telegram # a =>
                  Holders(cards', contacts', a) = Holders(cards, contacts, a)
             /\ Holders(cards', contacts', a)
                  \in SUBSET (Holders(cards, contacts, a) \cup {Len(contacts) + 1})
  BY <1>1, <1>4, <1>5 DEF Holders
<1> QED BY <1>3, <1>6, <1>7, <1>8, <1>9

\* The end of the dialogue: its contact is in the list already, or was still to come.
LEMMA AskedEmail ==
  ASSUME ContactsIInv, AskEmail
  PROVE  ContactsIInv'
PROOF
<1>1. /\ ContactsTyped /\ dialogs \in Nat /\ DialogHasCard /\ Distinct(contacts)
      /\ cards \in Seq(CardType) /\ contacts \in Seq(DOMAIN cards)
  BY DEF ContactsIInv, ContactsTyped
<1>2. /\ dialog.step = "email" /\ dialog' = NoDialog /\ cards' = cards /\ dialogs' = dialogs
      /\ Save(cards', contacts')
  BY DEF AskEmail
<1>3. /\ dialog.card \in DOMAIN cards /\ DialogHasCard'
      /\ dialog' \in [step : Steps, card : {0} \cup DOMAIN cards']
  BY <1>1, <1>2 DEF DialogHasCard, NoDialog, Steps
<1>4. Pending(dialog', contacts') = 0
  BY <1>2 DEF Pending, NoDialog
<1> DEFINE p == Pending(dialog, contacts)
           o == OwnerGone(cards, contacts)
           u == OwnerGone(cards', contacts')
           n(a) == Cardinality(Holders(cards, contacts, a))
           m(a) == Cardinality(Holders(cards', contacts', a))
<1>5. /\ contacts' \in Seq(DOMAIN cards') /\ Distinct(contacts') /\ u <= o
      /\ \A a \in Accounts : m(a) <= n(a) + p
  <2>1. CASE dialog.card \in Listed
    <3>1. contacts' = contacts
      BY <2>1 DEF AskEmail
    <3>2. u = o /\ \A a : m(a) = n(a)
      BY <1>2, <3>1
    <3>3. p \in {0, 1} /\ o \in {0, 1} /\ \A a \in Accounts : n(a) \in Nat
      BY <1>1, PlacesFacts
    <3> HIDE DEF p, o, u, n, m
    <3> QED BY <1>1, <1>2, <3>1, <3>2, <3>3
  <2>2. CASE dialog.card \notin Listed
    <3>1. contacts' = Append(contacts, dialog.card)
      BY <2>2 DEF AskEmail
    <3>2. /\ contacts' \in Seq(DOMAIN cards') /\ Distinct(contacts') /\ u <= o
          /\ \A a : Holders(cards', contacts', a)
                      \in SUBSET (Holders(cards, contacts, a) \cup {Len(contacts) + 1})
      BY <1>2, <1>3, <2>2, <3>1, PutAtEnd
    <3>3. p = 1
      BY <1>2, <2>2 DEF Pending, Listed
    <3>4. ASSUME NEW a \in Accounts
          PROVE  m(a) <= n(a) + p
      <4>1. IsFiniteSet(Holders(cards, contacts, a))
        BY <1>1, PlacesFacts
      <4>2. Cardinality(Holders(cards', contacts', a)) <= Cardinality(Holders(cards, contacts, a)) + 1
        BY <3>2, <4>1, OneMore
      <4> QED BY <3>3, <4>2
    <3> QED BY <3>2, <3>4
  <2> QED BY <2>1, <2>2
<1>6. p \in {0, 1} /\ o \in {0, 1} /\ u \in {0, 1} /\ p + o <= dialogs
  BY DEF Pending, OwnerGone, ContactsIInv, DialogsPay
<1>7. ASSUME NEW a \in Accounts
      PROVE  m(a) + 0 + u <= 1 + dialogs
  <2>1. n(a) \in Nat /\ m(a) \in Nat
    BY <1>1, <1>5, PlacesFacts, PlacesFinite DEF Holders
  <2>2. n(a) + p + o <= 1 + dialogs
    BY DEF ContactsIInv, DialogsPay
  <2>3. m(a) <= n(a) + p
    BY <1>5
  <2> HIDE DEF n, m, p, o, u
  <2>4. m(a) + 0 + u <= n(a) + p + o
    BY <1>5, <1>6, <2>1, <2>3
  <2> QED BY <1>1, <1>6, <2>1, <2>2, <2>4, PaidNow
<1>8. 0 + u <= dialogs
  <2> HIDE DEF n, m, p, o, u
  <2> QED BY <1>1, <1>5, <1>6
<1> QED BY <1>1, <1>2, <1>3, <1>4, <1>5, <1>7, <1>8, ListSaved

-----------------------------------------------------------------------------
(* remove_contact.  The list that is kept is defined by recursion: that it is  *)
(* defined, and what is in it, is shown by the least place that could fail.    *)

\* What holds at 0 and goes on from each number to the next holds up to N.
LEMMA UpTo ==
  ASSUME NEW N \in Nat, NEW S, 0 \in S,
         \A k \in 0 .. N - 1 : k \in S => k + 1 \in S
  PROVE  N \in S
PROOF
<1> SUFFICES ASSUME N \notin S PROVE FALSE
  OBVIOUS
<1> DEFINE T == (0 .. N) \ S
           j == CHOOSE x \in T : \A y \in T : x <= y
<1>1. T \in SUBSET Nat /\ T # {}
  OBVIOUS
<1>2. j \in T /\ \A y \in T : j <= y
  <2> HIDE DEF T
  <2> QED BY <1>1, LeastExists
<1> HIDE DEF j
<1>3. j \in 1 .. N /\ j - 1 \in 0 .. N - 1 /\ j - 1 + 1 = j /\ ~(j <= j - 1)
  BY <1>2
<1>4. j - 1 \in S
  BY <1>2, <1>3
<1> QED BY <1>2, <1>3, <1>4

\* The first k places of the list, without the contacts of a name.
KeptOf(k, n, f) ==
  /\ f \in [0 .. k -> Seq(DOMAIN cards)]
  /\ f[0] = <<>>
  /\ \A i \in 1 .. k : f[i] = IF cards[contacts[i]].name = n THEN f[i - 1]
                              ELSE Append(f[i - 1], contacts[i])

LEMMA KeptExists ==
  ASSUME ContactsTyped, NEW n
  PROVE  \E f : KeptOf(Len(contacts), n, f)
PROOF
<1> DEFINE N == Len(contacts)
           S == {k \in 0 .. N : \E f : KeptOf(k, n, f)}
<1>1. N \in Nat /\ \A i \in 1 .. N : contacts[i] \in DOMAIN cards
  BY CardFacts
<1> HIDE DEF N
<1>2. 0 \in S
  <2> DEFINE z == [i \in 0 .. 0 |-> <<>>]
  <2>1. KeptOf(0, n, z)
    <3>1. <<>> \in Seq(DOMAIN cards)
      BY EmptySeq
    <3>2. z \in [0 .. 0 -> Seq(DOMAIN cards)] /\ z[0] = <<>>
      BY <3>1
    <3> QED BY <3>2 DEF KeptOf
  <2>2. 0 \in 0 .. N
    BY <1>1
  <2> HIDE DEF z
  <2> QED BY <2>1, <2>2
<1>3. ASSUME NEW k \in 0 .. N - 1, k \in S
      PROVE  k + 1 \in S
  <2>1. PICK f : KeptOf(k, n, f)
    BY <1>3
  <2> DEFINE v == IF cards[contacts[k + 1]].name = n THEN f[k] ELSE Append(f[k], contacts[k + 1])
             g == [i \in 0 .. k + 1 |-> IF i = k + 1 THEN v ELSE f[i]]
  <2>2. v \in Seq(DOMAIN cards)
    <3>1. k + 1 \in 1 .. N /\ k \in 0 .. k
      BY <1>1
    <3>2. f[k] \in Seq(DOMAIN cards) /\ contacts[k + 1] \in DOMAIN cards
      BY <1>1, <2>1, <3>1 DEF KeptOf
    <3> QED BY <3>2, AppendProperties
  <2>3. f \in [0 .. k -> Seq(DOMAIN cards)]
    BY <2>1 DEF KeptOf
  <2>4. ASSUME NEW i \in 1 .. k + 1
        PROVE  g[i] = IF cards[contacts[i]].name = n THEN g[i - 1]
                      ELSE Append(g[i - 1], contacts[i])
    <3>1. CASE i = k + 1
      <4>1. i - 1 = k /\ k \in 0 .. k + 1 /\ k + 1 \in 0 .. k + 1 /\ k # k + 1
        BY <3>1
      <4>2. g[i] = v /\ g[i - 1] = f[k]
        <5> HIDE DEF v
        <5> QED BY <3>1, <4>1
      <4> QED BY <3>1, <4>2
    <3>2. CASE i # k + 1
      <4>1. i \in 1 .. k /\ i - 1 \in 0 .. k + 1 /\ i - 1 # k + 1 /\ i \in 0 .. k + 1
        BY <3>2
      <4>2. g[i] = f[i] /\ g[i - 1] = f[i - 1]
        <5> HIDE DEF v
        <5> QED BY <3>2, <4>1
      <4> QED BY <2>1, <4>1, <4>2 DEF KeptOf
    <3> QED BY <3>1, <3>2
  <2>5. g \in [0 .. k + 1 -> Seq(DOMAIN cards)] /\ g[0] = <<>>
    <3>1. 0 \in 0 .. k + 1 /\ 0 # k + 1 /\ \A i \in 0 .. k + 1 : i = k + 1 \/ i \in 0 .. k
      BY <1>1
    <3> HIDE DEF v
    <3> QED BY <2>1, <2>2, <2>3, <3>1 DEF KeptOf
  <2>6. KeptOf(k + 1, n, g)
    <3> HIDE DEF g
    <3> QED BY <2>4, <2>5 DEF KeptOf
  <2>7. k + 1 \in 0 .. N
    BY <1>1
  <2> HIDE DEF g
  <2> QED BY <2>6, <2>7
<1>4. N \in S
  <2> HIDE DEF S
  <2> QED BY <1>1, <1>2, <1>3, UpTo
<1> QED BY <1>4 DEF N

\* What is kept is in the list, under other names, and once if the list had it once.
LEMMA WithoutFacts ==
  ASSUME ContactsTyped, Distinct(contacts), NEW n
  PROVE  /\ Without(n) \in Seq(DOMAIN cards) /\ Distinct(Without(n))
         /\ \A j \in DOMAIN Without(n) :
              \E i \in DOMAIN contacts : Without(n)[j] = contacts[i]
PROOF
<1> DEFINE N == Len(contacts)
           Eq(g) == g = [i \in 0 .. N |-> IF i = 0 THEN <<>>
                           ELSE IF cards[contacts[i]].name = n THEN g[i - 1]
                           ELSE Append(g[i - 1], contacts[i])]
           kept == CHOOSE g : Eq(g)
<1>1. /\ N \in Nat /\ DOMAIN contacts = 1 .. N
      /\ \A i \in 1 .. N : contacts[i] \in DOMAIN cards
  BY CardFacts
<1>2. Without(n) = kept[N]
  BY DEF Without
<1> HIDE DEF N
<1>3. \E g : Eq(g)
  <2>1. PICK f : KeptOf(N, n, f)
    BY KeptExists DEF N
  <2>2. Eq(f)
    <3>1. \A i \in 0 .. N : i = 0 \/ i \in 1 .. N
      BY <1>1
    <3>2. f = [i \in 0 .. N |-> f[i]]
      BY <2>1 DEF KeptOf
    <3>3. \A i \in 0 .. N : f[i] = IF i = 0 THEN <<>>
                           ELSE IF cards[contacts[i]].name = n THEN f[i - 1]
                           ELSE Append(f[i - 1], contacts[i])
      BY <2>1, <3>1 DEF KeptOf
    <3> QED BY <3>2, <3>3
  <2> QED BY <2>2
<1>4. Eq(kept)
  <2> HIDE DEF Eq
  <2> QED BY <1>3
<1>5. /\ kept[0] = <<>>
      /\ \A i \in 1 .. N : kept[i] = IF cards[contacts[i]].name = n THEN kept[i - 1]
                                     ELSE Append(kept[i - 1], contacts[i])
  <2>1. \A i \in 1 .. N : i \in 0 .. N /\ i # 0
    BY <1>1
  <2>2. 0 \in 0 .. N
    BY <1>1
  <2> QED BY <1>4, <2>1, <2>2
<1> HIDE DEF kept
<1> DEFINE Good(k, s) == /\ s \in Seq(DOMAIN cards) /\ Distinct(s)
                         /\ \A j \in DOMAIN s : \E i \in 1 .. k : s[j] = contacts[i]
           S == {k \in 0 .. N : Good(k, kept[k])}
<1>6. 0 \in S
  <2>1. <<>> \in Seq(DOMAIN cards) /\ DOMAIN <<>> = {}
    BY EmptySeq
  <2>2. 0 \in 0 .. N
    BY <1>1
  <2> QED BY <1>5, <2>1, <2>2 DEF Distinct
<1>7. ASSUME NEW k \in 0 .. N - 1, k \in S
      PROVE  k + 1 \in S
  <2>1. k + 1 \in 1 .. N /\ k + 1 \in 0 .. N /\ k + 1 - 1 = k /\ 1 .. k \subseteq 1 .. k + 1
    BY <1>1
  <2>2. Good(k, kept[k])
    BY <1>7
  <2>3. CASE cards[contacts[k + 1]].name = n
    <3>1. kept[k + 1] = kept[k]
      BY <1>5, <2>1, <2>3
    <3>2. Good(k + 1, kept[k])
      BY <2>1, <2>2
    <3> QED BY <2>1, <3>1, <3>2
  <2>4. CASE cards[contacts[k + 1]].name # n
    <3> DEFINE s == kept[k]
               c == contacts[k + 1]
               t == Append(s, c)
    <3>1. kept[k + 1] = t
      <4>1. \A i \in 1 .. N : cards[contacts[i]].name # n =>
                               kept[i] = Append(kept[i - 1], contacts[i])
        BY <1>5, Zenon
      <4>2. kept[k + 1] = Append(kept[k + 1 - 1], contacts[k + 1])
        BY <2>1, <2>4, <4>1
      <4>3. k + 1 - 1 = k
        BY <2>1
      <4> QED BY <4>2, <4>3
    <3>2. s \in Seq(DOMAIN cards) /\ c \in DOMAIN cards /\ Len(s) \in Nat /\ DOMAIN s = 1 .. Len(s)
      BY <1>1, <2>1, <2>2, LenProperties
    <3>3. /\ t \in Seq(DOMAIN cards) /\ Len(t) = Len(s) + 1 /\ t[Len(s) + 1] = c
          /\ \A j \in 1 .. Len(s) : t[j] = s[j]
      <4> HIDE DEF s, c
      <4> QED BY <3>2, AppendProperties
    <3>4. DOMAIN t = (1 .. Len(s)) \cup {Len(s) + 1} /\ Len(s) + 1 \notin 1 .. Len(s)
      <4>1. DOMAIN t = 1 .. Len(s) + 1
        BY <3>3, LenProperties
      <4> HIDE DEF s, t
      <4> QED BY <3>2, <4>1
    <3>5. \A j \in 1 .. Len(s) : s[j] # c
      <4>1. \A i \in 1 .. k : i # k + 1 /\ i \in 1 .. N
        BY <1>1
      <4> QED BY <1>1, <2>1, <2>2, <3>2, <4>1 DEF Distinct
    <3>6. Distinct(t)
      <4>1. Distinct(s)
        BY <2>2
      <4> HIDE DEF s, t, c
      <4> QED BY <3>2, <3>3, <3>4, <3>5, <4>1 DEF Distinct
    <3>7. \A j \in DOMAIN t : \E i \in 1 .. k + 1 : t[j] = contacts[i]
      <4>1. k + 1 \in 1 .. k + 1 /\ \A j \in 1 .. Len(s) : \E i \in 1 .. k : s[j] = contacts[i]
        BY <2>2, <3>2
      <4>2. c = contacts[k + 1]
        OBVIOUS
      <4> HIDE DEF s, t, c
      <4> QED BY <2>1, <3>3, <3>4, <4>1, <4>2
    <3> HIDE DEF t
    <3>8. Good(k + 1, t)
      BY <3>3, <3>6, <3>7
    <3> QED BY <2>1, <3>1, <3>8
  <2> QED BY <2>3, <2>4
<1>8. N \in S
  <2> HIDE DEF S
  <2> QED BY <1>1, <1>6, <1>7, UpTo
<1> QED BY <1>1, <1>2, <1>8

-----------------------------------------------------------------------------

\* remove_contact ends the dialogue, and no account has more than before.
LEMMA RemovedContact ==
  ASSUME ContactsIInv, UpdateOrRemove(TRUE)
  PROVE  ContactsIInv'
PROOF
<1> DEFINE w == Without(cards[dialog.card].name)
<1>1. /\ ContactsTyped /\ dialogs \in Nat /\ DialogHasCard /\ Distinct(contacts)
      /\ cards \in Seq(CardType)
  BY DEF ContactsIInv, ContactsTyped
<1>2. /\ dialog.step = "update" /\ dialog' = NoDialog /\ cards' = cards /\ dialogs' = dialogs
      /\ contacts' = w /\ Save(cards', contacts')
  BY DEF UpdateOrRemove
<1>3. /\ w \in Seq(DOMAIN cards) /\ Distinct(w)
      /\ \A j \in DOMAIN w : \E i \in DOMAIN contacts : w[j] = contacts[i]
  BY <1>1, WithoutFacts
<1> HIDE DEF w
<1>4. /\ DialogHasCard'
      /\ dialog' \in [step : Steps, card : {0} \cup DOMAIN cards']
  BY <1>2 DEF DialogHasCard, NoDialog, Steps
<1>5. Pending(dialog', contacts') = 0
  BY <1>2 DEF Pending, NoDialog
<1>6. Pending(dialog, contacts) = 1
  <2>1. \E i \in DOMAIN contacts : contacts[i] = dialog.card
    BY <1>1, <1>2 DEF DialogHasCard, Listed
  <2> QED BY <1>2, <2>1 DEF Pending
<1>7. ASSUME NEW a \in Accounts
      PROVE  Cardinality(Holders(cards', contacts', a)) <= Cardinality(Holders(cards, contacts, a))
  <2> DEFINE S == Holders(cards', contacts', a)
             T == Holders(cards, contacts, a)
             f == [j \in S |-> CHOOSE i \in DOMAIN contacts : w[j] = contacts[i]]
  <2>1. ASSUME NEW j \in S
        PROVE  /\ j \in DOMAIN w /\ f[j] \in DOMAIN contacts /\ w[j] = contacts[f[j]]
               /\ f[j] \in T
    <3>1. j \in DOMAIN w /\ cards[w[j]].telegram = a
      BY <1>2, <2>1 DEF Holders
    <3>2. f[j] \in DOMAIN contacts /\ w[j] = contacts[f[j]]
      BY <1>3, <3>1
    <3> QED BY <3>1, <3>2 DEF Holders
  <2>2. f \in [S -> T]
    <3> HIDE DEF S, T
    <3> QED BY <2>1
  <2>3. \A i, j \in S : f[i] = f[j] => i = j
    <3> HIDE DEF S, T, f
    <3> QED BY <1>3, <2>1 DEF Distinct
  <2>4. f \in Injection(S, T)
    <3> HIDE DEF S, T, f
    <3> QED BY <2>2, <2>3 DEF Injection, IsInjective
  <2>5. IsFiniteSet(T)
    BY <1>1, PlacesFacts
  <2> HIDE DEF S, T, f
  <2>6. Cardinality(S) <= Cardinality(T)
    BY <2>4, <2>5, FS_Injection
  <2> QED BY <2>6 DEF S, T
<1> DEFINE p == Pending(dialog, contacts)
           o == OwnerGone(cards, contacts)
           u == OwnerGone(cards', contacts')
           n(a) == Cardinality(Holders(cards, contacts, a))
           m(a) == Cardinality(Holders(cards', contacts', a))
<1>8. p = 1 /\ o \in {0, 1} /\ u \in {0, 1} /\ p + o <= dialogs
  BY <1>6 DEF OwnerGone, ContactsIInv, DialogsPay
<1>9. ASSUME NEW a \in Accounts
      PROVE  m(a) + 0 + u <= 1 + dialogs
  <2>1. n(a) \in Nat /\ m(a) \in Nat
    BY <1>1, <1>2, <1>3, PlacesFacts, PlacesFinite DEF Holders
  <2>2. n(a) + p + o <= 1 + dialogs
    BY DEF ContactsIInv, DialogsPay
  <2>3. m(a) <= n(a)
    BY <1>7
  <2> HIDE DEF n, m, p, o, u
  <2>4. m(a) + 0 + u <= n(a) + p + o
    BY <1>8, <2>1, <2>3
  <2> QED BY <1>1, <1>8, <2>1, <2>2, <2>4, PaidNow
<1>10. 0 + u <= dialogs
  <2> HIDE DEF n, m, p, o, u
  <2> QED BY <1>1, <1>8
<1>11. contacts' \in Seq(DOMAIN cards') /\ Distinct(contacts') /\ cards' \in Seq(CardType)
  BY <1>1, <1>2, <1>3
<1> QED BY <1>2, <1>4, <1>5, <1>9, <1>10, <1>11, ListSaved

\* A tunnel makes a contact for an account that nobody in the list has.
LEMMA AddedContact ==
  ASSUME ContactsIInv, NEW c \in CardType, AddCard(c), UNCHANGED <<dialog, dialogs>>,
         Holders(cards, contacts, c.telegram) = {}
  PROVE  ContactsIInv'
PROOF
<1> DEFINE k == Len(cards) + 1
<1>1. /\ ContactsTyped /\ dialogs \in Nat /\ DialogHasCard /\ Distinct(contacts)
      /\ dialog \in [step : Steps, card : {0} \cup DOMAIN cards]
  BY DEF ContactsIInv, ContactsTyped
<1>2. /\ cards' = Append(cards, c) /\ contacts' = Append(contacts, k)
      /\ Save(cards', contacts')
  BY DEF AddCard
<1>3. /\ cards' \in Seq(CardType) /\ DOMAIN cards' = DOMAIN cards \cup {k}
      /\ k \notin DOMAIN cards /\ cards'[k] = c
      /\ \A j \in DOMAIN cards : cards'[j] = cards[j]
  BY <1>1, <1>2, NewCard
<1> HIDE DEF k
<1>4. k \notin Listed
  BY <1>1, <1>3, CardFacts DEF Listed
<1>5. /\ contacts' \in Seq(DOMAIN cards') /\ Distinct(contacts') /\ Listed' = Listed \cup {k}
      /\ OwnerGone(cards', contacts') <= OwnerGone(cards, contacts)
      /\ \A a : /\ c.telegram # a =>
                     Holders(cards', contacts', a) = Holders(cards, contacts, a)
                /\ Holders(cards', contacts', a)
                     \in SUBSET (Holders(cards, contacts, a) \cup {Len(contacts) + 1})
  BY <1>2, <1>3, <1>4, PutAtEnd
<1>6. /\ DialogHasCard'
      /\ dialog' \in [step : Steps, card : {0} \cup DOMAIN cards']
  BY <1>1, <1>3, <1>5 DEF DialogHasCard
<1>7. Pending(dialog', contacts') = Pending(dialog, contacts)
  <2>1. dialog.step \in {"update", "family", "telegram", "email"} => dialog.card # k
    BY <1>1, <1>3 DEF DialogHasCard
  <2>2. dialog.step \in {"family", "telegram", "email", "update"} =>
          ((\E i \in DOMAIN contacts' : contacts'[i] = dialog.card)
             <=> (\E i \in DOMAIN contacts : contacts[i] = dialog.card))
    BY <1>5, <2>1 DEF Listed
  <2> QED BY <2>2 DEF Pending
<1> DEFINE p == Pending(dialog, contacts)
           o == OwnerGone(cards, contacts)
           u == OwnerGone(cards', contacts')
           n(a) == Cardinality(Holders(cards, contacts, a))
           m(a) == Cardinality(Holders(cards', contacts', a))
<1>8. p \in {0, 1} /\ o \in {0, 1} /\ u \in {0, 1} /\ p + o <= dialogs
  BY DEF Pending, OwnerGone, ContactsIInv, DialogsPay
<1>9. ASSUME NEW a \in Accounts
      PROVE  m(a) + p + u <= 1 + dialogs
  <2>1. n(a) \in Nat /\ m(a) \in Nat
    BY <1>1, <1>3, <1>5, PlacesFacts, PlacesFinite DEF Holders
  <2>2. CASE c.telegram # a
    <3>1. n(a) + p + o <= 1 + dialogs /\ m(a) = n(a)
      BY <1>5, <2>2 DEF ContactsIInv, DialogsPay
    <3> HIDE DEF n, m, p, o, u
    <3>2. m(a) + p + u <= n(a) + p + o
      BY <1>5, <1>8, <2>1, <3>1 DEF o, u
    <3> QED BY <1>1, <1>8, <2>1, <3>1, <3>2, PaidNow
  <2>3. CASE c.telegram = a
    <3>1. m(a) <= 0 + 1
      <4>1. IsFiniteSet({}) /\ Cardinality({}) = 0
        BY FS_EmptySet
      <4>2. Holders(cards', contacts', a) \in SUBSET ({} \cup {Len(contacts) + 1})
        BY <1>5, <2>3
      <4> QED BY <4>1, <4>2, OneMore
    <3>2. u <= o
      BY <1>5
    <3> HIDE DEF n, m, p, o, u
    <3> QED BY <1>1, <1>8, <2>1, <3>1, <3>2
  <2> QED BY <2>2, <2>3
<1>10. p + u <= dialogs
  <2>1. u <= o
    BY <1>5
  <2> HIDE DEF n, m, p, o, u
  <2> QED BY <1>1, <1>8, <2>1
<1>11. dialogs' = dialogs
  OBVIOUS
<1> QED BY <1>2, <1>3, <1>5, <1>6, <1>7, <1>9, <1>10, <1>11, ListSaved

LEMMA SameEnd ==
  ASSUME NEW m \in Nat, NEW n \in Nat, 1 .. m = 1 .. n
  PROVE  m = n
PROOF
<1>1. CASE m = 0 \/ n = 0
  <2>1. \A k \in Nat : k = 0 \/ k \in 1 .. k
    OBVIOUS
  <2>2. 1 .. 0 = {}
    OBVIOUS
  <2> QED BY <1>1, <2>1, <2>2
<1>2. CASE m # 0 /\ n # 0
  <2>1. m \in 1 .. n /\ n \in 1 .. m
    BY <1>2
  <2> QED BY <2>1
<1> QED BY <1>1, <1>2

\* The objects of the next run are those of the file, and of the owner if he is
\* not in it.
LEMMA LoadedFacts ==
  ASSUME ContactsTyped, FileHoldsContacts, LoadContacts
  PROVE  /\ cards' \in Seq(CardType) /\ DOMAIN contacts' = DOMAIN cards'
         /\ \A k \in DOMAIN cards' : contacts'[k] = k /\ cards'[k].active = {}
         /\ \A k \in DOMAIN saved :
              k \in DOMAIN cards' /\ cards'[k].name = saved[k].name
              /\ cards'[k].telegram = saved[k].telegram
         /\ OwnerGone(cards', contacts') = 0
         /\ DOMAIN cards' = IF OwnerGone(cards, contacts) = 0 THEN DOMAIN saved
                            ELSE DOMAIN saved \cup {Len(saved) + 1}
         /\ \/ OwnerGone(cards, contacts) = 0 /\ saved' = saved
            \/ saved' = [i \in DOMAIN cards' |-> ToDict(cards'[i])]
         /\ dialog' = NoDialog /\ dialogs' = dialogs
PROOF
<1> DEFINE known == \E i \in DOMAIN saved : saved[i].name = Owner
           old   == [i \in DOMAIN saved |-> FromDict(saved[i])]
           own   == Card(Owner, OwnerAccount)
           new   == IF known THEN old ELSE Append(old, own)
<1>1. /\ cards' = new /\ contacts' = [i \in DOMAIN new |-> i]
      /\ saved' = IF known THEN saved ELSE [i \in DOMAIN new |-> ToDict(new[i])]
      /\ dialog' = NoDialog /\ dialogs' = dialogs
  BY DEF LoadContacts, Loaded
<1>2. /\ Len(saved) \in Nat /\ DOMAIN saved = 1 .. Len(saved)
      /\ \A i \in DOMAIN saved : saved[i] \in SavedType
      /\ Len(saved) = Len(contacts) /\ DOMAIN contacts = 1 .. Len(contacts)
  BY CardFacts DEF FileHoldsContacts
<1>3. ASSUME NEW i \in DOMAIN saved
      PROVE  /\ old[i] = FromDict(saved[i]) /\ old[i] \in CardType
             /\ old[i].name = saved[i].name /\ old[i].telegram = saved[i].telegram
             /\ old[i].active = {}
  <2>1. saved[i] \in SavedType
    BY <1>2
  <2> QED BY <2>1 DEF FromDict, Card, SavedType, CardType
<1>4. own \in CardType /\ own.name = Owner /\ own.active = {}
  BY OwnerAssumption DEF Card, CardType, Telegrams
<1>5. old \in Seq(CardType) /\ Len(old) = Len(saved) /\ DOMAIN old = DOMAIN saved
  <2>1. old \in [1 .. Len(saved) -> CardType]
    <3>1. \A i \in DOMAIN saved : old[i] \in CardType
      BY <1>3
    <3>2. old = [i \in 1 .. Len(saved) |-> old[i]]
      BY <1>2
    <3> HIDE DEF old
    <3> QED BY <1>2, <3>1, <3>2
  <2> HIDE DEF old
  <2>2. old \in Seq(CardType)
    BY <1>2, <2>1, SeqDef
  <2> QED BY <1>2, <2>1, <2>2, LenProperties
<1>6. known <=> OwnerGone(cards, contacts) = 0
  BY <1>2 DEF FileHoldsContacts, OwnerGone
<1>7. CASE known
  <2>1. cards' = old /\ contacts' = [i \in DOMAIN old |-> i] /\ saved' = saved
    BY <1>1, <1>7
  <2>2. OwnerGone(cards, contacts) = 0
    BY <1>6, <1>7
  <2>3. \E i \in DOMAIN saved : saved[i].name = Owner
    BY <1>7
  <2> HIDE DEF old, known, new
  <2>4. OwnerGone(cards', contacts') = 0
    BY <1>3, <1>5, <2>1, <2>3 DEF OwnerGone
  <2> QED BY <1>1, <1>3, <1>5, <2>1, <2>2, <2>4
<1>8. CASE ~known
  <2> DEFINE t == Append(old, own)
  <2>1. cards' = t /\ contacts' = [i \in DOMAIN t |-> i]
        /\ saved' = [i \in DOMAIN t |-> ToDict(t[i])]
    BY <1>1, <1>8
  <2>2. OwnerGone(cards, contacts) # 0
    BY <1>6, <1>8
  <2> HIDE DEF old, known, new, own
  <2>3. /\ t \in Seq(CardType) /\ Len(t) = Len(saved) + 1 /\ t[Len(saved) + 1] = own
        /\ \A i \in 1 .. Len(saved) : t[i] = old[i]
    BY <1>4, <1>5, AppendProperties
  <2>4. DOMAIN t = DOMAIN saved \cup {Len(saved) + 1}
    <3>1. DOMAIN t = 1 .. Len(saved) + 1
      BY <2>3, LenProperties
    <3>2. 1 .. Len(saved) + 1 = (1 .. Len(saved)) \cup {Len(saved) + 1}
      BY <1>2
    <3> QED BY <1>2, <3>1, <3>2
  <2> HIDE DEF t
  <2>5. OwnerGone(cards', contacts') = 0
    BY <1>4, <2>1, <2>3, <2>4 DEF OwnerGone
  <2> QED BY <1>1, <1>2, <1>3, <1>4, <2>1, <2>2, <2>3, <2>4, <2>5
<1> QED BY <1>7, <1>8

LEMMA LoadedContacts ==
  ASSUME ContactsIInv, LoadContacts
  PROVE  ContactsIInv'
PROOF
<1>1. /\ ContactsTyped /\ dialogs \in Nat /\ FileHoldsContacts /\ saved \in Seq(SavedType)
  BY DEF ContactsIInv, ContactsTyped
<1> DEFINE o == OwnerGone(cards, contacts)
<1>2. /\ cards' \in Seq(CardType) /\ DOMAIN contacts' = DOMAIN cards'
      /\ \A k \in DOMAIN cards' : contacts'[k] = k
      /\ \A k \in DOMAIN saved :
           k \in DOMAIN cards' /\ cards'[k].name = saved[k].name
           /\ cards'[k].telegram = saved[k].telegram
      /\ OwnerGone(cards', contacts') = 0
      /\ DOMAIN cards' = IF o = 0 THEN DOMAIN saved ELSE DOMAIN saved \cup {Len(saved) + 1}
      /\ \/ o = 0 /\ saved' = saved
         \/ saved' = [i \in DOMAIN cards' |-> ToDict(cards'[i])]
      /\ dialog' = NoDialog /\ dialogs' = dialogs
  BY <1>1, LoadedFacts
<1>3. Len(cards') \in Nat /\ DOMAIN cards' = 1 .. Len(cards')
      /\ \A k \in DOMAIN cards' : cards'[k] \in CardType
  BY <1>2, LenProperties, ElementOfSeq
<1>4. contacts' \in Seq(DOMAIN cards') /\ Len(contacts') = Len(cards') /\ Distinct(contacts')
  <2>1. contacts' = [k \in DOMAIN cards' |-> k]
    <3>1. contacts' = [k \in DOMAIN contacts' |-> contacts'[k]]
      BY DEF LoadContacts, Loaded
    <3> QED BY <1>2, <3>1
  <2>2. contacts' \in [1 .. Len(cards') -> DOMAIN cards']
    BY <1>3, <2>1
  <2>3. contacts' \in Seq(DOMAIN cards')
    BY <1>3, <2>2, SeqDef
  <2>4. Len(contacts') = Len(cards')
    BY <1>3, <2>2, <2>3, LenProperties
  <2> QED BY <1>2, <2>3, <2>4 DEF Distinct
<1>5. /\ DialogHasCard'
      /\ dialog' \in [step : Steps, card : {0} \cup DOMAIN cards']
      /\ Pending(dialog', contacts') = 0
  BY <1>2 DEF DialogHasCard, NoDialog, Steps, Pending
<1>6. /\ saved' \in Seq(SavedType) /\ Len(saved') = Len(contacts')
      /\ DOMAIN saved' = DOMAIN cards'
      /\ \A k \in DOMAIN cards' : /\ saved'[k].name = cards'[k].name
                                  /\ saved'[k].telegram = cards'[k].telegram
  <2>1. CASE o = 0 /\ saved' = saved
    <3>1. Len(saved) \in Nat /\ DOMAIN saved = 1 .. Len(saved)
      BY <1>1, LenProperties
    <3>2. Len(saved) = Len(cards')
      <4>1. 1 .. Len(saved) = 1 .. Len(cards')
        BY <1>2, <1>3, <2>1, <3>1
      <4> QED BY <1>3, <3>1, <4>1, SameEnd
    <3> QED BY <1>1, <1>2, <1>4, <2>1, <3>1, <3>2
  <2>2. CASE saved' = [i \in DOMAIN cards' |-> ToDict(cards'[i])]
    <3>1. \A i \in DOMAIN cards' : ToDict(cards'[i]) \in SavedType
      BY <1>3, ToDictType
    <3>2. saved' \in [1 .. Len(cards') -> SavedType]
      BY <1>3, <2>2, <3>1
    <3>3. saved' \in Seq(SavedType)
      BY <1>3, <3>2, SeqDef
    <3>4. Len(saved') = Len(cards')
      BY <1>3, <3>2, <3>3, LenProperties
    <3> QED BY <1>3, <1>4, <2>2, <3>2, <3>3, <3>4 DEF ToDict
  <2> QED BY <1>2, <2>1, <2>2
<1>7. ContactsTyped'
  BY <1>1, <1>2, <1>4, <1>5, <1>6 DEF ContactsTyped
<1>8. FileHoldsContacts'
  BY <1>2, <1>6 DEF FileHoldsContacts
<1>9. ASSUME NEW a \in Accounts
      PROVE  /\ Cardinality(Holders(cards', contacts', a)) + 0 + 0 <= 1 + dialogs
             /\ Cardinality(FileHolders(saved', a)) + 0 <= 1 + dialogs
  <2> DEFINE H == Holders(cards', contacts', a)
             F == FileHolders(saved, a)
  <2>1. FileHolders(saved', a) = H
    BY <1>2, <1>6 DEF FileHolders, Holders
  <2>2. IsFiniteSet(F) /\ Cardinality(F) \in Nat /\ Cardinality(F) + o <= 1 + dialogs
        /\ o \in {0, 1}
    BY <1>1, PlacesFacts DEF ContactsIInv, DialogsPay
  <2>3. Cardinality(H) \in Nat
    BY <1>4, PlacesFinite DEF Holders
  <2>4. CASE o = 0
    <3>1. H = F
      BY <1>2, <2>4 DEF Holders, FileHolders
    <3> HIDE DEF H, F, o
    <3>2. Cardinality(H) <= 1 + dialogs
      BY <1>1, <2>2, <2>4, <3>1
    <3> QED BY <1>1, <2>1, <2>3, <3>2 DEF H
  <2>5. CASE o = 1
    <3>1. H \in SUBSET (F \cup {Len(saved) + 1})
      BY <1>2, <2>5 DEF Holders, FileHolders
    <3> HIDE DEF H, F, o
    <3>2. Cardinality(H) <= Cardinality(F) + 1
      BY <2>2, <3>1, OneMore
    <3>3. Cardinality(H) <= 1 + dialogs
      BY <1>1, <2>2, <2>3, <2>5, <3>2
    <3> QED BY <1>1, <2>1, <2>3, <3>3 DEF H
  <2> QED BY <2>2, <2>4, <2>5
<1>10. DialogsPay'
  BY <1>1, <1>2, <1>5, <1>9 DEF DialogsPay
<1> QED BY <1>4, <1>7, <1>5, <1>8, <1>10 DEF ContactsIInv

\* The update a bot converts is one of its updates.
LEMMA CurrentFacts ==
  ASSUME BotsIInv, NEW b \in Bots, pc[b] = "convert"
  PROVE  Current(b) \in Update
PROOF
<1>1. BotsTyped /\ BotIInv(b)
  BY DEF BotsIInv
<1>2. current[b] \in 1 .. Len(updates[b])
  BY <1>1 DEF BotIInv, InWork, MarkedWasEntered
<1> QED BY <1>1, <1>2, BotFacts DEF Current

\* Whoever is not found has no contact under the account a new one gets.
LEMMA SenderFacts ==
  ASSUME ContactsTyped, NEW p \in People
  PROVE  /\ Sender(p) \in {0} \cup DOMAIN cards
         /\ (IF Handle[p] # NoAccount THEN Handle[p] ELSE p) \in Accounts
         /\ Sender(p) = 0 =>
              Holders(cards, contacts, IF Handle[p] # NoAccount THEN Handle[p] ELSE p) = {}
PROOF
<1>1. ASSUME NEW t
      PROVE  /\ FindByTelegram(t) \in {0} \cup DOMAIN cards
             /\ FindByTelegram(t) = 0 => Holders(cards, contacts, t) = {}
  <2>1. Holders(cards, contacts, t) \in SUBSET DOMAIN contacts
        /\ FindByTelegram(t) = FirstOf(Holders(cards, contacts, t))
    BY DEF Holders, FindByTelegram
  <2> QED BY <2>1, FirstFacts
<1>2. (IF Handle[p] # NoAccount THEN Handle[p] ELSE p) \in Accounts
  BY PeopleAssumption
<1> QED BY <1>1, <1>2 DEF Sender

LEMMA ConvertedContact ==
  ASSUME ContactsIInv, BotsIInv, NEW b \in Bots, Converted(b)
  PROVE  ContactsIInv'
PROOF
<1> DEFINE p == Current(b).from
           k == Sender(p)
           account == IF Handle[p] # NoAccount THEN Handle[p] ELSE p
           c == [Card(FullName[p], account) EXCEPT !.active = {b}]
           d == [name |-> cards[k].name, telegram |-> cards[k].telegram,
                 family |-> cards[k].family, active |-> cards[k].active \cup {b}]
<1>1. ContactsTyped /\ DialogHasCard /\ dialogs \in Nat
      /\ dialog \in [step : Steps, card : {0} \cup DOMAIN cards]
  BY DEF ContactsIInv, ContactsTyped
<1>2. p \in People
  BY CurrentFacts DEF Update, Converted
<1>3. /\ k \in {0} \cup DOMAIN cards /\ account \in Accounts
      /\ k = 0 => Holders(cards, contacts, account) = {}
  BY <1>1, <1>2, SenderFacts
<1>4. CASE UNCHANGED contactVars
  <2>1. cards \in Seq(CardType)
    BY <1>1 DEF ContactsTyped
  <2> HIDE DEF p, k, account, c, d
  <2>2. DialogHasCard'
    BY <1>1, <1>4 DEF DialogHasCard, contactVars, Listed
  <2>3. Pending(dialog', contacts) + dialogs <= Pending(dialog, contacts) + dialogs'
        /\ dialogs <= dialogs'
    BY <1>1, <1>4 DEF contactVars, Pending
  <2> QED BY <1>1, <1>4, <2>1, <2>2, <2>3, ListLeftAlone DEF contactVars
<1>5. CASE k # 0 /\ cards' = [cards EXCEPT ![k].active = @ \cup {b}]
           /\ UNCHANGED <<contacts, saved, dialog, dialogs, unsaved>>
  <2>1. k \in DOMAIN cards
    BY <1>3, <1>5
  <2> HIDE DEF p, k, account, c
  <2>2. cards[k] = [name |-> cards[k].name, telegram |-> cards[k].telegram,
                    family |-> cards[k].family, active |-> cards[k].active]
        /\ d \in CardType
    BY <1>1, <2>1, CardFacts DEF CardType
  <2>3. cards' = [cards EXCEPT ![k] = d]
    <3>1. [cards[k] EXCEPT !.active = @ \cup {b}] = d
      BY <2>2
    <3> QED BY <1>5, <3>1
  <2>4. d.name = cards[k].name /\ d.telegram = cards[k].telegram
    OBVIOUS
  <2> HIDE DEF d
  <2>5. /\ cards' \in Seq(CardType) /\ DOMAIN cards' = DOMAIN cards
        /\ \A j \in DOMAIN cards : cards'[j] = IF j = k THEN d ELSE cards[j]
    BY <1>1, <2>1, <2>2, <2>3, EditedCard
  <2>6. DialogHasCard' /\ dialog' \in [step : Steps, card : {0} \cup DOMAIN cards']
    BY <1>1, <1>5, <2>5 DEF DialogHasCard, Listed
  <2>7. Pending(dialog', contacts) + dialogs <= Pending(dialog, contacts) + dialogs'
        /\ dialogs <= dialogs'
    BY <1>1, <1>5 DEF Pending
  <2> QED BY <1>1, <1>5, <2>4, <2>5, <2>6, <2>7, ListLeftAlone
<1>6. CASE k = 0 /\ AddCard(c) /\ UNCHANGED <<dialog, dialogs>>
  <2>1. c \in CardType /\ c.telegram = account
    BY <1>2, <1>3, PeopleAssumption DEF Card, CardType, Telegrams
  <2>2. Holders(cards, contacts, account) = {}
    BY <1>3, <1>6
  <2> HIDE DEF c, account, p, k, d
  <2> QED BY <1>6, <2>1, <2>2, AddedContact
<1>7. \/ UNCHANGED contactVars
      \/ k # 0 /\ cards' = [cards EXCEPT ![k].active = @ \cup {b}]
         /\ UNCHANGED <<contacts, saved, dialog, dialogs, unsaved>>
      \/ k = 0 /\ AddCard(c) /\ UNCHANGED <<dialog, dialogs>>
  BY DEF Converted, Refuse
<1> QED BY <1>4, <1>5, <1>6, <1>7

LEMMA NextContacts == ContactsIInv /\ BotsIInv /\ [Next]_vars => ContactsIInv'
PROOF
<1> SUFFICES ASSUME ContactsIInv, BotsIInv, [Next]_vars
             PROVE  ContactsIInv'
  OBVIOUS
<1>1. ASSUME UNCHANGED contactVars
      PROVE  ContactsIInv'
  BY <1>1 DEF contactVars, ContactsIInv, ContactsTyped, DialogHasCard, Listed, Distinct,
     FileHoldsContacts, DialogsPay, Pending, OwnerGone, Holders, FileHolders
<1>2. CASE UNCHANGED vars
  BY <1>1, <1>2 DEF vars
<1>3. CASE \/ \E b \in Bots : BotStep(b)
           \/ \E b \in Bots, p \in People, c \in Chats, u \in BOOLEAN : UpdateArrives(b, p, c, u)
           \/ \E b \in Bots : SendRaises(b)
           \/ \E b \in Bots, f \in BOOLEAN : Exception(b, f)
  BY <1>1, <1>3, ConvertedContact DEF BotStep, StartBot, Fetch, FetchNothing, Answered, Replied,
     UpdateArrives, SendRaises, Exception
<1>4. CASE \/ \E e \in Events, n \in Names : EventArrives(e, n)
           \/ \E e \in Events : EventStep(e) \/ EventFails(e)
           \/ \E b \in Bots, n \in Names : AgentPosts(b, n) \/ PostRaises(b, n)
           \/ StartFails \/ \E t \in {"slack", "discord"} : StartChat(t)
  BY <1>1, <1>4 DEF StartFails, StartChat, EventArrives, EventStep, EventFails, SlackTaken, DiscordTaken,
     SlackReplied, DiscordReplied, AgentPosts, PostRaises
<1>5. CASE \/ \E m \in Mails : MailArrives(m)
           \/ \E i \in 1..Cardinality(Mails) : MailDeleted(i)
           \/ MailStep \/ MailRaises
  BY <1>1, <1>5 DEF MailArrives, MailDeleted, MailStep, StartMail, Search, FetchMail, MailReplied, MailRaises
<1>6. CASE ShellDialogue
  <2>1. CASE \E n \in Names : AskContact(n)
    BY <2>1, AskedContact
  <2>2. CASE \E r \in BOOLEAN : UpdateOrRemove(r)
    <3>1. CASE UpdateOrRemove(TRUE)
      BY <3>1, RemovedContact
    <3>2. CASE UpdateOrRemove(FALSE)
      BY <3>2, AskedFamily DEF UpdateOrRemove
    <3> QED BY <2>2, <3>1, <3>2
  <2>3. CASE \E y \in BOOLEAN : AskFamily(y)
    BY <2>3, AskedFamily DEF AskFamily
  <2>4. CASE \E t \in Accounts : AskTelegram(t)
    BY <2>4, AskedTelegram
  <2>5. CASE AskEmail \/ Abort
    BY <2>5, AskedEmail, Aborted
  <2> QED BY <1>6, <2>1, <2>2, <2>3, <2>4, <2>5 DEF ShellDialogue, Dialogue
<1>7. CASE Restart
  BY <1>7, LoadedContacts DEF Restart
<1> QED BY <1>2, <1>3, <1>4, <1>5, <1>6, <1>7 DEF Next

LEMMA InitContacts == Init => ContactsIInv
PROOF
<1> SUFFICES ASSUME Init PROVE ContactsIInv
  OBVIOUS
<1> DEFINE own == Card(Owner, OwnerAccount)
<1>1. /\ cards = <<own>> /\ contacts = <<1>> /\ saved = <<ToDict(cards[1])>>
      /\ dialog = NoDialog /\ dialogs = 0
  BY DEF Init, ContactsInit
<1>2. own \in CardType /\ own.name = Owner
  BY OwnerAssumption DEF Card, CardType, Telegrams
<1> HIDE DEF own
<1>3. /\ cards \in Seq(CardType) /\ DOMAIN cards = {1} /\ cards[1] = own
      /\ contacts \in Seq({1}) /\ DOMAIN contacts = {1} /\ contacts[1] = 1 /\ Len(contacts) = 1
  BY <1>1, <1>2
<1>4. ToDict(own) \in SavedType
  BY <1>2, ToDictType
<1>5. saved \in Seq(SavedType) /\ DOMAIN saved = {1} /\ saved[1] = ToDict(own) /\ Len(saved) = 1
  BY <1>1, <1>3, <1>4
<1>6. ContactsTyped
  <2>1. dialog \in [step : Steps, card : {0} \cup DOMAIN cards]
    BY <1>1 DEF NoDialog, Steps
  <2> QED BY <1>1, <1>3, <1>5, <2>1 DEF ContactsTyped
<1>7. DialogHasCard /\ Distinct(contacts)
  BY <1>1, <1>3 DEF DialogHasCard, NoDialog, Distinct
<1>8. FileHoldsContacts
  BY <1>3, <1>5 DEF FileHoldsContacts, ToDict
<1>9. Pending(dialog, contacts) = 0 /\ OwnerGone(cards, contacts) = 0
  BY <1>1, <1>2, <1>3 DEF Pending, NoDialog, OwnerGone
<1>10. ASSUME NEW P \in SUBSET {1}
       PROVE  Cardinality(P) \in Nat /\ Cardinality(P) <= 1
  <2>1. IsFiniteSet({1}) /\ Cardinality({1}) = 1
    BY FS_Singleton
  <2>2. IsFiniteSet(P) /\ Cardinality(P) <= Cardinality({1})
    BY <2>1, FS_Subset
  <2> QED BY <2>1, <2>2, FS_CardinalityType
<1>11. ASSUME NEW a \in Accounts
       PROVE  /\ Cardinality(Holders(cards, contacts, a)) + 0 + 0 <= 1 + 0
              /\ Cardinality(FileHolders(saved, a)) + 0 <= 1 + 0
  <2> DEFINE m == Cardinality(Holders(cards, contacts, a))
             n == Cardinality(FileHolders(saved, a))
  <2>1. Holders(cards, contacts, a) \in SUBSET {1} /\ FileHolders(saved, a) \in SUBSET {1}
    BY <1>3, <1>5 DEF Holders, FileHolders
  <2>2. m \in Nat /\ n \in Nat /\ m <= 1 /\ n <= 1
    BY <1>10, <2>1
  <2> HIDE DEF m, n
  <2>3. m + 0 + 0 <= 1 + 0 /\ n + 0 <= 1 + 0
    BY <2>2
  <2> QED BY <2>3 DEF m, n
<1>12. DialogsPay
  <2>1. 0 + 0 <= 0
    OBVIOUS
  <2> QED BY <1>1, <1>9, <1>11, <2>1 DEF DialogsPay
<1> QED BY <1>6, <1>7, <1>8, <1>12 DEF ContactsIInv

\* The contacts, their file and the dialogue keep theirs, whatever is edited, removed,
\* refused or loaded again (ContactManager, the shell's handle_contact_commands).
THEOREM ContactsInvariance == Spec => []ContactsIInv
PROOF
BY InitContacts, NextContacts, BotsInvariance, PTL DEF Spec

-----------------------------------------------------------------------------
(* The start of the tunnels.                                                   *)

LoadIInv == loaded \in 0..Len(File) /\ abandoned \in BOOLEAN

\* The start goes through the file and never beyond its end.
LEMMA NextLoad == LoadIInv /\ [Next]_vars => LoadIInv'
PROOF
<1> SUFFICES ASSUME LoadIInv, [Next]_vars
             PROVE  LoadIInv'
  OBVIOUS
<1>1. ASSUME UNCHANGED loadVars
      PROVE  LoadIInv'
  BY <1>1 DEF loadVars, LoadIInv
<1>2. ASSUME NEW t, Starts(t)
      PROVE  LoadIInv'
  <2>1. Len(File) \in Nat
    BY FileAssumption, LenProperties
  <2> QED BY <1>2, <2>1 DEF Starts, Turn, LoadIInv
<1>3. CASE UNCHANGED vars
  BY <1>1, <1>3 DEF vars
<1>4. CASE \E b \in Bots : BotStep(b)
  <2>1. CASE \E b \in Bots : StartBot(b)
    BY <1>2, <2>1 DEF StartBot
  <2>2. CASE \E b \in Bots : \/ Fetch(b) \/ FetchNothing(b) \/ Converted(b) \/ Answered(b)
                              \/ Replied(b)
    BY <1>1, <2>2 DEF Fetch, FetchNothing, Converted, Answered, Replied
  <2> QED BY <1>4, <2>1, <2>2 DEF BotStep
<1>5. CASE \/ \E b \in Bots, p \in People, c \in Chats, u \in BOOLEAN : UpdateArrives(b, p, c, u)
           \/ \E b \in Bots : SendRaises(b)
           \/ \E b \in Bots, f \in BOOLEAN : Exception(b, f)
           \/ \E b \in Bots, n \in Names : AgentPosts(b, n) \/ PostRaises(b, n)
           \/ ShellDialogue
  BY <1>1, <1>5 DEF UpdateArrives, SendRaises, Exception, AgentPosts, PostRaises, ShellDialogue
<1>6. CASE \/ \E e \in Events, n \in Names : EventArrives(e, n)
           \/ \E e \in Events : EventStep(e) \/ EventFails(e)
  BY <1>1, <1>6 DEF EventArrives, EventStep, EventFails, SlackTaken, DiscordTaken,
     SlackReplied, DiscordReplied
<1>7. CASE \/ \E m \in Mails : MailArrives(m)
           \/ \E i \in 1..Cardinality(Mails) : MailDeleted(i)
           \/ Search \/ (\E n \in Names : FetchMail(n)) \/ MailReplied \/ MailRaises
  BY <1>1, <1>7 DEF MailArrives, MailDeleted, Search, FetchMail, MailReplied, MailRaises
<1>8. CASE StartMail \/ \E t \in {"slack", "discord"} : StartChat(t)
  BY <1>2, <1>8 DEF StartMail, StartChat
<1>9. CASE StartFails
  BY <1>9 DEF StartFails, LoadIInv
<1>10. CASE Restart
  <2>1. Len(File) \in Nat
    BY FileAssumption, LenProperties
  <2>2. loaded' = 0 /\ abandoned' = FALSE
    BY <1>10 DEF Restart
  <2>3. 0 \in 0..Len(File)
    BY <2>1
  <2> QED BY <2>2, <2>3 DEF LoadIInv
<1> QED BY <1>3, <1>4, <1>5, <1>6, <1>7, <1>8, <1>9, <1>10 DEF Next, MailStep

THEOREM LoadInvariance == Spec => []LoadIInv
PROOF
<1>1. Init => LoadIInv
  <2>1. Len(File) \in Nat
    BY FileAssumption, LenProperties
  <2>2. Init => loaded = 0 /\ abandoned = FALSE
    BY DEF Init
  <2>3. 0 \in 0..Len(File)
    BY <2>1
  <2> QED BY <2>2, <2>3 DEF LoadIInv
<1> QED BY <1>1, NextLoad, PTL DEF Spec

-----------------------------------------------------------------------------
(* Who can be reached.                                                         *)

HandlerType == [kind : {"none", "contact", "log"}, card : {0} \cup DOMAIN cards, alive : BOOLEAN]

ReachTyped ==
  /\ offset \in [Bots -> Nat \cup {-1}]
  /\ chatOf \in [Bots -> [Names -> Chats \cup {NoChat}]]
  /\ handler \in [Names \cup Groups -> HandlerType]
  /\ event \in [Events -> [pc : {"none", "asked", "send", "end"}, name : Names]]
  /\ seen \subseteq Mails
  /\ mailPc \in {"off", "sleep", "dead"} => found = {}

ReachIInv == ReachTyped /\ ActiveTunnelKnowsChat

\* The objects are the same, or new and of no tunnel, and the tunnels know what they
\* knew.
LEMMA ReachLeftAlone ==
  ASSUME ReachIInv, DOMAIN cards \subseteq DOMAIN cards', chatOf' = chatOf,
         \A k \in DOMAIN cards' :
           cards'[k].active # {} => /\ k \in DOMAIN cards /\ cards'[k].active = cards[k].active
                                    /\ cards'[k].name = cards[k].name,
         handler' = handler \/ handler' \in [Names \cup Groups -> HandlerType'],
         UNCHANGED event \/ event' \in [Events -> [pc : {"none", "asked", "send", "end"}, name : Names]],
         UNCHANGED offset \/ offset' \in [Bots -> Nat \cup {-1}],
         seen' \subseteq Mails,
         mailPc' \in {"off", "sleep", "dead"} => found' = {}
  PROVE  ReachIInv'
PROOF
<1>1. HandlerType \subseteq HandlerType'
  BY DEF HandlerType
<1>2. handler' \in [Names \cup Groups -> HandlerType']
  BY <1>1 DEF ReachIInv, ReachTyped
<1>3. ReachTyped'
  BY <1>2 DEF ReachIInv, ReachTyped
<1>4. ActiveTunnelKnowsChat'
  BY DEF ReachIInv, ActiveTunnelKnowsChat
<1> QED BY <1>3, <1>4 DEF ReachIInv

\* A step that leaves contacts, chats, events and mails alone.
LEMMA ReachElsewhere ==
  ASSUME ReachIInv, UNCHANGED <<cards, chatOf, event, seen, mailPc, found>>,
         handler' = handler \/ handler' \in [Names \cup Groups -> HandlerType],
         UNCHANGED offset \/ offset' \in [Bots -> Nat \cup {-1}]
  PROVE  ReachIInv'
PROOF
<1>1. HandlerType' = HandlerType
  BY DEF HandlerType
<1>2. seen' \subseteq Mails /\ (mailPc' \in {"off", "sleep", "dead"} => found' = {})
  BY DEF ReachIInv, ReachTyped
<1> QED BY <1>1, <1>2, ReachLeftAlone

LEMMA BotReach ==
  ASSUME ReachIInv, BotsIInv, NEW b \in Bots,
         \/ StartBot(b) \/ Fetch(b) \/ FetchNothing(b) \/ Answered(b) \/ Replied(b) \/ SendRaises(b)
         \/ \E f \in BOOLEAN : Exception(b, f)
         \/ \E p \in People, c \in Chats, u \in BOOLEAN : UpdateArrives(b, p, c, u)
  PROVE  ReachIInv'
PROOF
<1>1. /\ BotsTyped /\ confirmed[b] \in Nat /\ current[b] \in Nat /\ Len(updates[b]) \in Nat
      /\ offset \in [Bots -> Nat \cup {-1}]
  BY BotFacts DEF BotsIInv, ReachIInv, ReachTyped
<1>2. ASSUME NEW o \in Nat \cup {-1}, offset' = [offset EXCEPT ![b] = o]
      PROVE  offset' \in [Bots -> Nat \cup {-1}]
  BY <1>1, <1>2
<1>3. UNCHANGED <<cards, chatOf, handler, event, seen, mailPc, found>>
  BY DEF StartBot, Fetch, FetchNothing, Answered, Replied, SendRaises, Exception, UpdateArrives,
     contactVars, chatVars, mailVars
<1>4. CASE StartBot(b)
  <2>1. PICK o \in {confirmed[b] + 1, 0, -1} : offset' = [offset EXCEPT ![b] = o]
    BY <1>4 DEF StartBot
  <2>2. o \in Nat \cup {-1}
    BY <1>1, <2>1
  <2> QED BY <1>2, <1>3, <2>1, <2>2, ReachElsewhere
<1>5. CASE Fetch(b)
  <2>1. Confirmed(b) \in Nat
    BY <1>1, ConfirmedFacts DEF BotsIInv, BotIInv
  <2>2. UNCHANGED offset \/ offset' = [offset EXCEPT ![b] = Confirmed(b) + 1 + 1]
    BY <1>5 DEF Fetch
  <2>3. Confirmed(b) + 1 + 1 \in Nat
    BY <2>1
  <2> QED BY <1>2, <1>3, <2>2, <2>3, ReachElsewhere
<1>6. CASE Replied(b)
  <2>1. offset' = [offset EXCEPT ![b] = current[b] + 1] /\ current[b] + 1 \in Nat
    BY <1>1, <1>6 DEF Replied
  <2> QED BY <1>2, <1>3, <2>1, ReachElsewhere
<1>7. CASE \E f \in BOOLEAN : Exception(b, f)
  <2>1. \/ UNCHANGED offset
        \/ offset[b] # -1 /\ offset' = [offset EXCEPT ![b] = offset[b] + 1]
    BY <1>7 DEF Exception
  <2>2. offset[b] # -1 => offset[b] + 1 \in Nat
    BY <1>1
  <2> QED BY <1>2, <1>3, <2>1, <2>2, ReachElsewhere
<1>8. CASE \/ FetchNothing(b) \/ Answered(b) \/ SendRaises(b)
           \/ \E p \in People, c \in Chats, u \in BOOLEAN : UpdateArrives(b, p, c, u)
  <2>1. UNCHANGED offset
    BY <1>8 DEF FetchNothing, Answered, SendRaises, UpdateArrives
  <2> QED BY <1>3, <2>1, ReachElsewhere
<1> QED BY <1>4, <1>5, <1>6, <1>7, <1>8

\* The chat of a message is recorded under the name of its contact before the bot
\* is among the tunnels of the contact.
LEMMA ConvertedReach ==
  ASSUME ReachIInv, ContactsTyped, BotsIInv, NEW b \in Bots, Converted(b)
  PROVE  ReachIInv'
PROOF
<1> DEFINE u == Current(b)
           p == u.from
           k == Sender(p)
           account == IF Handle[p] # NoAccount THEN Handle[p] ELSE p
           c == [Card(FullName[p], account) EXCEPT !.active = {b}]
<1>1. /\ UNCHANGED <<event, seen, mailPc, found, offset>>
      /\ seen \subseteq Mails /\ (mailPc \in {"off", "sleep", "dead"} => found = {})
  BY DEF Converted, chatVars, mailVars, ReachIInv, ReachTyped
<1>2. u \in Update
  BY CurrentFacts DEF Converted
<1>3. p \in People /\ u.chat \in Chats /\ u.chat # NoChat
  BY <1>2, PeopleAssumption DEF Update, Chats
<1>4. k \in {0} \cup DOMAIN cards /\ account \in Accounts
  BY <1>3, SenderFacts
<1>5. CASE Refuse(b)
  BY <1>1, <1>5, ReachElsewhere DEF Refuse, contactVars
<1>6. ASSUME NEW j \in DOMAIN cards', DOMAIN cards \subseteq DOMAIN cards', Deliver(b, j),
             \A i \in DOMAIN cards' : cards'[i].name \in Names,
             \A i \in DOMAIN cards' :
               \A d \in cards'[i].active :
                 (i = j /\ d = b) \/ (i \in DOMAIN cards /\ cards'[i].name = cards[i].name
                                    /\ d \in cards[i].active)
      PROVE  ReachIInv'
  <2> DEFINE n == cards'[j].name
             h == Register(n, "contact", j)
  <2>1. n \in Names
    BY <1>6
  <2>2. /\ chatOf' = [chatOf EXCEPT ![b][n] = u.chat]
        /\ handler' = IF u.chat \in Groups
                      THEN [h EXCEPT ![u.chat] = [kind |-> "log", card |-> 0, alive |-> TRUE]]
                      ELSE h
    BY <1>6 DEF Deliver
  <2> HIDE DEF n, u, p, k, account, c
  <2>3. /\ chatOf \in [Bots -> [Names -> Chats \cup {NoChat}]]
        /\ handler \in [Names \cup Groups -> HandlerType]
    BY DEF ReachIInv, ReachTyped
  <2>4. chatOf' \in [Bots -> [Names -> Chats \cup {NoChat}]]
    BY <1>3, <2>1, <2>2, <2>3
  <2>5. chatOf'[b][n] = u.chat
        /\ \A d \in Bots, m \in Names : chatOf'[d][m] = chatOf[d][m] \/ chatOf'[d][m] = u.chat
    BY <2>1, <2>2, <2>3
  <2>6. handler' \in [Names \cup Groups -> HandlerType']
    <3>1. HandlerType \subseteq HandlerType'
      BY <1>6 DEF HandlerType
    <3>2. /\ [kind |-> "contact", card |-> j, alive |-> TRUE] \in HandlerType'
          /\ [kind |-> "log", card |-> 0, alive |-> TRUE] \in HandlerType'
      BY DEF HandlerType
    <3>3. h \in [Names \cup Groups -> HandlerType']
      BY <2>3, <3>1, <3>2 DEF Register
    <3> QED BY <2>2, <3>2, <3>3
  <2>7. ActiveTunnelKnowsChat'
    <3> SUFFICES ASSUME NEW i \in DOMAIN cards', NEW d \in cards'[i].active
                 PROVE  chatOf'[d][cards'[i].name] # NoChat
      BY DEF ActiveTunnelKnowsChat
    <3>1. CASE i = j /\ d = b
      BY <1>3, <2>5, <3>1 DEF n
    <3>2. CASE i \in DOMAIN cards /\ cards'[i].name = cards[i].name /\ d \in cards[i].active
      <4>1. d \in Bots
        BY <3>2, CardFacts
      <4>2. chatOf[d][cards[i].name] # NoChat
        BY <3>2 DEF ReachIInv, ActiveTunnelKnowsChat
      <4> QED BY <1>3, <1>6, <2>5, <3>2, <4>1, <4>2
    <3> QED BY <1>6, <3>1, <3>2
  <2>8. ReachTyped'
    BY <1>1, <2>4, <2>6 DEF ReachIInv, ReachTyped
  <2> QED BY <2>7, <2>8 DEF ReachIInv
<1>7. CASE k # 0 /\ cards' = [cards EXCEPT ![k].active = @ \cup {b}] /\ Deliver(b, k)
  <2>1. k \in DOMAIN cards
    BY <1>4, <1>7
  <2> HIDE DEF p, u, k, account, c
  <2>2. DOMAIN cards' = DOMAIN cards
    BY <1>7
  <2>3. \A i \in DOMAIN cards : cards[i].name \in Names
          /\ cards[i] = [name |-> cards[i].name, telegram |-> cards[i].telegram,
                         family |-> cards[i].family, active |-> cards[i].active]
    BY CardFacts
  <2>4. \A i \in DOMAIN cards : i # k => cards'[i] = cards[i]
    BY <1>7, <2>1
  <2>5. cards'[k].name = cards[k].name /\ cards'[k].active = cards[k].active \cup {b}
    <3>1. cards'[k] = [cards[k] EXCEPT !.active = cards[k].active \cup {b}]
      BY <1>7, <2>1
    <3> QED BY <2>1, <2>3, <3>1
  <2> QED BY <1>6, <1>7, <2>1, <2>2, <2>3, <2>4, <2>5
<1>8. CASE k = 0 /\ AddCard(c) /\ Deliver(b, Len(cards) + 1)
  <2>1. c \in CardType /\ c.active = {b} /\ c.name \in Names
    BY <1>3, <1>4, PeopleAssumption DEF Card, CardType, Telegrams
  <2> HIDE DEF c, p, u, k, account
  <2>2. cards' = Append(cards, c)
    BY <1>8 DEF AddCard
  <2>3. /\ DOMAIN cards' = DOMAIN cards \cup {Len(cards) + 1}
        /\ cards'[Len(cards) + 1] = c
        /\ \A j \in DOMAIN cards : cards'[j] = cards[j]
    BY <2>1, <2>2, NewCard
  <2>4. \A i \in DOMAIN cards : cards[i].name \in Names
    BY CardFacts
  <2> QED BY <1>6, <1>8, <2>1, <2>3, <2>4
<1>9. \/ Refuse(b)
      \/ k # 0 /\ cards' = [cards EXCEPT ![k].active = @ \cup {b}] /\ Deliver(b, k)
      \/ k = 0 /\ AddCard(c) /\ Deliver(b, Len(cards) + 1)
  BY DEF Converted
<1> QED BY <1>5, <1>7, <1>8, <1>9

LEMMA RegisteredHandler ==
  ASSUME ReachIInv, NEW n \in Names, NEW kind \in {"none", "contact", "log"},
         NEW k \in {0} \cup DOMAIN cards, NEW alive \in BOOLEAN
  PROVE  [handler EXCEPT ![n] = [kind |-> kind, card |-> k, alive |-> alive]]
           \in [Names \cup Groups -> HandlerType]
BY DEF ReachIInv, ReachTyped, HandlerType

LEMMA EventReach ==
  ASSUME ReachIInv, NEW e \in Events,
         \/ \E n \in Names : EventArrives(e, n)
         \/ EventStep(e) \/ EventFails(e)
  PROVE  ReachIInv'
PROOF
<1>1. /\ UNCHANGED <<cards, chatOf, offset, seen, mailPc, found>>
      /\ event \in [Events -> [pc : {"none", "asked", "send", "end"}, name : Names]]
      /\ seen \subseteq Mails /\ (mailPc \in {"off", "sleep", "dead"} => found = {})
  BY DEF EventArrives, EventStep, EventFails, SlackTaken, DiscordTaken, SlackReplied,
     DiscordReplied, contactVars, botVars, mailVars, ReachIInv, ReachTyped
<1>2. event[e].name \in Names
  BY <1>1
<1>3. handler' = handler \/ handler' \in [Names \cup Groups -> HandlerType']
  <2>1. handler' = handler \/ handler' = Register(event[e].name, "log", 0)
    BY DEF EventArrives, EventStep, EventFails, SlackTaken, DiscordTaken, SlackReplied,
       DiscordReplied
  <2>2. HandlerType' = HandlerType
    BY <1>1 DEF HandlerType
  <2>3. Register(event[e].name, "log", 0) \in [Names \cup Groups -> HandlerType]
    BY <1>2, RegisteredHandler DEF Register
  <2> QED BY <2>1, <2>2, <2>3
<1>4. event' \in [Events -> [pc : {"none", "asked", "send", "end"}, name : Names]]
  <2>1. CASE \E n \in Names : EventArrives(e, n)
    BY <1>1, <2>1 DEF EventArrives
  <2>2. CASE EventStep(e) \/ EventFails(e)
    <3>1. PICK next \in {"send", "end"} : event' = [event EXCEPT ![e].pc = next]
      BY <2>2 DEF EventStep, EventFails, SlackTaken, DiscordTaken, SlackReplied, DiscordReplied
    <3> QED BY <1>1, <3>1
  <2> QED BY <2>1, <2>2
<1> QED BY <1>1, <1>3, <1>4, ReachLeftAlone

LEMMA MailReach ==
  ASSUME ReachIInv, MailsIInv,
         \/ \E m \in Mails : MailArrives(m)
         \/ \E i \in 1..Cardinality(Mails) : MailDeleted(i)
         \/ MailStep \/ MailRaises
  PROVE  ReachIInv'
PROOF
<1>1. /\ UNCHANGED <<cards, chatOf, offset, event>>
      /\ seen \subseteq Mails /\ (mailPc \in {"off", "sleep", "dead"} => found = {})
      /\ HandlerType' = HandlerType
  BY DEF MailArrives, MailDeleted, MailStep, StartMail, Search, FetchMail, MailReplied, MailRaises,
     contactVars, botVars, chatVars, ReachIInv, ReachTyped, HandlerType
<1>2. CASE \E n \in Names : FetchMail(n)
  <2> DEFINE i == CHOOSE j \in found : \A k \in found : j <= k
  <2>1. PICK n \in Names : FetchMail(n)
    BY <1>2
  <2>2. handler' = handler \/ handler' \in [Names \cup Groups -> HandlerType']
    <3>1. handler' = handler \/ handler' = Register(n, "log", 0)
      BY <2>1 DEF FetchMail
    <3>2. Register(n, "log", 0) \in [Names \cup Groups -> HandlerType]
      BY RegisteredHandler DEF Register
    <3> QED BY <1>1, <3>1, <3>2
  <2>3. CASE found = {}
    <3>1. seen' = seen /\ found' = found
      BY <2>1, <2>3 DEF FetchMail
    <3> QED BY <1>1, <2>2, <2>3, <3>1, ReachLeftAlone
  <2>4. CASE found # {}
    <3>1. mailPc = "fetch" /\ mailPc' \in {"fetch", "send"}
          /\ (seen' = seen \/ seen' = seen \cup {box[i]})
      BY <2>1, <2>4 DEF FetchMail
    <3>2. i \in found
      BY <2>4, LeastExists DEF MailsIInv, MailsTyped
    <3> HIDE DEF i
    <3>3. box[i] \in Mails
      <4>1. i \in DOMAIN box
        BY <3>1, <3>2 DEF MailsIInv, Unseen
      <4> QED BY <4>1, ElementOfSeq, LenProperties DEF MailsIInv, MailsTyped
    <3> QED BY <1>1, <2>2, <3>1, <3>3, ReachLeftAlone
  <2> QED BY <2>3, <2>4
<1>3. CASE \/ \E m \in Mails : MailArrives(m)
           \/ \E i \in 1..Cardinality(Mails) : MailDeleted(i)
           \/ StartMail \/ Search \/ MailReplied \/ MailRaises
  <2>1. UNCHANGED <<handler, seen>> /\ (mailPc' \in {"off", "sleep", "dead"} => found' = {})
    BY <1>1, <1>3 DEF MailArrives, MailDeleted, StartMail, Search, MailReplied, MailRaises
  <2> QED BY <1>1, <2>1, ReachLeftAlone
<1> QED BY <1>2, <1>3 DEF MailStep

LEMMA PostReach ==
  ASSUME ReachIInv, ContactsTyped, NEW b \in Bots, NEW n \in Names,
         AgentPosts(b, n) \/ PostRaises(b, n)
  PROVE  ReachIInv'
PROOF
<1> DEFINE h == HandlerOf(n)
<1>1. UNCHANGED <<cards, chatOf, event, seen, mailPc, found, offset>>
  BY DEF AgentPosts, PostRaises, contactVars, chatVars, mailVars, botVars
<1>2. FindByName(n) \in {0} \cup DOMAIN cards
  BY FirstFacts DEF FindByName
<1>3. h \in HandlerType
  BY <1>2 DEF HandlerOf, HandlerType, ReachIInv, ReachTyped
<1>4. PICK alive \in BOOLEAN : handler' = [handler EXCEPT ![n] = [h EXCEPT !.alive = alive]]
  <2>1. h.alive \in BOOLEAN
    BY <1>3 DEF HandlerType
  <2>2. CASE AgentPosts(b, n)
    <3> DEFINE raises == h.kind = "contact" /\ b \notin cards[h.card].active
    <3>1. handler' = [handler EXCEPT ![n] = [h EXCEPT !.alive = h.alive /\ ~raises]]
      BY <2>2 DEF AgentPosts
    <3>2. (h.alive /\ ~raises) \in BOOLEAN
      OBVIOUS
    <3> QED BY <3>1, <3>2
  <2>3. CASE PostRaises(b, n)
    BY <2>3 DEF PostRaises
  <2> QED BY <2>2, <2>3
<1>5. [h EXCEPT !.alive = alive] \in HandlerType
  BY <1>3 DEF HandlerType
<1>6. handler' \in [Names \cup Groups -> HandlerType]
  BY <1>4, <1>5 DEF ReachIInv, ReachTyped
<1> QED BY <1>1, <1>6, ReachElsewhere

\* A dialogue makes objects of no tunnel, and takes no name and no tunnel away.
LEMMA DialogueReach ==
  ASSUME ReachIInv, ContactsTyped, DialogHasCard, ShellDialogue
  PROVE  ReachIInv'
PROOF
<1>1. /\ UNCHANGED <<chatOf, handler, event, seen, mailPc, found, offset>>
      /\ seen \subseteq Mails /\ (mailPc \in {"off", "sleep", "dead"} => found = {})
  BY DEF ShellDialogue, botVars, chatVars, mailVars, ReachIInv, ReachTyped
<1>2. ASSUME DOMAIN cards \subseteq DOMAIN cards',
             \A k \in DOMAIN cards' :
               cards'[k].active # {} => /\ k \in DOMAIN cards /\ cards'[k].active = cards[k].active
                                        /\ cards'[k].name = cards[k].name
      PROVE  ReachIInv'
  BY <1>1, <1>2, ReachLeftAlone
<1>3. CASE cards' = cards
  BY <1>2, <1>3
<1>4. CASE \E n \in Names : cards' = Append(cards, Card(n, NoAccount))
  <2>1. PICK n \in Names : cards' = Append(cards, Card(n, NoAccount))
    BY <1>4
  <2> DEFINE c == Card(n, NoAccount)
  <2>2. c \in CardType /\ c.active = {}
    BY DEF Card, CardType, Telegrams
  <2> HIDE DEF c
  <2>3. /\ DOMAIN cards' = DOMAIN cards \cup {Len(cards) + 1}
        /\ cards'[Len(cards) + 1] = c
        /\ \A j \in DOMAIN cards : cards'[j] = cards[j]
    BY <2>1, <2>2, NewCard DEF c
  <2> QED BY <1>2, <2>2, <2>3
<1>5. CASE dialog.step # "none" /\ \E x : \/ cards' = [cards EXCEPT ![dialog.card].family = x]
                                         \/ cards' = [cards EXCEPT ![dialog.card].telegram = x]
  <2> DEFINE k == dialog.card
  <2>1. k \in DOMAIN cards
    BY <1>5 DEF DialogHasCard
  <2>2. cards[k] = [name |-> cards[k].name, telegram |-> cards[k].telegram,
                    family |-> cards[k].family, active |-> cards[k].active]
    BY <2>1, CardFacts
  <2>3. PICK x : \/ cards' = [cards EXCEPT ![k].family = x]
                 \/ cards' = [cards EXCEPT ![k].telegram = x]
    BY <1>5
  <2> HIDE DEF k
  <2>4. DOMAIN cards' = DOMAIN cards /\ \A j \in DOMAIN cards : j # k => cards'[j] = cards[j]
    BY <2>1, <2>3
  <2>5. cards'[k] = [cards[k] EXCEPT !.family = x] \/ cards'[k] = [cards[k] EXCEPT !.telegram = x]
    BY <2>1, <2>3
  <2>6. cards'[k].name = cards[k].name /\ cards'[k].active = cards[k].active
    BY <2>2, <2>5
  <2> QED BY <1>2, <2>1, <2>4, <2>6
<1>6. \/ cards' = cards
      \/ \E n \in Names : cards' = Append(cards, Card(n, NoAccount))
      \/ dialog.step # "none" /\ \E x : \/ cards' = [cards EXCEPT ![dialog.card].family = x]
                                         \/ cards' = [cards EXCEPT ![dialog.card].telegram = x]
  <2>1. Dialogue
    BY DEF ShellDialogue
  <2>2. CASE \E n \in Names : AskContact(n)
    BY <2>2 DEF AskContact
  <2>3. CASE \E r \in BOOLEAN : UpdateOrRemove(r)
    BY <2>3 DEF UpdateOrRemove
  <2>4. CASE \E y \in BOOLEAN : AskFamily(y)
    BY <2>4 DEF AskFamily
  <2>5. CASE \E t \in Accounts : AskTelegram(t)
    BY <2>5 DEF AskTelegram
  <2>6. CASE AskEmail \/ Abort
    BY <2>6 DEF AskEmail, Abort
  <2> QED BY <2>1, <2>2, <2>3, <2>4, <2>5, <2>6 DEF Dialogue
<1> QED BY <1>3, <1>4, <1>5, <1>6

LEMMA RestartReach ==
  ASSUME ReachIInv, ContactsTyped, FileHoldsContacts, Restart
  PROVE  ReachIInv'
PROOF
<1>1. \A k \in DOMAIN cards' : cards'[k].active = {}
  BY LoadedFacts DEF Restart
<1>2. ActiveTunnelKnowsChat'
  BY <1>1 DEF ActiveTunnelKnowsChat
<1>3. /\ offset' = [b \in Bots |-> 0]
      /\ chatOf' = [b \in Bots |-> [n \in Names |-> NoChat]]
      /\ handler' = [n \in Names \cup Groups |-> NoHandler]
      /\ event' = [e \in Events |-> IF event[e].pc = "none" THEN event[e]
                                    ELSE [event[e] EXCEPT !.pc = "end"]]
      /\ mailPc' = "off" /\ found' = {} /\ seen' = seen
  BY DEF Restart
<1>4. event' \in [Events -> [pc : {"none", "asked", "send", "end"}, name : Names]]
  BY <1>3 DEF ReachIInv, ReachTyped
<1>5. NoHandler \in HandlerType'
  BY DEF NoHandler, HandlerType
<1>6. ReachTyped'
  BY <1>3, <1>4, <1>5 DEF ReachIInv, ReachTyped
<1> QED BY <1>2, <1>6 DEF ReachIInv

LEMMA NextReach == ReachIInv /\ ContactsIInv /\ BotsIInv /\ MailsIInv /\ [Next]_vars => ReachIInv'
PROOF
<1> SUFFICES ASSUME ReachIInv, ContactsIInv, BotsIInv, MailsIInv, [Next]_vars
             PROVE  ReachIInv'
  OBVIOUS
<1>1. ContactsTyped /\ DialogHasCard /\ FileHoldsContacts
  BY DEF ContactsIInv
<1>2. CASE UNCHANGED vars
  BY <1>2, ReachElsewhere DEF vars, contactVars, botVars, chatVars, mailVars
<1>3. CASE \/ \E b \in Bots : BotStep(b)
           \/ \E b \in Bots, p \in People, c \in Chats, u \in BOOLEAN : UpdateArrives(b, p, c, u)
           \/ \E b \in Bots : SendRaises(b)
           \/ \E b \in Bots, f \in BOOLEAN : Exception(b, f)
  BY <1>1, <1>3, BotReach, ConvertedReach DEF BotStep
<1>4. CASE \/ \E e \in Events, n \in Names : EventArrives(e, n)
           \/ \E e \in Events : EventStep(e) \/ EventFails(e)
  BY <1>4, EventReach
<1>5. CASE \/ \E m \in Mails : MailArrives(m)
           \/ \E i \in 1..Cardinality(Mails) : MailDeleted(i)
           \/ MailStep \/ MailRaises
  BY <1>5, MailReach
<1>6. CASE \E b \in Bots, n \in Names : AgentPosts(b, n) \/ PostRaises(b, n)
  BY <1>1, <1>6, PostReach
<1>7. CASE ShellDialogue
  BY <1>1, <1>7, DialogueReach
<1>8. CASE Restart
  BY <1>1, <1>8, RestartReach
<1>9. CASE StartFails \/ \E t \in {"slack", "discord"} : StartChat(t)
  BY <1>9, ReachElsewhere DEF StartFails, StartChat, contactVars, botVars, chatVars, mailVars
<1> QED BY <1>2, <1>3, <1>4, <1>5, <1>6, <1>7, <1>8, <1>9 DEF Next

LEMMA InitReach == Init => ReachIInv
PROOF
<1> SUFFICES ASSUME Init PROVE ReachIInv
  OBVIOUS
<1>1. cards = <<Card(Owner, OwnerAccount)>>
  BY DEF Init, ContactsInit
<1>2. DOMAIN cards = {1} /\ cards[1].active = {}
  BY <1>1 DEF Card
<1>3. ActiveTunnelKnowsChat
  BY <1>2 DEF ActiveTunnelKnowsChat
<1>4. ReachTyped
  BY OwnerAssumption DEF Init, ReachTyped, HandlerType, NoHandler
<1> QED BY <1>3, <1>4 DEF ReachIInv

THEOREM ReachInvariance == Spec => []ReachIInv
PROOF
BY InitReach, NextReach, ContactsInvariance, BotsInvariance, MailsInvariance, PTL DEF Spec

\* The tunnels, the list of contacts and its file agree on who somebody is and where
\* to reach him, whatever the dialogues of the shell do in the meantime
\* (ContactManager, TelegramTunnel.on_message, the shell's contact commands).
THEOREM TunnelsAgree == Spec => []ContactsAgree
PROOF
<1>1. ContactsIInv => OneContactPerAccount /\ FileHoldsContacts
  <2> SUFFICES ASSUME ContactsIInv, NEW a \in Accounts
               PROVE  Cardinality(Holders(cards, contacts, a)) <= 1 + dialogs
    BY DEF ContactsIInv, OneContactPerAccount, Holders
  <2> DEFINE m == Cardinality(Holders(cards, contacts, a))
             p == Pending(dialog, contacts)
             o == OwnerGone(cards, contacts)
  <2>1. m \in Nat /\ p \in {0, 1} /\ o \in {0, 1} /\ dialogs \in Nat
    BY PlacesFacts DEF ContactsIInv, ContactsTyped
  <2>2. m + p + o <= 1 + dialogs
    BY DEF ContactsIInv, DialogsPay
  <2> HIDE DEF m, p, o
  <2>3. m <= 1 + dialogs
    BY <2>1, <2>2
  <2> QED BY <2>3 DEF m
<1>2. ContactsIInv /\ BotsIInv /\ MailsIInv /\ LoadIInv /\ ReachIInv => TypeOK
  <2> SUFFICES ASSUME ContactsIInv, BotsIInv, MailsIInv, LoadIInv, ReachIInv PROVE TypeOK
    OBVIOUS
  <2>1. \A k \in DOMAIN cards : cards[k] \in CardType
    BY CardFacts DEF ContactsIInv
  <2>2. \A i \in DOMAIN contacts : contacts[i] \in DOMAIN cards
    BY CardFacts DEF ContactsIInv
  <2>3. dialog.card \in {0} \cup DOMAIN cards
    BY DEF ContactsIInv, ContactsTyped
  <2>4. found \subseteq DOMAIN box
    BY DEF MailsIInv, MailsTyped, Unseen, ReachIInv, ReachTyped
  <2> QED BY <2>1, <2>2, <2>3, <2>4
      DEF TypeOK, CardType, Telegrams, BotsIInv, BotsTyped, Pcs, ReachIInv, ReachTyped,
          HandlerType, MailsIInv, MailsTyped, LoadIInv
<1>3. ReachIInv => ActiveTunnelKnowsChat
  BY DEF ReachIInv
<1>4. ContactsIInv /\ BotsIInv /\ MailsIInv /\ LoadIInv /\ ReachIInv => ContactsAgree
  BY <1>1, <1>2, <1>3 DEF ContactsAgree
<1> QED BY <1>4, ContactsInvariance, BotsInvariance, MailsInvariance, LoadInvariance,
        ReachInvariance, PTL

=============================================================================
