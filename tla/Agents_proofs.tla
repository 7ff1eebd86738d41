--------------------------- MODULE Agents_proofs ---------------------------
(***************************************************************************)
(* Proofs about what agents work with: the workflows that carry their      *)
(* messages (Workflow), the store of their tasks (TaskStore) and the       *)
(* timers that go through it (AgentLoop).                                  *)
(*                                                                         *)
(* Workflow comes first: where a message is routed, by the longest paths   *)
(* of its filters; the roles it may be asked of; and the counts of what it *)
(* uses up, of which the timers are the hard one.  Then the store on its   *)
(* own, for any tasks, titles, todos and calls; then the timers: they      *)
(* leave the store as they found it, whatever they do, so that all that    *)
(* holds of it holds with them at work, and their energy is bounded from   *)
(* below.                                                                  *)
(***************************************************************************)
EXTENDS AgentLoop, Workflow, FiniteSetTheorems, SequenceTheorems, WellFoundedInduction,
        TLAPS

(***************************************************************************)
(* Workflow.                                                               *)
(***************************************************************************)

\* Naturals have a least one.
LEMMA LeastExists ==
  ASSUME NEW S \in SUBSET Nat, S # {}
  PROVE  \E j \in S : \A k \in S : j <= k
PROOF
<1> DEFINE R == {ss \in Nat \X Nat : ss[1] < ss[2]}
<1>1. IsWellFoundedOn(R, Nat)
  BY NatLessThanWellFounded DEF OpToRel
<1> HIDE DEF R
<1>2. PICK x \in S : \A y \in S : ~ (<<y, x>> \in R)
  BY <1>1, WFMin
<1>3. ASSUME NEW y \in S
      PROVE  x <= y
  <2>1. x \in Nat /\ y \in Nat /\ ~ (<<y, x>> \in R)
    BY <1>2
  <2>2. ~ (y < x)
    BY <2>1 DEF R
  <2> QED BY <2>1, <2>2
<1> QED BY <1>2, <1>3

\* What holds at 0 and goes on from each number to the next holds up to N.
LEMMA UpTo ==
  ASSUME NEW N \in Nat, NEW S, 0 \in S,
         \A k \in 0 .. N - 1 : k \in S => k + 1 \in S
  PROVE  \A k \in 0 .. N : k \in S
PROOF
<1> SUFFICES ASSUME (0 .. N) \ S # {} PROVE FALSE
  OBVIOUS
<1>1. PICK j \in (0 .. N) \ S : \A k \in (0 .. N) \ S : j <= k
  <2>1. (0 .. N) \ S \in SUBSET Nat
    OBVIOUS
  <2> QED BY <2>1, LeastExists
<1>2. j # 0 /\ j - 1 \in 0 .. N - 1 /\ j - 1 + 1 = j
  BY <1>1
<1>3. j - 1 \in S
  BY <1>1, <1>2
<1> QED BY <1>1, <1>2, <1>3


\* In a finite set some element has the highest value.
LEMMA HighestExists ==
  ASSUME NEW S, IsFiniteSet(S), S # {}, NEW f, \A x \in S : f[x] \in Nat
  PROVE  \E x \in S : \A y \in S : f[y] <= f[x]
PROOF
<1> DEFINE T(x) == {y \in S : f[x] <= f[y]}
           C == {Cardinality(T(x)) : x \in S}
<1>1. \A x \in S : IsFiniteSet(T(x)) /\ Cardinality(T(x)) \in Nat
  BY FS_Subset, FS_CardinalityType
<1>2. PICK x \in S : \A y \in S : Cardinality(T(x)) <= Cardinality(T(y))
  <2>1. C \in SUBSET Nat /\ C # {}
    BY <1>1
  <2>2. PICK j \in C : \A k \in C : j <= k
    <3> HIDE DEF C
    <3> QED BY <2>1, LeastExists
  <2> QED BY <2>2
<1>3. ASSUME NEW y \in S, ~ (f[y] <= f[x])
      PROVE  FALSE
  <2>1. T(y) \in SUBSET T(x) /\ x \in T(x) /\ x \notin T(y)
    BY <1>3
  <2>2. IsFiniteSet(T(x)) /\ Cardinality(T(x)) \in Nat /\ Cardinality(T(y)) \in Nat
        /\ Cardinality(T(x)) <= Cardinality(T(y))
    BY <1>1, <1>2
  <2> HIDE DEF T
  <2>3. Cardinality(T(y)) <= Cardinality(T(x)) /\ (Cardinality(T(x)) = Cardinality(T(y)) => T(x) = T(y))
    BY <2>1, <2>2, FS_Subset
  <2> QED BY <2>1, <2>2, <2>3
<1> QED BY <1>3

-----------------------------------------------------------------------------
(* Addresses.                                                               *)

\* The constants.
LEMMA ConfigFacts ==
  ASSUME NEW c \in DOMAIN Config
  PROVE  /\ << >> \in DOMAIN Config[c]
         /\ DOMAIN Config[c] \subseteq Seq(STRING) /\ IsFiniteSet(DOMAIN Config[c])
         /\ IsFiniteSet(Slots(c)) /\ Nothing \notin Slots(c)
         /\ \A s \in Slots(c) : AgentOf(c, s) \in Names
         /\ \A p \in DOMAIN Config[c] : Len(p) \in Nat
PROOF
<1>1. DOMAIN Config[c] \subseteq Seq(STRING)
  BY WorkflowAssumption
<1>2. \A p \in DOMAIN Config[c] : Len(p) \in Nat
  BY <1>1
<1> QED BY <1>2, WorkflowAssumption

\* The roles of config c are those of its sub workflows.
LEMMA SlotFacts ==
  ASSUME NEW c, NEW p \in DOMAIN Config[c], NEW k
  PROVE  <<p, k>> \in Slots(c) <=> k \in DOMAIN Config[c][p].roles
PROOF
<1>1. Slots(c) = UNION {{q} \X DOMAIN Config[c][q].roles : q \in DOMAIN Config[c]}
  BY DEF Slots
<1>2. k \in DOMAIN Config[c][p].roles => <<p, k>> \in Slots(c)
  BY <1>1
<1>3. ASSUME <<p, k>> \in Slots(c)
      PROVE  k \in DOMAIN Config[c][p].roles
  <2>1. PICK q \in DOMAIN Config[c] : <<p, k>> \in {q} \X DOMAIN Config[c][q].roles
    BY <1>1, <1>3
  <2> QED BY <2>1
<1> QED BY <1>2, <1>3

\* How far a message with keys gets at path, when f says how far at the sub workflow.
RouteStep(c, keys, f, path) ==
  IF path \o Front(keys) \notin DOMAIN Config[c] THEN Nothing
  ELSE IF Last(keys) \in DOMAIN Config[c][path \o Front(keys)].roles
       THEN <<path \o Front(keys), Last(keys)>>
  ELSE IF path \o keys \in DOMAIN Config[c] THEN f[path \o keys]
  ELSE Nothing

\* f has the answers for paths of at least n keys.
RouteOf(c, keys, n, f) ==
  /\ f = [p \in {q \in DOMAIN Config[c] : n <= Len(q)} |-> f[p]]
  /\ \A p \in DOMAIN Config[c] : n <= Len(p) => f[p] = RouteStep(c, keys, f, p)

\* The keys without the last are shorter, and so is a path than its extensions.
LEMMA FrontLast ==
  ASSUME NEW keys \in Seq(STRING), keys # << >>
  PROVE  /\ Front(keys) \in Seq(STRING) /\ << >> \o Front(keys) = Front(keys)
         /\ \A p \in Seq(STRING) : p \o keys \in Seq(STRING) /\ Len(p) < Len(p \o keys)
PROOF
<1>1. Len(keys) \in Nat \ {0}
  BY EmptySeq
<1>2. Front(keys) \in Seq(STRING)
  <2>1. \A i \in 1 .. Len(keys) - 1 : keys[i] \in STRING
    BY <1>1, ElementOfSeq
  <2> QED BY <1>1, <2>1 DEF Front
<1>3. << >> \o Front(keys) = Front(keys)
  BY <1>2, ConcatEmptySeq
<1>4. ASSUME NEW p \in Seq(STRING)
      PROVE  p \o keys \in Seq(STRING) /\ Len(p) < Len(p \o keys)
  BY <1>1
<1> QED BY <1>2, <1>3, <1>4

\* The function Routed chooses exists: by induction, from the longest paths down.
LEMMA RouteExists ==
  ASSUME NEW c \in DOMAIN Config, NEW keys \in Seq(STRING), keys # << >>
  PROVE  \E f : RouteOf(c, keys, 0, f)
PROOF
<1> DEFINE len == [p \in DOMAIN Config[c] |-> Len(p)]
<1>1. PICK N \in Nat : \A p \in DOMAIN Config[c] : Len(p) < N
  <2>1. PICK x \in DOMAIN Config[c] : \A y \in DOMAIN Config[c] : len[y] <= len[x]
    <3>1. IsFiniteSet(DOMAIN Config[c]) /\ DOMAIN Config[c] # {} /\ \A p \in DOMAIN Config[c] : len[p] \in Nat
      BY ConfigFacts
    <3> HIDE DEF len
    <3> QED BY <3>1, HighestExists
  <2>2. Len(x) + 1 \in Nat /\ \A p \in DOMAIN Config[c] : Len(p) < Len(x) + 1
    BY <2>1, ConfigFacts
  <2> QED BY <2>2
<1> DEFINE S == {k \in 0 .. N : \E f : RouteOf(c, keys, N - k, f)}
<1>2. 0 \in S
  <2>1. {q \in DOMAIN Config[c] : N <= Len(q)} = {}
    BY <1>1, ConfigFacts
  <2> DEFINE f == [p \in {} |-> Nothing]
  <2>2. f = [p \in {q \in DOMAIN Config[c] : N <= Len(q)} |-> f[p]]
    BY <2>1
  <2>3. RouteOf(c, keys, N, f)
    BY <1>1, <2>1, <2>2, ConfigFacts DEF RouteOf
  <2>4. N - 0 = N /\ 0 \in 0 .. N
    OBVIOUS
  <2> QED BY <2>3, <2>4
<1>3. ASSUME NEW k \in 0 .. N - 1, k \in S
      PROVE  k + 1 \in S
  <2>1. PICK f : RouteOf(c, keys, N - k, f)
    BY <1>3
  <2> DEFINE D == {q \in DOMAIN Config[c] : N - (k + 1) <= Len(q)}
             g == [p \in D |-> RouteStep(c, keys, f, p)]
  <2>2. ASSUME NEW p \in D
        PROVE  g[p] = RouteStep(c, keys, g, p)
    <3>1. CASE p \o keys \in DOMAIN Config[c]
      <4>1. p \in Seq(STRING) /\ p \o keys \in DOMAIN Config[c] /\ Len(p \o keys) \in Nat /\ Len(p) \in Nat
        BY <3>1, ConfigFacts
      <4>2. Len(p) < Len(p \o keys)
        BY <4>1, FrontLast
      <4>3. N - k <= Len(p \o keys) /\ N - (k + 1) <= Len(p \o keys)
        BY <4>1, <4>2
      <4>4. g[p \o keys] = f[p \o keys]
        BY <2>1, <4>1, <4>3 DEF RouteOf
      <4> HIDE DEF g
      <4>5. RouteStep(c, keys, g, p) = RouteStep(c, keys, f, p)
        BY <4>4 DEF RouteStep
      <4> QED BY <4>5 DEF g
    <3>2. CASE p \o keys \notin DOMAIN Config[c]
      <4> HIDE DEF g
      <4>1. RouteStep(c, keys, g, p) = RouteStep(c, keys, f, p)
        BY <3>2 DEF RouteStep
      <4> QED BY <4>1 DEF g
    <3> QED BY <3>1, <3>2
  <2>3. g = [p \in D |-> g[p]]
    OBVIOUS
  <2>4. RouteOf(c, keys, N - (k + 1), g)
    <3> HIDE DEF g
    <3> QED BY <2>2, <2>3 DEF RouteOf
  <2> QED BY <2>4
<1>4. N \in S
  <2>1. \A k \in 0 .. N - 1 : k \in S => k + 1 \in S
    BY <1>3
  <2>2. N \in 0 .. N
    OBVIOUS
  <2> HIDE DEF S
  <2> QED BY <1>2, <2>1, <2>2, UpTo
<1>5. N - N = 0
  OBVIOUS
<1> QED BY <1>4, <1>5

\* A message is handed to a role of the workflow, or nowhere, and to the role its
\* keys name if there is one.
LEMMA RoutedFacts ==
  ASSUME NEW c \in DOMAIN Config, NEW keys \in Seq(STRING), keys # << >>
  PROVE  /\ Routed(c, keys) \in Slots(c) \cup {Nothing}
         /\ <<Front(keys), Last(keys)>> \in Slots(c) => Routed(c, keys) = <<Front(keys), Last(keys)>>
PROOF
<1> DEFINE Eq(f) == f = [path \in DOMAIN Config[c] |->
                          IF path \o Front(keys) \notin DOMAIN Config[c] THEN Nothing
                          ELSE IF Last(keys) \in DOMAIN Config[c][path \o Front(keys)].roles
                               THEN <<path \o Front(keys), Last(keys)>>
                          ELSE IF path \o keys \in DOMAIN Config[c] THEN f[path \o keys]
                          ELSE Nothing]
           r == CHOOSE f : Eq(f)
<1>1. Eq(r)
  <2>1. PICK f : RouteOf(c, keys, 0, f)
    BY RouteExists
  <2>2. {q \in DOMAIN Config[c] : 0 <= Len(q)} = DOMAIN Config[c]
    <3>1. \A q \in DOMAIN Config[c] : 0 <= Len(q)
      BY ConfigFacts
    <3> QED BY <3>1
  <2>3. f = [p \in DOMAIN Config[c] |-> RouteStep(c, keys, f, p)]
    BY <2>1, <2>2, ConfigFacts DEF RouteOf
  <2>4. Eq(f)
    BY <2>3 DEF RouteStep
  <2> QED BY <2>4
<1>2. Routed(c, keys) = r[<< >>]
  BY DEF Routed
<1> HIDE DEF r
<1>3. \A p \in DOMAIN Config[c] : r[p] = RouteStep(c, keys, r, p)
  BY <1>1 DEF RouteStep
<1> HIDE DEF Eq
<1> DEFINE Bad == {p \in DOMAIN Config[c] : r[p] \notin Slots(c) \cup {Nothing}}
           len == [p \in DOMAIN Config[c] |-> Len(p)]
<1>4. Bad = {}
  <2> SUFFICES ASSUME Bad # {} PROVE FALSE
    OBVIOUS
  <2>1. PICK x \in Bad : \A y \in Bad : len[y] <= len[x]
    <3>1. IsFiniteSet(Bad) /\ \A p \in Bad : len[p] \in Nat
      BY ConfigFacts, FS_Subset
    <3> HIDE DEF Bad, len
    <3> QED BY <3>1, HighestExists
  <2>2. x \o Front(keys) \in DOMAIN Config[c] /\ Last(keys) \notin DOMAIN Config[c][x \o Front(keys)].roles
        /\ x \o keys \in DOMAIN Config[c] /\ r[x] = r[x \o keys]
    <3>1. x \in DOMAIN Config[c] /\ r[x] \notin Slots(c) /\ r[x] # Nothing
      OBVIOUS
    <3>2. r[x] = RouteStep(c, keys, r, x)
      BY <1>3, <3>1
    <3>3. x \o Front(keys) \in DOMAIN Config[c]
      BY <3>1, <3>2 DEF RouteStep
    <3>4. Last(keys) \notin DOMAIN Config[c][x \o Front(keys)].roles
      BY <3>1, <3>2, <3>3, SlotFacts DEF RouteStep
    <3> QED BY <3>1, <3>2, <3>3, <3>4 DEF RouteStep
  <2>3. Len(x) < Len(x \o keys) /\ Len(x) \in Nat /\ Len(x \o keys) \in Nat
    BY <2>2, ConfigFacts, FrontLast
  <2>4. x \o keys \in Bad /\ x \in Bad
    BY <2>2
  <2>5. len[x \o keys] = Len(x \o keys) /\ len[x] = Len(x)
    BY <2>2, <2>4
  <2>6. len[x \o keys] <= len[x]
    BY <2>1, <2>4
  <2> HIDE DEF len, Bad
  <2> QED BY <2>3, <2>5, <2>6
<1>5. << >> \in DOMAIN Config[c] /\ << >> \o Front(keys) = Front(keys)
  BY ConfigFacts, FrontLast
<1>6. ASSUME <<Front(keys), Last(keys)>> \in Slots(c)
      PROVE  r[<< >>] = <<Front(keys), Last(keys)>>
  <2>1. Front(keys) \in DOMAIN Config[c]
    BY <1>6 DEF Slots
  <2>2. Last(keys) \in DOMAIN Config[c][Front(keys)].roles
    BY <1>6, <2>1, SlotFacts
  <2> QED BY <1>3, <1>5, <2>1, <2>2 DEF RouteStep
<1> QED BY <1>2, <1>4, <1>5, <1>6


-----------------------------------------------------------------------------
(* The inductive invariant.                                                 *)

Task == [msg : Msgs, call : Nat, model : {"name", "number", "none"}]

WorkflowTyped ==
  /\ WorkflowTypeOK
  /\ DOMAIN pkgs = DOMAIN Packages
  /\ \A e \in Envs, n \in Names :
       Package("workflows", e, n) \in {"none", "broken"} \cup DOMAIN Config
  /\ DOMAIN mail = Msgs /\ DOMAIN load = Msgs /\ DOMAIN role = Msgs /\ DOMAIN reply = Msgs
  /\ openai \in BOOLEAN
  /\ tasks \in Seq(Task) /\ running \subseteq Task

\* Before a lookup has ended nothing is registered for its message, and nothing has
\* been done for it before a worker takes it.
LooksUp(m) == at[m] \in {"idle", "agent", "workflow", "roles", "contact"}

LookupsAreNew ==
  \A m \in Msgs :
    /\ at[m] # "idle" => mail[m] \in Mails[m]
    /\ LooksUp(m) => serves[m] = Nothing /\ \A n \in Names : handler[n] # m
    /\ LooksUp(m) \/ at[m] = "queued" => role[m] = Nothing /\ calls[m] = 0

\* What a load has still to get is of its config.
LoadsAreOfConfigs ==
  \A m \in Msgs : at[m] = "roles" =>
    /\ load[m].config \in DOMAIN Config
    /\ load[m] = [config |-> load[m].config, left |-> load[m].left]
    /\ load[m].left \subseteq Slots(load[m].config)

\* A name is served by the lookup of a message that was sent to it.
HandlersServe ==
  \A n \in Names : handler[n] # Nothing => serves[handler[n]] # Nothing /\ Name(handler[n]) = n

\* A message is in one place of one queue, of a handler that serves.
QueuedOnce ==
  \A h \in Msgs : \A i \in DOMAIN queue[h] :
    /\ at[queue[h][i]] = "queued" /\ serves[h] # Nothing
    /\ \A g \in Msgs : \A j \in DOMAIN queue[g] : queue[h][i] = queue[g][j] => g = h /\ j = i

\* The worker of one handler waits for the answer to a message.
AskedByOne ==
  /\ \A m \in Msgs : at[m] = "asking" => \E h \in Msgs : worker[h] = m
  /\ \A h \in Msgs : worker[h] \in Msgs =>
       /\ at[worker[h]] = "asking" /\ serves[h] # Nothing
       /\ \A g \in Msgs : worker[g] = worker[h] => g = h

\* Role s of workflow h processes m.
Processes(h, m, s) ==
  /\ s \in Slots(serves[h].config)
  /\ Addressed(serves[h].config, mail[m].target) \in Slots(serves[h].config) =>
       s = Addressed(serves[h].config, mail[m].target)

RolesAreRight ==
  \A m \in Msgs : role[m] # Nothing =>
    \E h \in Workflows :
      /\ Processes(h, m, role[m])
      /\ at[m] = "asking" => worker[h] = m
      /\ reply[m] # Nothing /\ at[m] \in EndSteps => reply[m] = RoleId(serves[h].config, role[m])

NoReplyYet == \A m \in Msgs : at[m] \notin EndSteps => reply[m] = Nothing

\* The messages a role asks for whose agent has a limit, which is then the model.
NumberAskers ==
  {m \in Msgs :
     /\ role[m] # Nothing
     /\ \E h \in Workflows : /\ role[m] \in Slots(serves[h].config)
                             /\ AgentOf(serves[h].config, role[m]) \notin Limitless}

NumbersAreRoles ==
  /\ \A i \in DOMAIN tasks : tasks[i].model = "number" => tasks[i].msg \in NumberAskers
  /\ kernel = "dead" => openai /\ NumberAskers # {}

WorkflowIInv ==
  /\ WorkflowTyped /\ LookupsAreNew /\ LoadsAreOfConfigs /\ HandlersServe /\ QueuedOnce
  /\ AskedByOne /\ RolesAreRight /\ NoReplyYet /\ NumbersAreRoles
  /\ ServedAreManned /\ FunctionsAreBounded /\ TimersAreAccounted


-----------------------------------------------------------------------------
(* Counting.                                                                *)

\* Pairs are of finitely many kinds when their first parts are.
LEMMA ImageFinite ==
  ASSUME NEW M, IsFiniteSet(M), NEW F
  PROVE  IsFiniteSet({{x} \X F[x] : x \in M})
PROOF
<1> DEFINE T == {{x} \X F[x] : x \in M}
           f == [x \in M |-> {x} \X F[x]]
<1>1. f \in Surjection(M, T)
  BY DEF Surjection
<1> QED BY <1>1, FS_Surjection

\* Everything the sets F[x] of the members of M hold, each with its member.
Pairs(M, F) == UNION {{x} \X F[x] : x \in M}

\* What is counted for each member of M is counted together.
LEMMA CountOne ==
  ASSUME NEW M, IsFiniteSet(M), NEW F, \A x \in M : IsFiniteSet(F[x]), NEW m \in M
  PROVE  LET rest == UNION {{x} \X F[x] : x \in M \ {m}}
             all  == UNION {{x} \X F[x] : x \in M}
         IN /\ IsFiniteSet(all) /\ Cardinality(all) \in Nat
            /\ Cardinality(rest) \in Nat /\ Cardinality(F[m]) \in Nat
            /\ Cardinality(all) = Cardinality(rest) + Cardinality(F[m])
PROOF
<1> DEFINE R == {{x} \X F[x] : x \in M \ {m}}
           rest == UNION R
           own == {m} \X F[m]
<1>1. IsFiniteSet({m}) /\ Cardinality({m}) = 1
  BY FS_Singleton
<1>2. IsFiniteSet(F[m]) /\ Cardinality(F[m]) \in Nat
  BY FS_CardinalityType
<1>3. IsFiniteSet(own) /\ Cardinality(own) = Cardinality(F[m])
  BY <1>1, <1>2, FS_Product
<1>4. IsFiniteSet(rest) /\ Cardinality(rest) \in Nat
  <2>1. IsFiniteSet(M \ {m})
    BY FS_Subset
  <2>2. IsFiniteSet(R)
    BY <2>1, ImageFinite
  <2>3. ASSUME NEW t \in R
        PROVE  IsFiniteSet(t)
    <3>1. PICK x \in M \ {m} : t = {x} \X F[x]
      OBVIOUS
    <3>2. IsFiniteSet({x}) /\ IsFiniteSet(F[x])
      BY FS_Singleton
    <3> QED BY <3>1, <3>2, FS_Product
  <2> HIDE DEF R
  <2> QED BY <2>2, <2>3, FS_UNION, FS_CardinalityType
<1>5. UNION {{x} \X F[x] : x \in M} = rest \cup own
  OBVIOUS
<1>6. rest \cap own = {}
  OBVIOUS
<1>7. Cardinality({}) = 0
  BY FS_EmptySet
<1> HIDE DEF rest, own, R
<1>8. IsFiniteSet(rest \cup own) /\ Cardinality(rest \cup own) = Cardinality(rest) + Cardinality(own)
  <2>1. IsFiniteSet(rest \cup own)
        /\ Cardinality(rest \cup own) = Cardinality(rest) + Cardinality(own) - Cardinality(rest \cap own)
    BY <1>3, <1>4, FS_Union
  <2>2. Cardinality(rest \cap own) = 0
    BY <1>6, <1>7
  <2>3. \A a \in Nat, b \in Nat : a + b - 0 = a + b
    OBVIOUS
  <2>4. Cardinality(rest) \in Nat /\ Cardinality(own) \in Nat
    BY <1>2, <1>3, <1>4
  <2> QED BY ONLY <2>1, <2>2, <2>3, <2>4
<1>9. Cardinality(rest \cup own) \in Nat
  BY <1>8, FS_CardinalityType
<1> QED BY <1>2, <1>3, <1>4, <1>5, <1>8, <1>9 DEF rest, R

\* When the set of one member changes, the whole changes by as much.
LEMMA CountChange ==
  ASSUME NEW M, IsFiniteSet(M), NEW F, NEW G, NEW m \in M,
         \A x \in M : IsFiniteSet(F[x]) /\ IsFiniteSet(G[x]),
         \A x \in M \ {m} : G[x] = F[x]
  PROVE  /\ Cardinality(Pairs(M, F)) \in Nat /\ Cardinality(Pairs(M, G)) \in Nat
         /\ Cardinality(F[m]) \in Nat /\ Cardinality(G[m]) \in Nat
         /\ Cardinality(Pairs(M, G)) + Cardinality(F[m]) = Cardinality(Pairs(M, F)) + Cardinality(G[m])
PROOF
<1> DEFINE rest == UNION {{x} \X F[x] : x \in M \ {m}}
           rest2 == UNION {{x} \X G[x] : x \in M \ {m}}
           before == UNION {{x} \X F[x] : x \in M}
           after  == UNION {{x} \X G[x] : x \in M}
<1>1. rest2 = rest
  OBVIOUS
<1>2. /\ Cardinality(before) \in Nat
      /\ Cardinality(rest) \in Nat /\ Cardinality(F[m]) \in Nat
      /\ Cardinality(before) = Cardinality(rest) + Cardinality(F[m])
  BY CountOne
<1>3. /\ Cardinality(after) \in Nat
      /\ Cardinality(rest2) \in Nat /\ Cardinality(G[m]) \in Nat
      /\ Cardinality(after) = Cardinality(rest2) + Cardinality(G[m])
  BY CountOne
<1> HIDE DEF rest, rest2, before, after
<1>4. Cardinality(after) + Cardinality(F[m]) = Cardinality(before) + Cardinality(G[m])
  BY <1>1, <1>2, <1>3
<1> QED BY <1>2, <1>3, <1>4 DEF before, after, Pairs


-----------------------------------------------------------------------------
(* What is registered, and where its messages come from.                    *)

\* What serves is a contact, an agent, or a workflow of a config.
LEMMA ObjectFacts ==
  ASSUME NEW o \in Object
  PROVE  /\ o # Nothing /\ o.kind \in {"contact", "agent", "workflow"}
         /\ o.kind = "workflow" => o.config \in DOMAIN Config
PROOF
BY WorkflowAssumption DEF Object

\* An object holds finitely many agents.
LEMMA HeldFinite ==
  ASSUME NEW o \in Object \cup {Nothing}, NEW a
  PROVE  IsFiniteSet(Held(o, a)) /\ Cardinality(Held(o, a)) \in Nat
PROOF
<1>1. CASE o # Nothing /\ o.kind = "workflow"
  <2>1. o.config \in DOMAIN Config
    BY <1>1, ObjectFacts
  <2>2. IsFiniteSet(Slots(o.config))
    BY <2>1, ConfigFacts
  <2>3. Held(o, a) \in SUBSET Slots(o.config)
    BY <1>1 DEF Held
  <2>4. IsFiniteSet(Held(o, a))
    BY ONLY <2>2, <2>3, FS_Subset
  <2> QED BY <2>4, FS_CardinalityType
<1>2. CASE ~ (o # Nothing /\ o.kind = "workflow")
  <2>1. Held(o, a) = {} \/ Held(o, a) = {Nothing}
    BY <1>2 DEF Held
  <2>2. IsFiniteSet({}) /\ IsFiniteSet({Nothing})
    BY ONLY FS_EmptySet, FS_Singleton
  <2>3. IsFiniteSet(Held(o, a))
    BY ONLY <2>1, <2>2
  <2> QED BY ONLY <2>3, FS_CardinalityType
<1> QED BY <1>1, <1>2

\* A message that was sent has a name and an address.
LEMMA SentFacts ==
  ASSUME WorkflowTyped, LookupsAreNew, NEW m \in Msgs, at[m] # "idle"
  PROVE  /\ Name(m) \in Names /\ Plain[Name(m)] \in Names
         /\ mail[m].target \in Seq(STRING) /\ mail[m].target # << >>
         /\ Tail(mail[m].target) \in Seq(STRING)
PROOF
<1>1. mail[m] \in Mails[m]
  BY DEF LookupsAreNew
<1>2. mail[m].target \in Seq(STRING) \ {<< >>} /\ Head(mail[m].target) \in Names
  BY <1>1, WorkflowAssumption
<1>3. Tail(mail[m].target) \in Seq(STRING)
  BY <1>2, HeadTailProperties
<1>4. Plain[Name(m)] \in Names
  BY <1>2, WorkflowAssumption DEF Name
<1> QED BY <1>2, <1>3, <1>4 DEF Name

\* What a manager loads is nothing, broken, or a config.
LEMMA LoadedIsConfig ==
  ASSUME WorkflowTyped, NEW n \in Names
  PROVE  Loaded("workflows", n) \in {"none", "broken"} \cup DOMAIN Config
PROOF
<1>1. Source("workflows", n) \in {"user", "system", "nowhere"}
  BY DEF Source
<1> QED BY <1>1 DEF Loaded, WorkflowTyped, Envs

\* The types of what registering a handler changes.
LEMMA RegisteredTyped ==
  ASSUME WorkflowTyped, NEW m \in Msgs, NEW object \in Object, Name(m) \in Names,
         Registered(m, object)
  PROVE  /\ wasted' \in [Names -> Nat]
         /\ handler' \in [Names -> Msgs \cup {Nothing}]
         /\ serves' \in [Msgs -> Object \cup {Nothing}]
         /\ queue' \in [Msgs -> Seq(Msgs)]
         /\ worker' \in [Msgs -> Msgs \cup {"free", "dead"}]
         /\ at' \in [Msgs -> Steps]
PROOF
<1> USE DEF WorkflowTyped, WorkflowTypeOK
<1>1. ASSUME NEW a \in Names
      PROVE  wasted[a] + (IF handler[Name(m)] = Nothing THEN 0
                          ELSE Cardinality(Held(serves[handler[Name(m)]], a))) \in Nat
  <2>1. CASE handler[Name(m)] = Nothing
    BY <2>1
  <2>2. CASE handler[Name(m)] # Nothing
    <3>1. serves[handler[Name(m)]] \in Object \cup {Nothing}
      BY <2>2
    <3>2. Cardinality(Held(serves[handler[Name(m)]], a)) \in Nat
      BY <3>1, HeldFinite
    <3> QED BY <2>2, <3>2
  <2> QED BY <2>1, <2>2
<1>2. wasted' \in [Names -> Nat]
  BY <1>1 DEF Registered
<1>3. queue' \in [Msgs -> Seq(Msgs)]
  <2>1. queue[m] \in Seq(Msgs)
    OBVIOUS
  <2>2. Append(queue[m], m) \in Seq(Msgs)
    BY <2>1
  <2> QED BY <2>2 DEF Registered
<1>4. "queued" \in Steps
  BY DEF Steps
<1>5. /\ handler' \in [Names -> Msgs \cup {Nothing}]
      /\ serves' \in [Msgs -> Object \cup {Nothing}]
      /\ worker' \in [Msgs -> Msgs \cup {"free", "dead"}]
      /\ at' \in [Msgs -> Steps]
  BY <1>4 DEF Registered
<1> QED BY <1>2, <1>3, <1>5

\* The end of a lookup changes no type.
LEMMA LookupGoesTyped ==
  ASSUME WorkflowTyped, NEW m \in Msgs, NEW step \in Steps, LookupGoesTo(m, step)
  PROVE  /\ handler' \in [Names -> Msgs \cup {Nothing}]
         /\ serves' \in [Msgs -> Object \cup {Nothing}]
         /\ queue' \in [Msgs -> Seq(Msgs)]
         /\ worker' \in [Msgs -> Msgs \cup {"free", "dead"}]
         /\ at' \in [Msgs -> Steps]
PROOF
BY DEF LookupGoesTo, WorkflowTyped, WorkflowTypeOK, bus

\* Asking the kernel adds a task, and changes no other type.
LEMMA AskTyped ==
  ASSUME WorkflowTyped, NEW m \in Msgs, NEW n \in Nat, NEW model \in {"name", "number", "none"},
         Ask(m, n, model)
  PROVE  /\ tasks' \in Seq(Task) /\ running' \subseteq Task
         /\ result' \in [Msgs -> {"none", "ok", "err"}]
         /\ at' \in [Msgs -> Steps]
         /\ kernel' \in {"running", "dead"} /\ openai' \in BOOLEAN
PROOF
<1>1. [msg |-> m, call |-> n, model |-> model] \in Task
  BY DEF Task
<1>2. tasks \in Seq(Task)
  BY DEF WorkflowTyped
<1>3. Append(tasks, [msg |-> m, call |-> n, model |-> model]) \in Seq(Task)
  BY <1>1, <1>2
<1>4. "asking" \in Steps
  BY DEF Steps
<1> QED BY <1>3, <1>4 DEF Ask, WorkflowTyped, WorkflowTypeOK

\* What the kernel has to do is for a model.
LEMMA ModelsTyped ==
  ASSUME tasks' \in Seq(Task), running' \subseteq Task
  PROVE  \A t \in Range(tasks)' \cup running' : t.model \in {"name", "number", "none"}
PROOF
<1>1. \A i \in DOMAIN tasks' : tasks'[i] \in Task
  OBVIOUS
<1> QED BY <1>1 DEF Range, Task

\* The end of a message changes no type.
LEMMA EndsTyped ==
  ASSUME WorkflowTyped, NEW h \in Msgs, NEW m \in Msgs, NEW step \in EndSteps, NEW sender,
         EndsWith(h, m, step, sender)
  PROVE  /\ at' \in [Msgs -> Steps] /\ DOMAIN reply' = Msgs
         /\ worker' \in [Msgs -> Msgs \cup {"free", "dead"}]
PROOF
BY DEF EndsWith, WorkflowTyped, WorkflowTypeOK, Steps


-----------------------------------------------------------------------------
(* Types.                                                                   *)

\* What Handle does with the head of a queue.
LEMMA HandleFacts ==
  ASSUME WorkflowIInv, NEW h \in Msgs, Handle(h)
  PROVE  /\ queue[h] # << >> /\ Head(queue[h]) \in Msgs
         /\ 1 \in DOMAIN queue[h] /\ Head(queue[h]) = queue[h][1]
         /\ Tail(queue[h]) \in Seq(Msgs)
         /\ at[Head(queue[h])] = "queued" /\ serves[h] \in Object
         /\ role[Head(queue[h])] = Nothing /\ calls[Head(queue[h])] = 0
         /\ worker[h] = "free"
PROOF
<1>1. queue[h] \in Seq(Msgs) /\ queue[h] # << >> /\ worker[h] = "free"
  BY DEF Handle, WorkflowIInv, WorkflowTyped, WorkflowTypeOK
<1>2. Head(queue[h]) \in Msgs /\ Tail(queue[h]) \in Seq(Msgs)
  BY <1>1, HeadTailProperties
<1>3. 1 \in DOMAIN queue[h] /\ Head(queue[h]) = queue[h][1]
  BY <1>1, EmptySeq
<1>4. at[Head(queue[h])] = "queued" /\ serves[h] # Nothing
  BY <1>3 DEF WorkflowIInv, QueuedOnce
<1>5. serves[h] \in Object
  BY <1>4 DEF WorkflowIInv, WorkflowTyped, WorkflowTypeOK
<1>6. role[Head(queue[h])] = Nothing /\ calls[Head(queue[h])] = 0
  BY <1>2, <1>4 DEF WorkflowIInv, LookupsAreNew
<1> QED BY <1>1, <1>2, <1>3, <1>4, <1>5, <1>6

\* The role that is to process a message is one of the workflow, and the one its
\* address names if there is one.
LEMMA RoleOfAddress ==
  ASSUME WorkflowIInv, NEW h \in Msgs, serves[h] \in Object, serves[h].kind = "workflow",
         NEW m \in Msgs, at[m] # "idle"
  PROVE  LET c == serves[h].config
             keys == Tail(mail[m].target)
         IN /\ h \in Workflows
            /\ keys # << >> /\ Routed(c, keys) # Nothing => Processes(h, m, Routed(c, keys))
            /\ keys = << >> /\ Config[c][<< >>].filter \in DOMAIN Config[c][<< >>].roles =>
                 Processes(h, m, << << >>, Config[c][<< >>].filter>>)
PROOF
<1> DEFINE c == serves[h].config
           keys == Tail(mail[m].target)
<1>1. c \in DOMAIN Config /\ serves[h] # Nothing
  BY ObjectFacts
<1>2. keys \in Seq(STRING)
  BY SentFacts DEF WorkflowIInv
<1>3. << >> \in DOMAIN Config[c]
  BY <1>1, ConfigFacts
<1> HIDE DEF c
<1>4. ASSUME keys # << >>, Routed(c, keys) # Nothing
      PROVE  Processes(h, m, Routed(c, keys))
  <2> HIDE DEF keys
  <2>1. Routed(c, keys) \in Slots(c)
    BY <1>1, <1>2, <1>4, RoutedFacts
  <2>2. <<Front(keys), Last(keys)>> \in Slots(c) => Routed(c, keys) = <<Front(keys), Last(keys)>>
    BY <1>1, <1>2, <1>4, RoutedFacts
  <2>3. Addressed(c, mail[m].target) = <<Front(keys), Last(keys)>>
    BY <1>4 DEF Addressed, keys
  <2> QED BY <2>1, <2>2, <2>3 DEF Processes, c
<1>5. ASSUME keys = << >>, Config[c][<< >>].filter \in DOMAIN Config[c][<< >>].roles
      PROVE  Processes(h, m, << << >>, Config[c][<< >>].filter>>)
  <2>1. << << >>, Config[c][<< >>].filter>> \in Slots(c)
    BY <1>1, <1>3, <1>5, SlotFacts
  <2>2. Addressed(c, mail[m].target) = << << >>, Config[c][<< >>].filter>>
    BY <1>5 DEF Addressed
  <2> QED BY <2>1, <2>2 DEF Processes, c
<1>6. h \in Workflows
  BY <1>1 DEF Workflows
<1> QED BY <1>4, <1>5, <1>6 DEF c

\* What becomes of the head of a queue: it ends, or its worker asks the kernel.
HandleOutcome(h, m) ==
  \/ \E step \in EndSteps \ {"unknown"} : \E sender :
       /\ EndsWith(h, m, step, sender)
       /\ UNCHANGED <<role, computing>>
  \/ /\ worker' = [worker EXCEPT ![h] = m]
     /\ UNCHANGED reply
     /\ \/ Ask(m, 0, "name") /\ UNCHANGED role
        \/ \E s : /\ h \in Workflows /\ Processes(h, m, s)
                  /\ role' = [role EXCEPT ![m] = s]
                  /\ Ask(m, 0, RoleModel(serves[h].config, s))

\* Handling the head of a queue has one of these outcomes.
LEMMA HandleOutcomes ==
  ASSUME WorkflowIInv, NEW h \in Msgs, Handle(h)
  PROVE  HandleOutcome(h, Head(queue[h]))
PROOF
<1> DEFINE m == Head(queue[h])
<1>1. m \in Msgs /\ at[m] # "idle" /\ serves[h] \in Object
  BY HandleFacts
<1>2. serves[h].kind \in {"workflow", "agent", "contact"}
  BY <1>1, ObjectFacts
<1>3. {"replied", "silent", "raised", "passed"} \subseteq EndSteps \ {"unknown"}
  BY DEF EndSteps
<1>4. CASE serves[h].kind = "agent"
  <2>1. Ask(m, 0, "name") /\ worker' = [worker EXCEPT ![h] = m] /\ UNCHANGED <<reply, role>>
    BY <1>4 DEF Handle
  <2> QED BY <2>1 DEF HandleOutcome
<1>5. CASE serves[h].kind = "contact"
  <2>1. EndsWith(h, m, "passed", Nothing) /\ UNCHANGED <<role, computing>>
    BY <1>5 DEF Handle
  <2> QED BY <1>3, <2>1 DEF HandleOutcome
<1>6. CASE serves[h].kind = "workflow"
  <2> DEFINE c == serves[h].config
             root == Config[c][<< >>]
             keys == Tail(mail[m].target)
  <2>1. WorkflowProcesses(h, m)
    BY <1>6 DEF Handle
  <2>2. ASSUME NEW s, RoleProcesses(h, m, s), h \in Workflows, Processes(h, m, s)
        PROVE  HandleOutcome(h, m)
    <3>1. CASE FormatRaises(m)
      BY <1>3, <2>2, <3>1 DEF RoleProcesses, HandleOutcome
    <3>2. CASE ~ FormatRaises(m)
      BY <2>2, <3>2 DEF RoleProcesses, HandleOutcome
    <3> QED BY <3>1, <3>2
  <2>3. ASSUME EndsWith(h, m, "silent", Nothing), UNCHANGED <<role, computing>>
        PROVE  HandleOutcome(h, m)
    BY <1>3, <2>3 DEF HandleOutcome
  <2>4. ASSUME EndsWith(h, m, "replied", mail[m].target), UNCHANGED <<role, computing>>
        PROVE  HandleOutcome(h, m)
    BY <1>3, <2>4 DEF HandleOutcome
  <2>5. /\ h \in Workflows
        /\ keys # << >> /\ Routed(c, keys) # Nothing => Processes(h, m, Routed(c, keys))
        /\ keys = << >> /\ root.filter \in DOMAIN root.roles =>
             Processes(h, m, << << >>, root.filter>>)
    <3> HIDE DEF m
    <3> QED BY <1>1, <1>6, RoleOfAddress
  <2>8. CASE TopicRaises(c, m)
    <3>1. EndsWith(h, m, "raised", Nothing) /\ UNCHANGED <<role, computing>>
      BY <2>1, <2>8 DEF WorkflowProcesses
    <3> QED BY <1>3, <3>1 DEF HandleOutcome
  <2>6. CASE ~ TopicRaises(c, m) /\ keys # << >>
    <3>1. CASE Routed(c, keys) = Nothing
      BY <2>1, <2>3, <2>6, <3>1 DEF WorkflowProcesses
    <3>2. CASE Routed(c, keys) # Nothing
      <4>1. RoleProcesses(h, m, Routed(c, keys))
        BY <2>1, <2>6, <3>2 DEF WorkflowProcesses
      <4> QED BY <2>2, <2>5, <2>6, <3>2, <4>1
    <3> QED BY <3>1, <3>2
  <2>7. CASE ~ TopicRaises(c, m) /\ keys = << >>
    <3>1. CASE mail[m].mentioned \/ root.filter = "no filter"
      BY <2>1, <2>4, <2>7, <3>1 DEF WorkflowProcesses
    <3>2. CASE ~ (mail[m].mentioned \/ root.filter = "no filter")
      <4>1. CASE root.filter \in DOMAIN root.roles
        <5>1. RoleProcesses(h, m, << << >>, root.filter>>)
          BY <2>1, <2>7, <3>2, <4>1 DEF WorkflowProcesses
        <5> QED BY <2>2, <2>5, <2>7, <4>1, <5>1
      <4>2. CASE root.filter \notin DOMAIN root.roles
        <5>1. EndsWith(h, m, "silent", Nothing) /\ UNCHANGED <<role, computing>>
          BY <2>1, <2>7, <3>2, <4>2 DEF WorkflowProcesses
        <5> QED BY <2>3, <5>1
      <4> QED BY <4>1, <4>2
    <3> QED BY <3>1, <3>2
  <2> QED BY <2>6, <2>7, <2>8
<1> QED BY <1>2, <1>4, <1>5, <1>6


\* What an answer, or a wait that ends without one, does for the worker h.
AnswerOutcome(h, m) ==
  \/ \E step \in {"replied", "raised"} : \E sender :
       /\ EndsWith(h, m, step, sender)
       /\ sender # Nothing /\ role[m] # Nothing => sender = RoleId(serves[h].config, role[m])
       /\ UNCHANGED <<calls, computing>>
  \/ /\ h \in Workflows /\ role[m] # Nothing /\ Processes(h, m, role[m])
     /\ calls[m] <= StackLimit
     /\ calls' = [calls EXCEPT ![m] = @ + 1]
     /\ Ask(m, calls[m] + 1, RoleModel(serves[h].config, role[m]))
     /\ UNCHANGED <<worker, reply>>

\* An answer goes to the one worker that waits for it.
LEMMA AnswerOutcomes ==
  ASSUME WorkflowIInv, NEW m \in Msgs, AnswerComes(m)
  PROVE  \E h \in Msgs : worker[h] = m /\ serves[h] \in Object /\ AnswerOutcome(h, m)
PROOF
<1>1. at[m] = "asking"
  BY DEF AnswerComes
<1>2. PICK h \in Msgs : worker[h] = m
  BY <1>1 DEF WorkflowIInv, AskedByOne
<1>3. \A g \in Msgs : worker[g] = m => g = h
  BY <1>2 DEF WorkflowIInv, AskedByOne
<1>4. HandlerOf(m) = h
  BY <1>2, <1>3 DEF HandlerOf
<1>5. serves[h] \in Object
  <2>1. serves[h] # Nothing
    BY <1>2 DEF WorkflowIInv, AskedByOne
  <2> QED BY <2>1 DEF WorkflowIInv, WorkflowTyped, WorkflowTypeOK
<1>6. role[m] # Nothing => h \in Workflows /\ Processes(h, m, role[m])
  BY <1>1, <1>3 DEF WorkflowIInv, RolesAreRight, Workflows
<1>7. ASSUME Fails(m)
      PROVE  AnswerOutcome(h, m)
  <2>1. EndsWith(h, m, "replied", Signature(m)) /\ UNCHANGED <<calls, computing>>
    BY <1>4, <1>7 DEF Fails
  <2>2. role[m] # Nothing => Signature(m) = RoleId(serves[h].config, role[m])
    BY <1>4 DEF Signature, IsRole
  <2> QED BY <2>1, <2>2 DEF AnswerOutcome
<1>8. ASSUME Succeeds(m), role[m] # Nothing
      PROVE  AnswerOutcome(h, m)
  <2>1. CASE EndsWith(h, m, "raised", Nothing) /\ UNCHANGED <<calls, computing>>
    BY <2>1 DEF AnswerOutcome
  <2>2. CASE ~ (EndsWith(h, m, "raised", Nothing) /\ UNCHANGED <<calls, computing>>)
    <3>1. /\ calls[m] <= StackLimit
          /\ calls' = [calls EXCEPT ![m] = @ + 1]
          /\ Ask(m, calls[m] + 1, RoleModel(serves[h].config, role[m]))
          /\ UNCHANGED <<worker, reply>>
      BY <1>4, <1>8, <2>2 DEF Succeeds
    <3> QED BY <1>6, <1>8, <3>1 DEF AnswerOutcome
  <2> QED BY <2>1, <2>2
<1>9. AnswerOutcome(h, m)
  BY <1>7, <1>8 DEF AnswerComes, IsRole
<1> QED BY <1>2, <1>5, <1>9

\* What looking for a workflow does: there is none, it has no roles and is registered
\* at once, or its roles are to be loaded.
LEMMA WorkflowLookedUp ==
  ASSUME WorkflowTyped, NEW m \in Msgs, Name(m) \in Names, LookUpWorkflow(m)
  PROVE  LET c == Loaded("workflows", Name(m)) IN
         \/ LookupGoesTo(m, "contact") /\ UNCHANGED <<load, wasted, timers>>
         \/ /\ c \in DOMAIN Config /\ LookupGoesTo(m, "roles")
            /\ load' = [load EXCEPT ![m] = [config |-> c, left |-> Slots(c)]]
            /\ UNCHANGED <<wasted, timers>>
         \/ /\ c \in DOMAIN Config
            /\ \E o \in Object : /\ o.kind = "workflow" /\ o.config = c
                               /\ o.manned = {} /\ Slots(c) = {}
                               /\ Registered(m, o)
            /\ UNCHANGED <<load, timers>>
PROOF
<1> DEFINE c == Loaded("workflows", Name(m))
           o == [kind |-> "workflow", config |-> c, manned |-> {}]
<1>1. CASE c \in {"none", "broken"} \/ ~ Loads(c)
  BY <1>1 DEF LookUpWorkflow
<1>2. CASE ~ (c \in {"none", "broken"} \/ ~ Loads(c)) /\ Slots(c) = {}
  <2>1. c \in DOMAIN Config
    BY <1>2, LoadedIsConfig
  <2>2. Registered(m, o) /\ UNCHANGED <<load, timers>>
    BY <1>2 DEF LookUpWorkflow
  <2> HIDE DEF c
  <2>3. o \in [kind : {"workflow"}, config : {c}, manned : SUBSET Slots(c)]
        /\ o.kind = "workflow" /\ o.config = c /\ o.manned = {}
    OBVIOUS
  <2> HIDE DEF o
  <2>4. o \in Object
    BY <2>1, <2>3 DEF Object
  <2> QED BY <1>2, <2>1, <2>2, <2>3, <2>4 DEF c
<1>3. CASE ~ (c \in {"none", "broken"} \/ ~ Loads(c)) /\ Slots(c) # {}
  <2>1. c \in DOMAIN Config
    BY <1>3, LoadedIsConfig
  <2> QED BY <1>3, <2>1 DEF LookUpWorkflow
<1> QED BY <1>1, <1>2, <1>3

\* How far a lookup gets in a step: to the next question, to a handler, or to the
\* next role.
LookupOutcome(m) ==
  \/ \E step \in {"workflow", "roles", "contact", "raised", "unknown"} : LookupGoesTo(m, step)
  \/ \E object \in Object :
       /\ object.kind = "workflow" => object.manned = Slots(object.config)
       /\ Registered(m, object)
  \/ UNCHANGED <<bus, at>>

\* A lookup goes one step further, or ends.
LEMMA LookupOutcomes ==
  ASSUME WorkflowIInv, NEW m \in Msgs, Lookup(m)
  PROVE  /\ at[m] \in {"agent", "workflow", "roles", "contact"} /\ LookupOutcome(m)
         /\ UNCHANGED <<pkgs, acts, mail, role, calls, reply, computing>>
PROOF
<1>1. at[m] \in {"agent", "workflow", "roles", "contact"}
      /\ UNCHANGED <<pkgs, acts, mail, role, calls, reply, computing>>
  BY DEF Lookup, LookUpAgent, LookUpWorkflow, LoadRole, LookUpContact
<1>2. ASSUME LookUpAgent(m)
      PROVE  LookupOutcome(m)
  <2>1. AgentGot(Name(m)) \in {"raises", "none", "agent"}
    BY DEF AgentGot
  <2>2. CASE AgentGot(Name(m)) \in {"raises", "none"}
    BY <1>2, <2>2 DEF LookUpAgent, LookupOutcome
  <2>3. CASE AgentGot(Name(m)) = "agent"
    <3> DEFINE o == [kind |-> "agent", name |-> Plain[Name(m)]]
    <3>1. Plain[Name(m)] \in Names
      BY <1>1, SentFacts DEF WorkflowIInv
    <3>2. o \in Object /\ o.kind # "workflow"
      BY <3>1 DEF Object
    <3>3. Registered(m, o)
      BY <1>2, <2>3 DEF LookUpAgent
    <3> HIDE DEF o
    <3> QED BY <3>2, <3>3 DEF LookupOutcome
  <2> QED BY <2>1, <2>2, <2>3
<1>3. ASSUME LookUpWorkflow(m)
      PROVE  LookupOutcome(m)
  <2>1. WorkflowTyped /\ Name(m) \in Names
    BY <1>1, SentFacts DEF WorkflowIInv
  <2>2. \/ LookupGoesTo(m, "contact") \/ LookupGoesTo(m, "roles")
        \/ \E o \in Object : o.manned = Slots(o.config) /\ Registered(m, o)
    BY <1>3, <2>1, WorkflowLookedUp
  <2> QED BY <2>2 DEF LookupOutcome
<1>4. ASSUME LoadRole(m)
      PROVE  LookupOutcome(m)
  <2>1. at[m] = "roles"
    BY <1>4 DEF LoadRole
  <2> DEFINE c == load[m].config
  <2>2. c \in DOMAIN Config /\ load[m].left \subseteq Slots(c)
    BY <2>1 DEF WorkflowIInv, LoadsAreOfConfigs
  <2>3. PICK s \in load[m].left :
          LET a == AgentOf(load[m].config, s) IN
          CASE AgentGot(a) = "raises" -> LookupGoesTo(m, "raised") /\ GivenUp(m)
            [] AgentGot(a) = "none" -> LookupGoesTo(m, "contact") /\ GivenUp(m)
            [] AgentGot(a) = "agent" ->
                 /\ timers' = [timers EXCEPT ![a] = @ + 1]
                 /\ IF load[m].left = {s}
                    THEN /\ Registered(m, [kind |-> "workflow", config |-> load[m].config,
                                           manned |-> Got(load[m]) \cup {s}])
                         /\ load' = [load EXCEPT ![m] = Nothing]
                    ELSE /\ load' = [load EXCEPT ![m].left = @ \ {s}]
                         /\ UNCHANGED <<bus, at, wasted>>
    BY <1>4 DEF LoadRole
  <2>4. AgentGot(AgentOf(load[m].config, s)) \in {"raises", "none", "agent"}
    BY DEF AgentGot
  <2>5. CASE AgentGot(AgentOf(load[m].config, s)) \in {"raises", "none"}
    BY <2>3, <2>5 DEF LookupOutcome
  <2>6. CASE AgentGot(AgentOf(load[m].config, s)) = "agent" /\ load[m].left # {s}
    BY <2>3, <2>6 DEF LookupOutcome
  <2>7. CASE AgentGot(AgentOf(load[m].config, s)) = "agent" /\ load[m].left = {s}
    <3> DEFINE o == [kind |-> "workflow", config |-> load[m].config, manned |-> Got(load[m]) \cup {s}]
    <3>1. Registered(m, o)
      BY <2>3, <2>7
    <3>2. Got(load[m]) \cup {s} = Slots(c)
      BY <2>2, <2>7 DEF Got
    <3>3. o \in [kind : {"workflow"}, config : {c}, manned : SUBSET Slots(c)] /\ o.manned = Slots(o.config)
      BY <3>2
    <3>4. o \in Object
      <4> HIDE DEF o, c
      <4> QED BY <2>2, <3>3 DEF Object
    <3> HIDE DEF o
    <3> QED BY <3>1, <3>3, <3>4 DEF LookupOutcome
  <2> QED BY <2>4, <2>5, <2>6, <2>7
<1>5. ASSUME LookUpContact(m)
      PROVE  LookupOutcome(m)
  <2> DEFINE o == [kind |-> "contact"]
  <2>1. o \in Object /\ o.kind # "workflow"
    BY DEF Object
  <2>2. Registered(m, o) \/ LookupGoesTo(m, "unknown")
    BY <1>5 DEF LookUpContact
  <2> HIDE DEF o
  <2> QED BY <2>1, <2>2 DEF LookupOutcome
<1> QED BY <1>1, <1>2, <1>3, <1>4, <1>5 DEF Lookup

\* A lookup gives its message to a handler of its name, if at all.
LEMMA LookupTyped ==
  ASSUME WorkflowIInv, NEW m \in Msgs, Lookup(m)
  PROVE  /\ handler' \in [Names -> Msgs \cup {Nothing}]
         /\ serves' \in [Msgs -> Object \cup {Nothing}]
         /\ queue' \in [Msgs -> Seq(Msgs)]
         /\ worker' \in [Msgs -> Msgs \cup {"free", "dead"}]
         /\ at' \in [Msgs -> Steps]
PROOF
<1>1. WorkflowTyped /\ at[m] # "idle" /\ LookupOutcome(m) /\ Name(m) \in Names
  BY LookupOutcomes, SentFacts DEF WorkflowIInv
<1>2. CASE \E step \in {"workflow", "roles", "contact", "raised", "unknown"} : LookupGoesTo(m, step)
  <2>1. {"workflow", "roles", "contact", "raised", "unknown"} \subseteq Steps
    BY DEF Steps, EndSteps
  <2> QED BY <1>1, <1>2, <2>1, LookupGoesTyped
<1>3. CASE \E object \in Object : Registered(m, object)
  BY <1>1, <1>3, RegisteredTyped
<1>4. CASE UNCHANGED <<bus, at>>
  BY <1>1, <1>4 DEF WorkflowTyped, WorkflowTypeOK, bus
<1> QED BY <1>1, <1>2, <1>3, <1>4 DEF LookupOutcome


\* The agents a load has so far are finitely many.
LEMMA GotFinite ==
  ASSUME LoadsAreOfConfigs, NEW m \in Msgs, at[m] = "roles", NEW a
  PROVE  LET got == {s \in Got(load[m]) : AgentOf(load[m].config, s) = a}
         IN IsFiniteSet(got) /\ Cardinality(got) \in Nat
PROOF
<1>1. load[m].config \in DOMAIN Config
  BY DEF LoadsAreOfConfigs
<1>2. IsFiniteSet(Slots(load[m].config))
  BY <1>1, ConfigFacts
<1>3. {s \in Got(load[m]) : AgentOf(load[m].config, s) = a} \in SUBSET Slots(load[m].config)
  BY DEF Got
<1> QED BY <1>2, <1>3, FS_Subset, FS_CardinalityType

\* Timers are counted in naturals, whatever is loaded.
LEMMA LoadTyped ==
  ASSUME WorkflowIInv, NEW m \in Msgs, Lookup(m)
  PROVE  timers' \in [Names -> Nat] /\ wasted' \in [Names -> Nat] /\ DOMAIN load' = Msgs
PROOF
<1>1. timers \in [Names -> Nat] /\ wasted \in [Names -> Nat] /\ DOMAIN load = Msgs
  BY DEF WorkflowIInv, WorkflowTyped, WorkflowTypeOK
<1>2. WorkflowTyped /\ Name(m) \in Names /\ Plain[Name(m)] \in Names
  BY LookupOutcomes, SentFacts DEF WorkflowIInv
<1>3. ASSUME NEW object \in Object, Registered(m, object)
      PROVE  wasted' \in [Names -> Nat]
  BY <1>2, <1>3, RegisteredTyped
<1>4. ASSUME LookUpAgent(m)
      PROVE  timers' \in [Names -> Nat] /\ wasted' \in [Names -> Nat] /\ DOMAIN load' = Msgs
  <2>1. AgentGot(Name(m)) \in {"raises", "none", "agent"}
    BY DEF AgentGot
  <2>2. CASE AgentGot(Name(m)) \in {"raises", "none"}
    BY <1>1, <1>4, <2>2 DEF LookUpAgent
  <2>3. CASE AgentGot(Name(m)) = "agent"
    <3> DEFINE o == [kind |-> "agent", name |-> Plain[Name(m)]]
    <3>1. o \in Object
      BY <1>2 DEF Object
    <3>2. Registered(m, o) /\ timers' = [timers EXCEPT ![Plain[Name(m)]] = @ + 1] /\ load' = load
      BY <1>4, <2>3 DEF LookUpAgent
    <3> HIDE DEF o
    <3>3. wasted' \in [Names -> Nat]
      BY <1>3, <3>1, <3>2
    <3>4. timers[Plain[Name(m)]] + 1 \in Nat
      BY <1>1, <1>2
    <3>5. timers' \in [Names -> Nat]
      BY ONLY <1>1, <3>2, <3>4
    <3> QED BY <1>1, <3>2, <3>3, <3>5
  <2> QED BY <2>1, <2>2, <2>3
<1>5. ASSUME LookUpWorkflow(m)
      PROVE  timers' \in [Names -> Nat] /\ wasted' \in [Names -> Nat] /\ DOMAIN load' = Msgs
  <2>1. /\ timers' = timers /\ DOMAIN load' = Msgs
        /\ wasted' = wasted \/ \E o \in Object : Registered(m, o)
    BY <1>1, <1>2, <1>5, WorkflowLookedUp
  <2> QED BY <1>1, <1>3, <2>1
<1>6. ASSUME LoadRole(m)
      PROVE  timers' \in [Names -> Nat] /\ wasted' \in [Names -> Nat] /\ DOMAIN load' = Msgs
  <2>1. at[m] = "roles"
    BY <1>6 DEF LoadRole
  <2> DEFINE c == load[m].config
  <2>2. c \in DOMAIN Config /\ load[m].left \subseteq Slots(c)
    BY <2>1 DEF WorkflowIInv, LoadsAreOfConfigs
  <2>3. PICK s \in load[m].left :
          LET a == AgentOf(load[m].config, s) IN
          CASE AgentGot(a) = "raises" -> LookupGoesTo(m, "raised") /\ GivenUp(m)
            [] AgentGot(a) = "none" -> LookupGoesTo(m, "contact") /\ GivenUp(m)
            [] AgentGot(a) = "agent" ->
                 /\ timers' = [timers EXCEPT ![a] = @ + 1]
                 /\ IF load[m].left = {s}
                    THEN /\ Registered(m, [kind |-> "workflow", config |-> load[m].config,
                                           manned |-> Got(load[m]) \cup {s}])
                         /\ load' = [load EXCEPT ![m] = Nothing]
                    ELSE /\ load' = [load EXCEPT ![m].left = @ \ {s}]
                         /\ UNCHANGED <<bus, at, wasted>>
    BY <1>6 DEF LoadRole
  <2> DEFINE a == AgentOf(load[m].config, s)
  <2>4. a \in Names
    BY <2>2, ConfigFacts
  <2>5. AgentGot(a) \in {"raises", "none", "agent"}
    BY DEF AgentGot
  <2>6. CASE AgentGot(a) \in {"raises", "none"}
    <3>1. GivenUp(m)
      BY <2>3, <2>6
    <3>2. \A b \in Names : Cardinality({r \in Got(load[m]) : AgentOf(load[m].config, r) = b}) \in Nat
      BY <2>1, GotFinite DEF WorkflowIInv
    <3>3. \A b \in Names :
            wasted[b] + Cardinality({r \in Got(load[m]) : AgentOf(load[m].config, r) = b}) \in Nat
      BY <1>1, <3>2
    <3>4. /\ wasted' = [b \in Names |->
                 wasted[b] + Cardinality({r \in Got(load[m]) : AgentOf(load[m].config, r) = b})]
          /\ load' = [load EXCEPT ![m] = Nothing] /\ timers' = timers
      BY <3>1 DEF GivenUp
    <3>5. wasted' \in [Names -> Nat]
      BY ONLY <3>3, <3>4
    <3> QED BY <1>1, <3>4, <3>5
  <2>7. CASE AgentGot(a) = "agent"
    <3>1. timers' = [timers EXCEPT ![a] = @ + 1]
      BY <2>3, <2>7
    <3>2. timers' \in [Names -> Nat]
      BY <1>1, <2>4, <3>1
    <3>3. CASE load[m].left # {s}
      BY <1>1, <2>3, <2>7, <3>2, <3>3
    <3>4. CASE load[m].left = {s}
      <4> DEFINE o == [kind |-> "workflow", config |-> load[m].config, manned |-> Got(load[m]) \cup {s}]
      <4>1. Registered(m, o) /\ load' = [load EXCEPT ![m] = Nothing]
        BY <2>3, <2>7, <3>4
      <4>2. Got(load[m]) \cup {s} = Slots(c)
        BY <2>2, <3>4 DEF Got
      <4>3. o \in [kind : {"workflow"}, config : {c}, manned : SUBSET Slots(c)]
        BY <4>2
      <4>4. o \in Object
        <5> HIDE DEF o, c
        <5> QED BY <2>2, <4>3 DEF Object
      <4> HIDE DEF o
      <4> QED BY <1>1, <1>3, <3>2, <4>1, <4>4
    <3> QED BY <3>3, <3>4
  <2> QED BY <2>5, <2>6, <2>7
<1>7. ASSUME LookUpContact(m)
      PROVE  timers' \in [Names -> Nat] /\ wasted' \in [Names -> Nat] /\ DOMAIN load' = Msgs
  <2> DEFINE o == [kind |-> "contact"]
  <2>1. o \in Object
    BY DEF Object
  <2>2. (Registered(m, o) \/ wasted' = wasted) /\ timers' = timers /\ load' = load
    BY <1>7 DEF LookUpContact
  <2> HIDE DEF o
  <2> QED BY <1>1, <1>3, <2>1, <2>2
<1> QED BY <1>4, <1>5, <1>6, <1>7 DEF Lookup

\* Types are kept.
LEMMA TypedKept ==
  ASSUME WorkflowIInv, [WorkflowNext]_workflowVars
  PROVE  WorkflowTyped'
PROOF
<1>0. WorkflowTyped
  BY DEF WorkflowIInv
<1> USE DEF WorkflowTyped, WorkflowTypeOK
<1>1. ASSUME Edit
      PROVE  WorkflowTyped'
  <2>1. PICK x \in Editable : pkgs' = [pkgs EXCEPT ![x.package] = x.to]
    BY <1>1 DEF Edit
  <2>2. acts' \in 0 .. MaxActs
    BY <1>0, <1>1, WorkflowAssumption DEF Edit
  <2>3. DOMAIN pkgs' = DOMAIN Packages
    BY <1>0, <2>1
  <2>4. ASSUME NEW e \in Envs, NEW n \in Names
        PROVE  pkgs'[<<"workflows", e, Plain[n]>>] \in {"none", "broken"} \cup DOMAIN Config
    <3> DEFINE k == <<"workflows", e, Plain[n]>>
    <3>1. k \in DOMAIN pkgs /\ pkgs[k] \in {"none", "broken"} \cup DOMAIN Config
      BY <1>0, WorkflowAssumption DEF Kinds, Package
    <3>2. CASE x.package = k
      <4>1. x.package[1] = "workflows"
        BY <3>2
      <4>2. x.to \in {"none", "broken"} \cup DOMAIN Config
        BY <4>1, WorkflowAssumption
      <4> QED BY <2>1, <3>1, <3>2, <4>2
    <3>3. CASE x.package # k
      BY <2>1, <3>1, <3>3
    <3> QED BY <3>2, <3>3
  <2>5. UNCHANGED <<loading, bus, mail, at, role, calls, reply, computing>>
    BY <1>1 DEF Edit
  <2> QED BY <1>0, <2>2, <2>3, <2>4, <2>5 DEF loading, bus, computing, Package
<1>2. ASSUME KernelTakes
      PROVE  WorkflowTyped'
  <2>1. tasks # << >> /\ tasks \in Seq(Task)
    BY <1>0, <1>2 DEF KernelTakes
  <2>2. Head(tasks) \in Task /\ Tail(tasks) \in Seq(Task)
    BY <2>1, HeadTailProperties
  <2>3. tasks' \in Seq(Task) /\ running' \subseteq Task /\ kernel' \in {"running", "dead"}
    BY <1>0, <1>2, <2>2 DEF KernelTakes
  <2>4. \A t \in Range(tasks)' \cup running' : t.model \in {"name", "number", "none"}
    BY <2>3, ModelsTyped
  <2>5. UNCHANGED <<pkgs, acts, loading, bus, mail, at, role, calls, reply, openai, result>>
    BY <1>2 DEF KernelTakes
  <2> QED BY <1>0, <2>3, <2>4, <2>5 DEF loading, bus, computing, Package
<1>3. ASSUME NEW t \in running, NodeEnds(t)
      PROVE  WorkflowTyped'
  <2>1. running' \subseteq Task /\ tasks' \in Seq(Task) /\ result' \in [Msgs -> {"none", "ok", "err"}]
    BY <1>0, <1>3 DEF NodeEnds
  <2>2. \A u \in Range(tasks)' \cup running' : u.model \in {"name", "number", "none"}
    BY <2>1, ModelsTyped
  <2>3. UNCHANGED <<pkgs, acts, loading, bus, mail, at, role, calls, reply, kernel, openai, tasks>>
    BY <1>3 DEF NodeEnds
  <2> QED BY <1>0, <2>1, <2>2, <2>3 DEF loading, bus, computing, Package
<1>4. ASSUME NEW m \in Msgs, Send(m)
      PROVE  WorkflowTyped'
  <2>1. PICK x \in Mails[m] :
          /\ mail' = [mail EXCEPT ![m] = x]
          /\ LET h == handler[Head(x.target)] IN
             IF h # Nothing
             THEN /\ at' = [at EXCEPT ![m] = "queued"]
                  /\ queue' = [queue EXCEPT ![h] = Append(@, m)]
             ELSE /\ at' = [at EXCEPT ![m] = "agent"]
                  /\ UNCHANGED queue
    BY <1>4 DEF Send
  <2>2. at' \in [Msgs -> Steps]
    BY <1>0, <2>1 DEF Steps
  <2>3. queue' \in [Msgs -> Seq(Msgs)]
    <3>1. queue \in [Msgs -> Seq(Msgs)]
      BY <1>0
    <3>2. \A h \in Msgs : Append(queue[h], m) \in Seq(Msgs)
      BY <3>1
    <3>3. queue' = queue \/ \E h : queue' = [queue EXCEPT ![h] = Append(queue[h], m)]
      BY <2>1
    <3> QED BY ONLY <3>1, <3>2, <3>3
  <2>4. DOMAIN mail' = Msgs /\ \A k \in Msgs : mail'[k] \in Mails[k] \cup {Nothing}
    BY <1>0, <2>1
  <2>5. UNCHANGED <<pkgs, acts, loading, handler, serves, worker, role, calls, reply, computing>>
    BY <1>4 DEF Send
  <2>6. \A t \in Range(tasks)' \cup running' : t.model \in {"name", "number", "none"}
    BY <1>0, <2>5, ModelsTyped DEF computing
  <2> QED BY <1>0, <2>2, <2>3, <2>4, <2>5, <2>6 DEF loading, computing, Package
<1>5. ASSUME NEW m \in Msgs, Lookup(m)
      PROVE  WorkflowTyped'
  <2>1. UNCHANGED <<pkgs, acts, mail, role, calls, reply, computing>>
    BY <1>5, LookupOutcomes
  <2>2. timers' \in [Names -> Nat] /\ wasted' \in [Names -> Nat] /\ DOMAIN load' = Msgs
    BY <1>5, LoadTyped
  <2>3. /\ handler' \in [Names -> Msgs \cup {Nothing}]
        /\ serves' \in [Msgs -> Object \cup {Nothing}]
        /\ queue' \in [Msgs -> Seq(Msgs)]
        /\ worker' \in [Msgs -> Msgs \cup {"free", "dead"}]
        /\ at' \in [Msgs -> Steps]
    BY <1>5, LookupTyped
  <2>4. \A t \in Range(tasks)' \cup running' : t.model \in {"name", "number", "none"}
    BY <1>0, <2>1, ModelsTyped DEF computing
  <2> QED BY <1>0, <2>1, <2>2, <2>3, <2>4 DEF computing, Package
<1>6. ASSUME NEW h \in Msgs, Handle(h)
      PROVE  WorkflowTyped'
  <2> DEFINE m == Head(queue[h])
  <2>1. m \in Msgs /\ Tail(queue[h]) \in Seq(Msgs) /\ HandleOutcome(h, m)
    BY <1>6, HandleFacts, HandleOutcomes
  <2>2. queue' = [queue EXCEPT ![h] = Tail(@)]
        /\ UNCHANGED <<pkgs, acts, loading, handler, serves, mail, calls>>
    BY <1>6 DEF Handle
  <2>3. queue' \in [Msgs -> Seq(Msgs)]
    BY <1>0, <2>1, <2>2
  <2>4. /\ at' \in [Msgs -> Steps] /\ DOMAIN reply' = Msgs /\ DOMAIN role' = Msgs
        /\ worker' \in [Msgs -> Msgs \cup {"free", "dead"}]
        /\ tasks' \in Seq(Task) /\ running' \subseteq Task
        /\ result' \in [Msgs -> {"none", "ok", "err"}]
        /\ kernel' \in {"running", "dead"} /\ openai' \in BOOLEAN
    <3> HIDE DEF m
    <3>1. CASE \E step \in EndSteps \ {"unknown"} : \E sender :
                 EndsWith(h, m, step, sender) /\ UNCHANGED <<role, computing>>
      <4>1. UNCHANGED <<role, computing>>
        BY <3>1
      <4>2. /\ at' \in [Msgs -> Steps] /\ DOMAIN reply' = Msgs
            /\ worker' \in [Msgs -> Msgs \cup {"free", "dead"}]
        BY <1>0, <2>1, <3>1, EndsTyped
      <4> QED BY <1>0, <4>1, <4>2 DEF computing
    <3>2. CASE worker' = [worker EXCEPT ![h] = m] /\ UNCHANGED <<reply, role>> /\ Ask(m, 0, "name")
      <4>1. 0 \in Nat /\ "name" \in {"name", "number", "none"}
        OBVIOUS
      <4> QED BY <1>0, <2>1, <3>2, <4>1, AskTyped
    <3>3. ASSUME NEW s, worker' = [worker EXCEPT ![h] = m], UNCHANGED reply,
                 role' = [role EXCEPT ![m] = s], Ask(m, 0, RoleModel(serves[h].config, s))
          PROVE  /\ at' \in [Msgs -> Steps] /\ DOMAIN reply' = Msgs /\ DOMAIN role' = Msgs
                 /\ worker' \in [Msgs -> Msgs \cup {"free", "dead"}]
                 /\ tasks' \in Seq(Task) /\ running' \subseteq Task
                 /\ result' \in [Msgs -> {"none", "ok", "err"}]
                 /\ kernel' \in {"running", "dead"} /\ openai' \in BOOLEAN
      <4>1. 0 \in Nat /\ RoleModel(serves[h].config, s) \in {"name", "number", "none"}
        BY DEF RoleModel
      <4> QED BY <1>0, <2>1, <3>3, <4>1, AskTyped
    <3> QED BY <2>1, <3>1, <3>2, <3>3 DEF HandleOutcome
  <2>5. \A t \in Range(tasks)' \cup running' : t.model \in {"name", "number", "none"}
    BY <2>4, ModelsTyped
  <2> HIDE DEF m
  <2> QED BY <1>0, <2>2, <2>3, <2>4, <2>5 DEF loading, Package
<1>7. ASSUME NEW m \in Msgs, AnswerComes(m)
      PROVE  WorkflowTyped'
  <2>1. PICK h \in Msgs : AnswerOutcome(h, m)
    BY <1>7, AnswerOutcomes
  <2>2. UNCHANGED <<pkgs, acts, loading, handler, serves, queue, mail, role>>
    BY <1>7 DEF AnswerComes
  <2>3. /\ at' \in [Msgs -> Steps] /\ DOMAIN reply' = Msgs
        /\ calls' \in [Msgs -> Nat]
        /\ worker' \in [Msgs -> Msgs \cup {"free", "dead"}]
        /\ tasks' \in Seq(Task) /\ running' \subseteq Task
        /\ result' \in [Msgs -> {"none", "ok", "err"}]
        /\ kernel' \in {"running", "dead"} /\ openai' \in BOOLEAN
    <3>1. CASE \E step \in {"replied", "raised"} : \E sender :
                 EndsWith(h, m, step, sender) /\ UNCHANGED <<calls, computing>>
      <4>1. UNCHANGED <<calls, computing>>
        BY <3>1
      <4>2. {"replied", "raised"} \subseteq EndSteps
        BY DEF EndSteps
      <4>3. /\ at' \in [Msgs -> Steps] /\ DOMAIN reply' = Msgs
            /\ worker' \in [Msgs -> Msgs \cup {"free", "dead"}]
        BY <1>0, <3>1, <4>2, EndsTyped
      <4> QED BY <1>0, <4>1, <4>3 DEF computing
    <3>2. CASE /\ calls' = [calls EXCEPT ![m] = @ + 1]
               /\ Ask(m, calls[m] + 1, RoleModel(serves[h].config, role[m]))
               /\ UNCHANGED <<worker, reply>>
      <4>1. calls[m] + 1 \in Nat /\ RoleModel(serves[h].config, role[m]) \in {"name", "number", "none"}
        BY <1>0 DEF RoleModel
      <4> QED BY <1>0, <3>2, <4>1, AskTyped
    <3> QED BY <2>1, <3>1, <3>2 DEF AnswerOutcome
  <2>4. \A t \in Range(tasks)' \cup running' : t.model \in {"name", "number", "none"}
    BY <2>3, ModelsTyped
  <2> QED BY <1>0, <2>2, <2>3, <2>4 DEF loading, Package
<1>8. ASSUME UNCHANGED workflowVars
      PROVE  WorkflowTyped'
  BY <1>0, <1>8 DEF workflowVars, loading, bus, computing, Package
<1>9. ASSUME NEW n \in Names, ShellLooksUp(n)
      PROVE  WorkflowTyped'
  <2>1. /\ timers' = [timers EXCEPT ![Plain[n]] = @ + 1]
        /\ wasted' = [wasted EXCEPT ![Plain[n]] = @ + 1]
        /\ UNCHANGED <<pkgs, load, bus, mail, at, role, calls, reply, computing>>
    BY <1>9 DEF ShellLooksUp
  <2>2. acts' \in 0 .. MaxActs
    BY <1>0, <1>9, WorkflowAssumption DEF ShellLooksUp
  <2>3. timers' \in [Names -> Nat] /\ wasted' \in [Names -> Nat]
    <3>1. timers \in [Names -> Nat] /\ wasted \in [Names -> Nat]
      BY <1>0
    <3>2. timers[Plain[n]] + 1 \in Nat /\ wasted[Plain[n]] + 1 \in Nat
      BY <3>1, WorkflowAssumption
    <3> QED BY ONLY <2>1, <3>1, <3>2
  <2>4. \A t \in Range(tasks)' \cup running' : t.model \in {"name", "number", "none"}
    BY <1>0, <2>1, ModelsTyped DEF computing
  <2> QED BY <1>0, <2>1, <2>2, <2>3, <2>4 DEF bus, computing, Package
<1> QED BY <1>1, <1>2, <1>3, <1>4, <1>5, <1>6, <1>7, <1>8, <1>9 DEF WorkflowNext


-----------------------------------------------------------------------------
(* What a step changes.                                                     *)

\* What the user does: a change of a package, or a command that looks for an agent.
UserActs == Edit \/ (\E n \in Names : ShellLooksUp(n))

\* Neither the user nor the kernel and its nodes touch the bus or a coroutine, and
\* only a command of the shell makes a timer.
LEMMA QuietSteps ==
  ASSUME UserActs \/ KernelTakes \/ (\E t \in running : NodeEnds(t)) \/ UNCHANGED workflowVars
  PROVE  /\ load' = load
         /\ ~ (\E n \in Names : ShellLooksUp(n)) => timers' = timers /\ wasted' = wasted
         /\ handler' = handler /\ serves' = serves /\ queue' = queue /\ worker' = worker
         /\ mail' = mail /\ at' = at /\ role' = role /\ calls' = calls /\ reply' = reply
PROOF
BY DEF UserActs, Edit, ShellLooksUp, KernelTakes, NodeEnds, workflowVars, loading, bus

\* Sending starts a message, and queues it when its name is served.
LEMMA SendFacts ==
  ASSUME WorkflowIInv, NEW m \in Msgs, Send(m)
  PROVE  /\ at[m] = "idle"
         /\ \E x \in Mails[m] :
              /\ mail' = [mail EXCEPT ![m] = x] /\ Head(x.target) \in Names
              /\ \/ /\ handler[Head(x.target)] \in Msgs
                    /\ serves[handler[Head(x.target)]] # Nothing
                    /\ at' = [at EXCEPT ![m] = "queued"]
                    /\ queue' = [queue EXCEPT ![handler[Head(x.target)]] = Append(@, m)]
                 \/ at' = [at EXCEPT ![m] = "agent"] /\ queue' = queue
         /\ load' = load /\ timers' = timers /\ wasted' = wasted
         /\ handler' = handler /\ serves' = serves /\ worker' = worker
         /\ role' = role /\ calls' = calls /\ reply' = reply
         /\ tasks' = tasks /\ kernel' = kernel /\ openai' = openai
PROOF
<1>1. /\ at[m] = "idle"
      /\ UNCHANGED <<pkgs, acts, loading, handler, serves, worker, role, calls, reply, computing>>
  BY DEF Send
<1>2. PICK x \in Mails[m] :
        /\ mail' = [mail EXCEPT ![m] = x]
        /\ LET h == handler[Head(x.target)] IN
           IF h # Nothing
           THEN /\ at' = [at EXCEPT ![m] = "queued"]
                /\ queue' = [queue EXCEPT ![h] = Append(@, m)]
           ELSE /\ at' = [at EXCEPT ![m] = "agent"]
                /\ UNCHANGED queue
  BY DEF Send
<1>3. Head(x.target) \in Names
  BY WorkflowAssumption
<1>4. handler[Head(x.target)] \in Msgs \cup {Nothing}
  BY <1>3 DEF WorkflowIInv, WorkflowTyped, WorkflowTypeOK
<1>5. handler[Head(x.target)] # Nothing => serves[handler[Head(x.target)]] # Nothing
  BY <1>3 DEF WorkflowIInv, HandlersServe
<1> QED BY <1>1, <1>2, <1>3, <1>4, <1>5 DEF loading, computing

\* The message of a lookup is new to the bus.
LEMMA LookupFacts ==
  ASSUME WorkflowIInv, NEW m \in Msgs, Lookup(m)
  PROVE  /\ LooksUp(m) /\ at[m] # "idle" /\ Name(m) \in Names
         /\ serves[m] = Nothing /\ role[m] = Nothing /\ calls[m] = 0
         /\ \A n \in Names : handler[n] # m
         /\ mail' = mail /\ role' = role /\ calls' = calls /\ reply' = reply
         /\ tasks' = tasks /\ kernel' = kernel /\ openai' = openai
PROOF
<1>1. /\ at[m] \in {"agent", "workflow", "roles", "contact"}
      /\ UNCHANGED <<pkgs, acts, mail, role, calls, reply, computing>>
  BY LookupOutcomes
<1>2. Name(m) \in Names
  BY <1>1, SentFacts DEF WorkflowIInv
<1>3. LooksUp(m)
  BY <1>1 DEF LooksUp
<1>4. serves[m] = Nothing /\ role[m] = Nothing /\ calls[m] = 0 /\ \A n \in Names : handler[n] # m
  BY <1>3 DEF WorkflowIInv, LookupsAreNew
<1> QED BY <1>1, <1>2, <1>3, <1>4 DEF computing

\* A step of a lookup, variable by variable.
LEMMA LookupChanges ==
  ASSUME WorkflowIInv, NEW m \in Msgs, Lookup(m)
  PROVE  \/ /\ \E step \in {"workflow", "roles", "contact", "raised", "unknown"} :
                 at' = [at EXCEPT ![m] = step]
            /\ handler' = handler /\ serves' = serves /\ queue' = queue /\ worker' = worker
         \/ /\ \E object \in Object :
                 /\ object.kind = "workflow" => object.manned = Slots(object.config)
                 /\ serves' = [serves EXCEPT ![m] = object]
            /\ handler' = [handler EXCEPT ![Name(m)] = m]
            /\ queue' = [queue EXCEPT ![m] = Append(@, m)]
            /\ at' = [at EXCEPT ![m] = "queued"] /\ worker' = worker
         \/ /\ at' = at /\ handler' = handler /\ serves' = serves
            /\ queue' = queue /\ worker' = worker
PROOF
BY LookupOutcomes DEF LookupOutcome, LookupGoesTo, Registered, bus

\* What handling a message, or an answer, changes of it and of its worker.
LEMMA HandleChanges ==
  ASSUME WorkflowIInv, NEW h \in Msgs, Handle(h)
  PROVE  LET m == Head(queue[h]) IN
         /\ queue' = [queue EXCEPT ![h] = Tail(@)]
         /\ load' = load /\ timers' = timers /\ wasted' = wasted
         /\ handler' = handler /\ serves' = serves /\ mail' = mail /\ calls' = calls
         /\ \/ /\ \E step \in EndSteps \ {"unknown"} : \E sender :
                    at' = [at EXCEPT ![m] = step] /\ reply' = [reply EXCEPT ![m] = sender]
               /\ \E w \in {"free", "dead"} : worker' = [worker EXCEPT ![h] = w]
               /\ role' = role
               /\ tasks' = tasks /\ kernel' = kernel /\ openai' = openai
            \/ /\ at' = [at EXCEPT ![m] = "asking"] /\ reply' = reply
               /\ worker' = [worker EXCEPT ![h] = m]
               /\ kernel' = kernel /\ openai' = openai
               /\ \/ /\ role' = role
                     /\ tasks' = Append(tasks, [msg |-> m, call |-> 0, model |-> "name"])
                  \/ \E s : /\ h \in Workflows /\ Processes(h, m, s)
                            /\ role' = [role EXCEPT ![m] = s]
                            /\ tasks' = Append(tasks, [msg |-> m, call |-> 0,
                                                       model |-> RoleModel(serves[h].config, s)])
PROOF
<1> DEFINE m == Head(queue[h])
<1>1. HandleOutcome(h, m)
  BY HandleOutcomes
<1>2. queue' = [queue EXCEPT ![h] = Tail(@)]
      /\ UNCHANGED <<pkgs, acts, loading, handler, serves, mail, calls>>
  BY DEF Handle
<1> HIDE DEF m
<1>3. \/ /\ \E step \in EndSteps \ {"unknown"} : \E sender :
              at' = [at EXCEPT ![m] = step] /\ reply' = [reply EXCEPT ![m] = sender]
         /\ \E w \in {"free", "dead"} : worker' = [worker EXCEPT ![h] = w]
         /\ role' = role
         /\ tasks' = tasks /\ kernel' = kernel /\ openai' = openai
      \/ /\ at' = [at EXCEPT ![m] = "asking"] /\ reply' = reply
         /\ worker' = [worker EXCEPT ![h] = m]
         /\ kernel' = kernel /\ openai' = openai
         /\ \/ /\ role' = role
               /\ tasks' = Append(tasks, [msg |-> m, call |-> 0, model |-> "name"])
            \/ \E s : /\ h \in Workflows /\ Processes(h, m, s)
                      /\ role' = [role EXCEPT ![m] = s]
                      /\ tasks' = Append(tasks, [msg |-> m, call |-> 0,
                                                 model |-> RoleModel(serves[h].config, s)])
  <2>1. CASE \E step \in EndSteps \ {"unknown"} : \E sender :
               /\ EndsWith(h, m, step, sender)
               /\ UNCHANGED <<role, computing>>
    BY <2>1 DEF EndsWith, computing
  <2>2. CASE /\ worker' = [worker EXCEPT ![h] = m]
             /\ UNCHANGED reply
             /\ \/ Ask(m, 0, "name") /\ UNCHANGED role
                \/ \E s : /\ h \in Workflows /\ Processes(h, m, s)
                          /\ role' = [role EXCEPT ![m] = s]
                          /\ Ask(m, 0, RoleModel(serves[h].config, s))
    BY <2>2 DEF Ask
  <2> QED BY <1>1, <2>1, <2>2 DEF HandleOutcome
<1> QED BY <1>2, <1>3 DEF m, loading

\* An answer loads nothing and registers nothing.
LEMMA AnswerChanges ==
  ASSUME WorkflowIInv, NEW m \in Msgs, AnswerComes(m)
  PROVE  /\ at[m] = "asking"
         /\ load' = load /\ timers' = timers /\ wasted' = wasted
         /\ handler' = handler /\ serves' = serves /\ queue' = queue
         /\ mail' = mail /\ role' = role
         /\ \E h \in Msgs :
              /\ worker[h] = m /\ \A g \in Msgs : worker[g] = m => g = h
              /\ \/ /\ \E step \in {"replied", "raised"} : \E sender :
                         /\ at' = [at EXCEPT ![m] = step] /\ reply' = [reply EXCEPT ![m] = sender]
                         /\ sender # Nothing /\ role[m] # Nothing =>
                              sender = RoleId(serves[h].config, role[m])
                    /\ \E w \in {"free", "dead"} : worker' = [worker EXCEPT ![h] = w]
                    /\ calls' = calls
                    /\ tasks' = tasks /\ kernel' = kernel /\ openai' = openai
                 \/ /\ h \in Workflows /\ role[m] # Nothing /\ Processes(h, m, role[m])
                    /\ at' = [at EXCEPT ![m] = "asking"] /\ reply' = reply /\ worker' = worker
                    /\ calls[m] <= StackLimit /\ calls' = [calls EXCEPT ![m] = @ + 1]
                    /\ kernel' = kernel /\ openai' = openai
                    /\ tasks' = Append(tasks, [msg |-> m, call |-> calls[m] + 1,
                                               model |-> RoleModel(serves[h].config, role[m])])
PROOF
<1>1. at[m] = "asking" /\ UNCHANGED <<pkgs, acts, loading, handler, serves, queue, mail, role>>
  BY DEF AnswerComes
<1>2. PICK h \in Msgs : worker[h] = m /\ AnswerOutcome(h, m)
  BY AnswerOutcomes
<1>3. \A g \in Msgs : worker[g] = m => g = h
  BY <1>2 DEF WorkflowIInv, AskedByOne
<1>4. CASE \E step \in {"replied", "raised"} : \E sender :
             /\ EndsWith(h, m, step, sender)
             /\ sender # Nothing /\ role[m] # Nothing => sender = RoleId(serves[h].config, role[m])
             /\ UNCHANGED <<calls, computing>>
  BY <1>1, <1>2, <1>3, <1>4 DEF EndsWith, computing, loading
<1>5. CASE /\ h \in Workflows /\ role[m] # Nothing /\ Processes(h, m, role[m])
           /\ calls[m] <= StackLimit
           /\ calls' = [calls EXCEPT ![m] = @ + 1]
           /\ Ask(m, calls[m] + 1, RoleModel(serves[h].config, role[m]))
           /\ UNCHANGED <<worker, reply>>
  BY <1>1, <1>2, <1>3, <1>5 DEF Ask, loading
<1> QED BY <1>2, <1>4, <1>5 DEF AnswerOutcome

\* A step is one of five.
LEMMA WorkflowSteps ==
  ASSUME [WorkflowNext]_workflowVars
  PROVE  \/ UserActs \/ KernelTakes \/ (\E t \in running : NodeEnds(t)) \/ UNCHANGED workflowVars
         \/ \E m \in Msgs : Send(m) \/ Lookup(m) \/ Handle(m) \/ AnswerComes(m)
PROOF
BY DEF WorkflowNext, UserActs


-----------------------------------------------------------------------------
(* Lookups and handlers.                                                    *)

\* Every step keeps lookups new.
LEMMA LookupsKept ==
  ASSUME WorkflowIInv, [WorkflowNext]_workflowVars
  PROVE  LookupsAreNew'
PROOF
<1>0. LookupsAreNew /\ at \in [Msgs -> Steps] /\ DOMAIN mail = Msgs /\ DOMAIN role = Msgs
      /\ serves \in [Msgs -> Object \cup {Nothing}] /\ handler \in [Names -> Msgs \cup {Nothing}]
      /\ calls \in [Msgs -> Nat]
  BY DEF WorkflowIInv, WorkflowTyped, WorkflowTypeOK
<1>1. ASSUME UserActs \/ KernelTakes \/ (\E t \in running : NodeEnds(t)) \/ UNCHANGED workflowVars
      PROVE  LookupsAreNew'
  <2>1. /\ handler' = handler /\ serves' = serves
        /\ mail' = mail /\ at' = at /\ role' = role /\ calls' = calls
    BY <1>1, QuietSteps
  <2> QED BY <1>0, <2>1 DEF LookupsAreNew, LooksUp
<1>2. ASSUME NEW m \in Msgs, Send(m)
      PROVE  LookupsAreNew'
  <2>1. at[m] = "idle" /\ handler' = handler /\ serves' = serves /\ role' = role /\ calls' = calls
    BY <1>2, SendFacts
  <2>2. PICK x \in Mails[m] : mail' = [mail EXCEPT ![m] = x]
    BY <1>2, SendFacts
  <2>3. at' = [at EXCEPT ![m] = "queued"] \/ at' = [at EXCEPT ![m] = "agent"]
    BY <1>2, SendFacts
  <2>4. ASSUME NEW k \in Msgs
        PROVE  /\ at'[k] # "idle" => mail'[k] \in Mails[k]
               /\ LooksUp(k)' => serves'[k] = Nothing /\ \A n \in Names : handler'[n] # k
               /\ LooksUp(k)' \/ at'[k] = "queued" => role'[k] = Nothing /\ calls'[k] = 0
    <3>1. CASE k = m
      BY <1>0, <2>1, <2>2, <2>3, <3>1 DEF LookupsAreNew, LooksUp
    <3>2. CASE k # m
      BY <1>0, <2>1, <2>2, <2>3, <3>2 DEF LookupsAreNew, LooksUp
    <3> QED BY <3>1, <3>2
  <2> QED BY <2>4 DEF LookupsAreNew
<1>3. ASSUME NEW m \in Msgs, Lookup(m)
      PROVE  LookupsAreNew'
  <2>1. /\ LooksUp(m) /\ Name(m) \in Names /\ at[m] # "idle"
        /\ mail' = mail /\ role' = role /\ calls' = calls
    BY <1>3, LookupFacts
  <2>2. \/ /\ \E step \in {"workflow", "roles", "contact", "raised", "unknown"} :
                 at' = [at EXCEPT ![m] = step]
           /\ handler' = handler /\ serves' = serves
        \/ /\ \E object \in Object : serves' = [serves EXCEPT ![m] = object]
           /\ handler' = [handler EXCEPT ![Name(m)] = m]
           /\ at' = [at EXCEPT ![m] = "queued"]
        \/ at' = at /\ handler' = handler /\ serves' = serves
    BY <1>3, LookupChanges
  <2>3. ASSUME NEW k \in Msgs
        PROVE  /\ at'[k] # "idle" => mail'[k] \in Mails[k]
               /\ LooksUp(k)' => serves'[k] = Nothing /\ \A n \in Names : handler'[n] # k
               /\ LooksUp(k)' \/ at'[k] = "queued" => role'[k] = Nothing /\ calls'[k] = 0
    <3>1. CASE k = m
      BY <1>0, <2>1, <2>2, <3>1 DEF LookupsAreNew, LooksUp
    <3>2. CASE k # m
      BY <1>0, <2>1, <2>2, <3>2 DEF LookupsAreNew, LooksUp
    <3> QED BY <3>1, <3>2
  <2> QED BY <2>3 DEF LookupsAreNew
<1>4. ASSUME NEW m \in Msgs, handler' = handler, serves' = serves, mail' = mail,
             at[m] # "idle", at[m] \notin {"agent", "workflow", "roles", "contact"},
             \E step \in EndSteps \cup {"asking"} : at' = [at EXCEPT ![m] = step],
             \A k \in Msgs \ {m} : role'[k] = role[k] /\ calls'[k] = calls[k]
      PROVE  LookupsAreNew'
  <2>1. ASSUME NEW k \in Msgs
        PROVE  /\ at'[k] # "idle" => mail'[k] \in Mails[k]
               /\ LooksUp(k)' => serves'[k] = Nothing /\ \A n \in Names : handler'[n] # k
               /\ LooksUp(k)' \/ at'[k] = "queued" => role'[k] = Nothing /\ calls'[k] = 0
    <3>1. CASE k = m
      BY <1>0, <1>4, <3>1 DEF LookupsAreNew, LooksUp, EndSteps
    <3>2. CASE k # m
      BY <1>0, <1>4, <3>2 DEF LookupsAreNew, LooksUp
    <3> QED BY <3>1, <3>2
  <2> QED BY <2>1 DEF LookupsAreNew
<1>5. ASSUME NEW h \in Msgs, Handle(h)
      PROVE  LookupsAreNew'
  <2> DEFINE m == Head(queue[h])
  <2>1. m \in Msgs /\ at[m] = "queued"
    BY <1>5, HandleFacts
  <2>2. /\ handler' = handler /\ serves' = serves /\ mail' = mail /\ calls' = calls
        /\ role' = role \/ \E s : role' = [role EXCEPT ![m] = s]
        /\ \E step \in EndSteps \cup {"asking"} : at' = [at EXCEPT ![m] = step]
    BY <1>5, HandleChanges
  <2> HIDE DEF m
  <2>3. \A k \in Msgs \ {m} : role'[k] = role[k] /\ calls'[k] = calls[k]
    BY <1>0, <2>2
  <2> QED BY <1>4, <2>1, <2>2, <2>3
<1>6. ASSUME NEW m \in Msgs, AnswerComes(m)
      PROVE  LookupsAreNew'
  <2>1. /\ at[m] = "asking" /\ handler' = handler /\ serves' = serves /\ mail' = mail /\ role' = role
        /\ calls' = calls \/ calls' = [calls EXCEPT ![m] = @ + 1]
        /\ \E step \in {"replied", "raised", "asking"} : at' = [at EXCEPT ![m] = step]
    BY <1>6, AnswerChanges
  <2>2. {"replied", "raised", "asking"} \subseteq EndSteps \cup {"asking"}
    BY DEF EndSteps
  <2>3. \A k \in Msgs \ {m} : role'[k] = role[k] /\ calls'[k] = calls[k]
    BY <1>0, <2>1
  <2> QED BY <1>4, <2>1, <2>2, <2>3
<1> QED BY <1>1, <1>2, <1>3, <1>5, <1>6, WorkflowSteps

\* Every step keeps names served by their own lookups.
LEMMA HandlersKept ==
  ASSUME WorkflowIInv, [WorkflowNext]_workflowVars
  PROVE  HandlersServe'
PROOF
<1>0. HandlersServe /\ LookupsAreNew /\ at \in [Msgs -> Steps] /\ DOMAIN mail = Msgs
      /\ serves \in [Msgs -> Object \cup {Nothing}] /\ handler \in [Names -> Msgs \cup {Nothing}]
      /\ Nothing \notin Msgs
  BY WorkflowAssumption DEF WorkflowIInv, WorkflowTyped, WorkflowTypeOK
<1>1. ASSUME handler' = handler, serves' = serves, mail' = mail
      PROVE  HandlersServe'
  BY <1>0, <1>1 DEF HandlersServe, Name
<1>2. ASSUME UserActs \/ KernelTakes \/ (\E t \in running : NodeEnds(t)) \/ UNCHANGED workflowVars
      PROVE  HandlersServe'
  BY <1>1, <1>2, QuietSteps
<1>3. ASSUME NEW m \in Msgs, Send(m)
      PROVE  HandlersServe'
  <2>1. at[m] = "idle" /\ handler' = handler /\ serves' = serves
    BY <1>3, SendFacts
  <2>2. PICK x \in Mails[m] : mail' = [mail EXCEPT ![m] = x]
    BY <1>3, SendFacts
  <2>3. \A n \in Names : handler[n] # m
    BY <1>0, <2>1 DEF LookupsAreNew, LooksUp
  <2>4. \A k \in Msgs \ {m} : mail'[k] = mail[k]
    BY <1>0, <2>2
  <2>5. ASSUME NEW n \in Names, handler[n] # Nothing
        PROVE  serves[handler[n]] # Nothing /\ Head(mail'[handler[n]].target) = n
    <3>1. handler[n] \in Msgs \ {m}
      BY <1>0, <2>3, <2>5
    <3>2. mail'[handler[n]] = mail[handler[n]]
      BY <2>4, <3>1
    <3> QED BY <1>0, <2>5, <3>2 DEF HandlersServe, Name
  <2> QED BY <2>1, <2>5 DEF HandlersServe, Name
<1>4. ASSUME NEW m \in Msgs, Lookup(m)
      PROVE  HandlersServe'
  <2>1. Name(m) \in Names /\ mail' = mail
    BY <1>4, LookupFacts
  <2>2. \/ handler' = handler /\ serves' = serves
        \/ /\ \E object \in Object : serves' = [serves EXCEPT ![m] = object]
           /\ handler' = [handler EXCEPT ![Name(m)] = m]
    BY <1>4, LookupChanges
  <2>3. CASE handler' = handler /\ serves' = serves
    BY <1>1, <2>1, <2>3
  <2>4. CASE /\ \E object \in Object : serves' = [serves EXCEPT ![m] = object]
             /\ handler' = [handler EXCEPT ![Name(m)] = m]
    <3>1. serves'[m] # Nothing /\ \A k \in Msgs \ {m} : serves'[k] = serves[k]
      BY <1>0, <2>4, ObjectFacts
    <3>2. ASSUME NEW n \in Names, handler'[n] # Nothing
          PROVE  serves'[handler'[n]] # Nothing /\ Head(mail[handler'[n]].target) = n
      <4>1. CASE n = Name(m)
        <5>1. handler'[n] = m
          BY <1>0, <2>4, <4>1
        <5> QED BY <3>1, <4>1, <5>1 DEF Name
      <4>2. CASE n # Name(m)
        <5>1. handler'[n] = handler[n]
          BY <1>0, <2>4, <4>2
        <5>2. serves[handler[n]] # Nothing /\ Name(handler[n]) = n /\ handler[n] \in Msgs
          BY <1>0, <3>2, <5>1 DEF HandlersServe
        <5> QED BY <3>1, <5>1, <5>2 DEF Name
      <4> QED BY <4>1, <4>2
    <3> QED BY <2>1, <3>2 DEF HandlersServe, Name
  <2> QED BY <2>2, <2>3, <2>4
<1>5. ASSUME NEW h \in Msgs, Handle(h)
      PROVE  HandlersServe'
  BY <1>1, <1>5, HandleChanges
<1>6. ASSUME NEW m \in Msgs, AnswerComes(m)
      PROVE  HandlersServe'
  BY <1>1, <1>6, AnswerChanges
<1> QED BY <1>2, <1>3, <1>4, <1>5, <1>6, WorkflowSteps

\* A handler never serves anything else.
LEMMA ServesKept ==
  ASSUME WorkflowIInv, [WorkflowNext]_workflowVars
  PROVE  \A h \in Msgs : serves[h] # Nothing => serves'[h] = serves[h]
PROOF
<1>0. serves \in [Msgs -> Object \cup {Nothing}]
  BY DEF WorkflowIInv, WorkflowTyped, WorkflowTypeOK
<1>1. ASSUME NEW m \in Msgs, Lookup(m), NEW h \in Msgs, serves[h] # Nothing
      PROVE  serves'[h] = serves[h]
  <2>1. serves[m] = Nothing
    BY <1>1, LookupFacts
  <2>2. serves' = serves \/ \E object : serves' = [serves EXCEPT ![m] = object]
    BY <1>1, LookupChanges
  <2> QED BY <1>0, <1>1, <2>1, <2>2
<1>2. ASSUME ~ (\E m \in Msgs : Lookup(m))
      PROVE  serves' = serves
  <2>1. CASE UserActs \/ KernelTakes \/ (\E t \in running : NodeEnds(t)) \/ UNCHANGED workflowVars
    BY <2>1, QuietSteps
  <2>2. CASE \E m \in Msgs : Send(m) \/ Handle(m) \/ AnswerComes(m)
    BY <2>2, SendFacts, HandleChanges, AnswerChanges
  <2> QED BY <1>2, <2>1, <2>2, WorkflowSteps
<1> QED BY <1>1, <1>2

\* What serves a name has all its agents.
LEMMA MannedKept ==
  ASSUME WorkflowIInv, [WorkflowNext]_workflowVars
  PROVE  ServedAreManned'
PROOF
<1>0. ServedAreManned /\ serves \in [Msgs -> Object \cup {Nothing}]
  BY DEF WorkflowIInv, WorkflowTyped, WorkflowTypeOK
<1>1. ASSUME serves' = serves
      PROVE  ServedAreManned'
  BY <1>0, <1>1 DEF ServedAreManned, Workflows
<1>2. ASSUME NEW m \in Msgs, Lookup(m)
      PROVE  ServedAreManned'
  <2>1. serves' = serves \/ \E object \in Object :
             /\ object.kind = "workflow" => object.manned = Slots(object.config)
             /\ serves' = [serves EXCEPT ![m] = object]
    BY <1>2, LookupChanges
  <2>2. ASSUME NEW object \in Object,
               object.kind = "workflow" => object.manned = Slots(object.config),
               serves' = [serves EXCEPT ![m] = object]
        PROVE  ServedAreManned'
    <3>1. ASSUME NEW h \in Msgs, serves'[h] # Nothing, serves'[h].kind = "workflow"
          PROVE  serves'[h].manned = Slots(serves'[h].config)
      <4>1. CASE h = m
        BY <1>0, <2>2, <3>1, <4>1
      <4>2. CASE h # m
        <5>1. serves'[h] = serves[h]
          BY <1>0, <2>2, <4>2
        <5> QED BY <1>0, <3>1, <5>1 DEF ServedAreManned, Workflows
      <4> QED BY <4>1, <4>2
    <3> QED BY <3>1 DEF ServedAreManned, Workflows
  <2> QED BY <1>1, <2>1, <2>2
<1>3. ASSUME ~ (\E m \in Msgs : Lookup(m))
      PROVE  serves' = serves
  <2>1. CASE UserActs \/ KernelTakes \/ (\E t \in running : NodeEnds(t)) \/ UNCHANGED workflowVars
    BY <2>1, QuietSteps
  <2>2. CASE \E m \in Msgs : Send(m) \/ Handle(m) \/ AnswerComes(m)
    BY <2>2, SendFacts, HandleChanges, AnswerChanges
  <2> QED BY <1>3, <2>1, <2>2, WorkflowSteps
<1> QED BY <1>1, <1>2, <1>3

\* Every step keeps the completions of a message bounded.
LEMMA FunctionsKept ==
  ASSUME WorkflowIInv, [WorkflowNext]_workflowVars
  PROVE  FunctionsAreBounded'
PROOF
<1>0. FunctionsAreBounded /\ calls \in [Msgs -> Nat] /\ StackLimit \in Nat
  BY WorkflowAssumption DEF WorkflowIInv, WorkflowTyped, WorkflowTypeOK
<1>1. ASSUME calls' = calls
      PROVE  FunctionsAreBounded'
  BY <1>0, <1>1 DEF FunctionsAreBounded
<1>2. ASSUME NEW m \in Msgs, AnswerComes(m)
      PROVE  FunctionsAreBounded'
  <2>1. calls' = calls \/ (calls[m] <= StackLimit /\ calls' = [calls EXCEPT ![m] = @ + 1])
    BY <1>2, AnswerChanges
  <2>2. CASE calls[m] <= StackLimit /\ calls' = [calls EXCEPT ![m] = @ + 1]
    <3>1. ASSUME NEW k \in Msgs
          PROVE  calls'[k] <= StackLimit + 1
      <4>1. calls[k] <= StackLimit + 1 /\ calls[k] \in Nat /\ calls[m] \in Nat
        BY <1>0 DEF FunctionsAreBounded
      <4>2. calls'[k] = calls[k] \/ (k = m /\ calls'[k] = calls[m] + 1)
        BY <1>0, <2>2
      <4> QED BY ONLY <1>0, <2>2, <4>1, <4>2
    <3> QED BY <3>1 DEF FunctionsAreBounded
  <2> QED BY <1>1, <2>1, <2>2
<1>3. ASSUME ~ (\E m \in Msgs : AnswerComes(m))
      PROVE  calls' = calls
  <2>1. CASE UserActs \/ KernelTakes \/ (\E t \in running : NodeEnds(t)) \/ UNCHANGED workflowVars
    BY <2>1, QuietSteps
  <2>2. CASE \E m \in Msgs : Send(m) \/ Handle(m) \/ Lookup(m)
    BY <2>2, SendFacts, HandleChanges, LookupFacts
  <2> QED BY <1>3, <2>1, <2>2, WorkflowSteps
<1> QED BY <1>1, <1>2, <1>3


\* A load of roles is of a config, and what it has still to get is part of it.
LoadIsOfConfig(l) ==
  /\ l.config \in DOMAIN Config
  /\ l = [config |-> l.config, left |-> l.left]
  /\ l.left \subseteq Slots(l.config)

\* It is enough that the load of the one message that moves is of its config.
LEMMA LoadsByOne ==
  ASSUME LoadsAreOfConfigs, NEW m \in Msgs,
         \A k \in Msgs \ {m} : at'[k] = at[k] /\ load'[k] = load[k],
         at'[m] = "roles" => LoadIsOfConfig(load'[m])
  PROVE  LoadsAreOfConfigs'
PROOF
BY DEF LoadsAreOfConfigs, LoadIsOfConfig

\* Every step keeps the loads of their configs.
LEMMA LoadsKept ==
  ASSUME WorkflowIInv, [WorkflowNext]_workflowVars
  PROVE  LoadsAreOfConfigs'
PROOF
<1>0. LoadsAreOfConfigs /\ at \in [Msgs -> Steps] /\ DOMAIN load = Msgs
      /\ \A h \in Msgs : queue[h] \in Seq(Msgs)
  BY DEF WorkflowIInv, WorkflowTyped, WorkflowTypeOK
<1>1. ASSUME UserActs \/ KernelTakes \/ (\E t \in running : NodeEnds(t)) \/ UNCHANGED workflowVars
      PROVE  LoadsAreOfConfigs'
  <2>1. at' = at /\ load' = load
    BY <1>1, QuietSteps
  <2> QED BY <1>0, <2>1 DEF LoadsAreOfConfigs
<1>2. ASSUME NEW m \in Msgs, load' = load,
             \E step \in Steps \ {"roles"} : at' = [at EXCEPT ![m] = step]
      PROVE  LoadsAreOfConfigs'
  BY <1>0, <1>2, LoadsByOne
<1>3. ASSUME NEW m \in Msgs, Send(m)
      PROVE  LoadsAreOfConfigs'
  <2>1. load' = load /\ \E step \in {"queued", "agent"} : at' = [at EXCEPT ![m] = step]
    BY <1>3, SendFacts
  <2>2. {"queued", "agent"} \subseteq Steps \ {"roles"}
    BY DEF Steps
  <2> QED BY <1>2, <2>1, <2>2
<1>4. ASSUME NEW m \in Msgs, Lookup(m)
      PROVE  LoadsAreOfConfigs'
  <2>1. Name(m) \in Names
    BY <1>4, LookupFacts
  <2>2. ASSUME LookUpAgent(m)
        PROVE  LoadsAreOfConfigs'
    <3>1. load' = load /\ \E step \in {"raised", "workflow", "queued"} : at' = [at EXCEPT ![m] = step]
      <4>1. AgentGot(Name(m)) \in {"raises", "none", "agent"}
        BY DEF AgentGot
      <4> QED BY <2>2, <4>1 DEF LookUpAgent, LookupGoesTo, Registered
    <3>2. {"raised", "workflow", "queued"} \subseteq Steps \ {"roles"}
      BY DEF Steps, EndSteps
    <3> QED BY <1>2, <3>1, <3>2
  <2>3. ASSUME LookUpContact(m)
        PROVE  LoadsAreOfConfigs'
    <3>1. load' = load /\ \E step \in {"unknown", "queued"} : at' = [at EXCEPT ![m] = step]
      BY <2>3 DEF LookUpContact, LookupGoesTo, Registered
    <3>2. {"unknown", "queued"} \subseteq Steps \ {"roles"}
      BY DEF Steps, EndSteps
    <3> QED BY <1>2, <3>1, <3>2
  <2>4. ASSUME LookUpWorkflow(m)
        PROVE  LoadsAreOfConfigs'
    <3> DEFINE c == Loaded("workflows", Name(m))
    <3>0. \/ load' = load /\ \E step \in {"contact", "queued"} : at' = [at EXCEPT ![m] = step]
          \/ /\ c \in DOMAIN Config /\ at' = [at EXCEPT ![m] = "roles"]
             /\ load' = [load EXCEPT ![m] = [config |-> c, left |-> Slots(c)]]
      BY <2>1, <2>4, WorkflowLookedUp DEF WorkflowIInv, LookupGoesTo, Registered
    <3> HIDE DEF c
    <3>1. CASE load' = load /\ \E step \in {"contact", "queued"} : at' = [at EXCEPT ![m] = step]
      <4>1. {"contact", "queued"} \subseteq Steps \ {"roles"}
        BY DEF Steps
      <4> QED BY <1>2, <3>1, <4>1
    <3>2. CASE /\ c \in DOMAIN Config /\ at' = [at EXCEPT ![m] = "roles"]
               /\ load' = [load EXCEPT ![m] = [config |-> c, left |-> Slots(c)]]
      <4>1. LoadIsOfConfig(load'[m])
        BY <1>0, <3>2 DEF LoadIsOfConfig
      <4> QED BY <1>0, <3>2, <4>1, LoadsByOne
    <3> QED BY <3>0, <3>1, <3>2
  <2>5. ASSUME LoadRole(m)
        PROVE  LoadsAreOfConfigs'
    <3>1. at[m] = "roles"
      BY <2>5 DEF LoadRole
    <3>2. LoadIsOfConfig(load[m])
      BY <1>0, <3>1 DEF LoadsAreOfConfigs, LoadIsOfConfig
    <3>3. \/ \E step \in {"raised", "contact", "queued"} :
               at' = [at EXCEPT ![m] = step] /\ load' = [load EXCEPT ![m] = Nothing]
          \/ \E s : load' = [load EXCEPT ![m].left = @ \ {s}] /\ at' = at
      <4>1. PICK s \in load[m].left :
              LET a == AgentOf(load[m].config, s) IN
              CASE AgentGot(a) = "raises" -> LookupGoesTo(m, "raised") /\ GivenUp(m)
                [] AgentGot(a) = "none" -> LookupGoesTo(m, "contact") /\ GivenUp(m)
                [] AgentGot(a) = "agent" ->
                     /\ timers' = [timers EXCEPT ![a] = @ + 1]
                     /\ IF load[m].left = {s}
                        THEN /\ Registered(m, [kind |-> "workflow", config |-> load[m].config,
                                               manned |-> Got(load[m]) \cup {s}])
                             /\ load' = [load EXCEPT ![m] = Nothing]
                        ELSE /\ load' = [load EXCEPT ![m].left = @ \ {s}]
                             /\ UNCHANGED <<bus, at, wasted>>
        BY <2>5 DEF LoadRole
      <4>2. AgentGot(AgentOf(load[m].config, s)) \in {"raises", "none", "agent"}
        BY DEF AgentGot
      <4> QED BY <4>1, <4>2 DEF LookupGoesTo, GivenUp, Registered
    <3>4. CASE \E step \in {"raised", "contact", "queued"} :
                 at' = [at EXCEPT ![m] = step] /\ load' = [load EXCEPT ![m] = Nothing]
      <4>1. at'[m] # "roles"
        BY <1>0, <3>4
      <4> QED BY <1>0, <3>4, <4>1, LoadsByOne
    <3>5. ASSUME NEW s, load' = [load EXCEPT ![m].left = @ \ {s}], at' = at
          PROVE  LoadsAreOfConfigs'
      <4>1. load'[m] = [config |-> load[m].config, left |-> load[m].left \ {s}]
        BY <1>0, <3>2, <3>5 DEF LoadIsOfConfig
      <4>2. LoadIsOfConfig(load'[m])
        BY <3>2, <4>1 DEF LoadIsOfConfig
      <4> QED BY <1>0, <3>5, <4>2, LoadsByOne
    <3> QED BY <3>3, <3>4, <3>5
  <2> QED BY <1>4, <2>2, <2>3, <2>4, <2>5 DEF Lookup
<1>5. ASSUME NEW h \in Msgs, Handle(h)
      PROVE  LoadsAreOfConfigs'
  <2> DEFINE m == Head(queue[h])
  <2>1. m \in Msgs
    BY <1>5, HandleFacts
  <2>2. load' = load /\ \E step \in EndSteps \cup {"asking"} : at' = [at EXCEPT ![m] = step]
    BY <1>5, HandleChanges
  <2>3. EndSteps \cup {"asking"} \subseteq Steps \ {"roles"}
    BY DEF Steps, EndSteps
  <2> HIDE DEF m
  <2> QED BY <1>2, <2>1, <2>2, <2>3
<1>6. ASSUME NEW m \in Msgs, AnswerComes(m)
      PROVE  LoadsAreOfConfigs'
  <2>1. load' = load /\ \E step \in {"replied", "raised", "asking"} : at' = [at EXCEPT ![m] = step]
    BY <1>6, AnswerChanges
  <2>2. {"replied", "raised", "asking"} \subseteq Steps \ {"roles"}
    BY DEF Steps, EndSteps
  <2> QED BY <1>2, <2>1, <2>2
<1> QED BY <1>1, <1>3, <1>4, <1>5, <1>6, WorkflowSteps

-----------------------------------------------------------------------------
(* Queues and workers.                                                      *)

\* A message that is in no queue may be put into one.
LEMMA QueueGrows ==
  ASSUME WorkflowIInv, NEW m \in Msgs, NEW h \in Msgs, at[m] # "queued",
         at' = [at EXCEPT ![m] = "queued"],
         queue' = [queue EXCEPT ![h] = Append(@, m)],
         serves'[h] # Nothing, \A g \in Msgs : serves[g] # Nothing => serves'[g] # Nothing
  PROVE  QueuedOnce'
PROOF
<1>0. queue \in [Msgs -> Seq(Msgs)] /\ at \in [Msgs -> Steps] /\ QueuedOnce
  BY DEF WorkflowIInv, WorkflowTyped, WorkflowTypeOK
<1>1. Len(queue[h]) \in Nat /\ DOMAIN queue[h] = 1 .. Len(queue[h])
  BY <1>0
<1> DEFINE n == Len(queue[h]) + 1
<1>2. /\ DOMAIN queue'[h] = (DOMAIN queue[h]) \cup {n} /\ n \notin DOMAIN queue[h]
      /\ queue'[h][n] = m /\ \A i \in DOMAIN queue[h] : queue'[h][i] = queue[h][i]
  <2>1. queue'[h] = Append(queue[h], m)
    BY <1>0
  <2>2. queue[h] \in Seq(Msgs)
    BY <1>0
  <2> QED BY <1>1, <2>1, <2>2, AppendProperties
<1>3. \A g \in Msgs \ {h} : queue'[g] = queue[g]
  BY <1>0
<1> HIDE DEF n
<1>4. \A g \in Msgs : \A i \in DOMAIN queue[g] : queue[g][i] \in Msgs /\ queue[g][i] # m
  <2>1. \A g \in Msgs : \A i \in DOMAIN queue[g] : queue[g][i] \in Msgs
    BY <1>0
  <2> QED BY <1>0, <2>1 DEF QueuedOnce
<1>5. ASSUME NEW g \in Msgs, NEW i \in DOMAIN queue'[g]
      PROVE  \/ i \in DOMAIN queue[g] /\ queue'[g][i] = queue[g][i]
             \/ g = h /\ i = n /\ queue'[g][i] = m
  BY <1>2, <1>3, <1>5
<1>6. ASSUME NEW g \in Msgs, NEW i \in DOMAIN queue'[g]
      PROVE  at'[queue'[g][i]] = "queued" /\ serves'[g] # Nothing
  <2>1. CASE i \in DOMAIN queue[g] /\ queue'[g][i] = queue[g][i]
    <3>1. at[queue[g][i]] = "queued" /\ serves[g] # Nothing /\ queue[g][i] \in Msgs /\ queue[g][i] # m
      BY <1>0, <1>4, <2>1 DEF QueuedOnce
    <3> QED BY <1>0, <2>1, <3>1
  <2>2. CASE g = h /\ i = n /\ queue'[g][i] = m
    BY <1>0, <2>2
  <2> QED BY <1>5, <2>1, <2>2
<1>7. ASSUME NEW g \in Msgs, NEW i \in DOMAIN queue'[g],
             NEW k \in Msgs, NEW j \in DOMAIN queue'[k], queue'[g][i] = queue'[k][j]
      PROVE  k = g /\ j = i
  <2>1. CASE i \in DOMAIN queue[g] /\ queue'[g][i] = queue[g][i]
    <3>1. j \in DOMAIN queue[k] /\ queue'[k][j] = queue[k][j]
      BY <1>4, <1>5, <1>7, <2>1
    <3>2. \A p \in DOMAIN queue[g], q \in DOMAIN queue[k] :
            queue[g][p] = queue[k][q] => k = g /\ q = p
      BY <1>0 DEF QueuedOnce
    <3>3. queue[g][i] = queue[k][j]
      BY <1>7, <2>1, <3>1
    <3> QED BY ONLY <2>1, <3>1, <3>2, <3>3
  <2>2. CASE g = h /\ i = n /\ queue'[g][i] = m
    <3>1. k = h /\ j = n
      BY <1>4, <1>5, <1>7, <2>2
    <3> QED BY <2>2, <3>1
  <2> QED BY <1>5, <2>1, <2>2
<1> QED BY <1>6, <1>7 DEF QueuedOnce

\* Every step keeps a message in one place of one queue.
LEMMA QueuedKept ==
  ASSUME WorkflowIInv, [WorkflowNext]_workflowVars
  PROVE  QueuedOnce'
PROOF
<1>0. queue \in [Msgs -> Seq(Msgs)] /\ at \in [Msgs -> Steps] /\ QueuedOnce
      /\ serves \in [Msgs -> Object \cup {Nothing}] /\ Nothing \notin Msgs
  BY WorkflowAssumption DEF WorkflowIInv, WorkflowTyped, WorkflowTypeOK
<1>1. \A g \in Msgs : serves[g] # Nothing => serves'[g] # Nothing
  BY ServesKept
<1>2. ASSUME NEW m \in Msgs, at[m] # "queued", queue' = queue,
             \E step : at' = [at EXCEPT ![m] = step]
      PROVE  QueuedOnce'
  <2>1. \A g \in Msgs : \A i \in DOMAIN queue[g] : queue[g][i] \in Msgs
    BY <1>0
  <2>2. \A g \in Msgs : \A i \in DOMAIN queue[g] : at'[queue[g][i]] = "queued" /\ serves'[g] # Nothing
    BY <1>0, <1>1, <1>2, <2>1 DEF QueuedOnce
  <2> QED BY <1>0, <1>2, <2>2 DEF QueuedOnce
<1>3. ASSUME queue' = queue, at' = at
      PROVE  QueuedOnce'
  BY <1>0, <1>1, <1>3 DEF QueuedOnce
<1>4. ASSUME UserActs \/ KernelTakes \/ (\E t \in running : NodeEnds(t)) \/ UNCHANGED workflowVars
      PROVE  QueuedOnce'
  BY <1>3, <1>4, QuietSteps
<1>5. ASSUME NEW m \in Msgs, Send(m)
      PROVE  QueuedOnce'
  <2>1. at[m] = "idle" /\ serves' = serves
    BY <1>5, SendFacts
  <2>2. \/ \E h \in Msgs : /\ serves[h] # Nothing
                           /\ at' = [at EXCEPT ![m] = "queued"]
                           /\ queue' = [queue EXCEPT ![h] = Append(@, m)]
        \/ at' = [at EXCEPT ![m] = "agent"] /\ queue' = queue
    BY <1>5, SendFacts
  <2>3. ASSUME NEW h \in Msgs, serves[h] # Nothing, at' = [at EXCEPT ![m] = "queued"],
               queue' = [queue EXCEPT ![h] = Append(@, m)]
        PROVE  QueuedOnce'
    BY <1>1, <2>1, <2>3, QueueGrows
  <2> QED BY <1>2, <2>1, <2>2, <2>3
<1>6. ASSUME NEW m \in Msgs, Lookup(m)
      PROVE  QueuedOnce'
  <2>1. at[m] # "queued"
    BY <1>6, LookupFacts DEF LooksUp
  <2>2. \/ queue' = queue /\ \E step : at' = [at EXCEPT ![m] = step]
        \/ /\ \E object \in Object : serves' = [serves EXCEPT ![m] = object]
           /\ queue' = [queue EXCEPT ![m] = Append(@, m)]
           /\ at' = [at EXCEPT ![m] = "queued"]
        \/ at' = at /\ queue' = queue
    BY <1>6, LookupChanges
  <2>3. CASE /\ \E object \in Object : serves' = [serves EXCEPT ![m] = object]
             /\ queue' = [queue EXCEPT ![m] = Append(@, m)]
             /\ at' = [at EXCEPT ![m] = "queued"]
    <3>1. serves'[m] # Nothing
      BY <1>0, <2>3, ObjectFacts
    <3> QED BY <1>1, <2>1, <2>3, <3>1, QueueGrows
  <2> QED BY <1>2, <1>3, <2>1, <2>2, <2>3
<1>7. ASSUME NEW h \in Msgs, Handle(h)
      PROVE  QueuedOnce'
  <2> DEFINE m == Head(queue[h])
  <2>1. /\ m \in Msgs /\ 1 \in DOMAIN queue[h] /\ m = queue[h][1] /\ queue[h] # << >>
        /\ queue[h] \in Seq(Msgs)
    BY <1>0, <1>7, HandleFacts
  <2>2. /\ queue' = [queue EXCEPT ![h] = Tail(@)] /\ serves' = serves
        /\ \E step : at' = [at EXCEPT ![m] = step]
    BY <1>7, HandleChanges
  <2>3. queue'[h] = Tail(queue[h]) /\ \A g \in Msgs \ {h} : queue'[g] = queue[g]
    BY <1>0, <2>2
  <2>4. \A i \in DOMAIN queue'[h] : i + 1 \in DOMAIN queue[h] /\ queue'[h][i] = queue[h][i + 1] /\ i \in Nat \ {0}
    BY <2>1, <2>3, HeadTailProperties
  <2> HIDE DEF m
  <2> DEFINE place(g, i) == IF g = h THEN i + 1 ELSE i
  <2>5. ASSUME NEW g \in Msgs, NEW i \in DOMAIN queue'[g]
        PROVE  place(g, i) \in DOMAIN queue[g] /\ queue'[g][i] = queue[g][place(g, i)]
               /\ (g = h => place(g, i) # 1) /\ i \in Nat
    <3>1. CASE g = h
      BY <2>4, <2>5, <3>1
    <3>2. CASE g # h
      <4>1. queue'[g] = queue[g] /\ queue[g] \in Seq(Msgs)
        BY <1>0, <2>3, <3>2
      <4> QED BY <2>5, <3>2, <4>1
    <3> QED BY <3>1, <3>2
  <2>6. ASSUME NEW g \in Msgs, NEW i \in DOMAIN queue'[g]
        PROVE  at'[queue'[g][i]] = "queued" /\ serves'[g] # Nothing
    <3> DEFINE k == place(g, i)
    <3>1. k \in DOMAIN queue[g] /\ queue'[g][i] = queue[g][k] /\ (g = h => k # 1)
      BY <2>5
    <3> HIDE DEF k
    <3>2. queue[g][k] \in Msgs
      BY <1>0, <3>1
    <3>3. queue[g][k] # m
      BY <1>0, <2>1, <3>1 DEF QueuedOnce
    <3>4. at[queue[g][k]] = "queued" /\ serves[g] # Nothing
      BY <1>0, <3>1 DEF QueuedOnce
    <3> QED BY <1>0, <2>2, <3>1, <3>2, <3>3, <3>4
  <2>7. ASSUME NEW g \in Msgs, NEW i \in DOMAIN queue'[g],
               NEW k \in Msgs, NEW j \in DOMAIN queue'[k], queue'[g][i] = queue'[k][j]
        PROVE  k = g /\ j = i
    <3>1. /\ place(g, i) \in DOMAIN queue[g] /\ queue'[g][i] = queue[g][place(g, i)] /\ i \in Nat
          /\ place(k, j) \in DOMAIN queue[k] /\ queue'[k][j] = queue[k][place(k, j)] /\ j \in Nat
      BY <2>5
    <3>2. k = g /\ place(k, j) = place(g, i)
      <4>1. \A p \in DOMAIN queue[g], q \in DOMAIN queue[k] :
              queue[g][p] = queue[k][q] => k = g /\ q = p
        BY <1>0 DEF QueuedOnce
      <4> HIDE DEF place
      <4> QED BY ONLY <2>7, <3>1, <4>1
    <3> QED BY <3>1, <3>2
  <2> QED BY <2>6, <2>7 DEF QueuedOnce
<1>8. ASSUME NEW m \in Msgs, AnswerComes(m)
      PROVE  QueuedOnce'
  <2>1. at[m] # "queued" /\ queue' = queue /\ \E step : at' = [at EXCEPT ![m] = step]
    BY <1>8, AnswerChanges
  <2> QED BY <1>2, <2>1
<1> QED BY <1>4, <1>5, <1>6, <1>7, <1>8, WorkflowSteps


\* Every step keeps one worker to each message that is asked for.
LEMMA AskedKept ==
  ASSUME WorkflowIInv, [WorkflowNext]_workflowVars
  PROVE  AskedByOne'
PROOF
<1>0. AskedByOne /\ at \in [Msgs -> Steps] /\ worker \in [Msgs -> Msgs \cup {"free", "dead"}]
      /\ "free" \notin Msgs /\ "dead" \notin Msgs
  BY WorkflowAssumption DEF WorkflowIInv, WorkflowTyped, WorkflowTypeOK
<1>1. \A g \in Msgs : serves[g] # Nothing => serves'[g] # Nothing
  BY ServesKept
<1>2. ASSUME worker' = worker, at' = at
      PROVE  AskedByOne'
  BY <1>0, <1>1, <1>2 DEF AskedByOne
<1>3. ASSUME NEW m \in Msgs, at[m] # "asking", worker' = worker,
             \E step : step # "asking" /\ at' = [at EXCEPT ![m] = step]
      PROVE  AskedByOne'
  <2>1. \A k \in Msgs : (at'[k] = "asking") <=> (at[k] = "asking")
    BY <1>0, <1>3
  <2>2. \A h \in Msgs : worker[h] \in Msgs => at'[worker[h]] = "asking" /\ serves'[h] # Nothing
    BY <1>0, <1>1, <2>1 DEF AskedByOne
  <2> QED BY <1>0, <1>3, <2>1, <2>2 DEF AskedByOne
<1>4. ASSUME UserActs \/ KernelTakes \/ (\E t \in running : NodeEnds(t)) \/ UNCHANGED workflowVars
      PROVE  AskedByOne'
  BY <1>2, <1>4, QuietSteps
<1>5. ASSUME NEW m \in Msgs, Send(m)
      PROVE  AskedByOne'
  <2>1. at[m] # "asking" /\ worker' = worker /\ \E step \in {"queued", "agent"} : at' = [at EXCEPT ![m] = step]
    BY <1>5, SendFacts
  <2> QED BY <1>3, <2>1
<1>6. ASSUME NEW m \in Msgs, Lookup(m)
      PROVE  AskedByOne'
  <2>1. at[m] # "asking"
    BY <1>6, LookupFacts DEF LooksUp
  <2>2. /\ worker' = worker
        /\ \/ \E step \in {"workflow", "roles", "contact", "raised", "unknown", "queued"} :
                at' = [at EXCEPT ![m] = step]
           \/ at' = at
    BY <1>6, LookupChanges
  <2> QED BY <1>2, <1>3, <2>1, <2>2
\* The worker h becomes free or dead as its message ends.
<1>7. ASSUME NEW m \in Msgs, NEW h \in Msgs,
             worker[h] \in {"free", m}, \A g \in Msgs \ {h} : worker[g] # m,
             \E step \in EndSteps : at' = [at EXCEPT ![m] = step],
             \E w \in {"free", "dead"} : worker' = [worker EXCEPT ![h] = w]
      PROVE  AskedByOne'
  <2>1. at'[m] # "asking" /\ (\A k \in Msgs \ {m} : at'[k] = at[k])
    BY <1>0, <1>7 DEF EndSteps
  <2>2. worker'[h] \notin Msgs /\ \A g \in Msgs \ {h} : worker'[g] = worker[g]
    BY <1>0, <1>7
  <2>3. ASSUME NEW k \in Msgs, at'[k] = "asking"
        PROVE  \E g \in Msgs : worker'[g] = k
    <3>1. k # m /\ at[k] = "asking"
      BY <2>1, <2>3
    <3>2. PICK g \in Msgs : worker[g] = k
      BY <1>0, <3>1 DEF AskedByOne
    <3>3. g # h
      BY <1>0, <1>7, <3>1, <3>2
    <3> QED BY <2>2, <3>2, <3>3
  <2>4. ASSUME NEW g \in Msgs, worker'[g] \in Msgs
        PROVE  /\ at'[worker'[g]] = "asking" /\ serves'[g] # Nothing
               /\ \A k \in Msgs : worker'[k] = worker'[g] => k = g
    <3>1. g # h /\ worker'[g] = worker[g]
      BY <2>2, <2>4
    <3>2. worker[g] # m /\ worker[g] \in Msgs
      BY <1>7, <2>4, <3>1
    <3> QED BY <1>0, <1>1, <2>1, <2>2, <3>1, <3>2 DEF AskedByOne
  <2> QED BY <2>3, <2>4 DEF AskedByOne
<1>8. ASSUME NEW h \in Msgs, Handle(h)
      PROVE  AskedByOne'
  <2> DEFINE m == Head(queue[h])
  <2>1. m \in Msgs /\ at[m] = "queued" /\ serves[h] # Nothing /\ worker[h] = "free"
    BY <1>8, HandleFacts, ObjectFacts
  <2>2. \A g \in Msgs : worker[g] # m
    BY <1>0, <2>1 DEF AskedByOne
  <2>3. \/ /\ \E step \in EndSteps : at' = [at EXCEPT ![m] = step]
           /\ \E w \in {"free", "dead"} : worker' = [worker EXCEPT ![h] = w]
        \/ /\ at' = [at EXCEPT ![m] = "asking"]
           /\ worker' = [worker EXCEPT ![h] = m]
    BY <1>8, HandleChanges
  <2> HIDE DEF m
  <2>4. CASE /\ \E step \in EndSteps : at' = [at EXCEPT ![m] = step]
             /\ \E w \in {"free", "dead"} : worker' = [worker EXCEPT ![h] = w]
    BY <1>7, <2>1, <2>2, <2>4
  <2>5. CASE /\ at' = [at EXCEPT ![m] = "asking"]
             /\ worker' = [worker EXCEPT ![h] = m]
    <3>1. /\ at'[m] = "asking" /\ (\A k \in Msgs \ {m} : at'[k] = at[k])
          /\ worker'[h] = m /\ (\A g \in Msgs \ {h} : worker'[g] = worker[g])
      BY <1>0, <2>1, <2>5
    <3>2. ASSUME NEW k \in Msgs, at'[k] = "asking"
          PROVE  \E g \in Msgs : worker'[g] = k
      <4>1. CASE k = m
        BY <3>1, <4>1
      <4>2. CASE k # m
        <5>1. PICK g \in Msgs : worker[g] = k
          BY <1>0, <3>1, <3>2, <4>2 DEF AskedByOne
        <5>2. g # h
          BY <1>0, <2>1, <5>1
        <5> QED BY <3>1, <5>1, <5>2
      <4> QED BY <4>1, <4>2
    <3>3. ASSUME NEW g \in Msgs, worker'[g] \in Msgs
          PROVE  /\ at'[worker'[g]] = "asking" /\ serves'[g] # Nothing
                 /\ \A k \in Msgs : worker'[k] = worker'[g] => k = g
      <4>1. CASE g = h
        BY <1>1, <2>1, <2>2, <3>1, <4>1
      <4>2. CASE g # h
        <5>1. worker'[g] = worker[g] /\ worker[g] \in Msgs /\ worker[g] # m
          BY <2>2, <3>1, <3>3, <4>2
        <5>2. at[worker[g]] = "asking" /\ serves[g] # Nothing
              /\ \A k \in Msgs : worker[k] = worker[g] => k = g
          BY <1>0, <5>1 DEF AskedByOne
        <5> QED BY <1>1, <3>1, <4>2, <5>1, <5>2
      <4> QED BY <4>1, <4>2
    <3> QED BY <3>2, <3>3 DEF AskedByOne
  <2> QED BY <2>3, <2>4, <2>5
<1>9. ASSUME NEW m \in Msgs, AnswerComes(m)
      PROVE  AskedByOne'
  <2>1. at[m] = "asking"
    BY <1>9, AnswerChanges
  <2>2. PICK h \in Msgs :
          /\ \A g \in Msgs : worker[g] = m => g = h
          /\ \/ /\ \E step \in {"replied", "raised"} : at' = [at EXCEPT ![m] = step]
                /\ \E w \in {"free", "dead"} : worker' = [worker EXCEPT ![h] = w]
             \/ at' = [at EXCEPT ![m] = "asking"] /\ worker' = worker
          /\ worker[h] = m
    BY <1>9, AnswerChanges
  <2>3. CASE /\ \E step \in {"replied", "raised"} : at' = [at EXCEPT ![m] = step]
             /\ \E w \in {"free", "dead"} : worker' = [worker EXCEPT ![h] = w]
    <3>1. {"replied", "raised"} \subseteq EndSteps
      BY DEF EndSteps
    <3> QED BY <1>7, <2>2, <2>3, <3>1
  <2>4. CASE at' = [at EXCEPT ![m] = "asking"] /\ worker' = worker
    <3>1. at' = at
      BY <1>0, <2>1, <2>4
    <3> QED BY <1>2, <2>4, <3>1
  <2> QED BY <2>2, <2>3, <2>4
<1> QED BY <1>4, <1>5, <1>6, <1>8, <1>9, WorkflowSteps

\* A message has its reply when it ends.
LEMMA NoReplyKept ==
  ASSUME WorkflowIInv, [WorkflowNext]_workflowVars
  PROVE  NoReplyYet'
PROOF
<1>0. NoReplyYet /\ at \in [Msgs -> Steps] /\ DOMAIN reply = Msgs
  BY DEF WorkflowIInv, WorkflowTyped, WorkflowTypeOK
<1>1. ASSUME reply' = reply, at' = at \/ \E m \in Msgs : \E step : at[m] \notin EndSteps /\ at' = [at EXCEPT ![m] = step]
      PROVE  NoReplyYet'
  BY <1>0, <1>1 DEF NoReplyYet
<1>2. ASSUME NEW m \in Msgs, NEW sender, reply' = [reply EXCEPT ![m] = sender],
             \E step \in EndSteps : at' = [at EXCEPT ![m] = step]
      PROVE  NoReplyYet'
  BY <1>0, <1>2 DEF NoReplyYet
<1>3. ASSUME UserActs \/ KernelTakes \/ (\E t \in running : NodeEnds(t)) \/ UNCHANGED workflowVars
      PROVE  NoReplyYet'
  BY <1>1, <1>3, QuietSteps
<1>4. ASSUME NEW m \in Msgs, Send(m)
      PROVE  NoReplyYet'
  <2>1. at[m] \notin EndSteps /\ reply' = reply /\ \E step : at' = [at EXCEPT ![m] = step]
    BY <1>4, SendFacts DEF EndSteps
  <2> QED BY <1>1, <2>1
<1>5. ASSUME NEW m \in Msgs, Lookup(m)
      PROVE  NoReplyYet'
  <2>1. at[m] \notin EndSteps /\ reply' = reply
    BY <1>5, LookupFacts DEF LooksUp, EndSteps
  <2>2. at' = at \/ \E step : at' = [at EXCEPT ![m] = step]
    BY <1>5, LookupChanges
  <2> QED BY <1>1, <2>1, <2>2
<1>6. ASSUME NEW h \in Msgs, Handle(h)
      PROVE  NoReplyYet'
  <2> DEFINE m == Head(queue[h])
  <2>1. m \in Msgs /\ at[m] \notin EndSteps
    BY <1>6, HandleFacts DEF EndSteps
  <2>2. \/ \E step \in EndSteps : \E sender :
             at' = [at EXCEPT ![m] = step] /\ reply' = [reply EXCEPT ![m] = sender]
        \/ at' = [at EXCEPT ![m] = "asking"] /\ reply' = reply
    BY <1>6, HandleChanges
  <2> HIDE DEF m
  <2> QED BY <1>1, <1>2, <2>1, <2>2
<1>7. ASSUME NEW m \in Msgs, AnswerComes(m)
      PROVE  NoReplyYet'
  <2>1. at[m] \notin EndSteps /\ {"replied", "raised"} \subseteq EndSteps
    BY <1>7, AnswerChanges DEF EndSteps
  <2>2. \/ \E step \in {"replied", "raised"} : \E sender :
             at' = [at EXCEPT ![m] = step] /\ reply' = [reply EXCEPT ![m] = sender]
        \/ at' = [at EXCEPT ![m] = "asking"] /\ reply' = reply
    <3>1. PICK h \in Msgs :
            \/ \E step \in {"replied", "raised"} : \E sender :
                 at' = [at EXCEPT ![m] = step] /\ reply' = [reply EXCEPT ![m] = sender]
            \/ at' = [at EXCEPT ![m] = "asking"] /\ reply' = reply
      BY <1>7, AnswerChanges
    <3> QED BY <3>1
  <2> QED BY <1>1, <1>2, <2>1, <2>2
<1> QED BY <1>3, <1>4, <1>5, <1>6, <1>7, WorkflowSteps


-----------------------------------------------------------------------------
(* Roles.                                                                   *)

\* What RolesAreRight says of one message and the workflow h.
RoleIsRight(h, m) ==
  /\ h \in Workflows
  /\ Processes(h, m, role[m])
  /\ at[m] = "asking" => worker[h] = m
  /\ reply[m] # Nothing /\ at[m] \in EndSteps => reply[m] = RoleId(serves[h].config, role[m])

\* A role stays right while its message and its handler do not change.
LEMMA RoleStays ==
  ASSUME NEW h \in Msgs, NEW m \in Msgs, RoleIsRight(h, m), serves'[h] = serves[h],
         role'[m] = role[m], mail'[m] = mail[m], at'[m] = at[m], reply'[m] = reply[m],
         at[m] = "asking" => worker'[h] = worker[h]
  PROVE  RoleIsRight(h, m)'
PROOF
<1>1. h \in Workflows'
  BY DEF RoleIsRight, Workflows
<1>2. Processes(h, m, role[m])'
  BY DEF RoleIsRight, Processes
<1> QED BY <1>1, <1>2 DEF RoleIsRight

\* Every step keeps the roles right.
LEMMA RolesKept ==
  ASSUME WorkflowIInv, [WorkflowNext]_workflowVars
  PROVE  RolesAreRight'
PROOF
<1>0. /\ at \in [Msgs -> Steps] /\ worker \in [Msgs -> Msgs \cup {"free", "dead"}]
      /\ DOMAIN reply = Msgs /\ DOMAIN role = Msgs /\ DOMAIN mail = Msgs
      /\ "free" \notin Msgs /\ "dead" \notin Msgs
      /\ LookupsAreNew
  BY WorkflowAssumption DEF WorkflowIInv, WorkflowTyped, WorkflowTypeOK
<1>00. \A m \in Msgs : role[m] # Nothing => \E h \in Msgs : RoleIsRight(h, m)
  BY DEF WorkflowIInv, RolesAreRight, RoleIsRight, Workflows
<1>1. \A h \in Msgs, m \in Msgs : RoleIsRight(h, m) => serves'[h] = serves[h]
  BY ServesKept DEF RoleIsRight, Workflows
<1> SUFFICES ASSUME NEW k \in Msgs, role'[k] # Nothing
             PROVE  \E h \in Msgs : RoleIsRight(h, k)'
  BY DEF RolesAreRight, RoleIsRight, Workflows
<1>2. ASSUME UserActs \/ KernelTakes \/ (\E t \in running : NodeEnds(t)) \/ UNCHANGED workflowVars
      PROVE  \E h \in Msgs : RoleIsRight(h, k)'
  <2>1. mail' = mail /\ at' = at /\ role' = role /\ reply' = reply /\ worker' = worker
    BY <1>2, QuietSteps
  <2>2. PICK h \in Msgs : RoleIsRight(h, k)
    BY <1>00, <2>1
  <2> QED BY <1>1, <2>1, <2>2, RoleStays
<1>3. ASSUME NEW m \in Msgs, role[m] = Nothing, role' = role, reply' = reply, worker' = worker,
             \A j \in Msgs \ {m} : mail'[j] = mail[j] /\ at'[j] = at[j]
      PROVE  \E h \in Msgs : RoleIsRight(h, k)'
  <2>1. k # m /\ role[k] # Nothing
    BY <1>3
  <2>2. PICK h \in Msgs : RoleIsRight(h, k)
    BY <1>00, <2>1
  <2> QED BY <1>1, <1>3, <2>1, <2>2, RoleStays
<1>4. ASSUME NEW m \in Msgs, Send(m)
      PROVE  \E h \in Msgs : RoleIsRight(h, k)'
  <2>1. at[m] = "idle" /\ role' = role /\ reply' = reply /\ worker' = worker
    BY <1>4, SendFacts
  <2>2. role[m] = Nothing
    BY <1>0, <2>1 DEF LookupsAreNew, LooksUp
  <2>3. (\E x : mail' = [mail EXCEPT ![m] = x]) /\ \E step : at' = [at EXCEPT ![m] = step]
    BY <1>4, SendFacts
  <2>4. \A j \in Msgs \ {m} : mail'[j] = mail[j] /\ at'[j] = at[j]
    BY <1>0, <2>3
  <2> QED BY <1>3, <2>1, <2>2, <2>4
<1>5. ASSUME NEW m \in Msgs, Lookup(m)
      PROVE  \E h \in Msgs : RoleIsRight(h, k)'
  <2>1. role[m] = Nothing /\ role' = role /\ reply' = reply /\ mail' = mail
    BY <1>5, LookupFacts
  <2>2. worker' = worker /\ (at' = at \/ \E step : at' = [at EXCEPT ![m] = step])
    BY <1>5, LookupChanges
  <2>3. \A j \in Msgs \ {m} : mail'[j] = mail[j] /\ at'[j] = at[j]
    BY <1>0, <2>1, <2>2
  <2> QED BY <1>3, <2>1, <2>2, <2>3
\* What another worker than that of k does leaves k alone.
<1>6. ASSUME NEW m \in Msgs, NEW g \in Msgs, k # m, role'[k] = role[k], mail' = mail,
             worker[g] # k,
             \A j \in Msgs \ {m} : at'[j] = at[j] /\ reply'[j] = reply[j],
             \A i \in Msgs \ {g} : worker'[i] = worker[i]
      PROVE  \E h \in Msgs : RoleIsRight(h, k)'
  <2>1. PICK h \in Msgs : RoleIsRight(h, k)
    BY <1>00, <1>6
  <2>2. at[k] = "asking" => worker'[h] = worker[h]
    BY <1>6, <2>1 DEF RoleIsRight
  <2> QED BY <1>1, <1>6, <2>1, <2>2, RoleStays
<1>7. ASSUME NEW g \in Msgs, Handle(g)
      PROVE  \E h \in Msgs : RoleIsRight(h, k)'
  <2>0. PICK m \in Msgs : m = Head(queue[g])
    BY <1>7, HandleFacts
  <2>1. worker[g] = "free" /\ role[m] = Nothing
    BY <1>7, <2>0, HandleFacts
  <2>2. serves' = serves /\ mail' = mail
    BY <1>7, HandleChanges
  <2>3. \/ /\ \E step \in EndSteps \ {"unknown"} : \E sender :
                at' = [at EXCEPT ![m] = step] /\ reply' = [reply EXCEPT ![m] = sender]
           /\ \E w \in {"free", "dead"} : worker' = [worker EXCEPT ![g] = w]
           /\ role' = role
        \/ /\ at' = [at EXCEPT ![m] = "asking"] /\ reply' = reply
           /\ worker' = [worker EXCEPT ![g] = m]
           /\ \/ role' = role
              \/ \E s : /\ g \in Workflows /\ Processes(g, m, s)
                        /\ role' = [role EXCEPT ![m] = s]
    <3>1. \/ /\ \E step \in EndSteps \ {"unknown"} : \E sender :
                  at' = [at EXCEPT ![Head(queue[g])] = step] /\ reply' = [reply EXCEPT ![Head(queue[g])] = sender]
             /\ \E w \in {"free", "dead"} : worker' = [worker EXCEPT ![g] = w]
             /\ role' = role
          \/ /\ at' = [at EXCEPT ![Head(queue[g])] = "asking"] /\ reply' = reply
             /\ worker' = [worker EXCEPT ![g] = Head(queue[g])]
             /\ \/ role' = role
                \/ \E s : /\ g \in Workflows /\ Processes(g, Head(queue[g]), s)
                          /\ role' = [role EXCEPT ![Head(queue[g])] = s]
      BY <1>7, HandleChanges
    <3> QED BY <2>0, <3>1
  <2>4. reply[m] = Nothing
    <3>1. at[m] \notin EndSteps
      BY <1>7, <2>0, HandleFacts DEF EndSteps
    <3> QED BY <2>1, <3>1 DEF WorkflowIInv, NoReplyYet
  <2>5. CASE k # m
    <3>1. role'[k] = role[k] /\ worker[g] # k
      BY <1>0, <2>1, <2>3, <2>5
    <3>2. (\A j \in Msgs \ {m} : at'[j] = at[j] /\ reply'[j] = reply[j])
          /\ \A i \in Msgs \ {g} : worker'[i] = worker[i]
      BY <1>0, <2>3
    <3> QED BY <1>6, <2>1, <2>2, <2>5, <3>1, <3>2
  <2>6. CASE k = m
    <3>1. PICK s : /\ at' = [at EXCEPT ![m] = "asking"] /\ reply' = reply
                   /\ worker' = [worker EXCEPT ![g] = m]
                   /\ g \in Workflows /\ Processes(g, m, s)
                   /\ role' = [role EXCEPT ![m] = s]
      BY <2>1, <2>3, <2>6
    <3>2. role'[m] = s /\ worker'[g] = m /\ at'[m] = "asking" /\ reply'[m] = Nothing
      BY <1>0, <2>1, <2>4, <3>1
    <3>3. g \in Workflows' /\ Processes(g, m, role[m])'
      BY <2>2, <3>1, <3>2 DEF Workflows, Processes
    <3>4. "asking" \notin EndSteps
      BY DEF EndSteps
    <3>5. RoleIsRight(g, m)'
      BY <3>2, <3>3, <3>4 DEF RoleIsRight
    <3> QED BY <2>6, <3>5
  <2> QED BY <2>5, <2>6
<1>8. ASSUME NEW m \in Msgs, AnswerComes(m)
      PROVE  \E h \in Msgs : RoleIsRight(h, k)'
  <2>1. at[m] = "asking" /\ mail' = mail /\ role' = role /\ serves' = serves
    BY <1>8, AnswerChanges
  <2>2. PICK g \in Msgs :
          /\ worker[g] = m /\ \A h \in Msgs : worker[h] = m => h = g
          /\ \/ /\ \E step \in {"replied", "raised"} : \E sender :
                     /\ at' = [at EXCEPT ![m] = step] /\ reply' = [reply EXCEPT ![m] = sender]
                     /\ sender # Nothing /\ role[m] # Nothing =>
                          sender = RoleId(serves[g].config, role[m])
                /\ \E w \in {"free", "dead"} : worker' = [worker EXCEPT ![g] = w]
             \/ at' = [at EXCEPT ![m] = "asking"] /\ reply' = reply /\ worker' = worker
    BY <1>8, AnswerChanges
  <2>3. CASE k # m
    <3>1. worker[g] # k
      BY <2>2, <2>3
    <3>2. (\A j \in Msgs \ {m} : at'[j] = at[j] /\ reply'[j] = reply[j])
          /\ \A i \in Msgs \ {g} : worker'[i] = worker[i]
      BY <1>0, <2>2
    <3> QED BY <1>6, <2>1, <2>3, <3>1, <3>2
  <2>4. CASE k = m
    <3>1. PICK h \in Msgs : RoleIsRight(h, m)
      BY <1>00, <2>1, <2>4
    <3>2. h = g
      BY <2>1, <2>2, <3>1 DEF RoleIsRight
    <3>3. CASE at' = [at EXCEPT ![m] = "asking"] /\ reply' = reply /\ worker' = worker
      <4>1. at' = at
        BY <1>0, <2>1, <3>3
      <4>2. RoleIsRight(h, m)'
        BY <1>1, <2>1, <3>1, <3>3, <4>1, RoleStays
      <4> QED BY <2>4, <4>2
    <3>4. ASSUME NEW step \in {"replied", "raised"}, NEW sender,
                 at' = [at EXCEPT ![m] = step], reply' = [reply EXCEPT ![m] = sender],
                 sender # Nothing /\ role[m] # Nothing => sender = RoleId(serves[g].config, role[m])
          PROVE  RoleIsRight(h, m)'
      <4>1. at'[m] # "asking" /\ reply'[m] = sender
        BY <1>0, <3>4
      <4>2. h \in Workflows' /\ Processes(h, m, role[m])'
        BY <2>1, <3>1 DEF RoleIsRight, Workflows, Processes
      <4>3. RoleId(serves[g].config, role[m])' = RoleId(serves[g].config, role[m])
        BY <2>1 DEF RoleId, WorkflowId
      <4> QED BY <2>1, <2>4, <3>2, <3>4, <4>1, <4>2, <4>3 DEF RoleIsRight
    <3> QED BY <2>2, <2>4, <3>3, <3>4
  <2> QED BY <2>3, <2>4
<1> QED BY <1>2, <1>4, <1>5, <1>7, <1>8, WorkflowSteps

\* A role once asked without a limit is never forgotten.
LEMMA NumberAskersStay ==
  ASSUME WorkflowIInv, [WorkflowNext]_workflowVars, NEW m \in NumberAskers
  PROVE  m \in NumberAskers'
PROOF
<1>0. DOMAIN role = Msgs /\ m \in Msgs
  BY DEF WorkflowIInv, WorkflowTyped, NumberAskers
<1>1. role[m] # Nothing
  BY DEF NumberAskers
<1>2. PICK h \in Workflows : /\ role[m] \in Slots(serves[h].config)
                             /\ AgentOf(serves[h].config, role[m]) \notin Limitless
  BY DEF NumberAskers
<1>3. serves'[h] = serves[h] /\ h \in Workflows'
  BY ServesKept DEF Workflows
<1>4. role'[m] = role[m]
  <2>1. ASSUME NEW g \in Msgs, Handle(g)
        PROVE  role'[m] = role[m]
    <3>1. role[Head(queue[g])] = Nothing
      BY <2>1, HandleFacts
    <3>2. role' = role \/ \E s : role' = [role EXCEPT ![Head(queue[g])] = s]
      BY <2>1, HandleChanges
    <3> QED BY <1>0, <1>1, <3>1, <3>2
  <2>2. CASE UserActs \/ KernelTakes \/ (\E t \in running : NodeEnds(t)) \/ UNCHANGED workflowVars
    BY <2>2, QuietSteps
  <2>3. CASE \E k \in Msgs : Send(k) \/ Lookup(k) \/ AnswerComes(k)
    BY <2>3, SendFacts, LookupFacts, AnswerChanges
  <2> QED BY <2>1, <2>2, <2>3, WorkflowSteps
<1> QED BY <1>1, <1>2, <1>3, <1>4 DEF NumberAskers

\* Every step keeps the numbers for models those of roles with a limit.
LEMMA NumbersKept ==
  ASSUME WorkflowIInv, [WorkflowNext]_workflowVars
  PROVE  NumbersAreRoles'
PROOF
<1>0. /\ NumbersAreRoles /\ tasks \in Seq(Task) /\ openai \in BOOLEAN
      /\ kernel \in {"running", "dead"} /\ DOMAIN role = Msgs
  BY DEF WorkflowIInv, WorkflowTyped, WorkflowTypeOK
<1>1. NumberAskers \subseteq NumberAskers'
  BY NumberAskersStay
<1>2. \A i \in DOMAIN tasks : tasks[i].msg \in Msgs
  <2>1. \A i \in DOMAIN tasks : tasks[i] \in Task
    BY <1>0
  <2> QED BY <2>1 DEF Task
<1>3. ASSUME tasks' = tasks, kernel' = kernel, openai' = openai
      PROVE  NumbersAreRoles'
  BY <1>0, <1>1, <1>2, <1>3 DEF NumbersAreRoles
\* A task is added that asks a number only for a role.
<1>4. ASSUME NEW t \in Task, tasks' = Append(tasks, t), kernel' = kernel, openai' = openai,
             t.model = "number" => t.msg \in NumberAskers'
      PROVE  NumbersAreRoles'
  <2>1. ASSUME NEW i \in DOMAIN tasks', tasks'[i].model = "number"
        PROVE  tasks'[i].msg \in NumberAskers'
    <3>1. i \in 1 .. Len(tasks) + 1 /\ Len(tasks) \in Nat
      BY <1>0, <1>4, AppendProperties
    <3>2. CASE i = Len(tasks) + 1
      <4>1. tasks'[i] = t
        BY <1>0, <1>4, <3>2, AppendProperties
      <4> QED BY <1>4, <2>1, <4>1
    <3>3. CASE i # Len(tasks) + 1
      <4>1. i \in 1 .. Len(tasks)
        BY <3>1, <3>3
      <4>2. tasks'[i] = tasks[i] /\ i \in DOMAIN tasks
        BY <1>0, <1>4, <4>1, AppendProperties
      <4>3. tasks[i].msg \in NumberAskers
        BY <1>0, <2>1, <4>2 DEF NumbersAreRoles
      <4> QED BY <1>1, <1>2, <4>2, <4>3
    <3> QED BY <3>2, <3>3
  <2>2. kernel' = "dead" => openai' /\ NumberAskers' # {}
    BY <1>0, <1>1, <1>4 DEF NumbersAreRoles
  <2> QED BY <2>1, <2>2 DEF NumbersAreRoles
<1>5. ASSUME KernelTakes
      PROVE  NumbersAreRoles'
  <2>1. tasks # << >> /\ tasks' = Tail(tasks) /\ openai' = openai
        /\ kernel = "running"
        /\ kernel' = IF Head(tasks).model = "number" /\ SupportRaises(Head(tasks)) THEN "dead" ELSE kernel
    BY <1>5 DEF KernelTakes
  <2>2. 1 \in DOMAIN tasks /\ Head(tasks) = tasks[1]
    BY <1>0, <2>1, EmptySeq
  <2>3. \A i \in DOMAIN tasks' : i + 1 \in DOMAIN tasks /\ tasks'[i] = tasks[i + 1]
    BY <1>0, <2>1, HeadTailProperties
  <2>4. ASSUME NEW i \in DOMAIN tasks', tasks'[i].model = "number"
        PROVE  tasks'[i].msg \in NumberAskers'
    <3>1. tasks[i + 1].msg \in NumberAskers
      BY <1>0, <2>3, <2>4 DEF NumbersAreRoles
    <3> QED BY <1>1, <1>2, <2>3, <3>1
  <2>5. ASSUME kernel' = "dead"
        PROVE  openai' /\ NumberAskers' # {}
    <3>1. tasks[1].model = "number" /\ openai
      BY <2>1, <2>2, <2>5 DEF SupportRaises
    <3>2. tasks[1].msg \in NumberAskers /\ tasks[1].msg \in Msgs
      BY <1>0, <1>2, <2>2, <3>1 DEF NumbersAreRoles
    <3> QED BY <1>1, <2>1, <3>1, <3>2
  <2> QED BY <2>4, <2>5 DEF NumbersAreRoles
<1>6. CASE UserActs \/ (\E t \in running : NodeEnds(t)) \/ UNCHANGED workflowVars
  <2>1. tasks' = tasks /\ kernel' = kernel /\ openai' = openai
    BY <1>6 DEF UserActs, Edit, ShellLooksUp, NodeEnds, workflowVars, computing
  <2> QED BY <1>3, <2>1
<1>7. CASE \E m \in Msgs : Send(m) \/ Lookup(m)
  BY <1>3, <1>7, SendFacts, LookupFacts
\* The role s of the workflow h asks.
<1>8. ASSUME NEW h \in Workflows, NEW m \in Msgs, NEW s, s # Nothing, Processes(h, m, s), role'[m] = s,
             serves' = serves, NEW n \in Nat, kernel' = kernel, openai' = openai,
             tasks' = Append(tasks, [msg |-> m, call |-> n, model |-> RoleModel(serves[h].config, s)])
      PROVE  NumbersAreRoles'
  <2> DEFINE t == [msg |-> m, call |-> n, model |-> RoleModel(serves[h].config, s)]
  <2>1. t \in Task
    BY DEF Task, RoleModel
  <2>2. t.model = "number" => m \in NumberAskers'
    BY <1>8 DEF RoleModel, NumberAskers, Processes, Workflows
  <2>3. t.msg = m /\ tasks' = Append(tasks, t)
    BY <1>8
  <2> HIDE DEF t
  <2> QED BY <1>4, <1>8, <2>1, <2>2, <2>3
<1>9. ASSUME NEW h \in Msgs, Handle(h)
      PROVE  NumbersAreRoles'
  <2>0. PICK m \in Msgs : m = Head(queue[h])
    BY <1>9, HandleFacts
  <2>1. serves' = serves /\ kernel' = kernel /\ openai' = openai
    BY <1>9, HandleChanges
  <2>2. \/ tasks' = tasks
        \/ tasks' = Append(tasks, [msg |-> m, call |-> 0, model |-> "name"])
        \/ \E s : /\ h \in Workflows /\ Processes(h, m, s)
                  /\ role' = [role EXCEPT ![m] = s]
                  /\ tasks' = Append(tasks, [msg |-> m, call |-> 0,
                                             model |-> RoleModel(serves[h].config, s)])
    BY <1>9, <2>0, HandleChanges
  <2>3. serves[h] \in Object
    BY <1>9, HandleFacts
  <2>4. CASE tasks' = tasks
    BY <1>3, <2>1, <2>4
  <2>5. CASE tasks' = Append(tasks, [msg |-> m, call |-> 0, model |-> "name"])
    <3> DEFINE t == [msg |-> m, call |-> 0, model |-> "name"]
    <3>1. t \in Task /\ t.model # "number"
      BY <2>1 DEF Task
    <3>2. tasks' = Append(tasks, t)
      BY <2>5
    <3> HIDE DEF t
    <3> QED BY <1>4, <2>1, <3>1, <3>2
  <2>6. ASSUME NEW s, h \in Workflows, Processes(h, m, s), role' = [role EXCEPT ![m] = s],
               tasks' = Append(tasks, [msg |-> m, call |-> 0, model |-> RoleModel(serves[h].config, s)])
        PROVE  NumbersAreRoles'
    <3>1. role'[m] = s /\ 0 \in Nat
      BY <1>0, <2>1, <2>6
    <3>2. s # Nothing
      <4>1. serves[h].config \in DOMAIN Config /\ s \in Slots(serves[h].config)
        BY <2>3, <2>6, ObjectFacts DEF Workflows, Processes
      <4> QED BY <4>1, ConfigFacts
    <3> QED BY <1>8, <2>1, <2>6, <3>1, <3>2
  <2> QED BY <2>2, <2>4, <2>5, <2>6
<1>10. ASSUME NEW m \in Msgs, AnswerComes(m)
       PROVE  NumbersAreRoles'
  <2>1. role' = role /\ serves' = serves
    BY <1>10, AnswerChanges
  <2>2. PICK h \in Msgs :
          /\ kernel' = kernel /\ openai' = openai
          /\ \/ tasks' = tasks
             \/ /\ h \in Workflows /\ role[m] # Nothing /\ Processes(h, m, role[m])
                /\ tasks' = Append(tasks, [msg |-> m, call |-> calls[m] + 1,
                                           model |-> RoleModel(serves[h].config, role[m])])
    BY <1>10, AnswerChanges
  <2>3. calls[m] + 1 \in Nat
    BY DEF WorkflowIInv, WorkflowTyped, WorkflowTypeOK
  <2> QED BY <1>3, <1>8, <2>1, <2>2, <2>3
<1> QED BY <1>5, <1>6, <1>7, <1>9, <1>10, WorkflowSteps


-----------------------------------------------------------------------------
(* The timers a workflow and its agents are loaded with.                    *)

\* The agents named a that are referred to for message x, in a state in which x is
\* at step, its load is l, the handlers are hs and the object registered for x is o.
Refs(step, l, hs, o, x, a) ==
  (IF step = "roles" THEN {s \in Got(l) : AgentOf(l.config, s) = a} ELSE {})
  \cup (IF \E n \in Names : hs[n] = x THEN Held(o, a) ELSE {})

RefsNow(a)  == [x \in Msgs |-> Refs(at[x], load[x], handler, serves[x], x, a)]

All(F) == Pairs(Msgs, F)

\* Finitely many agents are referred to for a message.
LEMMA RefsFinite ==
  ASSUME NEW step, NEW l, NEW hs, NEW o \in Object \cup {Nothing}, NEW x, NEW a,
         step = "roles" => LoadIsOfConfig(l)
  PROVE  IsFiniteSet(Refs(step, l, hs, o, x, a))
PROOF
<1> DEFINE A == IF step = "roles" THEN {s \in Got(l) : AgentOf(l.config, s) = a} ELSE {}
           B == IF \E n \in Names : hs[n] = x THEN Held(o, a) ELSE {}
<1>1. IsFiniteSet(A)
  <2>1. CASE step = "roles"
    <3>1. l.config \in DOMAIN Config
      BY <2>1 DEF LoadIsOfConfig
    <3>2. IsFiniteSet(Slots(l.config)) /\ A \in SUBSET Slots(l.config)
      BY <2>1, <3>1, ConfigFacts DEF Got
    <3> HIDE DEF A
    <3> QED BY <3>2, FS_Subset
  <2>2. CASE step # "roles"
    BY <2>2, FS_EmptySet
  <2> QED BY <2>1, <2>2
<1>2. IsFiniteSet(B)
  BY HeldFinite, FS_EmptySet
<1>3. Refs(step, l, hs, o, x, a) = A \cup B
  BY DEF Refs
<1> HIDE DEF A, B
<1> QED BY <1>1, <1>2, <1>3, FS_Union

\* When what is referred to changes for message m alone.
LEMMA AccountOne ==
  ASSUME NEW F, NEW G, \A x \in Msgs : IsFiniteSet(F[x]) /\ IsFiniteSet(G[x]),
         NEW m \in Msgs, \A x \in Msgs \ {m} : G[x] = F[x]
  PROVE  /\ Cardinality(All(F)) \in Nat /\ Cardinality(All(G)) \in Nat
         /\ Cardinality(F[m]) \in Nat /\ Cardinality(G[m]) \in Nat
         /\ Cardinality(All(G)) + Cardinality(F[m]) = Cardinality(All(F)) + Cardinality(G[m])
PROOF
<1>1. IsFiniteSet(Msgs)
  BY WorkflowAssumption
<1> QED BY <1>1, CountChange DEF All

\* When it changes for m, and no longer counts what the handler old referred to.
LEMMA AccountTwo ==
  ASSUME NEW F, NEW G, \A x \in Msgs : IsFiniteSet(F[x]) /\ IsFiniteSet(G[x]),
         NEW m \in Msgs, NEW old \in Msgs, m # old, G[old] = {},
         \A x \in Msgs \ {m, old} : G[x] = F[x]
  PROVE  /\ Cardinality(All(F)) \in Nat /\ Cardinality(All(G)) \in Nat
         /\ Cardinality(F[m]) \in Nat /\ Cardinality(G[m]) \in Nat /\ Cardinality(F[old]) \in Nat
         /\ Cardinality(All(G)) + Cardinality(F[m]) + Cardinality(F[old])
              = Cardinality(All(F)) + Cardinality(G[m])
PROOF
<1> DEFINE H == [x \in Msgs |-> IF x = old THEN {} ELSE F[x]]
<1>1. /\ Cardinality({}) = 0 /\ IsFiniteSet({})
      /\ Cardinality(F[old]) \in Nat /\ Cardinality(F[m]) \in Nat /\ Cardinality(G[m]) \in Nat
  BY FS_EmptySet, FS_CardinalityType
<1>2. /\ \A x \in Msgs : IsFiniteSet(H[x])
      /\ \A x \in Msgs \ {old} : H[x] = F[x]
      /\ H[old] = {} /\ H[m] = F[m]
      /\ \A x \in Msgs \ {m} : G[x] = H[x]
  BY <1>1
<1> HIDE DEF H
<1>3. /\ Cardinality(All(F)) \in Nat /\ Cardinality(All(H)) \in Nat
      /\ Cardinality(All(H)) + Cardinality(F[old]) = Cardinality(All(F)) + Cardinality(H[old])
  <2>1. \A x \in Msgs : IsFiniteSet(F[x]) /\ IsFiniteSet(H[x])
    BY <1>2
  <2>2. \A x \in Msgs \ {old} : H[x] = F[x]
    BY <1>2
  <2> QED BY ONLY <2>1, <2>2, AccountOne, old \in Msgs
<1>4. /\ Cardinality(All(G)) \in Nat
      /\ Cardinality(All(G)) + Cardinality(H[m]) = Cardinality(All(H)) + Cardinality(G[m])
  <2>1. \A x \in Msgs : IsFiniteSet(H[x]) /\ IsFiniteSet(G[x])
    BY <1>2
  <2>2. \A x \in Msgs \ {m} : G[x] = H[x]
    BY <1>2
  <2> QED BY ONLY <2>1, <2>2, AccountOne, m \in Msgs
<1> DEFINE p == Cardinality(All(F))
           q == Cardinality(All(G))
           h == Cardinality(All(H))
           f == Cardinality(F[m])
           g == Cardinality(G[m])
           n == Cardinality(F[old])
<1>5. /\ p \in Nat /\ q \in Nat /\ h \in Nat /\ f \in Nat /\ g \in Nat /\ n \in Nat
      /\ h + n = p + 0 /\ q + f = h + g
  BY <1>1, <1>2, <1>3, <1>4
<1> HIDE DEF p, q, h, f, g, n
<1>6. q + f + n = p + g
  BY ONLY <1>5
<1> QED BY <1>5, <1>6 DEF p, q, h, f, g, n

\* They are finitely many before and after a step.
LEMMA RefsNowFinite ==
  ASSUME WorkflowIInv, [WorkflowNext]_workflowVars, NEW a
  PROVE  \A x \in Msgs : IsFiniteSet(RefsNow(a)[x]) /\ IsFiniteSet(RefsNow(a)'[x])
PROOF
<1>1. serves \in [Msgs -> Object \cup {Nothing}] /\ serves' \in [Msgs -> Object \cup {Nothing}]
  <2>1. WorkflowTyped'
    BY TypedKept
  <2> QED BY <2>1 DEF WorkflowIInv, WorkflowTyped, WorkflowTypeOK
<1>2. \A x \in Msgs : (at[x] = "roles" => LoadIsOfConfig(load[x]))
                      /\ (at'[x] = "roles" => LoadIsOfConfig(load'[x]))
  <2>1. LoadsAreOfConfigs'
    BY LoadsKept
  <2> QED BY <2>1 DEF WorkflowIInv, LoadsAreOfConfigs, LoadIsOfConfig
<1>3. \A x \in Msgs : RefsNow(a)[x] = Refs(at[x], load[x], handler, serves[x], x, a)
                      /\ RefsNow(a)'[x] = Refs(at'[x], load'[x], handler', serves'[x], x, a)
  BY DEF RefsNow
<1> QED BY <1>1, <1>2, <1>3, RefsFinite

\* The account in terms of references.
LEMMA AccountIs ==
  TimersAreAccounted <=> \A a \in Names : timers[a] = wasted[a] + Cardinality(All(RefsNow(a)))
PROOF
<1>1. ASSUME NEW a \in Names
      PROVE  All(RefsNow(a)) = UNION {{m} \X Referred(m, a) : m \in Msgs}
  BY DEF All, Pairs, RefsNow, Refs, Referred
<1> QED BY <1>1 DEF TimersAreAccounted

\* The same after a step.
LEMMA AccountIsThen ==
  ASSUME \A a \in Names : timers'[a] = wasted'[a] + Cardinality(All(RefsNow(a)'))
  PROVE  TimersAreAccounted'
PROOF
<1>1. ASSUME NEW a \in Names
      PROVE  All(RefsNow(a)') = UNION {{m} \X Referred(m, a)' : m \in Msgs}
  BY DEF All, Pairs, RefsNow, Refs, Referred
<1> QED BY <1>1 DEF TimersAreAccounted


\* No handler refers to what is made for a message whose lookup goes on.
LEMMA RefsOfLookup ==
  ASSUME WorkflowIInv, NEW m \in Msgs, LooksUp(m), NEW a
  PROVE  RefsNow(a)[m] = IF at[m] = "roles"
                         THEN {s \in Got(load[m]) : AgentOf(load[m].config, s) = a} ELSE {}
PROOF
<1>1. ~ (\E n \in Names : handler[n] = m)
  BY DEF WorkflowIInv, LookupsAreNew
<1> QED BY <1>1 DEF RefsNow, Refs

\* Registering a handler moves what was made for the lookup to the handler, and
\* wastes what the handler before it held.
LEMMA RegisteredAccount ==
  ASSUME WorkflowIInv, [WorkflowNext]_workflowVars, NEW m \in Msgs, LooksUp(m), Name(m) \in Names,
         NEW o \in Object, Registered(m, o), \A x \in Msgs \ {m} : load'[x] = load[x],
         NEW a \in Names, timers'[a] \in Nat,
         timers'[a] + Cardinality(RefsNow(a)[m]) = timers[a] + Cardinality(Held(o, a))
  PROVE  timers'[a] = wasted'[a] + Cardinality(All(RefsNow(a)'))
PROOF
<1>0. /\ at \in [Msgs -> Steps] /\ handler \in [Names -> Msgs \cup {Nothing}]
      /\ serves \in [Msgs -> Object \cup {Nothing}]
      /\ timers[a] \in Nat /\ wasted[a] \in Nat /\ Nothing \notin Msgs
  BY WorkflowAssumption DEF WorkflowIInv, WorkflowTyped, WorkflowTypeOK
<1> DEFINE old == handler[Name(m)]
<1>1. /\ serves' = [serves EXCEPT ![m] = o]
      /\ handler' = [handler EXCEPT ![Name(m)] = m]
      /\ at' = [at EXCEPT ![m] = "queued"]
      /\ wasted'[a] = wasted[a] + (IF old = Nothing THEN 0 ELSE Cardinality(Held(serves[old], a)))
  BY DEF Registered
<1>2. /\ serves'[m] = o /\ handler'[Name(m)] = m /\ at'[m] = "queued"
      /\ \A x \in Msgs \ {m} : serves'[x] = serves[x] /\ at'[x] = at[x]
      /\ \A n \in Names \ {Name(m)} : handler'[n] = handler[n]
  BY <1>0, <1>1
<1>3. old \in Msgs \cup {Nothing} /\ old # m
  BY <1>0 DEF WorkflowIInv, LookupsAreNew
<1> HIDE DEF old
<1>4. RefsNow(a)'[m] = Held(o, a)
  BY <1>2 DEF RefsNow, Refs
<1>5. ASSUME NEW x \in Msgs \ {m, old}
      PROVE  RefsNow(a)'[x] = RefsNow(a)[x]
  <2>1. (\E n \in Names : handler'[n] = x) <=> (\E n \in Names : handler[n] = x)
    BY <1>2, <1>5 DEF old
  <2>2. at'[x] = at[x] /\ load'[x] = load[x] /\ serves'[x] = serves[x]
    BY <1>2, <1>5
  <2>3. Refs(at[x], load[x], handler', serves[x], x, a) = Refs(at[x], load[x], handler, serves[x], x, a)
    BY <2>1 DEF Refs
  <2>4. RefsNow(a)'[x] = Refs(at'[x], load'[x], handler', serves'[x], x, a)
        /\ RefsNow(a)[x] = Refs(at[x], load[x], handler, serves[x], x, a)
    BY DEF RefsNow
  <2> QED BY <2>2, <2>3, <2>4
<1>6. \A x \in Msgs : IsFiniteSet(RefsNow(a)[x]) /\ IsFiniteSet(RefsNow(a)'[x])
  BY RefsNowFinite
<1>7. timers[a] = wasted[a] + Cardinality(All(RefsNow(a)))
  BY AccountIs DEF WorkflowIInv
<1> DEFINE F == RefsNow(a)
           G == RefsNow(a)'
<1> DEFINE p == Cardinality(All(F))
           q == Cardinality(All(G))
           f == Cardinality(F[m])
           g == Cardinality(G[m])
<1>70. timers[a] = wasted[a] + p /\ timers'[a] + f = timers[a] + g
  BY <1>4, <1>7
<1>8. CASE old = Nothing
  <2>1. \A x \in Msgs \ {m} : G[x] = F[x]
    BY <1>0, <1>5, <1>8
  <2>2. wasted'[a] = wasted[a]
    BY <1>0, <1>1, <1>8
  <2>3. p \in Nat /\ q \in Nat /\ f \in Nat /\ g \in Nat /\ q + f = p + g
    <3>1. \A x \in Msgs : IsFiniteSet(F[x]) /\ IsFiniteSet(G[x])
      BY <1>6
    <3> HIDE DEF F, G
    <3> QED BY ONLY <2>1, <3>1, AccountOne, m \in Msgs
  <2> HIDE DEF F, G, p, q, f, g
  <2>4. timers'[a] = wasted[a] + q
    BY ONLY <1>0, <1>70, <2>3, timers'[a] \in Nat
  <2> QED BY <2>2, <2>4 DEF q, G
<1>9. CASE old # Nothing
  <2>1. old \in Msgs
    BY <1>3, <1>9
  <2>2. at[old] # "roles"
    <3>1. ~ LooksUp(old)
      BY <2>1 DEF WorkflowIInv, LookupsAreNew, old
    <3> QED BY <3>1 DEF LooksUp
  <2>3. F[old] = Held(serves[old], a)
    <3>1. \E n \in Names : handler[n] = old
      BY DEF old
    <3>2. F[old] = Refs(at[old], load[old], handler, serves[old], old, a)
      BY <2>1 DEF RefsNow
    <3> QED BY <2>2, <3>1, <3>2 DEF Refs
  <2>4. G[old] = {}
    <3>1. ASSUME NEW n \in Names, handler'[n] = old
          PROVE  FALSE
      <4>1. n # Name(m)
        BY <1>2, <1>3, <3>1
      <4>2. handler[n] = old /\ Name(old) = n
        BY <1>2, <1>9, <3>1, <4>1 DEF WorkflowIInv, HandlersServe
      <4>3. Name(old) = Name(m)
        BY <1>9 DEF WorkflowIInv, HandlersServe, old
      <4> QED BY <4>1, <4>2, <4>3
    <3>2. at'[old] # "roles"
      BY <1>2, <1>3, <2>1, <2>2
    <3>3. G[old] = Refs(at'[old], load'[old], handler', serves'[old], old, a)
      BY <2>1 DEF RefsNow
    <3> QED BY <3>1, <3>2, <3>3 DEF Refs
  <2>5. \A x \in Msgs \ {m, old} : G[x] = F[x]
    BY <1>5
  <2> DEFINE n == Cardinality(F[old])
  <2>6. wasted'[a] = wasted[a] + n
    BY <1>1, <1>9, <2>3
  <2>7. /\ p \in Nat /\ q \in Nat /\ f \in Nat /\ g \in Nat /\ n \in Nat
        /\ q + f + n = p + g
    <3>1. \A x \in Msgs : IsFiniteSet(F[x]) /\ IsFiniteSet(G[x])
      BY <1>6
    <3> HIDE DEF F, G
    <3> QED BY ONLY <1>3, <2>1, <2>4, <2>5, <3>1, AccountTwo, m \in Msgs
  <2> HIDE DEF F, G, p, q, f, g, n
  <2>8. timers'[a] = wasted[a] + n + q
    BY ONLY <1>0, <1>70, <2>7, timers'[a] \in Nat
  <2> QED BY <2>6, <2>8 DEF q, G
<1> QED BY <1>8, <1>9

\* A step that registers nothing changes what is referred to for one message at most.
LEMMA UnregisteredAccount ==
  ASSUME WorkflowIInv, [WorkflowNext]_workflowVars, NEW m \in Msgs,
         handler' = handler, serves' = serves,
         \A x \in Msgs \ {m} : at'[x] = at[x] /\ load'[x] = load[x],
         NEW a \in Names, timers'[a] \in Nat, wasted'[a] \in Nat,
         timers'[a] + wasted[a] + Cardinality(RefsNow(a)[m])
           = timers[a] + wasted'[a] + Cardinality(RefsNow(a)'[m])
  PROVE  timers'[a] = wasted'[a] + Cardinality(All(RefsNow(a)'))
PROOF
<1>0. timers[a] \in Nat /\ wasted[a] \in Nat
  BY DEF WorkflowIInv, WorkflowTyped, WorkflowTypeOK
<1>1. \A x \in Msgs : IsFiniteSet(RefsNow(a)[x]) /\ IsFiniteSet(RefsNow(a)'[x])
  BY RefsNowFinite
<1>2. timers[a] = wasted[a] + Cardinality(All(RefsNow(a)))
  BY AccountIs DEF WorkflowIInv
<1>3. \A x \in Msgs \ {m} : RefsNow(a)'[x] = RefsNow(a)[x]
  BY DEF RefsNow
<1> DEFINE F == RefsNow(a)
           G == RefsNow(a)'
           p == Cardinality(All(F))
           q == Cardinality(All(G))
           f == Cardinality(F[m])
           g == Cardinality(G[m])
<1>4. p \in Nat /\ q \in Nat /\ f \in Nat /\ g \in Nat /\ q + f = p + g
  <2> HIDE DEF F, G
  <2>1. (\A x \in Msgs : IsFiniteSet(F[x]) /\ IsFiniteSet(G[x])) /\ \A x \in Msgs \ {m} : G[x] = F[x]
    BY <1>1, <1>3 DEF F, G
  <2> QED BY ONLY <2>1, AccountOne, m \in Msgs
<1> DEFINE t == timers[a]
           w == wasted[a]
           t2 == timers'[a]
           w2 == wasted'[a]
<1>5. t \in Nat /\ w \in Nat /\ t2 \in Nat /\ w2 \in Nat
      /\ t = w + p /\ t2 + w + f = t + w2 + g
  BY <1>0, <1>2
<1> HIDE DEF F, G, p, q, f, g, t, w, t2, w2
<1>6. t2 = w2 + q
  BY ONLY <1>4, <1>5
<1> QED BY <1>6 DEF q, G, t2, w2


\* The timers of a, after step, are those wasted and those referred to.
Accounted(a) == timers'[a] = wasted'[a] + Cardinality(All(RefsNow(a)'))

\* A step that makes no timer, registers nothing and leaves what is referred to.
LEMMA NothingMade ==
  ASSUME WorkflowIInv, [WorkflowNext]_workflowVars, NEW a \in Names, NEW m \in Msgs,
         timers'[a] = timers[a], wasted'[a] = wasted[a],
         handler' = handler, serves' = serves,
         \A x \in Msgs \ {m} : at'[x] = at[x] /\ load'[x] = load[x],
         RefsNow(a)'[m] = RefsNow(a)[m]
  PROVE  Accounted(a)
PROOF
<1>1. timers[a] \in Nat /\ wasted[a] \in Nat
  BY DEF WorkflowIInv, WorkflowTyped, WorkflowTypeOK
<1>2. IsFiniteSet(RefsNow(a)[m])
  BY RefsNowFinite
<1>3. Cardinality(RefsNow(a)[m]) \in Nat
  BY <1>2, FS_CardinalityType
<1>4. timers'[a] + wasted[a] + Cardinality(RefsNow(a)[m])
        = timers[a] + wasted'[a] + Cardinality(RefsNow(a)'[m])
  OBVIOUS
<1> QED BY <1>1, <1>4, UnregisteredAccount DEF Accounted

\* The agent of one more role, if it is a.
LEMMA OneMore ==
  ASSUME NEW S, IsFiniteSet(S), NEW s, s \notin S, NEW T, NEW b \in BOOLEAN,
         T = IF b THEN S \cup {s} ELSE S
  PROVE  /\ Cardinality(S) \in Nat /\ Cardinality(T) \in Nat
         /\ Cardinality(T) = Cardinality(S) + (IF b THEN 1 ELSE 0)
PROOF
<1>1. Cardinality(S) \in Nat
  BY FS_CardinalityType
<1>2. CASE b
  BY <1>1, <1>2, FS_AddElement
<1>3. CASE ~ b
  BY <1>1, <1>3
<1> QED BY <1>2, <1>3

\* An agent loaded for its name has one timer more, and one reference more; those
\* of a handler it replaces are wasted.
LEMMA AgentAccounted ==
  ASSUME WorkflowIInv, [WorkflowNext]_workflowVars, NEW m \in Msgs, LookUpAgent(m), NEW a \in Names
  PROVE  Accounted(a)
PROOF
<1>0. timers \in [Names -> Nat] /\ wasted \in [Names -> Nat] /\ at \in [Msgs -> Steps]
  BY DEF WorkflowIInv, WorkflowTyped, WorkflowTypeOK
<1>1. Lookup(m) /\ at[m] = "agent" /\ load' = load
  BY DEF Lookup, LookUpAgent
<1>2. LooksUp(m) /\ Name(m) \in Names /\ Plain[Name(m)] \in Names /\ \A n \in Names : handler[n] # m
  <2>1. LooksUp(m) /\ Name(m) \in Names /\ \A n \in Names : handler[n] # m
    BY <1>1, LookupFacts
  <2>2. Plain[Name(m)] \in Names
    BY <2>1, WorkflowAssumption
  <2> QED BY <2>1, <2>2
<1>3. RefsNow(a)[m] = {}
  BY <1>1, <1>2, RefsOfLookup
<1>4. AgentGot(Name(m)) \in {"raises", "none", "agent"}
  BY DEF AgentGot
<1>5. CASE AgentGot(Name(m)) \in {"raises", "none"}
  <2>1. /\ timers' = timers /\ wasted' = wasted /\ handler' = handler /\ serves' = serves
        /\ \E step \in {"raised", "workflow"} : at' = [at EXCEPT ![m] = step]
    BY <1>5 DEF LookUpAgent, LookupGoesTo, bus
  <2>2. at'[m] # "roles" /\ \A x \in Msgs \ {m} : at'[x] = at[x] /\ load'[x] = load[x]
    BY <1>0, <1>1, <2>1
  <2>3. RefsNow(a)'[m] = {}
    BY <1>2, <2>1, <2>2 DEF RefsNow, Refs
  <2> QED BY <1>3, <2>1, <2>2, <2>3, NothingMade
<1>6. CASE AgentGot(Name(m)) = "agent"
  <2> DEFINE p == Plain[Name(m)]
             o == [kind |-> "agent", name |-> p]
  <2>1. Registered(m, o) /\ timers' = [timers EXCEPT ![p] = @ + 1]
    BY <1>6 DEF LookUpAgent
  <2>2. o \in Object /\ o # Nothing /\ o.kind = "agent" /\ o.name = p
    <3>1. o \in Object
      BY <1>2 DEF Object
    <3> HIDE DEF o
    <3>2. o # Nothing
      BY <3>1, ObjectFacts
    <3> QED BY <3>1, <3>2 DEF o
  <2> HIDE DEF o, p
  <2>3. Held(o, a) = IF a = p THEN {Nothing} ELSE {}
    BY <2>2 DEF Held
  <2>4. Cardinality({}) = 0 /\ Cardinality({Nothing}) = 1
    BY FS_EmptySet, FS_Singleton
  <2>5. timers'[a] = timers[a] + (IF a = p THEN 1 ELSE 0) /\ timers[a] \in Nat
    BY <1>0, <2>1
  <2>6. Cardinality(Held(o, a)) = IF a = p THEN 1 ELSE 0
    BY <2>3, <2>4
  <2>7. timers'[a] \in Nat
    BY ONLY <2>5
  <2>8. timers'[a] + Cardinality(RefsNow(a)[m]) = timers[a] + Cardinality(Held(o, a))
    BY ONLY <1>3, <2>4, <2>5, <2>6, <2>7
  <2> QED BY <1>1, <1>2, <2>1, <2>2, <2>7, <2>8, RegisteredAccount DEF Accounted
<1> QED BY <1>4, <1>5, <1>6

\* A contact refers to no agent and has no timer.
LEMMA ContactAccounted ==
  ASSUME WorkflowIInv, [WorkflowNext]_workflowVars, NEW m \in Msgs, LookUpContact(m), NEW a \in Names
  PROVE  Accounted(a)
PROOF
<1>0. timers[a] \in Nat /\ at \in [Msgs -> Steps]
  BY DEF WorkflowIInv, WorkflowTyped, WorkflowTypeOK
<1>1. Lookup(m) /\ at[m] = "contact" /\ load' = load /\ timers' = timers
  BY DEF Lookup, LookUpContact
<1>2. LooksUp(m) /\ Name(m) \in Names /\ \A n \in Names : handler[n] # m
  BY <1>1, LookupFacts
<1>3. RefsNow(a)[m] = {}
  BY <1>1, <1>2, RefsOfLookup
<1>4. CASE Name(m) \notin Contacts
  <2>1. /\ wasted' = wasted /\ handler' = handler /\ serves' = serves
        /\ at' = [at EXCEPT ![m] = "unknown"]
    BY <1>4 DEF LookUpContact, LookupGoesTo, bus
  <2>2. at'[m] # "roles" /\ \A x \in Msgs \ {m} : at'[x] = at[x] /\ load'[x] = load[x]
    BY <1>0, <1>1, <2>1
  <2>3. RefsNow(a)'[m] = {}
    BY <1>2, <2>1, <2>2 DEF RefsNow, Refs
  <2> QED BY <1>1, <1>3, <2>1, <2>2, <2>3, NothingMade
<1>5. CASE Name(m) \in Contacts
  <2> DEFINE o == [kind |-> "contact"]
  <2>1. Registered(m, o)
    BY <1>5 DEF LookUpContact
  <2>2. o \in Object /\ o.kind = "contact"
    BY DEF Object
  <2> HIDE DEF o
  <2>3. Held(o, a) = {}
    BY <2>2 DEF Held
  <2>4. timers'[a] \in Nat /\ timers'[a] + Cardinality(RefsNow(a)[m]) = timers[a] + Cardinality(Held(o, a))
    BY <1>0, <1>1, <1>3, <2>3
  <2> QED BY <1>1, <1>2, <2>1, <2>2, <2>4, RegisteredAccount DEF Accounted
<1> QED BY <1>4, <1>5

\* A workflow that starts to load refers to nothing yet, and one without roles has
\* nothing to refer to.
LEMMA WorkflowAccounted ==
  ASSUME WorkflowIInv, [WorkflowNext]_workflowVars, NEW m \in Msgs, LookUpWorkflow(m), NEW a \in Names
  PROVE  Accounted(a)
PROOF
<1>0. at \in [Msgs -> Steps] /\ DOMAIN load = Msgs /\ timers[a] \in Nat /\ WorkflowTyped
  BY DEF WorkflowIInv, WorkflowTyped, WorkflowTypeOK
<1>1. Lookup(m) /\ at[m] = "workflow"
  BY DEF Lookup, LookUpWorkflow
<1>2. LooksUp(m) /\ Name(m) \in Names /\ \A n \in Names : handler[n] # m
  BY <1>1, LookupFacts
<1>3. RefsNow(a)[m] = {}
  BY <1>1, <1>2, RefsOfLookup
<1> DEFINE c == Loaded("workflows", Name(m))
<1>4. /\ timers' = timers
      /\ \/ LookupGoesTo(m, "contact") /\ load' = load /\ wasted' = wasted
         \/ /\ LookupGoesTo(m, "roles") /\ wasted' = wasted
            /\ load' = [load EXCEPT ![m] = [config |-> c, left |-> Slots(c)]]
         \/ \E o \in Object : /\ o.kind = "workflow" /\ Slots(o.config) = {}
                              /\ Registered(m, o) /\ load' = load
  BY <1>0, <1>2, WorkflowLookedUp
<1> HIDE DEF c
<1>5. CASE \/ LookupGoesTo(m, "contact") /\ load' = load /\ wasted' = wasted
           \/ /\ LookupGoesTo(m, "roles") /\ wasted' = wasted
              /\ load' = [load EXCEPT ![m] = [config |-> c, left |-> Slots(c)]]
  <2>1. /\ handler' = handler /\ serves' = serves /\ wasted' = wasted
        /\ \/ at' = [at EXCEPT ![m] = "contact"] /\ load' = load
           \/ /\ at' = [at EXCEPT ![m] = "roles"]
              /\ load' = [load EXCEPT ![m] = [config |-> c, left |-> Slots(c)]]
    BY <1>5 DEF LookupGoesTo, bus
  <2>2. (at'[m] = "roles" => Got(load'[m]) = {})
        /\ \A x \in Msgs \ {m} : at'[x] = at[x] /\ load'[x] = load[x]
    BY <1>0, <2>1 DEF Got
  <2>3. RefsNow(a)'[m] = {}
    BY <1>2, <2>1, <2>2 DEF RefsNow, Refs
  <2> QED BY <1>3, <1>4, <2>1, <2>2, <2>3, NothingMade
<1>6. ASSUME NEW o \in Object, o.kind = "workflow", Slots(o.config) = {}, Registered(m, o), load' = load
      PROVE  Accounted(a)
  <2>1. Held(o, a) = {}
    BY <1>6, ObjectFacts DEF Held
  <2>2. timers'[a] \in Nat /\ timers'[a] + Cardinality(RefsNow(a)[m]) = timers[a] + Cardinality(Held(o, a))
    BY <1>0, <1>3, <1>4, <2>1
  <2>3. \A x \in Msgs \ {m} : load'[x] = load[x]
    BY <1>6
  <2> QED BY <1>2, <1>6, <2>2, <2>3, RegisteredAccount DEF Accounted
<1> QED BY <1>4, <1>5, <1>6

\* The agent a command of the shell makes is one more that nothing refers to.
LEMMA CommandAccounted ==
  ASSUME WorkflowIInv, NEW n \in Names, ShellLooksUp(n), NEW a \in Names
  PROVE  Accounted(a)
PROOF
<1>0. timers \in [Names -> Nat] /\ wasted \in [Names -> Nat]
  BY DEF WorkflowIInv, WorkflowTyped, WorkflowTypeOK
<1>1. /\ timers' = [timers EXCEPT ![Plain[n]] = @ + 1]
      /\ wasted' = [wasted EXCEPT ![Plain[n]] = @ + 1]
      /\ at' = at /\ load' = load /\ handler' = handler /\ serves' = serves
  BY DEF ShellLooksUp, bus
<1>2. RefsNow(a)' = RefsNow(a)
  BY <1>1 DEF RefsNow
<1>3. timers[a] = wasted[a] + Cardinality(All(RefsNow(a)))
  BY AccountIs DEF WorkflowIInv
<1> DEFINE q == Cardinality(All(RefsNow(a)))
<1>4. q \in Nat
  <2>1. \A x \in Msgs : RefsNow(a)[x] = Refs(at[x], load[x], handler, serves[x], x, a)
    BY DEF RefsNow
  <2>2. ASSUME NEW x \in Msgs
        PROVE  IsFiniteSet(RefsNow(a)[x])
    <3>1. serves[x] \in Object \cup {Nothing}
      BY DEF WorkflowIInv, WorkflowTyped, WorkflowTypeOK
    <3>2. at[x] = "roles" => LoadIsOfConfig(load[x])
      BY DEF WorkflowIInv, LoadsAreOfConfigs, LoadIsOfConfig
    <3> QED BY <2>1, <3>1, <3>2, RefsFinite
  <2> DEFINE F == RefsNow(a)
  <2>3. \A x \in Msgs : IsFiniteSet(F[x])
    BY <2>2
  <2> HIDE DEF F
  <2>4. CASE Msgs = {}
    <3>1. All(F) = {}
      BY <2>4 DEF All, Pairs
    <3> QED BY <3>1, FS_EmptySet DEF F
  <2>5. ASSUME NEW m \in Msgs
        PROVE  Cardinality(All(F)) \in Nat
    BY ONLY <2>3, AccountOne, m \in Msgs
  <2> QED BY <2>4, <2>5 DEF F
<1> HIDE DEF q
<1>5. timers'[a] = timers[a] + (IF a = Plain[n] THEN 1 ELSE 0)
      /\ wasted'[a] = wasted[a] + (IF a = Plain[n] THEN 1 ELSE 0)
      /\ timers[a] \in Nat /\ wasted[a] \in Nat /\ timers[a] = wasted[a] + q
  BY <1>0, <1>1, <1>3 DEF q
<1>6. timers'[a] = wasted'[a] + q
  BY ONLY <1>4, <1>5
<1> QED BY <1>2, <1>6 DEF Accounted, q

\* A role loaded has one timer more, and one reference more; those of a load that
\* is given up, and of a handler that is replaced, are wasted.
LEMMA RoleAccounted ==
  ASSUME WorkflowIInv, [WorkflowNext]_workflowVars, NEW m \in Msgs, LoadRole(m), NEW a \in Names
  PROVE  Accounted(a)
PROOF
<1>0. /\ timers \in [Names -> Nat] /\ wasted \in [Names -> Nat]
      /\ at \in [Msgs -> Steps] /\ DOMAIN load = Msgs
  BY DEF WorkflowIInv, WorkflowTyped, WorkflowTypeOK
<1>1. Lookup(m) /\ at[m] = "roles"
  BY DEF Lookup, LoadRole
<1>2. LooksUp(m) /\ Name(m) \in Names /\ \A n \in Names : handler[n] # m
  BY <1>1, LookupFacts
<1> DEFINE c == load[m].config
           got == {s \in Got(load[m]) : AgentOf(load[m].config, s) = a}
<1>3. RefsNow(a)[m] = got
  BY <1>1, <1>2, RefsOfLookup
<1>4. LoadIsOfConfig(load[m])
  BY <1>1 DEF WorkflowIInv, LoadsAreOfConfigs, LoadIsOfConfig
<1>5. IsFiniteSet(got) /\ Cardinality(got) \in Nat
  BY <1>1, GotFinite DEF WorkflowIInv
<1>6. PICK s \in load[m].left :
        LET b == AgentOf(load[m].config, s) IN
        CASE AgentGot(b) = "raises" -> LookupGoesTo(m, "raised") /\ GivenUp(m)
          [] AgentGot(b) = "none" -> LookupGoesTo(m, "contact") /\ GivenUp(m)
          [] AgentGot(b) = "agent" ->
               /\ timers' = [timers EXCEPT ![b] = @ + 1]
               /\ IF load[m].left = {s}
                  THEN /\ Registered(m, [kind |-> "workflow", config |-> load[m].config,
                                         manned |-> Got(load[m]) \cup {s}])
                       /\ load' = [load EXCEPT ![m] = Nothing]
                  ELSE /\ load' = [load EXCEPT ![m].left = @ \ {s}]
                       /\ UNCHANGED <<bus, at, wasted>>
  BY DEF LoadRole
<1> DEFINE b == AgentOf(load[m].config, s)
<1>7. s \in Slots(c) /\ s \notin got /\ b \in Names /\ c \in DOMAIN Config
  BY <1>4, <1>6, ConfigFacts DEF LoadIsOfConfig, Got
<1>8. AgentGot(b) \in {"raises", "none", "agent"}
  BY DEF AgentGot
\* The load is given up.
<1>9. CASE AgentGot(b) \in {"raises", "none"}
  <2>1. /\ GivenUp(m) /\ handler' = handler /\ serves' = serves
        /\ \E step \in {"raised", "contact"} : at' = [at EXCEPT ![m] = step]
    BY <1>6, <1>9 DEF LookupGoesTo, bus
  <2>2. /\ timers'[a] = timers[a] /\ wasted'[a] = wasted[a] + Cardinality(got)
        /\ load' = [load EXCEPT ![m] = Nothing]
    BY <2>1 DEF GivenUp
  <2>3. at'[m] # "roles" /\ \A x \in Msgs \ {m} : at'[x] = at[x] /\ load'[x] = load[x]
    BY <1>0, <2>1, <2>2
  <2>4. RefsNow(a)'[m] = {} /\ Cardinality({}) = 0
    BY <1>2, <2>1, <2>3, FS_EmptySet DEF RefsNow, Refs
  <2>5. timers[a] \in Nat /\ wasted[a] \in Nat /\ Cardinality(RefsNow(a)[m]) = Cardinality(got)
        /\ Cardinality(RefsNow(a)'[m]) = 0
    BY <1>0, <1>3, <2>4
  <2> DEFINE n == Cardinality(got)
  <2>6. n \in Nat /\ wasted'[a] = wasted[a] + n /\ Cardinality(RefsNow(a)[m]) = n
    BY <1>5, <2>2, <2>5
  <2> HIDE DEF n, got
  <2>7. timers'[a] \in Nat /\ wasted'[a] \in Nat
        /\ timers'[a] + wasted[a] + Cardinality(RefsNow(a)[m])
             = timers[a] + wasted'[a] + Cardinality(RefsNow(a)'[m])
    BY <2>2, <2>5, <2>6
  <2> QED BY <2>1, <2>3, <2>7, UnregisteredAccount DEF Accounted
\* One more agent, and perhaps the last one.
<1>10. CASE AgentGot(b) = "agent"
  <2>1. timers' = [timers EXCEPT ![b] = @ + 1]
    BY <1>6, <1>10
  <2>2. timers'[a] = timers[a] + (IF b = a THEN 1 ELSE 0) /\ timers[a] \in Nat /\ timers'[a] \in Nat
    <3>1. timers'[a] = IF b = a THEN timers[a] + 1 ELSE timers[a]
      BY <1>0, <2>1
    <3>2. timers[a] \in Nat
      BY <1>0
    <3> HIDE DEF b
    <3> QED BY ONLY <3>1, <3>2
  <2> DEFINE next == IF b = a THEN got \cup {s} ELSE got
  <2>3. Cardinality(next) = Cardinality(got) + (IF b = a THEN 1 ELSE 0) /\ Cardinality(next) \in Nat
    <3>1. (b = a) \in BOOLEAN
      OBVIOUS
    <3> HIDE DEF got, b
    <3> QED BY <1>5, <1>7, <3>1, OneMore
  <2>4. timers'[a] + Cardinality(got) = timers[a] + Cardinality(next)
    <3> DEFINE n == Cardinality(got)
               k == Cardinality(next)
               i == IF b = a THEN 1 ELSE 0
    <3>1. n \in Nat /\ k \in Nat /\ i \in Nat /\ k = n + i /\ timers'[a] = timers[a] + i
      BY <1>5, <2>2, <2>3
    <3> HIDE DEF n, k, i
    <3>2. timers'[a] + n = timers[a] + k
      BY ONLY <2>2, <3>1
    <3> QED BY <3>2 DEF n, k
  <2>5. CASE load[m].left = {s}
    <3> DEFINE o == [kind |-> "workflow", config |-> load[m].config, manned |-> Got(load[m]) \cup {s}]
    <3>1. Registered(m, o) /\ load' = [load EXCEPT ![m] = Nothing]
      BY <1>6, <1>10, <2>5
    <3>2. Got(load[m]) = Slots(c) \ {s}
      BY <2>5 DEF Got
    <3>3. o \in [kind : {"workflow"}, config : {c}, manned : SUBSET Slots(c)]
          /\ o.kind = "workflow" /\ o.config = c
      BY <1>7, <3>2
    <3>4. o \in Object
      <4> HIDE DEF o, c
      <4> QED BY <1>7, <3>3 DEF Object
    <3> HIDE DEF o
    <3>5. Held(o, a) = {r \in Slots(c) : AgentOf(c, r) = a}
      <4>1. o # Nothing
        BY <3>4, ObjectFacts
      <4> QED BY <3>3, <4>1 DEF Held
    <3>6. Held(o, a) = next
      BY <1>7, <3>2, <3>5
    <3>7. \A x \in Msgs \ {m} : load'[x] = load[x]
      BY <1>0, <3>1
    <3>8. timers'[a] + Cardinality(RefsNow(a)[m]) = timers[a] + Cardinality(Held(o, a))
      <4> HIDE DEF got, next
      <4> QED BY <1>3, <2>4, <3>6
    <3> HIDE DEF got, next, b, c
    <3> QED BY <1>2, <2>2, <3>1, <3>4, <3>7, <3>8, RegisteredAccount DEF Accounted
  <2>6. CASE load[m].left # {s}
    <3>1. load' = [load EXCEPT ![m].left = @ \ {s}] /\ at' = at /\ handler' = handler
          /\ serves' = serves /\ wasted' = wasted
      BY <1>6, <1>10, <2>6 DEF bus
    <3>2. load'[m] = [config |-> c, left |-> load[m].left \ {s}]
      BY <1>0, <1>4, <3>1 DEF LoadIsOfConfig
    <3>3. load'[m].config = c /\ Got(load'[m]) = Got(load[m]) \cup {s}
      BY <1>7, <3>2 DEF Got
    <3>4. RefsNow(a)'[m] = {r \in Got(load'[m]) : AgentOf(c, r) = a}
      BY <1>1, <1>2, <3>1, <3>3 DEF RefsNow, Refs
    <3>5. RefsNow(a)'[m] = next
      BY <3>3, <3>4
    <3>6. \A x \in Msgs \ {m} : at'[x] = at[x] /\ load'[x] = load[x]
      BY <1>0, <3>1
    <3> DEFINE n == Cardinality(got)
               k == Cardinality(next)
    <3>7. Cardinality(RefsNow(a)[m]) = n /\ Cardinality(RefsNow(a)'[m]) = k /\ n \in Nat /\ k \in Nat
          /\ timers'[a] + n = timers[a] + k /\ wasted'[a] = wasted[a] /\ wasted[a] \in Nat
      BY <1>0, <1>3, <1>5, <2>3, <2>4, <3>1, <3>5
    <3> HIDE DEF got, next, b, c, n, k
    <3>8. timers'[a] + wasted[a] + n = timers[a] + wasted[a] + k
      BY ONLY <2>2, <3>7
    <3>9. timers'[a] + wasted[a] + Cardinality(RefsNow(a)[m])
            = timers[a] + wasted'[a] + Cardinality(RefsNow(a)'[m])
      BY <3>7, <3>8
    <3> QED BY <2>2, <3>1, <3>6, <3>7, <3>9, UnregisteredAccount DEF Accounted
  <2> QED BY <2>5, <2>6
<1> QED BY <1>8, <1>9, <1>10

\* Every timer is wasted, or that of an agent something refers to.
LEMMA TimersKept ==
  ASSUME WorkflowIInv, [WorkflowNext]_workflowVars
  PROVE  TimersAreAccounted'
PROOF
<1>0. at \in [Msgs -> Steps] /\ TimersAreAccounted
  BY DEF WorkflowIInv, WorkflowTyped, WorkflowTypeOK
<1>1. ASSUME NEW m \in Msgs, Lookup(m), NEW a \in Names
      PROVE  Accounted(a)
  BY <1>1, AgentAccounted, ContactAccounted, WorkflowAccounted, RoleAccounted DEF Lookup
<1>2. ASSUME timers' = timers, wasted' = wasted, load' = load, handler' = handler, serves' = serves,
             \A x \in Msgs : (at'[x] = "roles") <=> (at[x] = "roles"), NEW a \in Names
      PROVE  Accounted(a)
  <2>1. ASSUME NEW x \in Msgs
        PROVE  Refs(at'[x], load[x], handler, serves[x], x, a) = Refs(at[x], load[x], handler, serves[x], x, a)
    BY <1>2 DEF Refs
  <2>2. RefsNow(a)' = [x \in Msgs |-> Refs(at'[x], load[x], handler, serves[x], x, a)]
    BY <1>2 DEF RefsNow
  <2>3. RefsNow(a)' = RefsNow(a)
    BY <2>1, <2>2 DEF RefsNow
  <2>4. timers[a] = wasted[a] + Cardinality(All(RefsNow(a)))
    BY <1>0, AccountIs
  <2> QED BY <1>2, <2>3, <2>4 DEF Accounted
<1>5. ASSUME NEW n \in Names, ShellLooksUp(n), NEW a \in Names
      PROVE  Accounted(a)
  BY <1>5, CommandAccounted
<1>3. ASSUME ~ (\E m \in Msgs : Lookup(m)), ~ (\E n \in Names : ShellLooksUp(n))
      PROVE  /\ timers' = timers /\ wasted' = wasted /\ load' = load
             /\ handler' = handler /\ serves' = serves
             /\ \A x \in Msgs : (at'[x] = "roles") <=> (at[x] = "roles")
  <2>1. CASE UserActs \/ KernelTakes \/ (\E t \in running : NodeEnds(t)) \/ UNCHANGED workflowVars
    BY <1>3, <2>1, QuietSteps
  <2>2. ASSUME NEW m \in Msgs, at[m] # "roles",
               \E step : step # "roles" /\ at' = [at EXCEPT ![m] = step]
        PROVE  \A x \in Msgs : (at'[x] = "roles") <=> (at[x] = "roles")
    BY <1>0, <2>2
  <2>3. ASSUME NEW m \in Msgs, Send(m)
        PROVE  /\ timers' = timers /\ wasted' = wasted /\ load' = load
               /\ handler' = handler /\ serves' = serves
               /\ \A x \in Msgs : (at'[x] = "roles") <=> (at[x] = "roles")
    <3>1. /\ timers' = timers /\ wasted' = wasted /\ load' = load
          /\ handler' = handler /\ serves' = serves /\ at[m] # "roles"
      BY <2>3, SendFacts
    <3>2. \E step \in {"queued", "agent"} : at' = [at EXCEPT ![m] = step]
      BY <2>3, SendFacts
    <3> QED BY <2>2, <3>1, <3>2
  <2>4. ASSUME NEW h \in Msgs, Handle(h)
        PROVE  /\ timers' = timers /\ wasted' = wasted /\ load' = load
               /\ handler' = handler /\ serves' = serves
               /\ \A x \in Msgs : (at'[x] = "roles") <=> (at[x] = "roles")
    <3> DEFINE m == Head(queue[h])
    <3>1. m \in Msgs /\ at[m] # "roles"
      BY <2>4, HandleFacts
    <3>2. /\ timers' = timers /\ wasted' = wasted /\ load' = load
          /\ handler' = handler /\ serves' = serves
          /\ \E step \in EndSteps \cup {"asking"} : at' = [at EXCEPT ![m] = step]
      BY <2>4, HandleChanges
    <3>3. "roles" \notin EndSteps \cup {"asking"}
      BY DEF EndSteps
    <3> HIDE DEF m
    <3> QED BY <2>2, <3>1, <3>2, <3>3
  <2>5. ASSUME NEW m \in Msgs, AnswerComes(m)
        PROVE  /\ timers' = timers /\ wasted' = wasted /\ load' = load
               /\ handler' = handler /\ serves' = serves
               /\ \A x \in Msgs : (at'[x] = "roles") <=> (at[x] = "roles")
    <3>1. /\ timers' = timers /\ wasted' = wasted /\ load' = load
          /\ handler' = handler /\ serves' = serves /\ at[m] # "roles"
      BY <2>5, AnswerChanges
    <3>2. \E step \in {"replied", "raised", "asking"} : at' = [at EXCEPT ![m] = step]
      BY <2>5, AnswerChanges
    <3> QED BY <2>2, <3>1, <3>2
  <2> QED BY <1>3, <2>1, <2>3, <2>4, <2>5, WorkflowSteps
<1>4. \A a \in Names : Accounted(a)
  BY <1>1, <1>2, <1>3, <1>5
<1> QED BY <1>4, AccountIsThen DEF Accounted


-----------------------------------------------------------------------------
(* The theorems about workflows.                                            *)

\* The initial states satisfy it.
LEMMA InitWorkflowIInv == WorkflowInit => WorkflowIInv
PROOF
<1> SUFFICES ASSUME WorkflowInit PROVE WorkflowIInv
  OBVIOUS
<1> USE DEF WorkflowInit
<1>1. WorkflowTyped
  <2>1. tasks \in Seq(Task) /\ running \subseteq Task
    OBVIOUS
  <2>2. \A t \in Range(tasks) \cup running : t.model \in {"name", "number", "none"}
    BY DEF Range
  <2>3. acts \in 0 .. MaxActs
    BY WorkflowAssumption
  <2>4. at \in [Msgs -> Steps]
    BY DEF Steps
  <2>5. \A e \in Envs, n \in Names : Package("workflows", e, n) \in {"none", "broken"} \cup DOMAIN Config
    BY WorkflowAssumption DEF Package
  <2> QED BY <2>1, <2>2, <2>3, <2>4, <2>5 DEF WorkflowTyped, WorkflowTypeOK
<1>2. LookupsAreNew /\ LoadsAreOfConfigs /\ HandlersServe /\ NoReplyYet /\ FunctionsAreBounded
  <2>1. \A m \in Msgs : Nothing # m
    BY WorkflowAssumption
  <2> QED BY <2>1, WorkflowAssumption
          DEF LookupsAreNew, LoadsAreOfConfigs, HandlersServe, NoReplyYet, FunctionsAreBounded
<1>3. QueuedOnce /\ AskedByOne
  <2>1. "free" \notin Msgs
    BY WorkflowAssumption
  <2>2. \A h \in Msgs : DOMAIN queue[h] = {}
    OBVIOUS
  <2> QED BY <2>1, <2>2 DEF QueuedOnce, AskedByOne
<1>4. RolesAreRight /\ ServedAreManned /\ NumbersAreRoles
  BY DEF RolesAreRight, ServedAreManned, Workflows, NumbersAreRoles
<1>5. TimersAreAccounted
  <2>1. ASSUME NEW a \in Names
        PROVE  All(RefsNow(a)) = {}
    <3>1. \A m \in Msgs : Nothing # m
      BY WorkflowAssumption
    <3>2. \A x \in Msgs : RefsNow(a)[x] = {}
      BY <3>1 DEF RefsNow, Refs
    <3> QED BY <3>2 DEF All, Pairs
  <2>2. ASSUME NEW a \in Names
        PROVE  timers[a] = wasted[a] + Cardinality(All(RefsNow(a)))
    <3>1. Cardinality(All(RefsNow(a))) = 0
      BY <2>1, FS_EmptySet
    <3>2. timers[a] = 0 /\ wasted[a] = 0
      OBVIOUS
    <3> HIDE DEF WorkflowInit
    <3> QED BY <3>1, <3>2
  <2> QED BY <2>2, AccountIs
<1> QED BY <1>1, <1>2, <1>3, <1>4, <1>5 DEF WorkflowIInv

\* The inductive invariant of workflows.
THEOREM WorkflowsInvariant == WorkflowSpec => []WorkflowIInv
PROOF
<1>1. WorkflowInit => WorkflowIInv
  BY InitWorkflowIInv
<1>2. WorkflowIInv /\ [WorkflowNext]_workflowVars => WorkflowIInv'
  <2> SUFFICES ASSUME WorkflowIInv, [WorkflowNext]_workflowVars
               PROVE  WorkflowIInv'
    OBVIOUS
  <2>1. WorkflowTyped' /\ LookupsAreNew' /\ LoadsAreOfConfigs' /\ HandlersServe' /\ QueuedOnce'
    BY TypedKept, LookupsKept, LoadsKept, HandlersKept, QueuedKept
  <2>2. AskedByOne' /\ RolesAreRight' /\ NoReplyYet' /\ NumbersAreRoles'
    BY AskedKept, RolesKept, NoReplyKept, NumbersKept
  <2>3. ServedAreManned' /\ FunctionsAreBounded' /\ TimersAreAccounted'
    BY MannedKept, FunctionsKept, TimersKept
  <2> QED BY <2>1, <2>2, <2>3 DEF WorkflowIInv
<1> QED BY <1>1, <1>2, PTL DEF WorkflowSpec

\* What a message to a workflow may use up is bounded: a model that always wants
\* another function gets StackLimit + 1 of them, the loop of the kernel ends only of
\* a role whose agent has a token limit, and every timer is that of an agent that
\* something refers to, or that a replaced handler, an abandoned load or a command
\* of the shell left behind.
THEOREM CostsHold == WorkflowSpec => []CostsAreBounded
PROOF
<1>1. WorkflowIInv => CostsAreBounded
  <2> SUFFICES ASSUME WorkflowIInv PROVE CostsAreBounded
    OBVIOUS
  <2>1. LoopEndsOfRolesOnly
    BY DEF WorkflowIInv, NumbersAreRoles, NumberAskers, LoopEndsOfRolesOnly
  <2> QED BY <2>1 DEF WorkflowIInv, CostsAreBounded
<1> QED BY <1>1, WorkflowsInvariant, PTL

\* A workflow is read from the user's package when there is one.
LEMMA UserPackageFirst ==
  ASSUME WorkflowIInv, WorkflowNext, NEW m \in Msgs, at[m] = "workflow",
         at'[m] \in {"roles", "queued"}
  PROVE  (IF at'[m] = "roles" THEN load'[m] ELSE serves'[m]).config =
           IF Hashes[Name(m)] = 0 /\ Package("workflows", "user", Name(m)) # "none"
           THEN Package("workflows", "user", Name(m))
           ELSE Package("workflows", "system", Name(m))
PROOF
<1>0. at \in [Msgs -> Steps] /\ DOMAIN load = Msgs /\ DOMAIN serves = Msgs /\ WorkflowTyped
  BY DEF WorkflowIInv, WorkflowTyped, WorkflowTypeOK
<1>1. LookUpWorkflow(m)
  <2>1. at' # at
    OBVIOUS
  <2>2. PICK k \in Msgs : Send(k) \/ Lookup(k) \/ Handle(k) \/ AnswerComes(k)
    <3>1. ~ (UserActs \/ KernelTakes \/ (\E t \in running : NodeEnds(t)) \/ UNCHANGED workflowVars)
      BY <2>1, QuietSteps
    <3> QED BY <3>1, WorkflowSteps
  <2>3. ~ Send(k)
    <3>1. ASSUME Send(k)
          PROVE  FALSE
      <4>1. at[k] = "idle" /\ \E step \in {"queued", "agent"} : at' = [at EXCEPT ![k] = step]
        BY <3>1, SendFacts
      <4> QED BY <1>0, <4>1
    <3> QED BY <3>1
  <2>4. ~ Handle(k)
    <3>1. ASSUME Handle(k)
          PROVE  FALSE
      <4>1. \E step \in EndSteps \cup {"asking"} : at' = [at EXCEPT ![Head(queue[k])] = step]
        BY <3>1, HandleChanges
      <4>2. {"roles", "queued"} \cap (EndSteps \cup {"asking"}) = {}
        BY DEF EndSteps
      <4> QED BY <1>0, <4>1, <4>2
    <3> QED BY <3>1
  <2>5. ~ AnswerComes(k)
    <3>1. ASSUME AnswerComes(k)
          PROVE  FALSE
      <4>1. \E step \in {"replied", "raised", "asking"} : at' = [at EXCEPT ![k] = step]
        BY <3>1, AnswerChanges
      <4> QED BY <1>0, <4>1
    <3> QED BY <3>1
  <2>6. Lookup(k) /\ k = m
    <3>1. Lookup(k)
      BY <2>2, <2>3, <2>4, <2>5
    <3>2. \E step : at' = [at EXCEPT ![k] = step]
      BY <2>1, <3>1, LookupChanges
    <3> QED BY <1>0, <3>1, <3>2
  <2> QED BY <2>6 DEF Lookup, LookUpAgent, LoadRole, LookUpContact
<1> DEFINE c == Loaded("workflows", Name(m))
<1>2. Name(m) \in Names
  <2>1. Lookup(m)
    BY <1>1 DEF Lookup
  <2> QED BY <2>1, LookupFacts
<1>5. /\ c \in DOMAIN Config
      /\ \/ /\ at' = [at EXCEPT ![m] = "roles"]
            /\ load' = [load EXCEPT ![m] = [config |-> c, left |-> Slots(c)]]
         \/ /\ at' = [at EXCEPT ![m] = "queued"]
            /\ \E o : o.config = c /\ serves' = [serves EXCEPT ![m] = o]
  <2>1. at' # [at EXCEPT ![m] = "contact"]
    BY <1>0
  <2> QED BY <1>0, <1>1, <1>2, <2>1, WorkflowLookedUp DEF LookupGoesTo, Registered
<1>3. (IF at'[m] = "roles" THEN load'[m] ELSE serves'[m]).config = c
  <2> HIDE DEF c
  <2> QED BY <1>0, <1>5
<1>4. c = IF Hashes[Name(m)] = 0 /\ Package("workflows", "user", Name(m)) # "none"
          THEN Package("workflows", "user", Name(m))
          ELSE Package("workflows", "system", Name(m))
  <2>1. c # "none"
    BY <1>0, <1>1 DEF LookUpWorkflow, LookupGoesTo
  <2> QED BY <2>1 DEF Loaded, Source
<1> QED BY <1>3, <1>4

\* A message whose address names a role is answered by that role or not at all,
\* under its own id, in a workflow all of whose roles have their agents; and the
\* workflow is the user's when the user has one of that name.
THEOREM RolesDoAnswer == WorkflowSpec => RolesAnswer
PROOF
<1>1. WorkflowIInv => WorkflowTypeOK /\ ServedAreManned /\ RepliesComeFromTheAddressed
  <2> SUFFICES ASSUME WorkflowIInv
               PROVE  WorkflowTypeOK /\ ServedAreManned /\ RepliesComeFromTheAddressed
    OBVIOUS
  <2>1. ASSUME NEW m \in Msgs, reply[m] # Nothing, role[m] # Nothing
        PROVE  \E h \in Workflows :
                 LET c == serves[h].config IN
                 /\ reply[m] = RoleId(c, role[m])
                 /\ Addressed(c, mail[m].target) \in Slots(c) => role[m] = Addressed(c, mail[m].target)
    <3>1. at[m] \in EndSteps
      BY <2>1 DEF WorkflowIInv, NoReplyYet
    <3> QED BY <2>1, <3>1 DEF WorkflowIInv, RolesAreRight, Processes
  <2>2. RepliesComeFromTheAddressed
    BY <2>1 DEF RepliesComeFromTheAddressed
  <2> QED BY <2>2 DEF WorkflowIInv, WorkflowTyped
<1>2. WorkflowIInv /\ [WorkflowNext]_workflowVars =>
        [\A m \in Msgs :
           at[m] = "workflow" /\ at'[m] \in {"roles", "queued"} =>
             (IF at'[m] = "roles" THEN load'[m] ELSE serves'[m]).config =
               IF Hashes[Name(m)] = 0 /\ Package("workflows", "user", Name(m)) # "none"
               THEN Package("workflows", "user", Name(m))
               ELSE Package("workflows", "system", Name(m))]_workflowVars
  BY UserPackageFirst
<1>3. WorkflowSpec => UserPackageWins
  BY <1>2, WorkflowsInvariant, PTL DEF UserPackageWins, WorkflowSpec
<1>4. WorkflowSpec => [](WorkflowTypeOK /\ ServedAreManned /\ RepliesComeFromTheAddressed)
  BY <1>1, WorkflowsInvariant, PTL
<1> QED BY <1>3, <1>4, PTL DEF RolesAnswer

(***************************************************************************)
(* TaskStore.                                                              *)
(***************************************************************************)

USE StoreAssumption

(* What is on disk and in the hands of calls belongs to a task.             *)

\* p is the directory of the task t.
Owns(t, p) == taskPath[t] # None /\ taskPath[t] = p

DirsDiffer ==
  \A t, u \in Tasks : taskPath[t] # None /\ taskPath[t] = taskPath[u] => t = u

DetailsOwned ==
  \A p \in Paths : disk[Detail(p)] # None =>
    \E t \in Tasks : Owns(t, p) /\ (disk[Detail(p)].data # None =>
                                      /\ disk[Detail(p)].data \in TaskRec
                                      /\ disk[Detail(p)].data.id = t)

\* A call that writes a detail writes the task the directory belongs to.
DetailCall(c) ==
  \E t \in Tasks : /\ Owns(t, call[c].file.dir)
                   /\ call[c].file = Detail(call[c].file.dir)
                   /\ call[c].data \in TaskRec
                   /\ call[c].data.id = t
                   /\ call[c].rest = <<>>

TodoCall(c) ==
  /\ call[c].file.name \in Todos
  /\ call[c].data \in Todos
  /\ call[c].file.step + Len(call[c].rest) < MaxTodos

CallsOwned ==
  \A c \in Calls : call[c].pc # "idle" =>
    /\ call[c].file \in Files
    /\ DetailCall(c) \/ TodoCall(c)

WritersHaveFile == \A c \in Calls : call[c].pc = "writing" => disk[call[c].file] # None

IInv == TypeOK /\ DirsDiffer /\ DetailsOwned /\ CallsOwned /\ WritersHaveFile

-----------------------------------------------------------------------------

\* What get_task returns is the task that was asked for.
LEMMA GetFacts ==
  ASSUME IInv, NEW t \in Tasks, Found(t)
  PROVE  /\ taskPath[t] \in Paths
         /\ Get(t) \in TaskRec
         /\ Get(t).id = t
PROOF
<1>1. taskPath[t] \in Paths /\ taskPath[t] # None
  BY DEF Found, IInv, TypeOK
<1>2. disk[Detail(taskPath[t])] # None /\ disk[Detail(taskPath[t])].data # None
  BY DEF Found, Readable
<1>3. PICK u \in Tasks : /\ Owns(u, taskPath[t])
                         /\ disk[Detail(taskPath[t])].data \in TaskRec
                         /\ disk[Detail(taskPath[t])].data.id = u
  BY <1>1, <1>2 DEF IInv, DetailsOwned
<1>4. u = t
  BY <1>1, <1>3 DEF Owns, IInv, DirsDiffer
<1> QED BY <1>1, <1>3, <1>4 DEF Get

\* The files of a directory.
LEMMA FileFacts ==
  ASSUME NEW p \in Paths
  PROVE  /\ Detail(p) \in Files
         /\ Detail(p).dir = p
         /\ ~IsTodo(Detail(p))
         /\ \A k \in 0 .. MaxTodos, d \in Todos :
              /\ TodoFile(p, k, d) \in Files
              /\ TodoFile(p, k, d).dir = p
              /\ TodoFile(p, k, d).step = k
              /\ TodoFile(p, k, d).name = d
PROOF
<1>1. 0 \in 0 .. MaxTodos
  BY DEF StoreAssumption
<1> QED BY <1>1 DEF Detail, TodoFile, Files, IsTodo

LEMMA InitIInv == Init => IInv
PROOF
<1> SUFFICES ASSUME Init PROVE IInv OBVIOUS
<1>1. \A c \in Calls : call[c] \in CallState
  <2>1. <<>> \in Seq(Todos) OBVIOUS
  <2> QED BY <2>1 DEF Init, Idle, CallState
<1>2. TypeOK
  BY <1>1 DEF Init, TypeOK, Idle
<1>3. DirsDiffer /\ CallsOwned /\ WritersHaveFile
  BY DEF Init, DirsDiffer, CallsOwned, WritersHaveFile, Idle
<1>4. DetailsOwned
  BY FileFacts DEF Init, DetailsOwned
<1> QED BY <1>2, <1>3, <1>4 DEF IInv

-----------------------------------------------------------------------------

LEMMA CreateTaskIInv ==
  ASSUME IInv, NEW c \in Calls, NEW t \in Tasks, NEW parent \in Parents,
         NEW title \in Titles, NEW k \in Priorities, CreateTask(c, t, parent, title, k)
  PROVE  IInv'
PROOF
<1> DEFINE p == <<IF parent = "root" \/ taskPath[parent] # None THEN parent ELSE "None", title>>
           task == [id |-> t, state |-> "wait_assign", priority |-> k]
<1>1. p \in Paths
  BY DEF Paths, StoreAssumption
<1>2. task \in TaskRec /\ task \in Data /\ task.id = t
  BY DEF TaskRec, TaskState, Data
<1>3. /\ taskPath' = [taskPath EXCEPT ![t] = p]
      /\ call' = [call EXCEPT ![c] = Opening(Detail(p), task, None, <<>>)]
      /\ taskPath[t] = None
      /\ \A u \in Tasks : taskPath[u] # p
      /\ UNCHANGED <<disk, hurt, plan, mixed>>
  BY DEF CreateTask
<1> HIDE DEF p, task
<1>4. Detail(p) \in Files /\ Detail(p).dir = p
  BY <1>1, FileFacts
<1>5. /\ taskPath \in [Tasks -> Paths \cup {None}] /\ call \in [Calls -> CallState]
      /\ disk' = disk
  BY <1>3 DEF IInv, TypeOK
<1>6. /\ \A u \in Tasks : u # t => taskPath'[u] = taskPath[u]
      /\ taskPath'[t] = p
      /\ p # None
  BY <1>1, <1>3, <1>5 DEF StoreAssumption
<1>7. /\ \A b \in Calls : b # c => call'[b] = call[b]
      /\ call'[c] = [pc |-> "opening", file |-> Detail(p), data |-> task, read |-> None,
                     rest |-> <<>>]
  BY <1>3, <1>5 DEF Opening
<1>8. TypeOK'
  <2>1. taskPath' \in [Tasks -> Paths \cup {None}]
    BY <1>1, <1>3, <1>5
  <2>2. call'[c] \in CallState
    <3>1. <<>> \in Seq(Todos) OBVIOUS
    <3> QED BY <1>2, <1>4, <1>7, <3>1 DEF CallState
  <2>3. call' \in [Calls -> CallState]
    BY <1>3, <1>5, <2>2
  <2> QED BY <1>3, <2>1, <2>3 DEF IInv, TypeOK
<1>9. \A u \in Tasks, q \in Paths : Owns(u, q) => Owns(u, q)'
  BY <1>3, <1>6 DEF Owns
<1>10. DirsDiffer'
  BY <1>3, <1>6 DEF IInv, DirsDiffer
<1>11. DetailsOwned'
  BY <1>5, <1>9 DEF IInv, DetailsOwned
<1>12. CallsOwned'
  <2> SUFFICES ASSUME NEW b \in Calls, call'[b].pc # "idle"
               PROVE  call'[b].file \in Files /\ (DetailCall(b)' \/ TodoCall(b)')
    BY DEF CallsOwned
  <2>1. CASE b = c
    <3>1. /\ call'[c].file = Detail(p) /\ call'[c].file.dir = p
          /\ call'[c].data = task /\ call'[c].rest = <<>>
      BY <1>4, <1>7
    <3>2. DetailCall(c)'
      BY <1>2, <1>6, <3>1 DEF DetailCall, Owns
    <3> QED BY <1>4, <2>1, <3>1, <3>2
  <2>2. CASE b # c
    <3>1. call[b].file \in Files /\ (DetailCall(b) \/ TodoCall(b))
      BY <1>7, <2>2 DEF IInv, CallsOwned
    <3>2. call[b].file.dir \in Paths
      BY <3>1 DEF Files
    <3> QED BY <1>7, <1>9, <2>2, <3>1, <3>2 DEF DetailCall, TodoCall
  <2> QED BY <2>1, <2>2
<1>13. WritersHaveFile'
  BY <1>5, <1>7 DEF IInv, WritersHaveFile
<1> QED BY <1>8, <1>10, <1>11, <1>12, <1>13 DEF IInv

\* A call that stays with its file, and a directory that stays with its task.
LEMMA OthersOwned ==
  ASSUME IInv, taskPath' = taskPath, NEW b \in Calls,
         call[b].pc # "idle",
         call'[b].file = call[b].file,
         call'[b].data = call[b].data,
         call'[b].rest = call[b].rest
  PROVE  call'[b].file \in Files /\ (DetailCall(b)' \/ TodoCall(b)')
PROOF
<1>1. call[b].file \in Files /\ (DetailCall(b) \/ TodoCall(b))
  BY DEF IInv, CallsOwned
<1>2. DetailCall(b) => DetailCall(b)'
  BY DEF DetailCall, Owns
<1>3. TodoCall(b) => TodoCall(b)'
  BY DEF TodoCall
<1> QED BY <1>1, <1>2, <1>3

LEMMA ChangeTaskIInv ==
  ASSUME IInv, NEW c \in Calls, NEW t \in Tasks, ChangeTask(c, t)
  PROVE  IInv'
PROOF
<1>1. Found(t) /\ UNCHANGED <<taskPath, disk, hurt, plan, mixed>>
  BY DEF ChangeTask
<1>2. /\ taskPath[t] \in Paths /\ taskPath[t] # None
      /\ Get(t) \in TaskRec /\ Get(t).id = t
  BY <1>1, GetFacts DEF Found
<1>3. PICK r \in Cancelled(Get(t)) \cup Confirmed(Get(t)) \cup Updated(Get(t)) :
        call' = [call EXCEPT ![c] = Opening(Detail(taskPath[t]), r, Get(t), <<>>)]
  BY DEF ChangeTask
<1>4. r \in TaskRec /\ r.id = t
  <2>1. CASE r \in Cancelled(Get(t))
    BY <1>2, <2>1 DEF Cancelled, TaskRec, TaskState
  <2>2. CASE r \in Confirmed(Get(t))
    BY <1>2, <2>2 DEF Confirmed, TaskRec, TaskState
  <2>3. CASE r \in Updated(Get(t))
    <3>1. PICK k \in Priorities :
            r \in {[Get(t) EXCEPT !.state = s, !.priority = k] :
                     s \in NewStates \cup {Get(t).state}}
      BY <2>3, Zenon DEF Updated
    <3>2. PICK s \in NewStates \cup {Get(t).state} :
            r = [Get(t) EXCEPT !.state = s, !.priority = k]
      BY <3>1, Zenon
    <3>3. s \in TaskState
      BY <1>2 DEF TaskRec, StoreAssumption
    <3> QED BY <1>2, <3>2, <3>3 DEF TaskRec
  <2> QED BY <1>3, <2>1, <2>2, <2>3
<1>5. Detail(taskPath[t]) \in Files /\ Detail(taskPath[t]).dir = taskPath[t]
  BY <1>2, FileFacts
<1>6. call \in [Calls -> CallState]
  BY DEF IInv, TypeOK
<1>7. /\ \A b \in Calls : b # c => call'[b] = call[b]
      /\ call'[c] = [pc |-> "opening", file |-> Detail(taskPath[t]), data |-> r,
                     read |-> Get(t), rest |-> <<>>]
  BY <1>3, <1>6 DEF Opening
<1>8. call'[c] \in CallState
  <2>1. <<>> \in Seq(Todos) OBVIOUS
  <2> QED BY <1>2, <1>4, <1>5, <1>7, <2>1 DEF CallState, Data
<1>9. TypeOK'
  BY <1>1, <1>3, <1>6, <1>8 DEF IInv, TypeOK
<1>10. DirsDiffer' /\ DetailsOwned'
  BY <1>1 DEF IInv, DirsDiffer, DetailsOwned, Owns
<1>11. CallsOwned'
  <2>1. call'[c].file \in Files /\ DetailCall(c)'
    BY <1>1, <1>2, <1>4, <1>5, <1>7 DEF DetailCall, Owns
  <2> QED BY <1>1, <1>7, <2>1, OthersOwned DEF CallsOwned
<1>12. WritersHaveFile'
  BY <1>1, <1>7 DEF IInv, WritersHaveFile
<1> QED BY <1>9, <1>10, <1>11, <1>12 DEF IInv

-----------------------------------------------------------------------------

LEMMA TodoListFacts ==
  ASSUME NEW todos \in TodoLists
  PROVE  /\ todos \in Seq(Todos)
         /\ Len(todos) <= MaxTodos
         /\ todos # <<>> => /\ Head(todos) \in Todos
                            /\ Tail(todos) \in Seq(Todos)
                            /\ Len(Tail(todos)) < MaxTodos
                            /\ 0 \in 0 .. MaxTodos
PROOF
<1>1. PICK n \in 0 .. MaxTodos : todos \in [1 .. n -> Todos]
  BY DEF TodoLists
<1>2. todos \in Seq(Todos) /\ Len(todos) = n
  BY <1>1 DEF StoreAssumption
<1> QED BY <1>1, <1>2 DEF StoreAssumption

LEMMA SetTodosIInv ==
  ASSUME IInv, NEW c \in Calls, NEW t \in Tasks, NEW todos \in TodoLists,
         SetTodos(c, t, todos)
  PROVE  IInv'
PROOF
<1> DEFINE p == taskPath[t]
           gone == {f \in Files : f.dir = p /\ IsTodo(f)}
           file == TodoFile(p, 0, Head(todos))
           first == Opening(file, Head(todos), None, Tail(todos))
           Unlink(b) == IF call[b].pc = "writing" /\ call[b].file \in gone
                        THEN [call[b] EXCEPT !.pc = "unlinked"] ELSE call[b]
<1>1. /\ call[c].pc = "idle"
      /\ Found(t)
      /\ disk' = [f \in Files |-> IF f \in gone THEN None ELSE disk[f]]
      /\ call' = [b \in Calls |-> IF b = c /\ todos # <<>> THEN first ELSE Unlink(b)]
      /\ plan' = [plan EXCEPT ![p] = todos]
      /\ mixed' \in {mixed \cup {p}, mixed \ {p}}
      /\ UNCHANGED <<taskPath, hurt>>
  BY DEF SetTodos
<1>2. p \in Paths
  BY <1>1, GetFacts
<1>3. \A b \in Calls : call[b] \in CallState
  BY DEF IInv, TypeOK
<1>4. todos # <<>> => /\ file \in Files /\ file.dir = p /\ file.step = 0
                      /\ file.name \in Todos
  BY <1>2, FileFacts, TodoListFacts
<1>5. \A b \in Calls : ~(b = c /\ todos # <<>>) =>
        /\ call'[b] \in CallState
        /\ call'[b].file = call[b].file
        /\ call'[b].data = call[b].data
        /\ call'[b].rest = call[b].rest
        /\ call[b].pc = "idle" => call'[b].pc = "idle"
        /\ call'[b].pc = "writing" => call[b].pc = "writing" /\ call[b].file \notin gone
  <2> SUFFICES ASSUME NEW b \in Calls, ~(b = c /\ todos # <<>>)
               PROVE  /\ Unlink(b) \in CallState
                      /\ Unlink(b).file = call[b].file
                      /\ Unlink(b).data = call[b].data
                      /\ Unlink(b).rest = call[b].rest
                      /\ call[b].pc = "idle" => Unlink(b).pc = "idle"
                      /\ Unlink(b).pc = "writing" =>
                           call[b].pc = "writing" /\ call[b].file \notin gone
    BY <1>1
  <2> HIDE DEF gone
  <2> QED BY <1>3 DEF CallState
<1>6. todos # <<>> => /\ call'[c] = [pc |-> "opening", file |-> file, data |-> Head(todos),
                                     read |-> None, rest |-> Tail(todos)]
                      /\ call'[c] \in CallState
  BY <1>1, <1>4, TodoListFacts DEF Opening, CallState, Data
<1>7. \A q \in Paths : disk'[Detail(q)] = disk[Detail(q)]
  BY <1>1, FileFacts
<1>8. TypeOK'
  <2>1. disk' \in [Files -> Content \cup {None}]
    BY <1>1 DEF IInv, TypeOK
  <2>2. call' \in [Calls -> CallState]
    BY <1>1, <1>5, <1>6
  <2>3. plan' \in [Paths -> Seq(Todos)]
    BY <1>1, TodoListFacts DEF IInv, TypeOK
  <2>4. mixed' \subseteq Paths
    BY <1>1, <1>2 DEF IInv, TypeOK
  <2> QED BY <1>1, <2>1, <2>2, <2>3, <2>4 DEF IInv, TypeOK
<1>9. DirsDiffer'
  BY <1>1 DEF IInv, DirsDiffer
<1>10. DetailsOwned'
  BY <1>1, <1>7 DEF IInv, DetailsOwned, Owns
<1>11. CallsOwned'
  <2> SUFFICES ASSUME NEW b \in Calls, call'[b].pc # "idle"
               PROVE  call'[b].file \in Files /\ (DetailCall(b)' \/ TodoCall(b)')
    BY DEF CallsOwned
  <2>1. CASE b = c /\ todos # <<>>
    <3>1. TodoCall(c)'
      BY <1>4, <1>6, <2>1, TodoListFacts DEF TodoCall
    <3> QED BY <1>4, <1>6, <2>1, <3>1
  <2>2. CASE ~(b = c /\ todos # <<>>)
    BY <1>1, <1>5, <2>2, OthersOwned
  <2> QED BY <2>1, <2>2
<1>12. WritersHaveFile'
  <2> SUFFICES ASSUME NEW b \in Calls, call'[b].pc = "writing"
               PROVE  disk'[call'[b].file] # None
    BY DEF WritersHaveFile
  <2>1. ~(b = c /\ todos # <<>>)
    BY <1>6
  <2>2. /\ call[b].pc = "writing"
        /\ call[b].file \notin gone
        /\ call'[b].file = call[b].file
    BY <1>5, <2>1
  <2>3. call[b].file \in Files /\ disk[call[b].file] # None
    BY <2>2 DEF IInv, CallsOwned, WritersHaveFile
  <2> HIDE DEF gone
  <2> QED BY <1>1, <2>2, <2>3
<1> QED BY <1>8, <1>9, <1>10, <1>11, <1>12 DEF IInv

-----------------------------------------------------------------------------

\* A call moves on with the same file, which may be written.
LEMMA SameFile ==
  ASSUME IInv, NEW c \in Calls, NEW pc \in {"writing", "written"},
         call[c].pc # "idle",
         call' = [call EXCEPT ![c].pc = pc],
         UNCHANGED taskPath
  PROVE  /\ call' \in [Calls -> CallState]
         /\ CallsOwned'
         /\ \A b \in Calls : /\ call'[b].file = call[b].file
                             /\ b # c => call'[b] = call[b]
PROOF
<1>1. call \in [Calls -> CallState]
  BY DEF IInv, TypeOK
<1>2. \A b \in Calls : /\ call'[b].file = call[b].file
                       /\ call'[b].data = call[b].data
                       /\ call'[b].rest = call[b].rest
                       /\ b # c => call'[b] = call[b]
  BY <1>1 DEF CallState
<1>3. call' \in [Calls -> CallState]
  BY <1>1 DEF CallState
<1>4. CallsOwned'
  BY <1>2, OthersOwned DEF CallsOwned
<1> QED BY <1>2, <1>3, <1>4

LEMMA OpenIInv ==
  ASSUME IInv, NEW c \in Calls, Open(c)
  PROVE  IInv'
PROOF
<1> DEFINE f == call[c].file
<1>1. /\ call[c].pc = "opening"
      /\ disk' = [disk EXCEPT ![f] = [len |-> 0, data |-> None]]
      /\ call' = [call EXCEPT ![c].pc = "writing"]
      /\ hurt' \in {hurt \cup {f}, hurt \ {f}}
      /\ UNCHANGED <<taskPath, plan, mixed>>
  BY DEF Open, Overlap
<1>2. f \in Files /\ (DetailCall(c) \/ TodoCall(c))
  BY <1>1 DEF IInv, CallsOwned
<1>3. /\ disk \in [Files -> Content \cup {None}]
      /\ [len |-> 0, data |-> None] \in Content
      /\ [len |-> 0, data |-> None] # None
  BY DEF IInv, TypeOK, Content, StoreAssumption
<1>4. /\ call' \in [Calls -> CallState]
      /\ CallsOwned'
      /\ \A b \in Calls : /\ call'[b].file = call[b].file
                          /\ b # c => call'[b] = call[b]
  BY <1>1, SameFile
<1>5. TypeOK'
  BY <1>1, <1>2, <1>3, <1>4 DEF IInv, TypeOK
<1>6. DirsDiffer'
  BY <1>1 DEF IInv, DirsDiffer
<1>7. DetailsOwned'
  <2> SUFFICES ASSUME NEW p \in Paths, disk'[Detail(p)] # None
               PROVE  \E t \in Tasks :
                        Owns(t, p)' /\ (disk'[Detail(p)].data # None =>
                                          /\ disk'[Detail(p)].data \in TaskRec
                                          /\ disk'[Detail(p)].data.id = t)
    BY DEF DetailsOwned
  <2>1. Detail(p) \in Files /\ Detail(p).dir = p /\ Detail(p).name \notin Todos
    BY FileFacts DEF Detail, StoreAssumption
  <2>2. CASE f = Detail(p)
    <3>1. DetailCall(c)
      BY <1>2, <2>1, <2>2 DEF TodoCall
    <3>2. PICK t \in Tasks : Owns(t, p)
      BY <2>1, <2>2, <3>1 DEF DetailCall
    <3>3. disk'[Detail(p)].data = None
      BY <1>1, <1>3, <2>1, <2>2
    <3> QED BY <1>1, <3>2, <3>3 DEF Owns
  <2>3. CASE f # Detail(p)
    BY <1>1, <1>3, <2>1, <2>3 DEF IInv, DetailsOwned, Owns
  <2> QED BY <2>2, <2>3
<1>8. WritersHaveFile'
  BY <1>1, <1>2, <1>3, <1>4 DEF IInv, WritersHaveFile, CallsOwned
<1> QED BY <1>4, <1>5, <1>6, <1>7, <1>8 DEF IInv

\* What is in a file after d was written over it.
LEMMA OverFacts ==
  ASSUME NEW old \in Content, NEW d \in Data
  PROVE  /\ Over(old, d) \in Content
         /\ Over(old, d).data \in {None, d}
         /\ Over(old, d) # None
PROOF
<1>1. Length[d] \in Nat
  BY DEF StoreAssumption
<1>2. Over(old, d) \in Content /\ Over(old, d).data \in {None, d}
  BY <1>1 DEF Over, Content
<1> QED BY <1>2 DEF StoreAssumption

LEMMA FlushIInv ==
  ASSUME IInv, NEW c \in Calls, Flush(c)
  PROVE  IInv'
PROOF
<1> DEFINE f == call[c].file
           d == call[c].data
<1>1. /\ call[c].pc \in {"writing", "unlinked"}
      /\ disk' = IF call[c].pc = "writing"
                 THEN [disk EXCEPT ![f] = Over(disk[f], d)] ELSE disk
      /\ call' = [call EXCEPT ![c].pc = "written"]
      /\ UNCHANGED <<taskPath, hurt, plan, mixed>>
  BY DEF Flush
<1>2. f \in Files /\ (DetailCall(c) \/ TodoCall(c))
  BY <1>1 DEF IInv, CallsOwned
<1>3. d \in Data
  BY <1>2 DEF DetailCall, TodoCall, Data
<1>4. disk \in [Files -> Content \cup {None}]
  BY DEF IInv, TypeOK
<1>5. call[c].pc = "writing" => disk[f] \in Content
  BY <1>2, <1>4 DEF IInv, WritersHaveFile
<1>6. call[c].pc = "writing" => /\ Over(disk[f], d) \in Content
                                /\ Over(disk[f], d).data \in {None, d}
                                /\ Over(disk[f], d) # None
  BY <1>3, <1>5, OverFacts
<1>7. /\ call' \in [Calls -> CallState]
      /\ CallsOwned'
      /\ \A b \in Calls : /\ call'[b].file = call[b].file
                          /\ b # c => call'[b] = call[b]
  BY <1>1, SameFile
<1>8. disk' \in [Files -> Content \cup {None}]
  BY <1>1, <1>2, <1>4, <1>6
<1>9. TypeOK'
  BY <1>1, <1>7, <1>8 DEF IInv, TypeOK
<1>10. DirsDiffer'
  BY <1>1 DEF IInv, DirsDiffer
<1>11. DetailsOwned'
  <2> SUFFICES ASSUME NEW p \in Paths, disk'[Detail(p)] # None
               PROVE  \E t \in Tasks :
                        Owns(t, p)' /\ (disk'[Detail(p)].data # None =>
                                          /\ disk'[Detail(p)].data \in TaskRec
                                          /\ disk'[Detail(p)].data.id = t)
    BY DEF DetailsOwned
  <2>1. Detail(p) \in Files /\ Detail(p).dir = p /\ Detail(p).name \notin Todos
    BY FileFacts DEF Detail, StoreAssumption
  <2>2. CASE call[c].pc = "writing" /\ f = Detail(p)
    <3>1. DetailCall(c)
      BY <1>2, <2>1, <2>2 DEF TodoCall
    <3>2. PICK t \in Tasks : Owns(t, p) /\ d \in TaskRec /\ d.id = t
      BY <2>1, <2>2, <3>1 DEF DetailCall
    <3>3. disk'[Detail(p)].data \in {None, d}
      BY <1>1, <1>4, <1>6, <2>1, <2>2
    <3> QED BY <1>1, <3>2, <3>3 DEF Owns
  <2>3. CASE ~(call[c].pc = "writing" /\ f = Detail(p))
    <3>1. disk'[Detail(p)] = disk[Detail(p)]
      BY <1>1, <1>4, <2>1, <2>3
    <3> QED BY <1>1, <3>1 DEF IInv, DetailsOwned, Owns
  <2> QED BY <2>2, <2>3
<1>12. WritersHaveFile'
  <2> SUFFICES ASSUME NEW b \in Calls, call'[b].pc = "writing"
               PROVE  disk'[call'[b].file] # None
    BY DEF WritersHaveFile
  <2>1. b # c
    BY <1>1 DEF IInv, TypeOK, CallState
  <2>2. call[b].pc = "writing" /\ call'[b].file = call[b].file
    BY <1>7, <2>1
  <2>3. call[b].file \in Files /\ disk[call[b].file] # None
    BY <2>2 DEF IInv, CallsOwned, WritersHaveFile
  <2> QED BY <1>1, <1>4, <1>6, <2>2, <2>3
<1> QED BY <1>7, <1>9, <1>10, <1>11, <1>12 DEF IInv

-----------------------------------------------------------------------------

\* Steps that leave the disk alone and put no call before a new write.
LEMMA DiskUnchanged ==
  ASSUME IInv, UNCHANGED <<taskPath, disk, plan>>,
         hurt' \subseteq Files, mixed' \subseteq Paths,
         call' \in [Calls -> CallState],
         \A b \in Calls : call'[b] = call[b] \/ call'[b].pc = "idle"
                            \/ (call'[b].pc # "writing" /\ call'[b].file \in Files
                                                        /\ TodoCall(b)')
  PROVE  IInv'
PROOF
<1>1. TypeOK'
  BY DEF IInv, TypeOK
<1>2. DirsDiffer'
  BY DEF IInv, DirsDiffer
<1>3. DetailsOwned'
  BY DEF IInv, DetailsOwned, Owns
<1>4. CallsOwned'
  BY OthersOwned DEF CallsOwned
<1>5. WritersHaveFile'
  BY DEF IInv, WritersHaveFile
<1> QED BY <1>1, <1>2, <1>3, <1>4, <1>5 DEF IInv

LEMMA IdleFacts == Idle \in CallState /\ Idle.pc = "idle"
PROOF
<1>1. <<>> \in Seq(Todos) OBVIOUS
<1> QED BY <1>1 DEF Idle, CallState

LEMMA GiveUpIInv ==
  ASSUME IInv, NEW c \in Calls, GiveUp(c)
  PROVE  IInv'
PROOF
<1>1. call' = [call EXCEPT ![c] = Idle] /\ UNCHANGED <<taskPath, disk, hurt, plan, mixed>>
  BY DEF GiveUp
<1>2. /\ call \in [Calls -> CallState]
      /\ hurt' \subseteq Files /\ mixed' \subseteq Paths
  BY <1>1 DEF IInv, TypeOK
<1> QED BY <1>1, <1>2, IdleFacts, DiskUnchanged

LEMMA ResumeIInv ==
  ASSUME IInv, NEW c \in Calls, Resume(c)
  PROVE  IInv'
PROOF
<1> DEFINE f == call[c].file
           todos == call[c].rest
           file == TodoFile(f.dir, f.step + 1, Head(todos))
<1>1. /\ call[c].pc = "written"
      /\ call' = [call EXCEPT ![c] =
                    IF todos = <<>> THEN Idle
                    ELSE Opening(file, Head(todos), None, Tail(todos))]
      /\ UNCHANGED <<taskPath, disk, hurt, plan, mixed>>
  BY DEF Resume
<1>2. /\ call \in [Calls -> CallState] /\ todos \in Seq(Todos)
      /\ hurt' \subseteq Files /\ mixed' \subseteq Paths
  BY <1>1 DEF IInv, TypeOK, CallState
<1>3. CASE todos = <<>>
  BY <1>1, <1>2, <1>3, IdleFacts, DiskUnchanged
<1>4. CASE todos # <<>>
  <2>1. f \in Files /\ TodoCall(c)
    BY <1>1, <1>4 DEF IInv, CallsOwned, DetailCall
  <2>2. /\ Head(todos) \in Todos /\ Tail(todos) \in Seq(Todos)
        /\ Len(Tail(todos)) = Len(todos) - 1
        /\ Len(todos) \in Nat \ {0}
    BY <1>2, <1>4
  <2>3. f.dir \in Paths /\ f.step \in Nat /\ f.step + 1 \in 0 .. MaxTodos
    BY <2>1, <2>2 DEF Files, TodoCall, StoreAssumption
  <2>4. /\ file \in Files /\ file.step = f.step + 1 /\ file.name \in Todos
    BY <2>2, <2>3, FileFacts
  <2>5. /\ call'[c] = [pc |-> "opening", file |-> file, data |-> Head(todos),
                       read |-> None, rest |-> Tail(todos)]
        /\ \A b \in Calls : b # c => call'[b] = call[b]
    BY <1>1, <1>2, <1>4 DEF Opening
  <2>6. call'[c] \in CallState
    BY <2>2, <2>4, <2>5 DEF CallState, Data
  <2>7. call' \in [Calls -> CallState]
    BY <1>1, <1>2, <2>6
  <2>8. f.step + 1 + Len(Tail(todos)) < MaxTodos
    BY <2>1, <2>2, <2>3 DEF TodoCall
  <2>9. TodoCall(c)'
    BY <2>2, <2>4, <2>5, <2>8 DEF TodoCall
  <2> QED BY <1>1, <1>2, <2>4, <2>5, <2>7, <2>9, DiskUnchanged
<1> QED BY <1>3, <1>4

LEMMA CrashIInv ==
  ASSUME IInv, Crash
  PROVE  IInv'
PROOF
<1>1. /\ call' = [c \in Calls |-> Idle]
      /\ hurt' \subseteq Files /\ mixed' \subseteq Paths
      /\ UNCHANGED <<taskPath, disk, plan>>
  BY DEF Crash, IInv, TypeOK
<1> QED BY <1>1, IdleFacts, DiskUnchanged

LEMMA NextIInv == IInv /\ [Next]_store => IInv'
PROOF
<1> SUFFICES ASSUME IInv, [Next]_store PROVE IInv' OBVIOUS
<1>1. CASE UNCHANGED store
  BY <1>1, DiskUnchanged DEF store, IInv, TypeOK
<1>2. CASE Crash
  BY <1>2, CrashIInv
<1>3. ASSUME NEW c \in Calls, Function(c) PROVE IInv'
  BY <1>3, CreateTaskIInv, ChangeTaskIInv, SetTodosIInv DEF Function
<1>4. ASSUME NEW c \in Calls, Open(c) \/ Flush(c) \/ GiveUp(c) \/ Resume(c) PROVE IInv'
  BY <1>4, OpenIInv, FlushIInv, GiveUpIInv, ResumeIInv
<1> QED BY <1>1, <1>2, <1>3, <1>4 DEF Next

\* What is on disk and in the hands of calls belongs to a task.
THEOREM EverythingOwned == Spec => []IInv
PROOF
<1> QED BY InitIInv, NextIInv, PTL DEF Spec

\* Every variable keeps its type.
THEOREM TypeCorrect == Spec => []TypeOK
PROOF
<1>1. IInv => TypeOK
  BY DEF IInv
<1> QED BY <1>1, EverythingOwned, PTL

\* get_task returns the task that was asked for, whatever the titles and parents
\* of the tasks, and whatever writes overlap or are cut off.
THEOREM TasksAreTheirOwn == Spec => []ReadsOwnTask
PROOF
<1>1. IInv => ReadsOwnTask
  BY GetFacts DEF ReadsOwnTask
<1> QED BY <1>1, EverythingOwned, PTL

-----------------------------------------------------------------------------
(* A task that cannot be read.                                              *)

\* Outside hurt a file being written is empty, and one call writes it.
CleanWriter ==
  \A c \in Calls :
    call[c].pc = "writing" /\ call[c].file \notin hurt =>
      /\ disk[call[c].file].len = 0
      /\ \A b \in Calls : Writing(b, call[c].file) => b = c

\* Why f may be unreadable.
Explained(f) ==
  \/ f \in hurt
  \/ \E c \in Calls : Writing(c, f)
  \/ \E c \in Calls : call[c].pc = "opening" /\ call[c].file = f /\ disk[f] = None

RInv == CleanWriter /\ ReadableUnlessHurt

LEMMA InitRInv == Init => RInv
PROOF
<1> QED BY DEF Init, Idle, RInv, CleanWriter, ReadableUnlessHurt

\* Whether a task can be read does not change unless its file, or a call with
\* its file, does.
LEMMA TaskUntouched ==
  ASSUME RInv, IInv, NEW t \in Tasks,
         taskPath[t] # None, taskPath'[t] = taskPath[t],
         disk'[Detail(taskPath[t])] = disk[Detail(taskPath[t])],
         Detail(taskPath[t]) \in hurt => Detail(taskPath[t]) \in hurt',
         \A b \in Calls : call[b].file = Detail(taskPath[t])
                            /\ call[b].pc \in {"writing", "opening"} => call'[b] = call[b]
  PROVE  Found(t)' \/ Explained(Detail(taskPath[t]))'
PROOF
<1> DEFINE f == Detail(taskPath[t])
<1>1. f' = f
  BY DEF Detail
<1>2. Found(t) \/ Explained(f)
  BY DEF RInv, ReadableUnlessHurt, Explained
<1>3. CASE Found(t)
  BY <1>1, <1>3 DEF Found, Readable
<1>4. CASE f \in hurt
  BY <1>1, <1>4 DEF Explained
<1>5. ASSUME NEW c \in Calls, Writing(c, f) PROVE Explained(f)'
  <2>1. Writing(c, f)'
    BY <1>1, <1>5 DEF Writing
  <2> QED BY <2>1 DEF Explained
<1>6. ASSUME NEW c \in Calls,
             call[c].pc = "opening" /\ call[c].file = f /\ disk[f] = None
      PROVE  Explained(f)'
  <2>1. call'[c] = call[c]
    BY <1>6
  <2> QED BY <1>1, <1>6, <2>1 DEF Explained
<1> QED BY <1>2, <1>3, <1>4, <1>5, <1>6 DEF Explained

\* Nobody starts to write, and what is being written stays as it is.
LEMMA NoNewWriter ==
  ASSUME CleanWriter,
         \A b \in Calls : call'[b].pc = "writing" =>
           /\ call[b].pc = "writing" /\ call'[b].file = call[b].file
           /\ call[b].file \notin hurt' => call[b].file \notin hurt
           /\ disk'[call[b].file] = disk[call[b].file]
  PROVE  CleanWriter'
PROOF
<1> QED BY DEF CleanWriter, Writing

\* Only calls move, and none that is opening or writing a detail.
LEMMA DetailsUntouched ==
  ASSUME RInv, IInv, UNCHANGED <<taskPath, hurt>>,
         \A p \in Paths : disk'[Detail(p)] = disk[Detail(p)],
         \A b \in Calls, p \in Paths :
           call[b].file = Detail(p) /\ call[b].pc \in {"writing", "opening"} =>
             call'[b] = call[b]
  PROVE  ReadableUnlessHurt'
PROOF
<1> SUFFICES ASSUME NEW t \in Tasks, taskPath'[t] # None
             PROVE  Found(t)' \/ Explained(Detail(taskPath[t]))'
  BY DEF ReadableUnlessHurt, Explained
<1>1. taskPath[t] \in Paths /\ taskPath'[t] = taskPath[t]
  BY DEF IInv, TypeOK
<1> QED BY <1>1, TaskUntouched

\* A call that has a detail to write.
LEMMA DetailFile ==
  ASSUME IInv, NEW c \in Calls, NEW p \in Paths, call[c].pc # "idle", call[c].file = Detail(p)
  PROVE  call[c].data \in TaskRec /\ call[c].data \notin Todos
PROOF
<1>1. call[c].file.name \notin Todos
  BY DEF Detail, StoreAssumption
<1>2. DetailCall(c)
  BY <1>1 DEF IInv, CallsOwned, TodoCall
<1> QED BY <1>2 DEF DetailCall, StoreAssumption

LEMMA CreateTaskRInv ==
  ASSUME RInv, IInv, NEW c \in Calls, NEW t \in Tasks, NEW parent \in Parents,
         NEW title \in Titles, NEW k \in Priorities, CreateTask(c, t, parent, title, k)
  PROVE  RInv'
PROOF
<1> DEFINE p == <<IF parent = "root" \/ taskPath[parent] # None THEN parent ELSE "None", title>>
           task == [id |-> t, state |-> "wait_assign", priority |-> k]
<1>1. p \in Paths
  BY DEF Paths, StoreAssumption
<1>2. /\ taskPath' = [taskPath EXCEPT ![t] = p]
      /\ call' = [call EXCEPT ![c] = Opening(Detail(p), task, None, <<>>)]
      /\ call[c].pc = "idle"
      /\ taskPath[t] = None
      /\ \A u \in Tasks : taskPath[u] # p
      /\ UNCHANGED <<disk, hurt, plan, mixed>>
  BY DEF CreateTask
<1> HIDE DEF p, task
<1>3. /\ \A u \in Tasks : u # t => taskPath'[u] = taskPath[u]
      /\ taskPath'[t] = p
      /\ \A b \in Calls : b # c => call'[b] = call[b]
      /\ call'[c].pc = "opening" /\ call'[c].file = Detail(p)
  BY <1>2 DEF IInv, TypeOK, Opening
<1>4. disk[Detail(p)] = None
  BY <1>1, <1>2 DEF IInv, DetailsOwned, Owns
<1>5. CleanWriter'
  BY <1>2, <1>3, NoNewWriter DEF RInv
<1>6. ReadableUnlessHurt'
  <2> SUFFICES ASSUME NEW u \in Tasks, taskPath'[u] # None
               PROVE  Found(u)' \/ Explained(Detail(taskPath[u]))'
    BY DEF ReadableUnlessHurt, Explained
  <2>1. CASE u = t
    <3>1. Detail(taskPath[u])' = Detail(p)
      BY <1>3, <2>1 DEF Detail
    <3> QED BY <1>2, <1>3, <1>4, <3>1 DEF Explained
  <2>2. CASE u # t
    BY <1>2, <1>3, <2>2, TaskUntouched
  <2> QED BY <2>1, <2>2
<1> QED BY <1>5, <1>6 DEF RInv

LEMMA ChangeTaskRInv ==
  ASSUME RInv, IInv, NEW c \in Calls, NEW t \in Tasks, ChangeTask(c, t)
  PROVE  RInv'
PROOF
<1>1. /\ call[c].pc = "idle"
      /\ UNCHANGED <<taskPath, disk, hurt, plan, mixed>>
      /\ call'[c].pc # "writing"
      /\ \A b \in Calls : b # c => call'[b] = call[b]
  BY DEF ChangeTask, IInv, TypeOK, Opening
<1>2. CleanWriter'
  BY <1>1, NoNewWriter DEF RInv
<1>3. ReadableUnlessHurt'
  BY <1>1, DetailsUntouched
<1> QED BY <1>2, <1>3 DEF RInv

LEMMA SetTodosRInv ==
  ASSUME RInv, IInv, NEW c \in Calls, NEW t \in Tasks, NEW todos \in TodoLists,
         SetTodos(c, t, todos)
  PROVE  RInv'
PROOF
<1> DEFINE p == taskPath[t]
           gone == {f \in Files : f.dir = p /\ IsTodo(f)}
           first == Opening(TodoFile(p, 0, Head(todos)), Head(todos), None, Tail(todos))
           Unlink(b) == IF call[b].pc = "writing" /\ call[b].file \in gone
                        THEN [call[b] EXCEPT !.pc = "unlinked"] ELSE call[b]
<1>1. /\ call[c].pc = "idle"
      /\ disk' = [f \in Files |-> IF f \in gone THEN None ELSE disk[f]]
      /\ call' = [b \in Calls |-> IF b = c /\ todos # <<>> THEN first ELSE Unlink(b)]
      /\ UNCHANGED <<taskPath, hurt>>
  BY DEF SetTodos
<1>2. \A b \in Calls : call[b] \in CallState
  BY DEF IInv, TypeOK
<1>3. \A q \in Paths : /\ disk'[Detail(q)] = disk[Detail(q)]
                       /\ Detail(q) \notin gone
  BY <1>1, FileFacts
<1>4. \A b \in Calls :
        ~(call[b].pc = "writing" /\ call[b].file \in gone) /\ call[b].pc # "idle" =>
          call'[b] = call[b]
  BY <1>1
<1>5. \A b \in Calls : call'[b].pc = "writing" =>
        call[b].pc = "writing" /\ call[b].file \notin gone /\ call'[b] = call[b]
  <2> SUFFICES ASSUME NEW b \in Calls, call'[b].pc = "writing"
               PROVE  call[b].pc = "writing" /\ call[b].file \notin gone /\ call'[b] = call[b]
    OBVIOUS
  <2>1. ~(b = c /\ todos # <<>>)
    BY <1>1 DEF Opening
  <2>2. call'[b] = Unlink(b)
    BY <1>1, <2>1
  <2> HIDE DEF gone
  <2> QED BY <1>2, <2>2 DEF CallState
<1> HIDE DEF gone
<1>6. CleanWriter'
  <2>1. \A b \in Calls : call[b].pc = "writing" => call[b].file \in Files
    BY DEF IInv, CallsOwned
  <2> QED BY <1>1, <1>5, <2>1, NoNewWriter DEF RInv
<1>7. ReadableUnlessHurt'
  BY <1>1, <1>3, <1>4, DetailsUntouched
<1> QED BY <1>6, <1>7 DEF RInv

LEMMA OpenRInv ==
  ASSUME RInv, IInv, NEW c \in Calls, Open(c)
  PROVE  RInv'
PROOF
<1> DEFINE f == call[c].file
<1>1. /\ call[c].pc = "opening"
      /\ disk' = [disk EXCEPT ![f] = [len |-> 0, data |-> None]]
      /\ call' = [call EXCEPT ![c].pc = "writing"]
      /\ hurt' = IF \E b \in Calls : Writing(b, f) THEN hurt \cup {f} ELSE hurt \ {f}
      /\ UNCHANGED <<taskPath, plan, mixed>>
  BY DEF Open, Overlap
<1>2. \A b \in Calls : /\ call'[b].file = call[b].file
                       /\ b # c => call'[b] = call[b]
  BY <1>1, SameFile
<1>3. call'[c].pc = "writing"
  BY <1>1 DEF IInv, TypeOK, CallState
<1>4. /\ f \in Files /\ disk'[f].len = 0
      /\ \A g \in Files : g # f => disk'[g] = disk[g] /\ (g \in hurt' <=> g \in hurt)
  BY <1>1 DEF IInv, TypeOK, CallsOwned
<1> HIDE DEF f
<1>5. CleanWriter'
  <2> SUFFICES ASSUME NEW b \in Calls, call'[b].pc = "writing", call[b].file \notin hurt'
               PROVE  /\ disk'[call[b].file].len = 0
                      /\ \A d \in Calls : call'[d].pc = "writing" /\ call[d].file = call[b].file
                                            => d = b
    BY <1>2 DEF CleanWriter, Writing
  <2>1. CASE call[b].file = f
    <3>1. \A d \in Calls : ~Writing(d, f)
      BY <1>1, <2>1
    <3>2. \A d \in Calls : call'[d].pc = "writing" /\ call[d].file = f => d = c
      BY <1>2, <3>1 DEF Writing
    <3> QED BY <1>4, <2>1, <3>2
  <2>2. CASE call[b].file # f
    <3>1. b # c /\ call'[b] = call[b] /\ call[b].pc = "writing"
      BY <1>2, <2>2 DEF f
    <3>2. call[b].file \in Files
      BY <3>1 DEF IInv, CallsOwned
    <3>3. /\ call[b].file \notin hurt
          /\ disk'[call[b].file] = disk[call[b].file]
      BY <1>4, <2>2, <3>2
    <3>4. \A d \in Calls : call'[d].pc = "writing" /\ call[d].file = call[b].file
                             => Writing(d, call[b].file)
      BY <1>2, <2>2 DEF f, Writing
    <3> QED BY <3>1, <3>3, <3>4 DEF RInv, CleanWriter
  <2> QED BY <2>1, <2>2
<1>6. ReadableUnlessHurt'
  <2> SUFFICES ASSUME NEW t \in Tasks, taskPath'[t] # None
               PROVE  Found(t)' \/ Explained(Detail(taskPath[t]))'
    BY DEF ReadableUnlessHurt, Explained
  <2>1. taskPath[t] \in Paths /\ taskPath'[t] = taskPath[t] /\ taskPath[t] # None
    BY <1>1 DEF IInv, TypeOK
  <2>2. Detail(taskPath[t]) \in Files
    BY <2>1, FileFacts
  <2>3. CASE Detail(taskPath[t]) = f
    <3>1. Writing(c, Detail(taskPath[t]))'
      BY <1>2, <1>3, <2>1, <2>3 DEF Writing, f, Detail
    <3> QED BY <3>1 DEF Explained
  <2>4. CASE Detail(taskPath[t]) # f
    <3>1. \A b \in Calls : call[b].file = Detail(taskPath[t]) => call'[b] = call[b]
      BY <1>2, <2>4 DEF f
    <3> QED BY <1>4, <2>1, <2>2, <2>4, <3>1, TaskUntouched
  <2> QED BY <2>3, <2>4
<1> QED BY <1>5, <1>6 DEF RInv

LEMMA FlushRInv ==
  ASSUME RInv, IInv, NEW c \in Calls, Flush(c)
  PROVE  RInv'
PROOF
<1> DEFINE f == call[c].file
           d == call[c].data
<1>1. /\ call[c].pc \in {"writing", "unlinked"}
      /\ disk' = IF call[c].pc = "writing"
                 THEN [disk EXCEPT ![f] = Over(disk[f], d)] ELSE disk
      /\ call' = [call EXCEPT ![c].pc = "written"]
      /\ UNCHANGED <<taskPath, hurt, plan, mixed>>
  BY DEF Flush
<1>2. \A b \in Calls : /\ call'[b].file = call[b].file
                       /\ b # c => call'[b] = call[b]
  BY <1>1, SameFile
<1>3. call'[c].pc = "written"
  BY <1>1 DEF IInv, TypeOK, CallState
<1>4. /\ f \in Files /\ disk \in [Files -> Content \cup {None}]
      /\ \A g \in Files : g # f => disk'[g] = disk[g]
  BY <1>1 DEF IInv, TypeOK, CallsOwned
<1>5. CleanWriter'
  <2> SUFFICES ASSUME NEW b \in Calls, call'[b].pc = "writing", call'[b].file \notin hurt'
               PROVE  /\ disk'[call'[b].file].len = 0
                      /\ \A e \in Calls : Writing(e, call[b].file)' => e = b
    BY DEF CleanWriter
  <2>1. b # c /\ call'[b] = call[b] /\ call[b].file \notin hurt
    BY <1>1, <1>2, <1>3
  <2>2. call[b].file \in Files
    BY <2>1 DEF IInv, CallsOwned
  <2>3. /\ disk[call[b].file].len = 0
        /\ \A e \in Calls : Writing(e, call[b].file) => e = b
    BY <2>1 DEF RInv, CleanWriter
  <2>4. disk'[call[b].file] = disk[call[b].file]
    <3>1. ~Writing(c, call[b].file)
      BY <2>1, <2>3
    <3> QED BY <1>1, <1>4, <2>2, <3>1 DEF Writing
  <2>5. \A e \in Calls : Writing(e, call[b].file)' => Writing(e, call[b].file)
    BY <1>2, <1>3, <2>1 DEF Writing
  <2> QED BY <2>1, <2>3, <2>4, <2>5
<1>6. ReadableUnlessHurt'
  <2> SUFFICES ASSUME NEW t \in Tasks, taskPath'[t] # None
               PROVE  Found(t)' \/ Explained(Detail(taskPath[t]))'
    BY DEF ReadableUnlessHurt, Explained
  <2>1. taskPath[t] \in Paths /\ taskPath'[t] = taskPath[t] /\ taskPath[t] # None
    BY <1>1 DEF IInv, TypeOK
  <2>2. Detail(taskPath[t])' = Detail(taskPath[t])
    BY <2>1 DEF Detail
  <2>3. Detail(taskPath[t]) \in Files
    BY <2>1, FileFacts
  <2>4. CASE Writing(c, Detail(taskPath[t])) /\ f \notin hurt
    <3>1. f = Detail(taskPath[t]) /\ call[c].pc = "writing"
      BY <2>4 DEF Writing
    <3>2. d \in TaskRec /\ d \in Data
      BY <2>1, <3>1, DetailFile DEF Data
    <3>3. disk[f].len = 0
      BY <2>4, <3>1 DEF RInv, CleanWriter
    <3>4. Over(disk[f], d) = [len |-> Length[d], data |-> d]
      BY <3>2, <3>3 DEF Over, StoreAssumption
    <3>5. disk'[f] = [len |-> Length[d], data |-> d]
      BY <1>1, <1>4, <3>1, <3>4
    <3>6. disk'[f] # None /\ disk'[f].data # None
      <4>1. disk'[f] \in Content
        BY <3>2, <3>5 DEF Content, StoreAssumption
      <4> QED BY <3>2, <3>5, <4>1 DEF StoreAssumption
    <3> QED BY <2>1, <2>2, <3>1, <3>6 DEF Found, Readable
  <2>5. CASE f \in hurt /\ f = Detail(taskPath[t])
    BY <1>1, <2>2, <2>5 DEF Explained
  <2>6. CASE ~Writing(c, Detail(taskPath[t]))
    <3>1. disk'[Detail(taskPath[t])] = disk[Detail(taskPath[t])]
      BY <1>1, <1>4, <2>3, <2>6 DEF Writing
    <3>2. \A b \in Calls : call[b].file = Detail(taskPath[t])
                             /\ call[b].pc \in {"writing", "opening"} => call'[b] = call[b]
      BY <1>1, <1>2, <2>6 DEF Writing
    <3> QED BY <1>1, <2>1, <3>1, <3>2, TaskUntouched
  <2> QED BY <2>4, <2>5, <2>6 DEF Writing
<1> QED BY <1>5, <1>6 DEF RInv

LEMMA GiveUpRInv ==
  ASSUME RInv, IInv, NEW c \in Calls, GiveUp(c)
  PROVE  RInv'
PROOF
<1>1. /\ call[c].pc \in {"writing", "unlinked"}
      /\ call[c].data \in Todos
      /\ call'[c].pc = "idle"
      /\ \A b \in Calls : b # c => call'[b] = call[b]
      /\ UNCHANGED <<taskPath, disk, hurt, plan, mixed>>
  BY IdleFacts DEF GiveUp, IInv, TypeOK, StoreAssumption
<1>2. \A p \in Paths : call[c].file # Detail(p)
  BY <1>1, DetailFile
<1>3. CleanWriter'
  BY <1>1, NoNewWriter DEF RInv
<1>4. ReadableUnlessHurt'
  BY <1>1, <1>2, DetailsUntouched
<1> QED BY <1>3, <1>4 DEF RInv

LEMMA ResumeRInv ==
  ASSUME RInv, IInv, NEW c \in Calls, Resume(c)
  PROVE  RInv'
PROOF
<1>1. /\ call[c].pc = "written"
      /\ call'[c].pc # "writing"
      /\ \A b \in Calls : b # c => call'[b] = call[b]
      /\ UNCHANGED <<taskPath, disk, hurt, plan, mixed>>
  BY IdleFacts DEF Resume, Opening, IInv, TypeOK
<1>2. CleanWriter'
  BY <1>1, NoNewWriter DEF RInv
<1>3. ReadableUnlessHurt'
  BY <1>1, DetailsUntouched
<1> QED BY <1>2, <1>3 DEF RInv

LEMMA CrashRInv ==
  ASSUME RInv, IInv, Crash
  PROVE  RInv'
PROOF
<1>1. /\ call' = [c \in Calls |-> Idle]
      /\ hurt' = hurt \cup {f \in Files : \E c \in Calls :
                   /\ call[c].file = f
                   /\ Writing(c, f) \/ (call[c].pc = "opening" /\ disk[f] = None)}
      /\ UNCHANGED <<taskPath, disk, plan>>
  BY DEF Crash
<1>2. CleanWriter'
  BY <1>1, IdleFacts DEF CleanWriter
<1>3. ReadableUnlessHurt'
  <2> SUFFICES ASSUME NEW t \in Tasks, taskPath'[t] # None
               PROVE  Found(t)' \/ Explained(Detail(taskPath[t]))'
    BY DEF ReadableUnlessHurt, Explained
  <2>1. taskPath[t] \in Paths /\ taskPath'[t] = taskPath[t] /\ taskPath[t] # None
    BY <1>1 DEF IInv, TypeOK
  <2>2. Detail(taskPath[t])' = Detail(taskPath[t]) /\ Detail(taskPath[t]) \in Files
    BY <2>1, FileFacts DEF Detail
  <2>3. Found(t) \/ Explained(Detail(taskPath[t]))
    BY <2>1 DEF RInv, ReadableUnlessHurt, Explained
  <2>4. CASE Found(t)
    BY <1>1, <2>1, <2>2, <2>4 DEF Found, Readable
  <2>5. CASE Explained(Detail(taskPath[t]))
    <3>1. Detail(taskPath[t]) \in hurt'
      BY <1>1, <2>2, <2>5 DEF Explained, Writing
    <3> QED BY <2>2, <3>1 DEF Explained
  <2> QED BY <2>3, <2>4, <2>5
<1> QED BY <1>2, <1>3 DEF RInv

LEMMA NextRInv == RInv /\ IInv /\ [Next]_store => RInv'
PROOF
<1> SUFFICES ASSUME RInv, IInv, [Next]_store PROVE RInv' OBVIOUS
<1>1. CASE UNCHANGED store
  <2>1. UNCHANGED <<taskPath, disk, call, hurt>>
    BY <1>1 DEF store
  <2> QED BY <2>1, NoNewWriter, DetailsUntouched DEF RInv
<1>2. CASE Crash
  BY <1>2, CrashRInv
<1>3. ASSUME NEW c \in Calls, Function(c) PROVE RInv'
  BY <1>3, CreateTaskRInv, ChangeTaskRInv, SetTodosRInv DEF Function
<1>4. ASSUME NEW c \in Calls, Open(c) \/ Flush(c) \/ GiveUp(c) \/ Resume(c) PROVE RInv'
  BY <1>4, OpenRInv, FlushRInv, GiveUpRInv, ResumeRInv
<1> QED BY <1>1, <1>2, <1>3, <1>4 DEF Next

\* A task can be read unless a call is writing it, two calls wrote it at the same
\* time, or the process ended in the middle of a write.
THEOREM TasksAreReadable == Spec => []ReadableUnlessHurt
PROOF
<1>1. RInv => ReadableUnlessHurt
  BY DEF RInv
<1> QED BY <1>1, InitRInv, NextRInv, EverythingOwned, PTL DEF Spec

\* A task is read as itself or, hurt by two writes or a crash, not at all.
THEOREM TasksStayReadable == Spec => []TasksAreRead
PROOF
<1> QED BY TasksAreTheirOwn, TasksAreReadable, PTL DEF TasksAreRead

-----------------------------------------------------------------------------
(* The todos of a directory.                                                *)

\* On the disk d the todos that can be read in p are the first n of todos.
Holds(d, p, todos, n) ==
  \A f \in Files : f.dir = p /\ IsTodo(f) =>
    IF f.step < n /\ f.name = todos[f.step + 1]
    THEN d[f] # None /\ d[f].data = f.name
    ELSE d[f] = None \/ d[f].data = None

\* How many of its todos the set_todos with state s has written.
Written(s) == IF s.pc = "written" THEN s.file.step + 1 ELSE s.file.step

\* A set_todos with state s has got as far with todos as the disk d shows.
OnPlan(s, d, todos) ==
  LET k == s.file.step + 1 IN
  /\ k <= Len(todos)
  /\ s.data = todos[k] /\ s.file.name = todos[k]
  /\ Len(s.rest) = Len(todos) - k
  /\ \A j \in 1 .. Len(s.rest) : s.rest[j] = todos[k + j]
  /\ s.pc # "unlinked"
  /\ s.pc = "writing" => d[s.file].len = 0
  /\ \A j \in 1 .. Written(s) : todos[j] \notin BadTodos
  /\ Holds(d, s.file.dir, todos, Written(s))

\* A set_todos with todos came to its end in p, or to one it could not write.
Ended(p, d, todos) ==
  \E n \in 0 .. Len(todos) :
    /\ n < Len(todos) => todos[n + 1] \in BadTodos
    /\ \A j \in 1 .. n : todos[j] \notin BadTodos
    /\ Holds(d, p, todos, n)

DirInv(p) ==
  /\ Len(plan[p]) <= MaxTodos
  /\ \A b, c \in Calls : SettingTodos(b, p) /\ SettingTodos(c, p) => b = c
  /\ \A c \in Calls : SettingTodos(c, p) => OnPlan(call[c], disk, plan[p])
  /\ (\A c \in Calls : ~SettingTodos(c, p)) => Ended(p, disk, plan[p])

PInv == \A p \in Paths \ mixed : DirInv(p)

\* Holds is about nothing but the todo files of p.
LEMMA HoldsSame ==
  ASSUME NEW p \in Paths, NEW d, NEW e, NEW todos, NEW n, Holds(d, p, todos, n),
         \A f \in Files : f.dir = p /\ IsTodo(f) => e[f] = d[f]
  PROVE  Holds(e, p, todos, n)
PROOF
<1> QED BY DEF Holds

\* The file that comes next is opened: it cannot be read, and was not before.
LEMMA HoldsOpened ==
  ASSUME NEW p \in Paths, NEW d, NEW e, NEW todos, NEW g \in Files,
         Holds(d, p, todos, g.step), e[g].data = None,
         \A f \in Files : f # g => e[f] = d[f]
  PROVE  Holds(e, p, todos, g.step)
PROOF
<1>1. g.step \in Nat
  BY DEF Files
<1>2. ~(g.step < g.step)
  BY <1>1
<1> QED BY <1>2 DEF Holds

\* The file that comes next is written.
LEMMA HoldsMore ==
  ASSUME NEW p \in Paths, NEW d, NEW e, NEW todos, NEW g \in Files,
         g.dir = p, g.name = todos[g.step + 1], Holds(d, p, todos, g.step),
         e[g] # None, e[g].data = g.name,
         \A f \in Files : f # g => e[f] = d[f]
  PROVE  Holds(e, p, todos, g.step + 1)
PROOF
<1> SUFFICES ASSUME NEW f \in Files, f.dir = p, IsTodo(f)
             PROVE  IF f.step < g.step + 1 /\ f.name = todos[f.step + 1]
                    THEN e[f] # None /\ e[f].data = f.name
                    ELSE e[f] = None \/ e[f].data = None
  BY DEF Holds
<1>1. f.step \in Nat /\ g.step \in Nat
  BY DEF Files
<1>2. CASE f = g
  BY <1>1, <1>2
<1>3. CASE f # g
  <2>1. ~(f.step = g.step /\ f.name = g.name)
    BY <1>3 DEF Files
  <2>2. e[f] = d[f]
    BY <1>3
  <2>3. (f.step < g.step + 1 /\ f.name = todos[f.step + 1])
          <=> (f.step < g.step /\ f.name = todos[f.step + 1])
    BY <1>1, <2>1
  <2> QED BY <2>2, <2>3 DEF Holds
<1> QED BY <1>2, <1>3

\* Nothing of p can be read.
LEMMA HoldsNothing ==
  ASSUME NEW p \in Paths, NEW d, NEW todos,
         \A f \in Files : f.dir = p /\ IsTodo(f) => d[f] = None
  PROVE  Holds(d, p, todos, 0)
PROOF
<1>1. \A f \in Files : ~(f.step < 0)
  BY DEF Files, StoreAssumption
<1> QED BY <1>1 DEF Holds

\* A todo that was written was the last, or the next one could be.
LEMMA EndedFacts ==
  ASSUME NEW p \in Paths, NEW d, NEW todos \in Seq(Todos), Len(todos) <= MaxTodos,
         Ended(p, d, todos)
  PROVE  {<<f, d[f].data>> :
            f \in {g \in Files : g.dir = p /\ IsTodo(g) /\ d[g] # None /\ d[g].data # None}}
           = {<<TodoFile(p, k - 1, todos[k]), todos[k]>> : k \in Usable(todos)}
PROOF
<1>1. PICK n \in 0 .. Len(todos) : /\ n < Len(todos) => todos[n + 1] \in BadTodos
                                   /\ \A j \in 1 .. n : todos[j] \notin BadTodos
                                   /\ Holds(d, p, todos, n)
  BY DEF Ended
<1>2. Len(todos) \in Nat /\ n \in Nat
  OBVIOUS
<1>3. Usable(todos) = 1 .. n
  <2>1. ASSUME NEW k \in Usable(todos) PROVE k \in 1 .. n
    <3>1. k \in 1 .. Len(todos) /\ \A j \in 1 .. k : todos[j] \notin BadTodos
      BY <2>1 DEF Usable
    <3>2. ~(n + 1 \in 1 .. k)
      BY <1>1, <1>2, <3>1
    <3> QED BY <1>2, <3>1, <3>2
  <2>2. ASSUME NEW k \in 1 .. n PROVE k \in Usable(todos)
    BY <1>1, <1>2, <2>2 DEF Usable
  <2> QED BY <2>1, <2>2
<1>4. ASSUME NEW f \in Files, f.dir = p, IsTodo(f), d[f] # None, d[f].data # None
      PROVE  \E k \in 1 .. n : f = TodoFile(p, k - 1, todos[k]) /\ d[f].data = todos[k]
  <2>1. f.step < n /\ f.name = todos[f.step + 1] /\ d[f].data = f.name
    BY <1>1, <1>4 DEF Holds
  <2>2. f.step \in Nat /\ f = [dir |-> p, step |-> f.step, name |-> f.name]
    BY <1>4 DEF Files
  <2>3. f.step + 1 \in 1 .. n /\ f.step + 1 - 1 = f.step
    BY <1>2, <2>1, <2>2
  <2> QED BY <2>1, <2>2, <2>3 DEF TodoFile
<1>5. ASSUME NEW k \in 1 .. n
      PROVE  LET f == TodoFile(p, k - 1, todos[k]) IN
             f \in Files /\ f.dir = p /\ IsTodo(f) /\ d[f] # None /\ d[f].data # None
               /\ d[f].data = todos[k]
  <2> DEFINE f == TodoFile(p, k - 1, todos[k])
  <2>1. todos[k] \in Todos /\ k - 1 \in 0 .. MaxTodos /\ k - 1 + 1 = k
    BY <1>2 DEF StoreAssumption
  <2>2. f \in Files /\ f.dir = p /\ f.step = k - 1 /\ f.name = todos[k] /\ IsTodo(f)
    BY <2>1, FileFacts DEF IsTodo, StoreAssumption
  <2>3. f.step < n /\ f.name = todos[f.step + 1]
    BY <1>2, <2>1, <2>2
  <2>4. d[f] # None /\ d[f].data = todos[k]
    BY <1>1, <2>2, <2>3 DEF Holds
  <2>5. todos[k] # None
    BY <2>1 DEF StoreAssumption, Data
  <2> HIDE DEF f
  <2>6. f \in Files /\ f.dir = p /\ IsTodo(f) /\ d[f] # None /\ d[f].data # None
          /\ d[f].data = todos[k]
    BY <2>2, <2>4, <2>5
  <2> QED BY <2>6 DEF f
<1> DEFINE L == {<<f, d[f].data>> :
                   f \in {g \in Files : g.dir = p /\ IsTodo(g) /\ d[g] # None
                                                  /\ d[g].data # None}}
           R == {<<TodoFile(p, k - 1, todos[k]), todos[k]>> : k \in 1 .. n}
<1>6. L \subseteq R
  BY <1>4
<1>7. R \subseteq L
  <2> SUFFICES ASSUME NEW k \in 1 .. n
               PROVE  <<TodoFile(p, k - 1, todos[k]), todos[k]>> \in L
    OBVIOUS
  <2> QED BY <1>5
<1> QED BY <1>3, <1>6, <1>7

\* A call of set_todos that is under way in p.
LEMMA SetterFacts ==
  ASSUME IInv, NEW c \in Calls, NEW p \in Paths, SettingTodos(c, p)
  PROVE  /\ call[c].file \in Files /\ call[c].file.dir = p /\ IsTodo(call[c].file)
         /\ call[c].file.step \in Nat
         /\ call[c].data \in Todos /\ call[c].data \in Data /\ call[c].data # None
         /\ call[c].file.step + Len(call[c].rest) < MaxTodos
PROOF
<1>1. call[c].file \in Files /\ (DetailCall(c) \/ TodoCall(c))
  BY DEF SettingTodos, IInv, CallsOwned
<1>2. TodoCall(c)
  BY <1>1 DEF SettingTodos, DetailCall, Detail, IsTodo
<1> QED BY <1>1, <1>2 DEF SettingTodos, TodoCall, Files, Data, StoreAssumption

\* A step that is not about the todos of p.
LEMMA DirUntouched ==
  ASSUME IInv, NEW p \in Paths, DirInv(p), plan'[p] = plan[p],
         \A f \in Files : f.dir = p /\ IsTodo(f) => disk'[f] = disk[f],
         \A b \in Calls : SettingTodos(b, p) \/ SettingTodos(b, p)' => call'[b] = call[b]
  PROVE  DirInv(p)'
PROOF
<1>1. \A b \in Calls : SettingTodos(b, p)' <=> SettingTodos(b, p)
  BY DEF SettingTodos
<1>2. ASSUME NEW c \in Calls, SettingTodos(c, p)
      PROVE  OnPlan(call[c], disk', plan[p])
  <2>1. OnPlan(call[c], disk, plan[p])
    BY <1>2 DEF DirInv
  <2>2. call[c].file \in Files /\ call[c].file.dir = p /\ IsTodo(call[c].file)
    BY <1>2, SetterFacts
  <2>3. Holds(disk', p, plan[p], Written(call[c]))
    BY <2>1, <2>2, HoldsSame DEF OnPlan
  <2> QED BY <2>1, <2>2, <2>3 DEF OnPlan
<1>3. Ended(p, disk, plan[p]) => Ended(p, disk', plan[p])
  BY HoldsSame DEF Ended
<1>4. ASSUME NEW c \in Calls, SettingTodos(c, p)'
      PROVE  OnPlan(call[c], disk, plan[p])'
  BY <1>1, <1>2, <1>4
<1>5. (\A c \in Calls : ~SettingTodos(c, p)') => Ended(p, disk', plan'[p])
  BY <1>1, <1>3 DEF DirInv
<1> QED BY <1>1, <1>4, <1>5 DEF DirInv

\* Only c moves, the disk stays as it is, and c has nothing to do with todos of p.
LEMMA CallElsewhere ==
  ASSUME IInv, NEW p \in Paths, DirInv(p), NEW c \in Calls,
         UNCHANGED <<disk, plan>>,
         \A b \in Calls : b # c => call'[b] = call[b],
         ~SettingTodos(c, p), ~SettingTodos(c, p)'
  PROVE  DirInv(p)'
PROOF
<1> QED BY DirUntouched

LEMMA CreateTaskPInv ==
  ASSUME PInv, IInv, NEW c \in Calls, NEW t \in Tasks, NEW parent \in Parents,
         NEW title \in Titles, NEW k \in Priorities, CreateTask(c, t, parent, title, k)
  PROVE  PInv'
PROOF
<1>1. PICK q \in Paths : call' = [call EXCEPT ![c] = Opening(Detail(q),
                 [id |-> t, state |-> "wait_assign", priority |-> k], None, <<>>)]
  BY DEF CreateTask, Paths, StoreAssumption
<1>2. call[c].pc = "idle" /\ UNCHANGED <<disk, hurt, plan, mixed>>
  BY DEF CreateTask
<1>3. call'[c].file = Detail(q) /\ \A b \in Calls : b # c => call'[b] = call[b]
  BY <1>1 DEF IInv, TypeOK, Opening
<1>4. \A p \in Paths : ~SettingTodos(c, p) /\ ~SettingTodos(c, p)'
  BY <1>2, <1>3, FileFacts DEF SettingTodos
<1> QED BY <1>2, <1>3, <1>4, CallElsewhere DEF PInv

LEMMA ChangeTaskPInv ==
  ASSUME PInv, IInv, NEW c \in Calls, NEW t \in Tasks, ChangeTask(c, t)
  PROVE  PInv'
PROOF
<1>1. taskPath[t] \in Paths
  BY GetFacts DEF ChangeTask
<1>2. call[c].pc = "idle" /\ UNCHANGED <<disk, hurt, plan, mixed>>
  BY DEF ChangeTask
<1>3. call'[c].file = Detail(taskPath[t]) /\ \A b \in Calls : b # c => call'[b] = call[b]
  BY DEF IInv, TypeOK, Opening, ChangeTask
<1>4. \A p \in Paths : ~SettingTodos(c, p) /\ ~SettingTodos(c, p)'
  BY <1>1, <1>2, <1>3, FileFacts DEF SettingTodos
<1> QED BY <1>2, <1>3, <1>4, CallElsewhere DEF PInv

LEMMA SetTodosPInv ==
  ASSUME PInv, IInv, NEW c \in Calls, NEW t \in Tasks, NEW todos \in TodoLists,
         SetTodos(c, t, todos)
  PROVE  PInv'
PROOF
<1> DEFINE q == taskPath[t]
           gone == {f \in Files : f.dir = q /\ IsTodo(f)}
           file == TodoFile(q, 0, Head(todos))
           first == Opening(file, Head(todos), None, Tail(todos))
           Unlink(b) == IF call[b].pc = "writing" /\ call[b].file \in gone
                        THEN [call[b] EXCEPT !.pc = "unlinked"] ELSE call[b]
<1>1. /\ call[c].pc = "idle"
      /\ Found(t)
      /\ disk' = [f \in Files |-> IF f \in gone THEN None ELSE disk[f]]
      /\ call' = [b \in Calls |-> IF b = c /\ todos # <<>> THEN first ELSE Unlink(b)]
      /\ plan' = [plan EXCEPT ![q] = todos]
      /\ mixed' = IF Others(c, q) # {} THEN mixed \cup {q} ELSE mixed \ {q}
      /\ UNCHANGED <<taskPath, hurt>>
  BY DEF SetTodos
<1>2. q \in Paths
  BY <1>1, GetFacts
<1>3. \A b \in Calls : call[b] \in CallState
  BY DEF IInv, TypeOK
<1>4. /\ \A p \in Paths : p # q => plan'[p] = plan[p]
      /\ plan'[q] = todos
  BY <1>1, <1>2 DEF IInv, TypeOK
<1>5. todos # <<>> => /\ file \in Files /\ file.dir = q /\ file.step = 0
                      /\ file.name = Head(todos) /\ IsTodo(file)
  BY <1>2, FileFacts, TodoListFacts DEF IsTodo, StoreAssumption
<1>6. \A b \in Calls : ~(b = c /\ todos # <<>>) =>
        /\ call'[b].file = call[b].file
        /\ call'[b].pc = "idle" <=> call[b].pc = "idle"
        /\ call'[b] # call[b] => call[b].pc = "writing" /\ call[b].file \in gone
  <2> SUFFICES ASSUME NEW b \in Calls, ~(b = c /\ todos # <<>>)
               PROVE  /\ Unlink(b).file = call[b].file
                      /\ Unlink(b).pc = "idle" <=> call[b].pc = "idle"
                      /\ Unlink(b) # call[b] =>
                           call[b].pc = "writing" /\ call[b].file \in gone
    BY <1>1
  <2> HIDE DEF gone
  <2> QED BY <1>3 DEF CallState
<1>7. todos # <<>> => call'[c] = [pc |-> "opening", file |-> file, data |-> Head(todos),
                                  read |-> None, rest |-> Tail(todos)]
  BY <1>1 DEF Opening
<1>8. \A f \in Files : disk'[f] = IF f.dir = q /\ IsTodo(f) THEN None ELSE disk[f]
  BY <1>1
<1>9. ASSUME NEW p \in Paths \ mixed', p # q PROVE DirInv(p)'
  <2>1. DirInv(p)
    BY <1>1, <1>9 DEF PInv
  <2>2. ASSUME NEW b \in Calls, SettingTodos(b, p) \/ SettingTodos(b, p)'
        PROVE  call'[b] = call[b]
    <3>1. ~(b = c /\ todos # <<>>)
      BY <1>1, <1>5, <1>7, <1>9, <2>2 DEF SettingTodos
    <3>2. call[b].file.dir = p
      BY <1>6, <2>2, <3>1 DEF SettingTodos
    <3> QED BY <1>6, <1>9, <3>1, <3>2
  <2>3. \A f \in Files : f.dir = p /\ IsTodo(f) => disk'[f] = disk[f]
    BY <1>8, <1>9
  <2> QED BY <1>4, <1>9, <2>1, <2>2, <2>3, DirUntouched
<1>10. ASSUME NEW p \in Paths \ mixed', p = q PROVE DirInv(p)'
  <2>1. \A b \in Calls : ~SettingTodos(b, p)
    BY <1>1, <1>10 DEF Others, SettingTodos
  <2>2. \A b \in Calls : SettingTodos(b, p)' => b = c /\ todos # <<>>
    BY <1>6, <2>1 DEF SettingTodos
  <2>3. Holds(disk', p, todos, 0)
    BY <1>8, <1>10, HoldsNothing
  <2>4. todos \in Seq(Todos) /\ Len(todos) <= MaxTodos /\ Len(todos) \in Nat
    BY TodoListFacts
  <2>5. CASE todos = <<>>
    <3>1. Ended(p, disk', todos)
      BY <2>3, <2>5 DEF Ended
    <3> QED BY <1>4, <1>10, <2>2, <2>4, <2>5, <3>1 DEF DirInv
  <2>6. CASE todos # <<>>
    <3>1. SettingTodos(c, p)'
      BY <1>5, <1>7, <1>10, <2>6 DEF SettingTodos
    <3>2. OnPlan(call'[c], disk', todos)
      <4>1. /\ Head(todos) = todos[1] /\ Len(Tail(todos)) = Len(todos) - 1
            /\ \A j \in 1 .. Len(Tail(todos)) : Tail(todos)[j] = todos[1 + j]
            /\ 1 <= Len(todos)
        BY <2>4, <2>6
      <4>2. /\ call'[c].file = file /\ call'[c].data = todos[1] /\ call'[c].rest = Tail(todos)
            /\ call'[c].pc = "opening" /\ file.step = 0 /\ file.dir = p /\ file.name = todos[1]
        BY <1>5, <1>7, <1>10, <2>6, <4>1
      <4>3. Written(call'[c]) = 0 /\ call'[c].file.step + 1 = 1
        BY <4>2 DEF Written
      <4> HIDE DEF file
      <4> QED BY <2>3, <4>1, <4>2, <4>3 DEF OnPlan
    <3> QED BY <1>4, <1>10, <2>2, <2>4, <3>1, <3>2 DEF DirInv
  <2> QED BY <2>5, <2>6
<1> QED BY <1>9, <1>10 DEF PInv

LEMMA OpenPInv ==
  ASSUME PInv, IInv, NEW c \in Calls, Open(c)
  PROVE  PInv'
PROOF
<1> DEFINE f == call[c].file
<1>1. /\ call[c].pc = "opening"
      /\ disk' = [disk EXCEPT ![f] = [len |-> 0, data |-> None]]
      /\ call' = [call EXCEPT ![c].pc = "writing"]
      /\ UNCHANGED <<taskPath, plan, mixed>>
  BY DEF Open
<1>2. call \in [Calls -> CallState] /\ disk \in [Files -> Content \cup {None}]
  BY DEF IInv, TypeOK
<1>3. /\ \A b \in Calls : b # c => call'[b] = call[b]
      /\ call'[c].pc = "writing" /\ call'[c].file = f /\ call'[c].data = call[c].data
      /\ call'[c].rest = call[c].rest
  BY <1>1, <1>2 DEF CallState
<1>4. f \in Files
  BY <1>1 DEF IInv, CallsOwned
<1>5. /\ disk'[f] = [len |-> 0, data |-> None]
      /\ \A g \in Files : g # f => disk'[g] = disk[g]
  BY <1>1, <1>2, <1>4
<1> SUFFICES ASSUME NEW p \in Paths \ mixed' PROVE DirInv(p)'
  BY DEF PInv
<1>6. DirInv(p)
  BY <1>1 DEF PInv
<1>7. CASE ~SettingTodos(c, p)
  <2>1. ~(f.dir = p /\ IsTodo(f)) /\ ~SettingTodos(c, p)'
    BY <1>1, <1>3, <1>7 DEF SettingTodos
  <2> HIDE DEF f
  <2> QED BY <1>1, <1>3, <1>5, <1>6, <1>7, <2>1, DirUntouched
<1>8. CASE SettingTodos(c, p)
  <2>1. f.dir = p /\ f.step \in Nat
    BY <1>8, SetterFacts
  <2>2. OnPlan(call[c], disk, plan[p])
    BY <1>6, <1>8 DEF DirInv
  <2>3. Written(call[c]) = f.step /\ Written(call'[c]) = f.step
    BY <1>1, <1>3 DEF Written
  <2>4. Holds(disk', p, plan[p], f.step)
    <3>1. Holds(disk, p, plan[p], f.step)
      BY <2>1, <2>2, <2>3 DEF OnPlan
    <3> HIDE DEF f
    <3> QED BY <1>4, <1>5, <3>1, HoldsOpened
  <2>5. OnPlan(call'[c], disk', plan[p])
    BY <1>3, <1>5, <2>1, <2>2, <2>3, <2>4 DEF OnPlan
  <2>6. SettingTodos(c, p)' /\ \A b \in Calls : SettingTodos(b, p)' => SettingTodos(b, p)
    BY <1>3, <1>8 DEF SettingTodos
  <2>7. \A b \in Calls : SettingTodos(b, p)' => b = c
    BY <1>6, <1>8, <2>6 DEF DirInv
  <2> QED BY <1>1, <1>6, <2>5, <2>6, <2>7 DEF DirInv
<1> QED BY <1>7, <1>8

LEMMA FlushPInv ==
  ASSUME PInv, IInv, NEW c \in Calls, Flush(c)
  PROVE  PInv'
PROOF
<1> DEFINE f == call[c].file
           d == call[c].data
<1>1. /\ call[c].pc \in {"writing", "unlinked"}
      /\ d \notin BadTodos
      /\ disk' = IF call[c].pc = "writing"
                 THEN [disk EXCEPT ![f] = Over(disk[f], d)] ELSE disk
      /\ call' = [call EXCEPT ![c].pc = "written"]
      /\ UNCHANGED <<taskPath, hurt, plan, mixed>>
  BY DEF Flush
<1>2. call \in [Calls -> CallState] /\ disk \in [Files -> Content \cup {None}]
  BY DEF IInv, TypeOK
<1>3. /\ \A b \in Calls : b # c => call'[b] = call[b]
      /\ call'[c].pc = "written" /\ call'[c].file = f /\ call'[c].data = d
      /\ call'[c].rest = call[c].rest
  BY <1>1, <1>2 DEF CallState
<1>4. f \in Files
  BY <1>1 DEF IInv, CallsOwned
<1>5. /\ call[c].pc = "writing" => disk'[f] = Over(disk[f], d)
      /\ \A g \in Files : g # f => disk'[g] = disk[g]
  BY <1>1, <1>2, <1>4
<1> SUFFICES ASSUME NEW p \in Paths \ mixed' PROVE DirInv(p)'
  BY DEF PInv
<1>6. DirInv(p)
  BY <1>1 DEF PInv
<1>7. CASE ~SettingTodos(c, p)
  <2>1. ~(f.dir = p /\ IsTodo(f)) /\ ~SettingTodos(c, p)'
    BY <1>1, <1>3, <1>7 DEF SettingTodos
  <2> HIDE DEF f
  <2> QED BY <1>1, <1>3, <1>5, <1>6, <1>7, <2>1, DirUntouched
<1>8. CASE SettingTodos(c, p)
  <2>1. /\ f.dir = p /\ f.step \in Nat
        /\ d \in Todos /\ d \in Data /\ d # None
    BY <1>8, SetterFacts
  <2>2. OnPlan(call[c], disk, plan[p])
    BY <1>6, <1>8 DEF DirInv
  <2>3. call[c].pc = "writing" /\ disk[f].len = 0
    BY <1>1, <2>2 DEF OnPlan
  <2>4. /\ Written(call[c]) = f.step /\ Written(call'[c]) = f.step + 1
        /\ f.name = plan[p][f.step + 1] /\ d = f.name
    BY <1>3, <2>2, <2>3 DEF Written, OnPlan
  <2>5. disk'[f] = [len |-> Length[d], data |-> d]
    <3>1. ~(disk[f].len > Length[d])
      BY <2>1, <2>3 DEF StoreAssumption
    <3> QED BY <1>5, <2>3, <3>1 DEF Over
  <2>6. disk'[f] # None /\ disk'[f].data = f.name
    <3>1. disk'[f] \in Content
      BY <2>1, <2>5 DEF Content, StoreAssumption
    <3> QED BY <2>4, <2>5, <3>1 DEF StoreAssumption
  <2>7. Holds(disk', p, plan[p], f.step + 1)
    <3>1. Holds(disk, p, plan[p], f.step)
      BY <2>1, <2>2, <2>4 DEF OnPlan
    <3> HIDE DEF f
    <3> QED BY <1>4, <1>5, <2>1, <2>4, <2>6, <3>1, HoldsMore
  <2>8. \A j \in 1 .. f.step + 1 : plan[p][j] \notin BadTodos
    <3>1. \A j \in 1 .. f.step : plan[p][j] \notin BadTodos
      BY <2>2, <2>4 DEF OnPlan
    <3>2. plan[p][f.step + 1] \notin BadTodos
      BY <1>1, <2>4
    <3> HIDE DEF f
    <3>3. \A j \in 1 .. f.step + 1 : j \in 1 .. f.step \/ j = f.step + 1
      BY <2>1
    <3> QED BY <3>1, <3>2, <3>3
  <2>9. OnPlan(call'[c], disk', plan[p])
    <3> HIDE DEF d
    <3> QED BY <1>3, <2>1, <2>2, <2>4, <2>7, <2>8 DEF OnPlan
  <2>10. SettingTodos(c, p)' /\ \A b \in Calls : SettingTodos(b, p)' => SettingTodos(b, p)
    BY <1>3, <1>8 DEF SettingTodos
  <2>11. \A b \in Calls : SettingTodos(b, p)' => b = c
    BY <1>6, <1>8, <2>10 DEF DirInv
  <2> QED BY <1>1, <1>6, <2>9, <2>10, <2>11 DEF DirInv
<1> QED BY <1>7, <1>8

\* A set_todos that was the only one in p, and is over.
LEMMA SetterGone ==
  ASSUME IInv, NEW p \in Paths, DirInv(p), NEW c \in Calls, SettingTodos(c, p),
         UNCHANGED <<disk, plan>>, call'[c] = Idle,
         \A b \in Calls : b # c => call'[b] = call[b],
         Ended(p, disk, plan[p])
  PROVE  DirInv(p)'
PROOF
<1>1. \A b \in Calls : ~SettingTodos(b, p)'
  BY IdleFacts DEF SettingTodos, DirInv
<1> QED BY <1>1 DEF DirInv

LEMMA GiveUpPInv ==
  ASSUME PInv, IInv, NEW c \in Calls, GiveUp(c)
  PROVE  PInv'
PROOF
<1>1. /\ call[c].pc \in {"writing", "unlinked"}
      /\ call[c].data \in BadTodos
      /\ call'[c] = Idle
      /\ \A b \in Calls : b # c => call'[b] = call[b]
      /\ UNCHANGED <<disk, plan, mixed>>
  BY DEF GiveUp, IInv, TypeOK
<1> SUFFICES ASSUME NEW p \in Paths \ mixed' PROVE DirInv(p)'
  BY DEF PInv
<1>2. DirInv(p)
  BY <1>1 DEF PInv
<1>3. CASE ~SettingTodos(c, p)
  BY <1>1, <1>2, <1>3, IdleFacts, CallElsewhere DEF SettingTodos
<1>4. CASE SettingTodos(c, p)
  <2>1. call[c].file.dir = p /\ call[c].file.step \in Nat
    BY <1>4, SetterFacts
  <2>2. OnPlan(call[c], disk, plan[p])
    BY <1>2, <1>4 DEF DirInv
  <2>3. Written(call[c]) = call[c].file.step
    BY <1>1 DEF Written
  <2>4. Len(plan[p]) \in Nat /\ call[c].file.step + 1 <= Len(plan[p])
    BY <2>2 DEF OnPlan, IInv, TypeOK
  <2>5. call[c].file.step \in 0 .. Len(plan[p])
    BY <2>1, <2>4
  <2>6. Ended(p, disk, plan[p])
    BY <1>1, <2>1, <2>2, <2>3, <2>5 DEF Ended, OnPlan
  <2> QED BY <1>1, <1>2, <1>4, <2>6, SetterGone
<1> QED BY <1>3, <1>4

LEMMA ResumePInv ==
  ASSUME PInv, IInv, NEW c \in Calls, Resume(c)
  PROVE  PInv'
PROOF
<1> DEFINE f == call[c].file
           todos == call[c].rest
           file == TodoFile(f.dir, f.step + 1, Head(todos))
<1>1. /\ call[c].pc = "written"
      /\ todos = <<>> => call'[c] = Idle
      /\ todos # <<>> => call'[c] = [pc |-> "opening", file |-> file, data |-> Head(todos),
                                     read |-> None, rest |-> Tail(todos)]
      /\ \A b \in Calls : b # c => call'[b] = call[b]
      /\ UNCHANGED <<disk, plan, mixed>>
  BY DEF Resume, IInv, TypeOK, Opening
<1>2. f \in Files /\ todos \in Seq(Todos) /\ Len(todos) \in Nat
  BY <1>1 DEF IInv, CallsOwned, TypeOK, CallState
<1> SUFFICES ASSUME NEW p \in Paths \ mixed' PROVE DirInv(p)'
  BY DEF PInv
<1>3. DirInv(p)
  BY <1>1 DEF PInv
<1>4. CASE ~SettingTodos(c, p)
  <2>1. CASE todos = <<>>
    BY <1>1, <1>3, <1>4, <2>1, IdleFacts, CallElsewhere DEF SettingTodos
  <2>2. CASE todos # <<>>
    <3>1. TodoCall(c)
      BY <1>1, <2>2 DEF IInv, CallsOwned, DetailCall
    <3>2. f.dir # p
      BY <1>1, <1>4, <3>1 DEF SettingTodos, TodoCall, IsTodo, StoreAssumption
    <3>3. call'[c].file.dir = f.dir
      BY <1>1, <2>2 DEF TodoFile
    <3> QED BY <1>1, <1>3, <1>4, <3>2, <3>3, CallElsewhere DEF SettingTodos
  <2> QED BY <2>1, <2>2
<1>5. CASE SettingTodos(c, p)
  <2>1. f.dir = p /\ f.step \in Nat /\ f.step + Len(todos) < MaxTodos
    BY <1>5, SetterFacts
  <2>2. OnPlan(call[c], disk, plan[p])
    BY <1>3, <1>5 DEF DirInv
  <2>3. Written(call[c]) = f.step + 1
    BY <1>1 DEF Written
  <2>4. /\ Len(plan[p]) \in Nat /\ f.step + 1 <= Len(plan[p])
        /\ Len(todos) = Len(plan[p]) - (f.step + 1)
        /\ \A j \in 1 .. Len(todos) : todos[j] = plan[p][f.step + 1 + j]
        /\ Holds(disk, p, plan[p], f.step + 1)
        /\ \A j \in 1 .. f.step + 1 : plan[p][j] \notin BadTodos
    BY <2>1, <2>2, <2>3 DEF OnPlan, IInv, TypeOK
  <2> HIDE DEF f, file
  <2>5. CASE todos = <<>>
    <3>0. Len(todos) = 0
      BY <2>5
    <3>1. f.step + 1 \in 0 .. Len(plan[p]) /\ ~(f.step + 1 < Len(plan[p]))
      <4> HIDE DEF todos
      <4>1. /\ f.step \in Nat /\ Len(plan[p]) \in Nat
            /\ 0 = Len(plan[p]) - (f.step + 1)
        BY <2>1, <2>4, <3>0
      <4> QED BY <4>1
    <3>2. Ended(p, disk, plan[p])
      BY <2>4, <3>1 DEF Ended
    <3> QED BY <1>1, <1>3, <1>5, <2>5, <3>2, SetterGone
  <2>6. CASE todos # <<>>
    <3>1. /\ Head(todos) = todos[1] /\ Head(todos) \in Todos
          /\ Len(Tail(todos)) = Len(todos) - 1
          /\ \A j \in 1 .. Len(Tail(todos)) : Tail(todos)[j] = todos[j + 1]
          /\ Len(todos) >= 1
      BY <1>2, <2>6
    <3>2. f.step + 1 \in 0 .. MaxTodos
      BY <2>1, <3>1 DEF StoreAssumption
    <3>3. /\ file \in Files /\ file.dir = p /\ file.step = f.step + 1
          /\ file.name = Head(todos) /\ IsTodo(file)
      BY <2>1, <3>1, <3>2, FileFacts DEF file, IsTodo, StoreAssumption
    <3>4. /\ call'[c].file = file /\ call'[c].data = Head(todos)
          /\ call'[c].rest = Tail(todos) /\ call'[c].pc = "opening"
      <4> HIDE DEF todos
      <4>1. call'[c] = [pc |-> "opening", file |-> file, data |-> Head(todos),
                        read |-> None, rest |-> Tail(todos)]
        BY <1>1, <2>6
      <4> QED BY <4>1
    <3>5. SettingTodos(c, p)' /\ \A b \in Calls : SettingTodos(b, p)' => b = c
      BY <1>1, <1>3, <1>5, <3>3, <3>4 DEF SettingTodos, DirInv
    <3>6. Head(todos) = plan[p][f.step + 2]
      <4>1. 1 \in 1 .. Len(todos) /\ f.step + 1 + 1 = f.step + 2
        BY <1>2, <2>1, <3>1
      <4> QED BY <2>4, <3>1, <4>1
    <3>7. \A j \in 1 .. Len(Tail(todos)) : Tail(todos)[j] = plan[p][f.step + 2 + j]
      <4> SUFFICES ASSUME NEW j \in 1 .. Len(Tail(todos))
                   PROVE  Tail(todos)[j] = plan[p][f.step + 2 + j]
        OBVIOUS
      <4> HIDE DEF todos
      <4>0. Len(todos) \in Nat /\ f.step \in Nat /\ Len(Tail(todos)) = Len(todos) - 1
        BY <1>2, <2>1, <3>1
      <4>1. j + 1 \in 1 .. Len(todos) /\ f.step + 1 + (j + 1) = f.step + 2 + j
        BY <4>0
      <4> QED BY <2>4, <3>1, <4>1
    <3>8. /\ f.step + 2 <= Len(plan[p])
          /\ Len(Tail(todos)) = Len(plan[p]) - (f.step + 2)
      <4> HIDE DEF todos
      <4>1. Len(todos) \in Nat /\ f.step \in Nat /\ Len(plan[p]) \in Nat
        BY <1>2, <2>1, <2>4
      <4> QED BY <2>4, <3>1, <4>1
    <3>9. Written(call'[c]) = f.step + 1 /\ call'[c].file.step + 1 = f.step + 2
      BY <2>1, <3>3, <3>4 DEF Written
    <3>10. OnPlan(call'[c], disk, plan[p])
      <4> HIDE DEF todos
      <4> QED BY <2>4, <3>3, <3>4, <3>6, <3>7, <3>8, <3>9 DEF OnPlan
    <3> QED BY <1>1, <1>3, <3>5, <3>10 DEF DirInv
  <2> QED BY <2>5, <2>6
<1> QED BY <1>4, <1>5

LEMMA CrashPInv ==
  ASSUME PInv, IInv, Crash
  PROVE  PInv'
PROOF
<1>1. /\ call' = [c \in Calls |-> Idle]
      /\ mixed' = mixed \cup {p \in Paths : \E c \in Calls : SettingTodos(c, p)}
      /\ UNCHANGED <<disk, plan>>
  BY DEF Crash
<1> SUFFICES ASSUME NEW p \in Paths \ mixed' PROVE DirInv(p)'
  BY DEF PInv
<1>2. DirInv(p) /\ \A c \in Calls : ~SettingTodos(c, p)
  BY <1>1 DEF PInv
<1>3. \A c \in Calls : ~SettingTodos(c, p)'
  BY <1>1, IdleFacts DEF SettingTodos
<1> QED BY <1>1, <1>2, <1>3 DEF DirInv

LEMMA InitPInv == Init => PInv
PROOF
<1> SUFFICES ASSUME Init, NEW p \in Paths PROVE DirInv(p)
  BY DEF PInv
<1>1. plan[p] = <<>> /\ \A f \in Files : disk[f] = None
  BY DEF Init
<1>2. \A c \in Calls : ~SettingTodos(c, p)
  BY IdleFacts DEF Init, SettingTodos
<1>3. Holds(disk, p, plan[p], 0)
  BY <1>1, HoldsNothing
<1>4. Ended(p, disk, plan[p])
  BY <1>1, <1>3 DEF Ended
<1> QED BY <1>1, <1>2, <1>4 DEF DirInv, StoreAssumption

LEMMA NextPInv == PInv /\ IInv /\ [Next]_store => PInv'
PROOF
<1> SUFFICES ASSUME PInv, IInv, [Next]_store PROVE PInv' OBVIOUS
<1>1. CASE UNCHANGED store
  BY <1>1, DirUntouched DEF store, PInv
<1>2. CASE Crash
  BY <1>2, CrashPInv
<1>3. ASSUME NEW c \in Calls, Function(c) PROVE PInv'
  BY <1>3, CreateTaskPInv, ChangeTaskPInv, SetTodosPInv DEF Function
<1>4. ASSUME NEW c \in Calls, Open(c) \/ Flush(c) \/ GiveUp(c) \/ Resume(c) PROVE PInv'
  BY <1>4, OpenPInv, FlushPInv, GiveUpPInv, ResumePInv
<1> QED BY <1>1, <1>2, <1>3, <1>4 DEF Next

\* Unless two set_todos of a task overlapped or the process ended in one, the todos
\* that can be read in its directory are those of the last one, in order, up to the
\* first that could not be written.
THEOREM TodosAreThoseSetLast == Spec => []TodosAreTheLastSet
PROOF
<1>1. IInv /\ PInv => TodosAreTheLastSet
  <2> SUFFICES ASSUME IInv, PInv, NEW p \in Paths \ mixed,
                      \A c \in Calls : ~SettingTodos(c, p)
               PROVE  {<<f, disk[f].data>> :
                         f \in {g \in Files : g.dir = p /\ IsTodo(g) /\ Readable(g)}}
                      = {<<TodoFile(p, k - 1, plan[p][k]), plan[p][k]>> : k \in Usable(plan[p])}
    BY Zenon DEF TodosAreTheLastSet
  <2>1. Ended(p, disk, plan[p]) /\ Len(plan[p]) <= MaxTodos
    BY DEF PInv, DirInv
  <2>2. plan[p] \in Seq(Todos)
    BY DEF IInv, TypeOK
  <2>3. {<<f, disk[f].data>> :
           f \in {g \in Files : g.dir = p /\ IsTodo(g) /\ disk[g] # None
                                          /\ disk[g].data # None}}
        = {<<TodoFile(p, k - 1, plan[p][k]), plan[p][k]>> : k \in Usable(plan[p])}
    BY <2>1, <2>2, EndedFacts
  <2> QED BY <2>3 DEF Readable
<1> QED BY <1>1, InitPInv, NextPInv, EverythingOwned, PTL DEF Spec

-----------------------------------------------------------------------------
(* The timers.                                                              *)

USE LoopAssumption

(* The task store is the one of TaskStore.                                  *)

LEMMA StepIsStoreStep == [LoopNext]_vars => [Next]_store
PROOF
<1> SUFFICES ASSUME [LoopNext]_vars PROVE Next \/ UNCHANGED store OBVIOUS
<1>1. CASE UNCHANGED vars
  BY <1>1 DEF vars
<1>2. CASE Restart
  BY <1>2 DEF Restart, Next
<1>3. ASSUME NEW c \in Calls, Request(c) \/ CallStep(c) PROVE Next
  BY <1>3 DEF Request, CallStep, Next
<1>4. ASSUME NEW a \in Agents, Load(a) \/ TimerStep(a) PROVE UNCHANGED store
  BY <1>4 DEF Load, TimerStep, Wake, Spin, TodosRead, PromptRaises,
              TriageEnds, PlanEnds, ReviewEnds, ThinkEnds, Ends
<1> QED BY <1>1, <1>2, <1>3, <1>4 DEF LoopNext

\* With timers at work the tasks behave as TaskStore says.
THEOREM LoopImplementsStore == LoopSpec => Spec
PROOF
<1>1. LoopInit => Init
  BY DEF LoopInit
<1> QED BY <1>1, StepIsStoreStep, PTL DEF LoopSpec, Spec

\* get_task returns the task that was asked for, to the timers too.
THEOREM TimersReadOwnTask == LoopSpec => []ReadsOwnTask
PROOF
<1> QED BY LoopImplementsStore, TasksAreTheirOwn, PTL

-----------------------------------------------------------------------------
(* Where a pass gets to.                                                    *)

\* The least energy with which a timer can be somewhere.
Least(pc) ==
  CASE pc = "triage" -> 2
    [] pc = "plan" -> 1
    [] pc \in {"todos", "review"} -> 0
    [] pc = "think" -> -1
    [] OTHER -> -3

\* A timer may be at next with energy e.
Sound(next, e) ==
  /\ next \in TimerState
  /\ e >= Least(next.pc)
  /\ next.pc \in {"plan", "todos", "review"} => next.list # <<>>

\* The prompt of next is made for a task in the right state.
Fitting(next) ==
  next.pc \in {"plan", "review"} => Fits(next.pc, Get(Head(next.list)).state)

LEMMA StopFacts ==
  ASSUME NEW t \in Tasks, NEW stage \in 1 .. 3
  PROVE  /\ Stop(t, stage) \in {"raise", "plan", "todos", "review", "none"}
         /\ Stop(t, stage) = "plan" => stage = 1
         /\ Fits(Stop(t, stage), Get(t).state)
PROOF
<1>1. CASE ~Found(t)
  BY <1>1 DEF Stop, Fits
<1>2. CASE Found(t)
  BY <1>2, Zenon DEF Stop, Fits
<1> QED BY <1>1, <1>2

LEMMA SuffixFacts ==
  ASSUME NEW list \in Seq(Tasks), NEW i \in 1 .. Len(list)
  PROVE  /\ SubSeq(list, i, Len(list)) \in Seq(Tasks)
         /\ SubSeq(list, i, Len(list)) # <<>>
         /\ Head(SubSeq(list, i, Len(list))) = list[i]
PROOF
<1> DEFINE s == SubSeq(list, i, Len(list))
<1>1. Len(s) = Len(list) - i + 1 /\ Len(s) \in Nat \ {0}
  OBVIOUS
<1>2. s[1] = list[i]
  OBVIOUS
<1>3. s \in Seq(Tasks)
  OBVIOUS
<1> HIDE DEF s
<1>4. s # <<>> /\ Head(s) = list[i]
  BY <1>1, <1>2, <1>3
<1> QED BY <1>3, <1>4 DEF s

LEMMA AsleepFacts ==
  ASSUME NEW e \in Int, e >= -3
  PROVE  Sound(Asleep, e) /\ Fitting(Asleep)
PROOF
<1>1. <<>> \in Seq(Tasks) OBVIOUS
<1> QED BY <1>1 DEF Sound, Fitting, Asleep, TimerState, Least

\* A pass that goes on stops where the energy allows it and at a task in the state
\* its next prompt is for.
LEMMA GoOnFacts ==
  ASSUME NEW list \in Seq(Tasks), NEW stage \in 1 .. 3, NEW e \in Int, e >= -1,
         stage > 1 => list # <<>> /\ e >= 0,
         NEW next \in GoOn(list, stage, e)
  PROVE  Sound(next, e) /\ Fitting(next)
PROOF
<1> DEFINE At(i) == IF i = 1 THEN stage ELSE 1
           StopAt(i) == Stop(list[i], At(i))
           Suffix(i) == SubSeq(list, i, Len(list))
<1>1. \/ \E i \in 1 .. Reach(list, stage, e) :
           /\ StopAt(i) # "none"
           /\ next = IF StopAt(i) = "raise" THEN Asleep
                     ELSE [pc |-> StopAt(i), list |-> Suffix(i)]
      \/ next \in {[pc |-> "think", list |-> <<>>], Asleep}
  BY Zenon DEF GoOn
<1>2. CASE next \in {[pc |-> "think", list |-> <<>>], Asleep}
  <2>1. <<>> \in Seq(Tasks) OBVIOUS
  <2>2. CASE next = Asleep
    BY <2>2, AsleepFacts
  <2>3. CASE next = [pc |-> "think", list |-> <<>>]
    <3>1. next.pc = "think"
      BY <2>3
    <3>2. next \in TimerState
      BY <2>1, <2>3 DEF TimerState, Prompts
    <3> QED BY <3>1, <3>2 DEF Sound, Fitting, Least
  <2> QED BY <1>2, <2>2, <2>3
<1>3. ASSUME NEW i \in 1 .. Reach(list, stage, e), StopAt(i) # "none",
             next = IF StopAt(i) = "raise" THEN Asleep
                    ELSE [pc |-> StopAt(i), list |-> Suffix(i)]
      PROVE  Sound(next, e) /\ Fitting(next)
  <2>1. i \in 1 .. Len(list) /\ (e > 0 \/ (i = 1 /\ stage > 1))
    <3>1. Len(list) \in Nat /\ (list # <<>> => Len(list) >= 1)
      OBVIOUS
    <3> QED BY <3>1 DEF Reach
  <2>2. list[i] \in Tasks /\ At(i) \in 1 .. 3
    BY <2>1
  <2> HIDE DEF At
  <2>3. /\ StopAt(i) \in {"raise", "plan", "todos", "review", "none"}
        /\ StopAt(i) = "plan" => At(i) = 1
        /\ Fits(StopAt(i), Get(list[i]).state)
    BY <2>2, StopFacts
  <2>4. Suffix(i) \in Seq(Tasks) /\ Suffix(i) # <<>> /\ Head(Suffix(i)) = list[i]
    BY <2>1, SuffixFacts
  <2>5. StopAt(i) = "plan" => e > 0
    BY <2>1, <2>3 DEF At
  <2>6. e >= 0
    BY <2>1
  <2> HIDE DEF StopAt, Suffix
  <2>7. CASE StopAt(i) = "raise"
    BY <1>3, <2>7, AsleepFacts
  <2>8. CASE StopAt(i) # "raise"
    <3>1. next = [pc |-> StopAt(i), list |-> Suffix(i)]
      BY <1>3, <2>8
    <3>2. next.pc = StopAt(i) /\ next.list = Suffix(i)
      BY <3>1
    <3>3. next.pc \in {"plan", "todos", "review"}
      BY <1>3, <2>3, <2>8, <3>2
    <3>4. next \in TimerState
      BY <2>4, <3>1, <3>2, <3>3 DEF TimerState, Prompts
    <3>5. e >= Least(next.pc)
      BY <2>5, <2>6, <3>2, <3>3 DEF Least
    <3>6. Fitting(next)
      BY <2>3, <2>4, <3>2 DEF Fitting
    <3> QED BY <2>4, <3>2, <3>4, <3>5, <3>6 DEF Sound
  <2> QED BY <2>7, <2>8
<1> QED BY <1>1, <1>2, <1>3

LEMMA OrdersFacts ==
  ASSUME NEW list \in Orders(Unfinished)
  PROVE  list \in Seq(Tasks)
PROOF
<1>1. Unfinished \subseteq Tasks
  BY DEF Unfinished, RootTasks
<1>2. IsFiniteSet(Unfinished)
  BY <1>1, FS_Subset DEF LoopAssumption
<1>3. Cardinality(Unfinished) \in Nat
  BY <1>2, FS_CardinalityType
<1> DEFINE n == Cardinality(Unfinished)
<1>4. list \in [1 .. n -> Unfinished]
  BY DEF Orders
<1> HIDE DEF n
<1>5. list \in [1 .. n -> Tasks]
  BY <1>1, <1>4
<1> QED BY <1>3, <1>5 DEF n

LEMMA StartPassFacts ==
  ASSUME NEW e \in Int, e >= -1, NEW next \in StartPass(e)
  PROVE  Sound(next, e) /\ Fitting(next)
PROOF
<1>1. PICK list \in Orders(Unfinished) : next \in GoOn(list, 1, e)
  BY Zenon DEF StartPass
<1> QED BY <1>1, OrdersFacts, GoOnFacts

LEMMA StartBodyFacts ==
  ASSUME NEW e \in Int, e >= -3, NEW next \in StartBody(e)
  PROVE  Sound(next, e) /\ Fitting(next)
PROOF
<1>1. <<>> \in Seq(Tasks) OBVIOUS
<1>2. CASE e <= 1
  <2>1. next = [pc |-> "spin", list |-> <<>>]
    BY <1>2 DEF StartBody
  <2> QED BY <1>1, <2>1 DEF Sound, Fitting, TimerState, Least
<1>3. CASE ~(e <= 1) /\ next = [pc |-> "triage", list |-> <<>>]
  BY <1>1, <1>3 DEF Sound, Fitting, TimerState, Prompts, Least
<1>4. CASE ~(e <= 1) /\ next \in StartPass(e)
  BY <1>4, StartPassFacts
<1> QED BY <1>2, <1>3, <1>4 DEF StartBody

-----------------------------------------------------------------------------
(* The timers: each has the energy that being where it is takes.            *)

TimersSound ==
  /\ timer \in [Agents -> TimerState]
  /\ energy \in [Agents -> Int]
  /\ \A a \in Agents : Sound(timer[a], energy[a])

\* The steps of a timer that PromptFitsTask speaks of.
FittingSteps ==
  \A a \in Agents : timer'[a] # timer[a] => Fitting(timer'[a])

LEMMA LeastFacts ==
  ASSUME NEW x \in Agents, TimersSound
  PROVE  /\ energy[x] \in Int /\ energy[x] >= -3
         /\ timer[x] \in TimerState
         /\ energy[x] >= Least(timer[x].pc)
         /\ timer[x].pc \in {"plan", "todos", "review"} =>
              /\ timer[x].list \in Seq(Tasks) /\ timer[x].list # <<>>
              /\ Tail(timer[x].list) \in Seq(Tasks)
PROOF
<1>1. /\ energy[x] \in Int /\ timer[x] \in TimerState /\ Sound(timer[x], energy[x])
  BY DEF TimersSound
<1>2. timer[x].list \in Seq(Tasks)
  BY <1>1 DEF TimerState
<1>3. Least(timer[x].pc) \in {2, 1, 0, -1, -3}
  BY DEF Least
<1>4. timer[x].list # <<>> => Tail(timer[x].list) \in Seq(Tasks)
  BY <1>2
<1> QED BY <1>1, <1>2, <1>3, <1>4 DEF Sound

\* One timer moves to a place it has the energy for.
LEMMA MoveFacts ==
  ASSUME TimersSound, NEW a \in Agents, NEW next, NEW e \in Int,
         Sound(next, e), Fitting(next),
         timer' = [timer EXCEPT ![a] = next],
         energy' = [energy EXCEPT ![a] = e]
  PROVE  TimersSound' /\ FittingSteps
PROOF
<1>1. next \in TimerState
  BY DEF Sound
<1>2. /\ timer' \in [Agents -> TimerState]
      /\ energy' \in [Agents -> Int]
      /\ timer'[a] = next /\ energy'[a] = e
      /\ \A b \in Agents : b # a => timer'[b] = timer[b] /\ energy'[b] = energy[b]
  BY <1>1 DEF TimersSound
<1>3. ASSUME NEW b \in Agents PROVE Sound(timer'[b], energy'[b])
  <2>1. CASE b = a
    BY <1>2, <2>1
  <2>2. CASE b # a
    <3>1. Sound(timer[b], energy[b])
      BY DEF TimersSound
    <3> QED BY <1>2, <2>2, <3>1
  <2> QED BY <2>1, <2>2
<1>4. FittingSteps
  BY <1>2 DEF FittingSteps
<1> QED BY <1>2, <1>3, <1>4 DEF TimersSound

\* A prompt of agent a ends.
LEMMA EndsFacts ==
  ASSUME TimersSound, NEW a \in Agents, NEW prompt, NEW cost \in Int, NEW nexts,
         Ends(a, prompt, cost, nexts),
         \A next \in nexts : Sound(next, energy[a] - cost) /\ Fitting(next)
  PROVE  TimersSound' /\ FittingSteps
PROOF
<1>1. PICK next \in nexts : timer' = [timer EXCEPT ![a] = next]
  BY DEF Ends
<1>2. energy' = [energy EXCEPT ![a] = energy[a] - cost]
  BY DEF Ends
<1>3. energy[a] - cost \in Int
  BY LeastFacts
<1> QED BY <1>1, <1>2, <1>3, MoveFacts

LEMMA TimerStepFacts ==
  ASSUME TimersSound, NEW a \in Agents, Load(a) \/ TimerStep(a)
  PROVE  TimersSound' /\ FittingSteps
PROOF
<1> DEFINE e == energy[a]
<1>1. e \in Int /\ e >= -3 /\ e >= Least(timer[a].pc)
  BY LeastFacts
<1>2. ASSUME timer' = [timer EXCEPT ![a] = Asleep], energy' = energy
      PROVE  TimersSound' /\ FittingSteps
  <2>1. energy' = [energy EXCEPT ![a] = e]
    BY <1>2 DEF TimersSound
  <2> QED BY <1>1, <1>2, <2>1, AsleepFacts, MoveFacts
<1>3. CASE Load(a)
  BY <1>2, <1>3 DEF Load
<1>4. CASE PromptRaises(a)
  BY <1>2, <1>4 DEF PromptRaises
<1>5. CASE Wake(a) \/ Spin(a)
  <2>1. PICK r \in 0 .. MaxRecover :
          /\ energy' = [energy EXCEPT ![a] = e + r]
          /\ \E next \in StartBody(e + r) : timer' = [timer EXCEPT ![a] = next]
    BY <1>5 DEF Wake, Spin, LoopAssumption
  <2>2. e + r \in Int /\ e + r >= -3
    BY <1>1, <2>1 DEF LoopAssumption
  <2> QED BY <2>1, <2>2, StartBodyFacts, MoveFacts
<1>6. CASE TodosRead(a)
  <2>1. timer[a].pc = "todos" /\ energy' = energy
    BY <1>6 DEF TodosRead
  <2>2. e >= 0 /\ timer[a].list \in Seq(Tasks) /\ timer[a].list # <<>>
    BY <1>1, <2>1, LeastFacts DEF Least
  <2>3. PICK next : /\ next = Asleep \/ next \in GoOn(timer[a].list, 3, e)
                    /\ timer' = [timer EXCEPT ![a] = next]
    BY <1>6 DEF TodosRead
  <2>4. Sound(next, e) /\ Fitting(next)
    BY <1>1, <2>2, <2>3, AsleepFacts, GoOnFacts
  <2>5. energy' = [energy EXCEPT ![a] = e]
    BY <2>1 DEF TimersSound
  <2> QED BY <1>1, <2>3, <2>4, <2>5, MoveFacts
<1>7. CASE TriageEnds(a)
  <2>1. timer[a].pc = "triage"
    BY <1>7 DEF TriageEnds, Ends
  <2>2. e - 3 \in Int /\ e - 3 >= -1
    BY <1>1, <2>1 DEF Least
  <2>3. \A next \in StartPass(e - 3) : Sound(next, e - 3) /\ Fitting(next)
    BY <2>2, StartPassFacts
  <2> QED BY <1>7, <2>3, EndsFacts DEF TriageEnds
<1>8. CASE PlanEnds(a)
  <2>1. timer[a].pc = "plan"
    BY <1>8 DEF PlanEnds, Ends
  <2>2. /\ e - 1 \in Int /\ e - 1 >= 0
        /\ timer[a].list \in Seq(Tasks) /\ timer[a].list # <<>>
    BY <1>1, <2>1, LeastFacts DEF Least
  <2>3. \A next \in GoOn(timer[a].list, 2, e - 1) : Sound(next, e - 1) /\ Fitting(next)
    BY <2>2, GoOnFacts
  <2> QED BY <1>8, <2>3, EndsFacts DEF PlanEnds
<1>9. CASE ReviewEnds(a)
  <2>1. timer[a].pc = "review"
    BY <1>9 DEF ReviewEnds, Ends
  <2> DEFINE rest == Tail(timer[a].list)
  <2>2. e - 1 \in Int /\ e - 1 >= -1 /\ rest \in Seq(Tasks)
    BY <1>1, <2>1, LeastFacts DEF Least
  <2> HIDE DEF rest
  <2>3. \A next \in GoOn(rest, 1, e - 1) : Sound(next, e - 1) /\ Fitting(next)
    BY <2>2, GoOnFacts
  <2> USE DEF rest
  <2> QED BY <1>9, <2>3, EndsFacts DEF ReviewEnds
<1>10. CASE ThinkEnds(a)
  <2>1. timer[a].pc = "think"
    BY <1>10 DEF ThinkEnds, Ends
  <2>2. e - 2 \in Int /\ e - 2 >= -3
    BY <1>1, <2>1 DEF Least
  <2>3. \A next \in {Asleep} : Sound(next, e - 2) /\ Fitting(next)
    BY <2>2, AsleepFacts
  <2> QED BY <1>10, <2>3, EndsFacts DEF ThinkEnds
<1> QED BY <1>3, <1>4, <1>5, <1>6, <1>7, <1>8, <1>9, <1>10 DEF TimerStep

LEMMA OffFacts ==
  ASSUME NEW f, NEW g, f = [a \in Agents |-> Off], g = [a \in Agents |-> StartEnergy]
  PROVE  /\ f \in [Agents -> TimerState] /\ g \in [Agents -> Int]
         /\ \A a \in Agents : Sound(f[a], g[a]) /\ Fitting(f[a])
PROOF
<1>1. <<>> \in Seq(Tasks) OBVIOUS
<1>2. Off \in TimerState /\ Off.pc = "off"
  BY <1>1 DEF Off, TimerState
<1>3. StartEnergy \in Int /\ StartEnergy >= Least("off")
  BY DEF LoopAssumption, Least
<1>4. Sound(Off, StartEnergy) /\ Fitting(Off)
  BY <1>2, <1>3 DEF Sound, Fitting
<1> QED BY <1>2, <1>3, <1>4

LEMMA LoopInitSound == LoopInit => TimersSound
PROOF
<1> QED BY OffFacts DEF LoopInit, TimersSound

LEMMA LoopStepFacts ==
  ASSUME TimersSound, [LoopNext]_vars
  PROVE  TimersSound' /\ FittingSteps
PROOF
<1>1. CASE timer' = timer /\ energy' = energy
  BY <1>1 DEF TimersSound, FittingSteps
<1>2. CASE Restart
  BY <1>2, OffFacts DEF Restart, TimersSound, FittingSteps
<1>3. ASSUME NEW c \in Calls, Request(c) \/ CallStep(c)
      PROVE  timer' = timer /\ energy' = energy
  BY <1>3 DEF Request, CallStep
<1>4. ASSUME NEW a \in Agents, Load(a) \/ TimerStep(a)
      PROVE  TimersSound' /\ FittingSteps
  BY <1>4, TimerStepFacts
<1> QED BY <1>1, <1>2, <1>3, <1>4 DEF LoopNext, vars

LEMMA AlwaysSound == LoopSpec => []TimersSound
PROOF
<1>1. TimersSound /\ [LoopNext]_vars => TimersSound'
  BY LoopStepFacts
<1> QED BY <1>1, LoopInitSound, PTL DEF LoopSpec

\* Every variable keeps its type.
THEOREM LoopTypeCorrect == LoopSpec => []LoopTypeOK
PROOF
<1>1. TypeOK /\ TimersSound => LoopTypeOK
  BY DEF LoopTypeOK, TimersSound
<1> QED BY <1>1, LoopImplementsStore, TypeCorrect, AlwaysSound, PTL

\* Whatever a pass meets, agent_energy is never overdrawn by more than 3.
THEOREM EnergyIsBounded == LoopSpec => []EnergyBound
PROOF
<1>1. TimersSound => EnergyBound
  BY LeastFacts DEF EnergyBound
<1> QED BY <1>1, AlwaysSound, PTL

\* A task is planned or reviewed in the state it has when the prompt is made.
THEOREM PromptsFitTasks == LoopSpec => PromptFitsTask
PROOF
<1> DEFINE A == \A a \in Agents :
                  timer'[a] # timer[a] /\ timer'[a].pc \in {"plan", "review"} =>
                    Fits(timer'[a].pc, Get(Head(timer'[a].list)).state)
<1>1. TimersSound /\ [LoopNext]_vars => A
  BY LoopStepFacts DEF FittingSteps, Fitting
<1>2. TimersSound /\ [LoopNext]_vars => [A]_vars
  BY <1>1
<1> HIDE DEF A
<1>3. LoopSpec => [][A]_vars
  BY <1>2, AlwaysSound, PTL DEF LoopSpec
<1> QED BY <1>3 DEF A, PromptFitsTask
=============================================================================
