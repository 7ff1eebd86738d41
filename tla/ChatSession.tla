---------------------------- MODULE ChatSession ----------------------------
(***************************************************************************)
(* Chat sessions of one agent, src/src/aios/agent/chatsession.py, and the  *)
(* ways its memory reaches them, src/src/aios/agent/agent_memory.py.       *)
(*                                                                         *)
(* A session lives twice: as a row of the table ChatSessions, which a      *)
(* restart keeps, and as an AIChatSession object in the dictionary         *)
(* _sessions, which it does not.  None of the methods suspends, so each is *)
(* an operator from the chat data before it to the chat data after it, and *)
(* the coroutines of LLMProcess decide when they run.                      *)
(*                                                                         *)
(* A message id is also its creation time.  Session ids (uuids) are        *)
(* numbered in the order of the rows.                                      *)
(*                                                                         *)
(* Each write of a row may fail: ChatSessionDB catches sqlite3.Error and   *)
(* returns -1, which no caller looks at.  Reads of the tables do not fail. *)
(***************************************************************************)
EXTENDS Naturals, Sequences, FiniteSets, Functions

CONSTANTS
  Topics,       \* session topics: "<sender>#<topic>", or "<group>#<topic>"
  None,
  MaxSessions   \* bound: rows of ChatSessions, enough for one per topic

ASSUME SessionsAssumption ==
  /\ None \notin Topics
  /\ IsFiniteSet(Topics)
  /\ MaxSessions \in Nat /\ Cardinality(Topics) <= MaxSessions

(* rows, messages: the tables; cache: AIChatSession._sessions; lost: the   *)
(* messages no session has because a write failed (observation).           *)
VARIABLE chat

Sids == 1 .. MaxSessions

\* What was said so far, in a session's summary: nothing, or something.
Summaries == {"", "text"}

NoChat == [rows |-> <<>>, messages |-> <<>>, cache |-> [s \in Sids |-> None], lost |-> {}]

Row(topic) == [topic |-> topic, pos |-> 0, summary |-> ""]

\* AIChatSession.__init__; get_session does not give a new session its topic.
Fresh == [topic |-> None, pos |-> 0, summary |-> None]

Cached(c, topic) == {s \in Sids : c.cache[s] # None /\ c.cache[s].topic = topic}

Stored(c, topic) == {s \in DOMAIN c.rows : c.rows[s].topic = topic}

Least(S) == CHOOSE s \in S : \A t \in S : s <= t

\* The session get_session returns: a cached one, a stored one, or a new one.
SessionOf(c, topic) ==
  IF Cached(c, topic) # {} THEN Least(Cached(c, topic))
  ELSE IF Stored(c, topic) # {} THEN Least(Stored(c, topic))
  ELSE Len(c.rows) + 1

\* Mutant: a session that is not cached is created, without asking the table.
GetSessionNoRead(c, topic) ==
  IF Cached(c, topic) # {} THEN c
  ELSE [c EXCEPT !.rows = Append(@, Row(topic)), !.cache[Len(c.rows) + 1] = Fresh]

\* Mutant: the object of a stored session starts with the defaults.
GetSessionForgets(c, topic) ==
  LET s == SessionOf(c, topic) IN
  CASE Cached(c, topic) # {} -> c
    [] Cached(c, topic) = {} /\ s \in DOMAIN c.rows ->
         [c EXCEPT !.cache[s] = [topic |-> topic, pos |-> 0, summary |-> ""]]
    [] OTHER -> [c EXCEPT !.rows = Append(@, Row(topic)), !.cache[s] = Fresh]

\* The data after get_session.
GetSession(c, topic) ==
  LET s == SessionOf(c, topic) IN
  CASE Cached(c, topic) # {} -> c
    [] Cached(c, topic) = {} /\ s \in DOMAIN c.rows -> [c EXCEPT !.cache[s] = c.rows[s]]
    [] OTHER -> [c EXCEPT !.rows = Append(@, Row(topic)), !.cache[s] = Fresh]

\* The data after get_session_by_id of a stored session.
GetById(c, s) == IF c.cache[s] # None THEN c ELSE [c EXCEPT !.cache[s] = c.rows[s]]

(* The data after a get_session whose write may fail.  The object is then  *)
(* that of a session without a row, which neither a topic nor a list leads *)
(* to again: what is said in it is in no session.                          *)
LookUps(c, topic) ==
  {GetSession(c, topic)} \cup (IF SessionOf(c, topic) \in DOMAIN c.rows THEN {} ELSE {c})

\* What is lost of ids, a message and the reply to it, when kept is stored.
Losses(ids, kept) == {[id |-> i, to |-> ids[1]] : i \in Range(ids) \ Range(kept)}

\* get_session, and append of the messages ids to it, of which kept are stored.
AppendTo(c, topic, ids, kept) ==
  LET s == SessionOf(c, topic) IN
  [GetSession(c, topic) EXCEPT
     !.messages = @ \o [i \in DOMAIN kept |-> [id |-> kept[i], sid |-> s, to |-> ids[1]]],
     !.lost = @ \cup Losses(ids, kept)]

\* The data after an append of one or two messages: each insertion may fail.
Appends(c, topic, ids) ==
  {AppendTo(c, topic, ids, kept) : kept \in {<<>>, ids} \cup {<<i>> : i \in Range(ids)}}
    \cup (IF SessionOf(c, topic) \in DOMAIN c.rows THEN {}
          ELSE {[c EXCEPT !.lost = @ \cup Losses(ids, <<>>)]})

(* update_chat_summary of session s: the position its OBJECT has is saved, *)
(* unless the write fails; the object has the summary in any case.         *)
UpdateSummary(c, s, saved) ==
  LET object == [GetById(c, s).cache[s] EXCEPT !.summary = "text"]
  IN [c EXCEPT !.cache[s] = object,
               !.rows[s] = IF saved THEN [@ EXCEPT !.pos = object.pos, !.summary = "text"]
                                    ELSE @]

InSession(c, s) == {m.id : m \in {n \in Range(c.messages) : n.sid = s}}

\* read_message from the start: by Timestamp, not by the order of insertion.
History(c, s) ==
  LET ids == InSession(c, s)
  IN  [k \in 1 .. Cardinality(ids) |->
         CHOOSE id \in ids : Cardinality({n \in ids : n < id}) = k - 1]

\* The end of the process: the dictionary is gone, the tables stay.
Reopened(c) == [c EXCEPT !.cache = [s \in Sids |-> None]]

-----------------------------------------------------------------------------
(* What the sessions promise.                                              *)

ChatTypeOK ==
  /\ Len(chat.rows) <= MaxSessions
  /\ \A s \in DOMAIN chat.rows :
       chat.rows[s] \in [topic : Topics, pos : Nat, summary : Summaries]
  /\ \A i \in DOMAIN chat.messages : chat.messages[i] \in [id : Nat, sid : Sids, to : Nat]
  /\ \A l \in chat.lost : l \in [id : Nat, to : Nat]
  /\ DOMAIN chat.cache = Sids
  /\ \A s \in Sids :
       chat.cache[s] = None \/
       chat.cache[s] \in [topic : Topics \cup {None}, pos : Nat,
                          summary : Summaries \cup {None}]

\* A topic has one session, although a new session is cached without its topic
\* and is therefore looked up a second time, and although restarts empty the cache.
OneSessionPerTopic ==
  \A r, s \in DOMAIN chat.rows : chat.rows[r].topic = chat.rows[s].topic => r = s

\* No object is behind its row: what is saved next never moves the position back,
\* and a summary that is stored is the one the agent reads.
CacheNotBehind ==
  \A s \in Sids :
    chat.cache[s] # None =>
      /\ s \in DOMAIN chat.rows
      /\ chat.cache[s].pos >= chat.rows[s].pos
      /\ chat.rows[s].summary = "text" => chat.cache[s].summary = "text"

\* A summary never claims more messages than the session has.
PosInHistory ==
  \A s \in DOMAIN chat.rows : chat.rows[s].pos <= Cardinality(InSession(chat, s))
=============================================================================
