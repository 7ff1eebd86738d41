------------------------------- MODULE Tunnels -------------------------------
(***************************************************************************)
(* The tunnels between the bus and the outside: Telegram bots, chat        *)
(* tunnels (Slack, Discord) and the mail tunnel, with the contacts they    *)
(* look up and make, and the messages agents write to contacts.            *)
(*                                                                         *)
(* A Telegram bot is one coroutine that fetches one update at a time; the  *)
(* service keeps an update until a later offset confirms it.  The chat     *)
(* tunnels run one coroutine per event.  The mail tunnel is one coroutine  *)
(* that walks through the unseen mails.  send_message of the bus is two    *)
(* steps, from the message to its reply or None (module AIBus).            *)
(*                                                                         *)
(* The tunnels are started in the order of their file, one after the       *)
(* other; when one fails the rest of the file is not started.              *)
(*                                                                         *)
(* There is one bot per agent, so that a bot stands for its target, too.   *)
(***************************************************************************)
EXTENDS Contacts, Integers, FiniteSets

CONSTANTS Bots,      \* Telegram tunnels
          People,    \* users of Telegram; a person is its numeric id
          Handle,    \* the username of a person, NoAccount for none
          FullName,  \* first and last name of a person
          Groups,    \* group chats
          Supergroups, \* those with message numbers of their own
          Allow,     \* of a bot: who may talk to it (allow_group)
          Events,    \* messages on Slack and Discord
          SlackEvents, \* those on Slack
          Mails,     \* mails, each of them sent once
          File,      \* tunnels.cfg.toml: the bots, "slack", "discord", "mail"
          NoChat,    \* no chat is recorded
          MaxIn,     \* bound: updates, events and mails
          MaxTrouble \* bound: failures of the services, restarts, messages
                     \* of agents to contacts and dialogues, together

ASSUME PeopleAssumption ==
  /\ Handle \in [People -> (Accounts \ People) \cup {NoAccount}]
  /\ \A p \in People : Handle[p] = NoAccount => p \in Accounts
  /\ FullName \in [People -> Names]
  /\ Supergroups \subseteq Groups
  /\ Allow \in [Bots -> {"member", "contact", "guest"}]
  /\ NoChat \notin People \cup Groups

ASSUME FileAssumption == File \in Seq(Bots \cup {"slack", "discord", "mail"})

Chats == People \cup Groups        \* a private chat is named for its person

\* Telegram numbers the messages of all private chats and basic groups of an
\* account together, and those of each supergroup on their own.
Numbering(chat) == IF chat \in Supergroups THEN chat ELSE NoChat

NoHandler == [kind |-> "none", card |-> 0, alive |-> FALSE]

VARIABLES
  updates,   \* of a bot: all updates the service has had for it
  confirmed, \* of a bot: updates the service has forgotten
  pc,        \* of a bot: where its coroutine is
  offset,    \* of a bot: update_id; 0 for none yet, -1 for None
  current,   \* of a bot: the update in work
  marked,    \* of a bot: in_process_tg_msg
  chatOf,    \* of a bot: chatid_record
  handler,   \* of a name: its handler on the bus
  loaded,    \* tunnels of the file that have started
  abandoned, \* the start of one has failed
  event,     \* of an event: its progress and the name of its author
  box,       \* the mailbox: the mails in the order of their numbers
  seen,      \* mails the server has marked as read
  mailPc,    \* where check_email is
  found,     \* numbers its search has found and it has not come to
  readNums,  \* read_email: numbers it has read
  inbound,   \* updates, events and mails so far
  trouble,   \* failures, restarts and messages to contacts so far
  handed,    \* history: of a bot, updates handed to the bus in this run
  entered,   \* history: of a bot, updates on_message did not ignore
  skipped,   \* history: of a bot, updates stepped over by Forbidden
  mailed     \* history: mails handed to the bus

botVars == <<updates, confirmed, pc, offset, current, marked, chatOf,
             handed, entered, skipped>>
loadVars == <<loaded, abandoned>>
chatVars == <<event>>
mailVars == <<box, seen, mailPc, found, readNums, mailed>>
counters == <<inbound, trouble>>
vars == <<contactVars, botVars, loadVars, chatVars, mailVars, handler, counters>>

Init ==
  /\ ContactsInit
  /\ updates = [b \in Bots |-> <<>>]
  /\ confirmed = [b \in Bots |-> 0]
  /\ pc = [b \in Bots |-> "off"]
  /\ offset = [b \in Bots |-> 0]
  /\ current = [b \in Bots |-> 0]
  /\ marked = [b \in Bots |-> {}]
  /\ chatOf = [b \in Bots |-> [n \in Names |-> NoChat]]
  /\ handler = [n \in Names \cup Groups |-> NoHandler]
  /\ loaded = 0 /\ abandoned = FALSE
  /\ event = [e \in Events |-> [pc |-> "none", name |-> Owner]]
  /\ box = <<>> /\ seen = {} /\ mailPc = "off" /\ found = {} /\ readNums = {}
  /\ mailed = <<>>
  /\ inbound = 0 /\ trouble = 0
  /\ handed = [b \in Bots |-> <<>>]
  /\ entered = [b \in Bots |-> {}]
  /\ skipped = [b \in Bots |-> {}]

Register(n, kind, card) ==
  [handler EXCEPT ![n] = [kind |-> kind, card |-> card, alive |-> TRUE]]

\* One more of what MaxTrouble counts; with it a service fails.
Troubled == trouble + dialogs < MaxTrouble /\ trouble' = trouble + 1

-----------------------------------------------------------------------------
(* The start of the tunnels.                                               *)

\* t is the next tunnel of the file.
Turn(t) == ~abandoned /\ loaded < Len(File) /\ File[loaded + 1] = t

Starts(t) == Turn(t) /\ loaded' = loaded + 1 /\ UNCHANGED abandoned

Started(t) == \E i \in 1..loaded : File[i] = t

\* Nothing starts t in this run of the program any more.
NeverStarts(t) == abandoned /\ ~Started(t)

\* get_me of a bot, auth_test of Slack, a missing token or setting: the
\* exception leaves the loop over the file, and the shell goes on.
StartFails ==
  /\ \E i \in 1..Len(File) : Turn(File[i])
  /\ Troubled
  /\ abandoned' = TRUE
  /\ UNCHANGED <<contactVars, botVars, loaded, chatVars, mailVars, handler, inbound>>

\* start of Slack and Discord: the client connects on its own.
StartChat(t) ==
  /\ t \in {"slack", "discord"}
  /\ Starts(t)
  /\ UNCHANGED <<contactVars, botVars, chatVars, mailVars, handler, counters>>

-----------------------------------------------------------------------------
(* A Telegram bot.                                                         *)

\* An update arrives at the service: a message of p in a chat, or something
\* the tunnel has no use for (a sticker, a bot, no message at all).
UpdateArrives(b, p, chat, usable) ==
  /\ inbound < MaxIn
  /\ chat \in Groups \cup {p}
  /\ usable \/ chat = p
  /\ inbound' = inbound + 1
  /\ LET before == {i \in DOMAIN updates[b] :
                       Numbering(updates[b][i].chat) = Numbering(chat)}
     IN updates' = [updates EXCEPT ![b] = Append(@,
          [from |-> p, chat |-> chat, usable |-> usable,
           num |-> Cardinality(before) + 1])]
  /\ UNCHANGED <<contactVars, confirmed, pc, offset, current, marked,
       chatOf, handed, entered, skipped, loadVars, chatVars, mailVars, handler, trouble>>

\* Mutant: the loop begins at the last update.
StartBotLast(b) ==
  /\ pc[b] = "off"
  /\ Starts(b)
  /\ pc' = [pc EXCEPT ![b] = "fetch"]
  /\ offset' = [offset EXCEPT ![b] = Len(updates[b])]
  /\ UNCHANGED <<contactVars, updates, confirmed, current, marked,
       chatOf, handed, entered, skipped, chatVars, mailVars, handler, inbound,
       trouble>>

\* start: the loop begins at the first update that is not confirmed, without
\* a position when that cannot be read.
StartBot(b) ==
  /\ pc[b] = "off"
  /\ Starts(b)
  /\ pc' = [pc EXCEPT ![b] = "fetch"]
  /\ \/ /\ offset' = [offset EXCEPT ![b] =
             IF confirmed[b] < Len(updates[b]) THEN confirmed[b] + 1 ELSE 0]
        /\ UNCHANGED trouble
     \/ /\ Troubled
        /\ offset' = [offset EXCEPT ![b] = -1]
  /\ UNCHANGED <<contactVars, updates, confirmed, current, marked,
       chatOf, handed, entered, skipped, chatVars, mailVars, handler, inbound>>

\* get_updates: everything before the offset is confirmed, and the first
\* update behind is looked at.  A message that is marked is ignored.
Confirmed(b) ==
  CHOOSE c \in confirmed[b]..Len(updates[b]) :
    \A d \in confirmed[b]..Len(updates[b]) : d <= c <=> d < offset[b] \/ d = confirmed[b]

\* Mutant: a message that is marked is taken up again.
FetchAgain(b) ==
  LET i == Confirmed(b) + 1
  IN /\ pc[b] = "fetch"
     /\ i <= Len(updates[b])
     /\ confirmed' = [confirmed EXCEPT ![b] = i - 1]
     /\ marked' = [marked EXCEPT ![b] = @ \cup {updates[b][i].num}]
     /\ entered' = [entered EXCEPT ![b] = @ \cup {i}]
     /\ current' = [current EXCEPT ![b] = i]
     /\ pc' = [pc EXCEPT ![b] = "convert"]
     /\ UNCHANGED <<contactVars, updates, offset, chatOf, handed, skipped,
          loadVars, chatVars, mailVars, handler, counters>>

\* Mutant: an update that is ignored does not move the offset.
FetchStays(b) ==
  LET i == Confirmed(b) + 1
      u == updates[b][i]
  IN /\ pc[b] = "fetch"
     /\ i <= Len(updates[b])
     /\ u.usable /\ u.num \notin marked[b]
     /\ confirmed' = [confirmed EXCEPT ![b] = i - 1]
     /\ marked' = [marked EXCEPT ![b] = @ \cup {u.num}]
     /\ entered' = [entered EXCEPT ![b] = @ \cup {i}]
     /\ current' = [current EXCEPT ![b] = i]
     /\ pc' = [pc EXCEPT ![b] = "convert"]
     /\ UNCHANGED <<contactVars, updates, offset, chatOf, handed, skipped,
          loadVars, chatVars, mailVars, handler, counters>>

Fetch(b) ==
  LET i == Confirmed(b) + 1
      u == updates[b][i]
  IN /\ pc[b] = "fetch"
     /\ i <= Len(updates[b])
     /\ confirmed' = [confirmed EXCEPT ![b] = i - 1]
     /\ IF u.usable /\ u.num \notin marked[b]
        THEN /\ marked' = [marked EXCEPT ![b] = @ \cup {u.num}]
             /\ entered' = [entered EXCEPT ![b] = @ \cup {i}]
             /\ current' = [current EXCEPT ![b] = i]
             /\ pc' = [pc EXCEPT ![b] = "convert"]
             /\ UNCHANGED offset
        ELSE /\ offset' = [offset EXCEPT ![b] = i + 1]
             /\ UNCHANGED <<marked, entered, current, pc>>
     /\ UNCHANGED <<contactVars, updates, chatOf, handed, skipped,
          loadVars, chatVars, mailVars, handler, counters>>

\* The long poll ends without an update; the offset was confirmed.
FetchNothing(b) ==
  /\ pc[b] = "fetch"
  /\ Confirmed(b) = Len(updates[b])
  /\ confirmed[b] < Len(updates[b])
  /\ confirmed' = [confirmed EXCEPT ![b] = Len(updates[b])]
  /\ UNCHANGED <<contactVars, updates, pc, offset, current, marked,
       chatOf, handed, entered, skipped, loadVars, chatVars, mailVars, handler, counters>>

Current(b) == updates[b][current[b]]

\* Mutant: looked up by username only.
SenderByName(p) == FindByTelegram(Handle[p])

\* The contact a message is from: by username, then by id.
Sender(p) == IF FindByTelegram(Handle[p]) # 0 THEN FindByTelegram(Handle[p])
             ELSE FindByTelegram(p)

\* Mutant: only private chats are recorded.
DeliverPrivate(b, k) ==
  LET u == Current(b)
      n == cards'[k].name
  IN /\ chatOf' = IF u.chat \in Groups THEN chatOf
                  ELSE [chatOf EXCEPT ![b][n] = u.chat]
     /\ handler' = Register(n, "contact", k)
     /\ handed' = [handed EXCEPT ![b] = Append(@, current[b])]
     /\ pc' = [pc EXCEPT ![b] = "send"]

\* The message goes to the bus in the name of contact k.
Deliver(b, k) ==
  LET u == Current(b)
      n == cards'[k].name
      h == Register(n, "contact", k)
  IN /\ chatOf' = [chatOf EXCEPT ![b][n] = u.chat]
     /\ handler' = IF u.chat \in Groups
                   THEN [h EXCEPT ![u.chat] =
                           [kind |-> "log", card |-> 0, alive |-> TRUE]]
                   ELSE h
     /\ handed' = [handed EXCEPT ![b] = Append(@, current[b])]
     /\ pc' = [pc EXCEPT ![b] = "send"]

\* Only a refusal is written back.
Refuse(b) ==
  /\ pc' = [pc EXCEPT ![b] = "reply"]
  /\ UNCHANGED <<contactVars, chatOf, handler, handed>>

\* The end of the conversion (a photo or a video is downloaded): the sender
\* is looked up, made when the bot talks to guests, and the message is sent.
\* Nothing in here suspends.
Converted(b) ==
  LET p == Current(b).from
      k == Sender(p)
      account == IF Handle[p] # NoAccount THEN Handle[p] ELSE p
  IN /\ pc[b] = "convert"
     /\ IF k # 0
        THEN IF ~cards[k].family /\ Allow[b] \notin {"contact", "guest"}
             THEN Refuse(b)
             ELSE /\ cards' = [cards EXCEPT ![k].active = @ \cup {b}]
                  /\ Deliver(b, k)
                  /\ UNCHANGED <<contacts, saved, dialog, dialogs, unsaved>>
        ELSE IF Allow[b] # "guest"
             THEN Refuse(b)
             ELSE LET c == [Card(FullName[p], account) EXCEPT !.active = {b}]
                  IN /\ AddCard(c)
                     /\ Deliver(b, Len(cards) + 1)
                     /\ UNCHANGED <<dialog, dialogs>>
     /\ UNCHANGED <<updates, confirmed, offset, current, marked,
          entered, skipped, loadVars, chatVars, mailVars, counters>>

\* send_message returns a reply or, after its timeout, None.
Answered(b) ==
  /\ pc[b] = "send"
  /\ pc' = [pc EXCEPT ![b] = "reply"]
  /\ UNCHANGED <<contactVars, updates, confirmed, offset, current,
       marked, chatOf, handed, entered, skipped, loadVars, chatVars, mailVars, handler,
       counters>>

\* The answer, "System Error" or the refusal is written to the chat.
Replied(b) ==
  /\ pc[b] = "reply"
  /\ pc' = [pc EXCEPT ![b] = "fetch"]
  /\ offset' = [offset EXCEPT ![b] = current[b] + 1]
  /\ UNCHANGED <<contactVars, updates, confirmed, current, marked,
       chatOf, handed, entered, skipped, loadVars, chatVars, mailVars, handler, counters>>

\* send_message raises where the lookup of the target does.  The loop tries
\* again from its old offset.
SendRaises(b) ==
  /\ pc[b] = "send"
  /\ pc' = [pc EXCEPT ![b] = "fetch"]
  /\ UNCHANGED <<contactVars, updates, confirmed, offset, current,
       marked, chatOf, handed, entered, skipped, loadVars, chatVars, mailVars, handler,
       counters>>

\* An exception of a request to Telegram goes up to the loop, too.  Forbidden
\* adds one to the offset, which ends the coroutine when there is none.
Exception(b, forbidden) ==
  /\ pc[b] \in {"fetch", "convert", "reply"}
  /\ Troubled
  /\ pc' = [pc EXCEPT ![b] =
              IF forbidden /\ offset[b] = -1 THEN "dead" ELSE "fetch"]
  /\ IF forbidden /\ offset[b] # -1
     THEN /\ offset' = [offset EXCEPT ![b] = @ + 1]
          /\ skipped' = [skipped EXCEPT ![b] = @ \cup {offset[b]}]
     ELSE UNCHANGED <<offset, skipped>>
  /\ UNCHANGED <<contactVars, updates, confirmed, current, marked,
       chatOf, handed, entered, loadVars, chatVars, mailVars, handler, inbound>>

BotStep(b) ==
  StartBot(b) \/ Fetch(b) \/ FetchNothing(b) \/ Converted(b) \/ Answered(b)
  \/ Replied(b)

-----------------------------------------------------------------------------
(* Slack and Discord: every event has a coroutine of its own.              *)

EventArrives(e, n) ==
  /\ event[e].pc = "none"
  /\ Started(IF e \in SlackEvents THEN "slack" ELSE "discord")
  /\ inbound < MaxIn
  /\ inbound' = inbound + 1
  /\ event' = [event EXCEPT ![e] = [pc |-> "asked", name |-> n]]
  /\ UNCHANGED <<contactVars, botVars, loadVars, mailVars, handler, trouble>>

\* A failure before the author is registered: the coroutine ends.
EventFails(e) ==
  /\ event[e].pc = "asked"
  /\ Troubled
  /\ event' = [event EXCEPT ![e].pc = "end"]
  /\ UNCHANGED <<contactVars, botVars, loadVars, mailVars, handler, inbound>>

\* The author and the files are read, the author is registered on the bus
\* with the handler of the tunnel, and the message is sent.  One without
\* blocks ends in an exception after the registration.
SlackTaken(e) ==
  /\ e \in SlackEvents
  /\ event[e].pc = "asked"
  /\ \E next \in {"send", "end"} : event' = [event EXCEPT ![e].pc = next]
  /\ handler' = Register(event[e].name, "log", 0)
  /\ UNCHANGED <<contactVars, botVars, loadVars, mailVars, counters>>

\* On Discord a message to a group that does not mention the bot ends in an
\* exception after the registration: its type is read from an attribute that
\* AgentMsgType does not have.
DiscordTaken(e) ==
  /\ e \notin SlackEvents
  /\ event[e].pc = "asked"
  /\ \E next \in {"send", "end"} : event' = [event EXCEPT ![e].pc = next]
  /\ handler' = Register(event[e].name, "log", 0)
  /\ UNCHANGED <<contactVars, botVars, loadVars, mailVars, counters>>

\* The reply, or the text for none, is written to the channel.
SlackReplied(e) ==
  /\ e \in SlackEvents
  /\ event[e].pc = "send"
  /\ event' = [event EXCEPT ![e].pc = "end"]
  /\ UNCHANGED <<contactVars, botVars, loadVars, mailVars, handler, counters>>

DiscordReplied(e) ==
  /\ e \notin SlackEvents
  /\ event[e].pc = "send"
  /\ event' = [event EXCEPT ![e].pc = "end"]
  /\ UNCHANGED <<contactVars, botVars, loadVars, mailVars, handler, counters>>

EventStep(e) ==
  SlackTaken(e) \/ DiscordTaken(e) \/ SlackReplied(e) \/ DiscordReplied(e)

-----------------------------------------------------------------------------
(* The mail tunnel.                                                        *)

MailArrives(m) ==
  /\ m \notin seen \cup {box[i] : i \in DOMAIN box}
  /\ inbound < MaxIn
  /\ inbound' = inbound + 1
  /\ box' = Append(box, m)
  /\ UNCHANGED <<contactVars, botVars, loadVars, chatVars, handler, seen, mailPc, found,
       readNums, mailed, trouble>>

\* A mail that was read is deleted by its owner; the numbers of those behind
\* it go down.
MailDeleted(i) ==
  /\ i \in DOMAIN box /\ box[i] \in seen
  /\ mailPc = "sleep"
  /\ box' = SubSeq(box, 1, i - 1) \o SubSeq(box, i + 1, Len(box))
  /\ UNCHANGED <<contactVars, botVars, loadVars, chatVars, handler, seen, mailPc, found,
       readNums, mailed, counters>>

StartMail ==
  /\ mailPc = "off"
  /\ Starts("mail")
  /\ mailPc' = "sleep"
  /\ UNCHANGED <<contactVars, botVars, chatVars, handler, box, seen, found,
       readNums, mailed, counters>>

\* Mutant: search ALL.
UnseenAll == DOMAIN box

Unseen == {i \in DOMAIN box : box[i] \notin seen}

\* search UNSEEN.
Search ==
  /\ mailPc = "sleep"
  /\ Unseen # {}
  /\ found' = Unseen
  /\ mailPc' = "fetch"
  /\ UNCHANGED <<contactVars, botVars, loadVars, chatVars, handler, box, seen, readNums,
       mailed, counters>>

\* Mutant: there is one check.
FetchMailOnce(n) ==
  LET i == CHOOSE j \in found : \A k \in found : j <= k
  IN /\ mailPc = "fetch"
     /\ found # {}
     /\ found' = found \ {i}
     /\ seen' = seen \cup {box[i]}
     /\ readNums' = readNums \cup {i}
     /\ mailed' = Append(mailed, box[i])
     /\ handler' = Register(n, "log", 0)
     /\ mailPc' = "send"
     /\ UNCHANGED <<contactVars, botVars, loadVars, chatVars, box, counters>>

\* The mails of the search in their order: a number that was read before is
\* skipped, the others are fetched, which marks them as seen, and handed to
\* the bus under the local part of their address.
FetchMail(n) ==
  LET i == CHOOSE j \in found : \A k \in found : j <= k
  IN /\ mailPc = "fetch"
     /\ IF found = {}
        THEN /\ mailPc' = "sleep"
             /\ UNCHANGED <<seen, found, readNums, mailed, handler>>
        ELSE /\ found' = found \ {i}
             /\ IF i \in readNums
                THEN UNCHANGED <<seen, mailPc, readNums, mailed, handler>>
                ELSE /\ seen' = seen \cup {box[i]}
                     /\ readNums' = readNums \cup {i}
                     /\ mailed' = Append(mailed, box[i])
                     /\ handler' = Register(n, "log", 0)
                     /\ mailPc' = "send"
     /\ UNCHANGED <<contactVars, botVars, loadVars, chatVars, box, counters>>

MailReplied ==
  /\ mailPc = "send"
  /\ mailPc' = "fetch"
  /\ UNCHANGED <<contactVars, botVars, loadVars, chatVars, handler, box, seen, found,
       readNums, mailed, counters>>

\* No exception is caught: the first one ends check_email for good, while
\* is_start stays true.
MailRaises ==
  /\ mailPc \in {"sleep", "fetch", "send"}
  /\ Troubled
  /\ mailPc' = "dead"
  /\ found' = {}
  /\ UNCHANGED <<contactVars, botVars, loadVars, chatVars, handler, box, seen, readNums,
       mailed, inbound>>

MailStep == StartMail \/ Search \/ (\E n \in Names : FetchMail(n)) \/ MailReplied

-----------------------------------------------------------------------------
(* Messages of agents to contacts.                                         *)

\* The handler of a name; the shell looks for a contact when there is none.
HandlerOf(n) ==
  LET k == FindByName(n)
  IN IF handler[n].kind = "none" /\ k # 0
     THEN [kind |-> "contact", card |-> k, alive |-> TRUE]
     ELSE handler[n]

\* A message of the agent of b to a name.  A contact passes it to its active
\* tunnel for the agent; one without raises while it looks for a default
\* tunnel, which ends the worker of its handler.
AgentPosts(b, n) ==
  LET h == HandlerOf(n)
      raises == h.kind = "contact" /\ b \notin cards[h.card].active
  IN /\ Troubled
     /\ handler' = [handler EXCEPT ![n] = [h EXCEPT !.alive = @ /\ ~raises]]
     /\ UNCHANGED <<contactVars, botVars, loadVars, chatVars, mailVars, inbound>>

\* post_message of the bot, to the chat on record, raises.
PostRaises(b, n) ==
  LET h == HandlerOf(n)
  IN /\ Troubled
     /\ h.kind = "contact" /\ h.alive /\ b \in cards[h.card].active
     /\ chatOf[b][n] # NoChat
     /\ handler' = [handler EXCEPT ![n] = [h EXCEPT !.alive = FALSE]]
     /\ UNCHANGED <<contactVars, botVars, loadVars, chatVars, mailVars, inbound>>

-----------------------------------------------------------------------------
\* The program is stopped and started: the file of contacts, the services
\* and the mailbox remain.
Restart ==
  /\ Troubled
  /\ LoadContacts
  /\ pc' = [b \in Bots |-> "off"]
  /\ offset' = [b \in Bots |-> 0]
  /\ current' = [b \in Bots |-> 0]
  /\ marked' = [b \in Bots |-> {}]
  /\ chatOf' = [b \in Bots |-> [n \in Names |-> NoChat]]
  /\ handler' = [n \in Names \cup Groups |-> NoHandler]
  /\ event' = [e \in Events |-> IF event[e].pc = "none" THEN event[e]
                                ELSE [event[e] EXCEPT !.pc = "end"]]
  /\ loaded' = 0 /\ abandoned' = FALSE
  /\ mailPc' = "off" /\ found' = {} /\ readNums' = {}
  /\ handed' = [b \in Bots |-> <<>>]
  /\ UNCHANGED <<updates, confirmed, entered, skipped, box, seen,
       mailed, inbound>>

ShellDialogue ==
  /\ Dialogue
  /\ trouble + dialogs' <= MaxTrouble
  /\ UNCHANGED <<botVars, loadVars, chatVars, mailVars, handler, counters>>

Next ==
  \/ \E b \in Bots : BotStep(b)
  \/ \E b \in Bots, p \in People, c \in Chats, u \in BOOLEAN :
        UpdateArrives(b, p, c, u)
  \/ \E b \in Bots : SendRaises(b)
  \/ \E b \in Bots, f \in BOOLEAN : Exception(b, f)
  \/ \E t \in {"slack", "discord"} : StartChat(t)
  \/ StartFails
  \/ \E e \in Events, n \in Names : EventArrives(e, n)
  \/ \E e \in Events : EventStep(e) \/ EventFails(e)
  \/ \E m \in Mails : MailArrives(m)
  \/ \E i \in 1..Cardinality(Mails) : MailDeleted(i)
  \/ MailStep
  \/ MailRaises
  \/ \E b \in Bots, n \in Names : AgentPosts(b, n) \/ PostRaises(b, n)
  \/ ShellDialogue
  \/ Restart

Spec == Init /\ [][Next]_vars

\* The coroutines of the shell and of the tunnels are scheduled and their
\* services answer, by an exception at least.
Fairness ==
  /\ \A t \in {"slack", "discord"} : WF_vars(StartChat(t))
  /\ \A b \in Bots : WF_vars(BotStep(b))
  /\ WF_vars(MailStep)

FairSpec == Spec /\ Fairness

-----------------------------------------------------------------------------
(* Properties                                                              *)

\* Type correctness of the tunnels and the contacts.
TypeOK ==
  /\ \A k \in DOMAIN cards :
       cards[k] \in [name : Names, telegram : Accounts \cup {NoAccount},
                     family : BOOLEAN, active : SUBSET Bots]
  /\ \A i \in DOMAIN contacts : contacts[i] \in DOMAIN cards
  /\ dialog.card \in {0} \cup DOMAIN cards
  /\ confirmed \in [Bots -> Nat]
  /\ pc \in [Bots -> {"off", "fetch", "convert", "send", "reply", "dead"}]
  /\ offset \in [Bots -> Nat \cup {-1}]
  /\ chatOf \in [Bots -> [Names -> Chats \cup {NoChat}]]
  /\ handler \in [Names \cup Groups -> [kind : {"none", "contact", "log"},
                     card : {0} \cup DOMAIN cards, alive : BOOLEAN]]
  /\ loaded \in 0..Len(File) /\ abandoned \in BOOLEAN
  /\ event \in [Events -> [pc : {"none", "asked", "send", "end"}, name : Names]]
  /\ seen \subseteq Mails
  /\ mailPc \in {"off", "sleep", "fetch", "send", "dead"}
  /\ found \subseteq DOMAIN box

Distinct(s) == \A i, j \in DOMAIN s : s[i] = s[j] => i = j

\* A message is handed to an agent at most once in a run of the program,
\* although the loop fetches an update again after every exception.
HandedOnce == \A b \in Bots : Distinct(handed[b])

\* The service only forgets a message that the tunnel has taken up, that has
\* the number of one taken up (the numbers of two supergroups or of a
\* supergroup and a private chat can be equal), or that a Forbidden error has
\* stepped over.
Accounted ==
  \A b \in Bots : \A i \in DOMAIN updates[b] :
    (i <= confirmed[b] /\ updates[b][i].usable) =>
      \/ i \in entered[b] \cup skipped[b]
      \/ \E j \in entered[b] : updates[b][j].num = updates[b][i].num

\* A bot that is the active tunnel of a contact knows a chat to write to:
\* the message of an agent to somebody who wrote to it is not dropped for
\* want of one, whatever the shell does to the contacts in the meantime.
ActiveTunnelKnowsChat ==
  \A k \in DOMAIN cards : \A b \in cards[k].active :
    chatOf[b][cards[k].name] # NoChat

\* The tunnels never make a second contact for an account, two bots that
\* hear from one person at a time included: only dialogues of the owner add
\* one each.
OneContactPerAccount ==
  \A a \in Accounts :
    Cardinality({i \in DOMAIN contacts : cards[contacts[i]].telegram = a})
      <= 1 + dialogs

\* contacts.toml has every contact of the list in its place, and its account
\* unless a dialogue has changed it without an end.
FileHoldsContacts ==
  /\ Len(saved) = Len(contacts)
  /\ \A i \in DOMAIN contacts :
       LET c == cards[contacts[i]]
       IN /\ saved[i].name = c.name
          /\ contacts[i] \notin unsaved => saved[i].telegram = c.telegram

\* No mail is handed to an agent twice, restarts included.
MailOnce == Distinct(mailed)

\* Once no more arrive, every update is confirmed in the end, however often
\* its handling fails, unless the coroutine of the bot has died, or the start
\* of the bot or of a tunnel before it in the file has failed.
UpdatesEnd ==
  \A b \in Bots :
    <>[](confirmed[b] = Len(updates[b]) \/ pc[b] = "dead" \/ NeverStarts(b))

\* Once no more arrive, every mail has been read in the end, unless
\* check_email has died, was never started, or the mail has come under a
\* number that was read.
MailsAreRead ==
  <>[](\A i \in DOMAIN box :
         box[i] \in seen \/ i \in readNums \/ mailPc = "dead" \/ NeverStarts("mail"))

\* A message reaches an agent once at most, and is lost only where the code steps
\* over it, whatever is fetched again after exceptions and restarts.
HandedAndAccounted == HandedOnce /\ Accounted /\ MailOnce

\* The tunnels, the list of contacts and its file agree on who somebody is and
\* where to reach him, whatever the dialogues of the shell do in the meantime.
ContactsAgree == TypeOK /\ ActiveTunnelKnowsChat /\ OneContactPerAccount /\ FileHoldsContacts

\* No update and no mail is waiting for ever, unless the coroutine has died or
\* the start of its tunnel, or of one before it in the file, has failed.
InputsEnd == UpdatesEnd /\ MailsAreRead

=============================================================================
