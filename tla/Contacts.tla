------------------------------ MODULE Contacts ------------------------------
(***************************************************************************)
(* The contacts: ContactManager and Contact (frame/contact_manager.py,     *)
(* frame/contact.py) and the dialogue of the shell that edits them.        *)
(*                                                                         *)
(* The manager holds a list of objects.  The tunnels and the shell take    *)
(* objects out of it and change them in place; adding, replacing and       *)
(* removing write the whole list to contacts.toml in one step without a    *)
(* suspension.  The dialogue of the shell suspends at every question, and  *)
(* works on the object in the list all the while.                          *)
(*                                                                         *)
(* Of a contact the name, the Telegram account, the family mark and the    *)
(* active tunnels are kept; mail address, phone and notes are only shown.  *)
(***************************************************************************)
EXTENDS Naturals, Sequences

CONSTANTS Names,      \* names of contacts
          Accounts,   \* Telegram usernames and numeric ids
          NoAccount,  \* None: no Telegram account
          Owner,      \* the name of the user of the shell
          OwnerAccount, \* the account the user configured
          MaxCards,   \* bound: objects made in one run of the program
          MaxDialogs  \* bound: dialogues of the shell

ASSUME NoAccountAssumption == NoAccount \notin Accounts

ASSUME OwnerAssumption == Owner \in Names /\ OwnerAccount \in Accounts \cup {NoAccount}

VARIABLES
  cards,     \* every Contact object of this run of the program
  contacts,  \* the list of the manager, of indices into cards
  saved,     \* contacts.toml
  dialog,    \* the dialogue of /contact: its next question and its object
  dialogs,   \* dialogues so far
  unsaved    \* history: objects edited by a dialogue since the last save

contactVars == <<cards, contacts, saved, dialog, dialogs, unsaved>>

NoDialog == [step |-> "none", card |-> 0]

\* Contact(name): a new object.
Card(n, t) == [name |-> n, telegram |-> t, family |-> FALSE, active |-> {}]

\* to_dict writes the family mark; from_dict does not read it.
ToDict(c) == [name |-> c.name, telegram |-> c.telegram, family |-> c.family]
\* Mutant: the arguments in the other order.
FromDictSwapped(d) == Card(d.telegram, d.name)
FromDict(d) == Card(d.name, d.telegram)

\* The first contact at one of the positions S of the list, 0 for None.
FirstOf(S) == IF S = {} THEN 0
              ELSE contacts[CHOOSE i \in S : \A j \in S : i <= j]

FindByName(n) == FirstOf({i \in DOMAIN contacts : cards[contacts[i]].name = n})

\* A lookup of None finds the first contact without an account.
FindByTelegram(t) ==
  FirstOf({i \in DOMAIN contacts : cards[contacts[i]].telegram = t})

Listed == {contacts[i] : i \in DOMAIN contacts}

\* save_data: the objects as they are now, edits that were not confirmed
\* included.
Save(newCards, newContacts) ==
  /\ saved' = [i \in DOMAIN newContacts |-> ToDict(newCards[newContacts[i]])]
  /\ unsaved' = {}

\* Mutant: appended without a save.
AddCardOnly(c) ==
  /\ cards' = Append(cards, c)
  /\ contacts' = Append(contacts, Len(cards) + 1)
  /\ UNCHANGED <<saved, unsaved>>

\* add_contact: appended and saved, whoever has the name already.
AddCard(c) ==
  /\ cards' = Append(cards, c)
  /\ contacts' = Append(contacts, Len(cards) + 1)
  /\ Save(cards', contacts')

\* remove_contact: the contacts of other names are left, in their order.
Without(n) ==
  LET kept[i \in 0 .. Len(contacts)] ==
        IF i = 0 THEN <<>>
        ELSE IF cards[contacts[i]].name = n THEN kept[i - 1]
        ELSE Append(kept[i - 1], contacts[i])
  IN  kept[Len(contacts)]

-----------------------------------------------------------------------------
(* /contact NAME, with a suspension at each question.                      *)

AskContact(n) ==
  /\ dialog.step = "none"
  /\ dialogs < MaxDialogs
  /\ dialogs' = dialogs + 1
  /\ IF FindByName(n) # 0
     THEN /\ dialog' = [step |-> "update", card |-> FindByName(n)]
          /\ UNCHANGED <<cards, contacts, saved, unsaved>>
     ELSE /\ Len(cards) < MaxCards
          /\ cards' = Append(cards, Card(n, NoAccount))
          /\ dialog' = [step |-> "family", card |-> Len(cards) + 1]
          /\ UNCHANGED <<contacts, saved, unsaved>>

Edited == unsaved' = unsaved \cup {dialog.card}

\* "update or remove?": remove takes out every contact of the name; to
\* update takes the family mark away before it asks for it.
UpdateOrRemove(remove) ==
  /\ dialog.step = "update"
  /\ IF remove
     THEN /\ contacts' = Without(cards[dialog.card].name)
          /\ dialog' = NoDialog
          /\ Save(cards, contacts')
          /\ UNCHANGED cards
     ELSE /\ dialog' = [dialog EXCEPT !.step = "family"]
          /\ cards' = [cards EXCEPT ![dialog.card].family = FALSE]
          /\ Edited
          /\ UNCHANGED <<contacts, saved>>
  /\ UNCHANGED dialogs

AskFamily(yes) ==
  /\ dialog.step = "family"
  /\ dialog' = [dialog EXCEPT !.step = "telegram"]
  /\ cards' = [cards EXCEPT ![dialog.card].family = yes]
  /\ Edited
  /\ UNCHANGED <<contacts, saved, dialogs>>

AskTelegram(t) ==
  /\ dialog.step = "telegram"
  /\ dialog' = [dialog EXCEPT !.step = "email"]
  /\ cards' = [cards EXCEPT ![dialog.card].telegram = t]
  /\ Edited
  /\ UNCHANGED <<contacts, saved, dialogs>>

\* The mail address is the last answer that can be refused; after it the
\* contact is saved, one that was already in the list in its place, and
\* otherwise at the end of the list.
AskEmail ==
  /\ dialog.step = "email"
  /\ dialog' = NoDialog
  /\ contacts' = IF dialog.card \in Listed THEN contacts
                 ELSE Append(contacts, dialog.card)
  /\ Save(cards, contacts')
  /\ UNCHANGED <<cards, dialogs>>

\* /exit at a question leaves what was typed so far in the object.
Abort ==
  /\ dialog.step # "none"
  /\ dialog' = NoDialog
  /\ UNCHANGED <<cards, contacts, saved, dialogs, unsaved>>

Dialogue ==
  \/ \E n \in Names : AskContact(n)
  \/ \E r \in BOOLEAN : UpdateOrRemove(r)
  \/ \E y \in BOOLEAN : AskFamily(y)
  \/ \E t \in Accounts : AskTelegram(t)
  \/ AskEmail
  \/ Abort

\* load_data at the start of the program, and initial of the shell, which
\* adds the owner when the file does not have it.
Loaded(file) ==
  LET known == \E i \in DOMAIN file : file[i].name = Owner
      old   == [i \in DOMAIN file |-> FromDict(file[i])]
      new   == IF known THEN old ELSE Append(old, Card(Owner, OwnerAccount))
  IN /\ cards' = new
     /\ contacts' = [i \in DOMAIN new |-> i]
     /\ saved' = IF known THEN file ELSE [i \in DOMAIN new |-> ToDict(new[i])]
     /\ unsaved' = {}

LoadContacts ==
  /\ Loaded(saved)
  /\ dialog' = NoDialog
  /\ UNCHANGED dialogs

ContactsInit ==
  /\ cards = <<Card(Owner, OwnerAccount)>>
  /\ contacts = <<1>>
  /\ saved = <<ToDict(cards[1])>>
  /\ dialog = NoDialog
  /\ dialogs = 0
  /\ unsaved = {}
=============================================================================
