SPECIFICATION FairSpec
CONSTANTS
  ann = ann
  bob = bob
  Names = {"P", "owner"}
  Accounts <- MCAccounts
  NoAccount = NoAccount
  Owner = "owner"
  OwnerAccount = "@p"
  MaxCards = 3
  MaxDialogs = 1
  Bots <- MCBots
  b1 = b1
  b2 = b2
  Groups = {group}
  Supergroups = {group}
  Allow <- MCAllow
  People = {ann, bob}
  Handle <- MCHandle
  FullName <- MCFullName
  Events = {e, d}
  SlackEvents = {e}
  Mails = {m1, m2}
  File <- MCFile
  NoChat = NoChat
  MaxIn = 2
  MaxTrouble = 1
INVARIANTS HandedAndAccounted ContactsAgree
PROPERTIES InputsEnd
CHECK_DEADLOCK FALSE
