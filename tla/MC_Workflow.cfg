SPECIFICATION WorkflowFairSpec
CONSTANTS
  m1 = m1
  m2 = m2
  Msgs = {m1, m2}
  Names <- MCNames
  Mails <- MCMails
  Config <- MCConfig
  Contacts = {"ann"}
  Hashes <- MCHashes
  Plain <- MCPlain
  Limitless = {"b"}
  StackLimit = 1
  CodesAgree = TRUE
  Packages <- MCPackages
  Editable <- MCEditable
  MaxActs = 1
  Nothing = Nothing
INVARIANTS CostsAreBounded
PROPERTIES RolesAnswer MessageEnds
CHECK_DEADLOCK FALSE
