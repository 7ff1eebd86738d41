\* One message of a human, answered, and a thinking at any time.
CONSTANTS
  Topics = {a}
  Groups = {}
  None = None
  MaxSessions = 1
  Kinds = {"text", "mention", "group", "audio"}
  Codes = {"OK", "failed"}
  Tools = {"update_chat_summary"}
  Configs <- SomeConfigs
  TaskNames = {}
  MaxMsgs = 1
  MaxTasks = 0
  MaxRestarts = 0
SPECIFICATION Spec
PROPERTIES SummarisedWasShown
CHECK_DEADLOCK FALSE
