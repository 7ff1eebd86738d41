\* One message of a human, answered by a node of this repository.
CONSTANTS
  Topics = {a}
  Groups = {}
  None = None
  MaxSessions = 1
  Kinds = {"text", "mention", "group", "audio"}
  Codes = {"plain OK", "failed"}
  Tools = {"update_chat_summary"}
  Configs <- SomeConfigs
  TaskNames = {}
  MaxMsgs = 1
  MaxTasks = 0
  MaxRestarts = 0
SPECIFICATION Spec
INVARIANTS OKIsUsed
CHECK_DEADLOCK FALSE
