\* Two messages, one to the agent and one to a group or two of a kind, one task
\* process, a thinking at any time, and a restart.
CONSTANTS
  Topics = {a, b}
  Groups = {b}
  None = None
  MaxSessions = 2
  Kinds = {"text", "mention", "group", "audio"}
  Codes = {"OK", "plain OK", "failed"}
  Tools = {"update_chat_summary"}
  Configs <- SomeConfigs
  TaskNames = {"do"}
  MaxMsgs = 2
  MaxTasks = 1
  MaxRestarts = 1
SPECIFICATION FairSpec
INVARIANTS SessionsAgree DoneIsLogged
PROPERTIES PosNeverBack MessageEnds
CHECK_DEADLOCK FALSE
