SPECIFICATION Spec
CONSTANTS
  Dbs = {"memory.db"}
  Ids = {"o1", "o2"}
  Contents = {"v1", "v2"}
  Paths <- MCPaths
  Bases <- MCBases
  Kbs = {"m1", "m2", "kb"}
  KbIds = {"agent.memory", "docs"}
  KbIdOf <- MCKbIdOf
  DbOf <- MCDbOf
  Memories = {"m1", "m2"}
  EnabledKbs = {"docs"}
  Absent = Absent
  Torn = Torn
  MaxClock = 1
INVARIANTS GraphsLead
PROPERTIES GraphsKeep
