\* One agent whose handler raises.
CONSTANTS
  Users = {u}
  Groups = {}
  Agents = {a}
  Known = {a, u}
  Msgs = {m1, m2}
  None = None
  PollLimit = 1
  MaxGen = 2
SPECIFICATION Spec
INVARIANT FailedMessageKept
CHECK_DEADLOCK FALSE
