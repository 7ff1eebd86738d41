\* A human, a group, two agents that are found and one that is not, two messages
\* and their replies: enough for a handler to write to another agent, or to
\* itself, while it handles a message, for two lookups of one name at a time, for
\* a human to write twice, and for handlers that wait for each other.
CONSTANTS
  Users = {u}
  Groups = {c}
  Agents = {a, b, x}
  Known = {a, b, u}
  Msgs = {m1, m2}
  None = None
  PollLimit = 2
  MaxGen = 4
SPECIFICATION FairSpec
INVARIANTS TypeOK Delivery Replies
PROPERTIES PromiseSpec SendsAndQueuesEnd
CHECK_DEADLOCK FALSE
