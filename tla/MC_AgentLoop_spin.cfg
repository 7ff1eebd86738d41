\* A timer without energy keeps a call from going on.
CONSTANTS
  c1 = c1
  t1 = t1
  t2 = t2
  good = good
  agent = agent
  None = None
  Calls = {c1}
  Tasks = {t1}
  Parents = {"root"}
  Titles = {"a"}
  Todos = {}
  BadTodos = {}
  MaxTodos = 0
  Priorities = {5}
  NewStates = {"doing", "wait_review"}
  Length <- MC_Length
  Agents = {agent}
  Behaviors = {"triage", "plan", "review", "think"}
  StartEnergy = 3
  MaxEnergy = 3
  MaxRecover = 1
  MayRaise = TRUE
SPECIFICATION LoopSpec
INVARIANTS CallsGoOn
