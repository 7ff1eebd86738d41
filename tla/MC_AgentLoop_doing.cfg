\* A task that is being done keeps another one from being planned.
CONSTANTS
  c1 = c1
  t1 = t1
  t2 = t2
  good = good
  agent = agent
  None = None
  Calls = {c1}
  Tasks = {t1, t2}
  Parents = {"root"}
  Titles = {"a", "b"}
  Todos = {good}
  BadTodos = {}
  MaxTodos = 1
  Priorities = {5}
  NewStates = {"doing"}
  Length <- MC_Length
  Agents = {agent}
  Behaviors = {"plan"}
  StartEnergy = 2
  MaxEnergy = 2
  MaxRecover = 1
  MayRaise = FALSE
SPECIFICATION LoopFairSpec
PROPERTIES ConfirmedIsPlanned
