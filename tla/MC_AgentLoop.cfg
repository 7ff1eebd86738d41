\* One timer, one task at a time below the root, as two tasks cannot have one
\* directory, with a todo, and one call at a time.
CONSTANTS
  c1 = c1
  t1 = t1
  t2 = t2
  good = good
  agent = agent
  None = None
  Calls = {c1}
  Tasks = {t1, t2}
  Parents = {"root"}
  Titles = {"a"}
  Todos = {good}
  BadTodos = {}
  MaxTodos = 1
  Priorities = {5}
  NewStates = {"doing", "wait_review"}
  Length <- MC_Length
  Agents = {agent}
  Behaviors = {"triage", "plan", "review", "think"}
  StartEnergy = 3
  MaxEnergy = 4
  MaxRecover = 2
  MayRaise = TRUE
SPECIFICATION LoopFairSpec
INVARIANTS LoopTypeOK EnergyBound
PROPERTIES PromptFitsTask PassEnds FunctionsReturn
