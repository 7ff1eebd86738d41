\* Two calls at a time on two tasks, one of two todos cannot be written: every
\* overlap of two writes.
CONSTANTS
  c1 = c1
  c2 = c2
  t1 = t1
  t2 = t2
  good = good
  bad = bad
  None = None
  Calls = {c1, c2}
  Tasks = {t1, t2}
  Parents = {"root"}
  Titles = {"a"}
  Todos = {good, bad}
  BadTodos = {bad}
  MaxTodos = 2
  Priorities = {5}
  NewStates = {"done"}
  Length <- MC_Length
SPECIFICATION Spec
INVARIANTS TypeOK TodosAreTheLastSet TasksAreRead
SYMMETRY Symmetry
CHECK_DEADLOCK FALSE
