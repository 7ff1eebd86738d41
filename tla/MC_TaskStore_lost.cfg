\* Two calls at a time on one task: an update undoes a cancellation.
CONSTANTS
  c1 = c1
  c2 = c2
  t1 = t1
  t2 = t2
  good = good
  bad = bad
  None = None
  Calls = {c1, c2}
  Tasks = {t1}
  Parents = {"root", t1}
  Titles = {"a"}
  Todos = {}
  BadTodos = {}
  MaxTodos = 0
  Priorities = {5}
  NewStates = {"done"}
  Length <- MC_Length
SPECIFICATION Spec
INVARIANTS CancelSticks
SYMMETRY Symmetry
CHECK_DEADLOCK FALSE
