SPECIFICATION Spec
CONSTANTS
  c0 = c0
  c1 = c1
  t1 = t1
  t2 = t2
  Core = {c0, c1}
  Boot = c0
  Thread = {t1, t2}
  NULL = NULL
  COUNT = 3
  NORMAL = 2
  SchedParam = {0, 1, 2}
  Ops = {"create", "yield", "exit", "join"}
INVARIANT StackAllocated
