SPECIFICATION StrongSpec
CONSTANTS
  c0 = c0
  c1 = c1
  t1 = t1
  Core = {c0, c1}
  Boot = c0
  Thread = {t1}
  NULL = NULL
  COUNT = 3
  NORMAL = 2
  SchedParam = {2}
  Ops = {"create", "yield", "exit", "join"}
PROPERTY JoinReturns
