SPECIFICATION Spec
CONSTANTS
  c0 = c0
  c1 = c1
  t1 = t1
  t2 = t2
  t3 = t3
  Core = {c0, c1}
  Boot = c0
  Thread = {t1, t2, t3}
  NULL = NULL
  COUNT = 3
  NORMAL = 2
  SchedParam = {0, 2, 4}
  Ops = {"create", "yield", "exit", "join"}
SYMMETRY ThreadSymmetry
INVARIANTS TypeOK RunQueuesSound OneCorePerThread LockHandedOver FreedOnce
