SPECIFICATION MessagesSpec
CONSTANTS
  m1 = m1
  m2 = m2
  t1 = t1
  t2 = t2
  t3 = t3
  Message = {m1, m2}
  Task = {t1, t2, t3}
  Data = {"d1", "d2", "d3"}
  None = None
  Party = {1, 2, 3}
  Numerals = {"1", "2"}
  Scenarios <- MCScenarios
  Idle = Idle
INVARIANTS
  MessagesTypeOK
  Met
  NoStrandedTask
  DeliveredOnce
  OwnRun
  FailedIsLost
PROPERTY
  Settled
CHECK_DEADLOCK FALSE
