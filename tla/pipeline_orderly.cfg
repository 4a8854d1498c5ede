CONSTANTS
  e1 = e1
  w1 = w1
  w2 = w2
  r1 = r1
  mail = mail
  push = push
  x = x
  y = y
  none = none
  Events = {e1}
  Workers = {w1, w2}
  NoWorker = none
  NoEvent = none
  NoKey = none
  Actions <- MCActions
  Plans <- EitherOrder
  MaxAttempts = 3
  MaxStalled = 1
  MaxAdds = 2
  FaultSets <- Orderly
SPECIFICATION FairSpec
CHECK_DEADLOCK FALSE
INVARIANTS
  SettledLogAgrees
  CompletedIsLogged
  CompletedActionsSent
  InOrder
  SkippedLeavesTrace
  AuditOnce
PROPERTY
  EveryJobSettles
