CONSTANTS
  m1 = m1
  m2 = m2
  r1 = r1
  r2 = r2
  q1 = q1
  auditLogs = auditLogs
  emailLogs = emailLogs
  noticeLogs = noticeLogs
  jobLogs = jobLogs
  none = none
  Maintainers = {m1, m2}
  PartitionOrder <- LogsOfActions
  Runs = {r1, r2}
  Actions <- MCActions
  Readers = {q1}
  EmailLogs = emailLogs
  NotificationLogs = noticeLogs
  NoAction = none
  MaxCalls = 2
  FaultSets <- MCFaults
SPECIFICATION FairSpec
CHECK_DEADLOCK FALSE
INVARIANTS
  TypeOK
  UpMeansComplete
  StatusHonest
  PendingIsInProgress
  DeliveredAsConfigured
  NoNeedlessRepeat
PROPERTIES
  EveryMaintainerComesUp
  FirstReadStays
  ImplementsActionCalls
