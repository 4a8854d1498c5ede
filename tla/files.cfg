CONSTANTS
  r1 = r1
  r2 = r2
  k1 = k1
  k2 = k2
  e1 = e1
  none = none
  Requests = {r1, r2}
  Keys = {k1, k2}
  Entities = {e1}
  None = none
  Attempts = 3
  MaxStalls = 1
  MaxRequests = 4
  FaultSets <- MCFaults
SPECIFICATION FairSpec
CHECK_DEADLOCK FALSE
INVARIANTS
  TypeOK
  OnePrimary
  LastPrimaryStays
  FileHasObject
PROPERTIES
  DeletedObjectGoes
