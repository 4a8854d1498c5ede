CONSTANTS
  k1 = k1
  k2 = k2
  c1 = c1
  c2 = c2
  none = none
  Keys <- MCKeys
  Callers <- MCCallers
  NoKey <- none
  AttemptNumbers <- MCAttempts
SPECIFICATION Spec
CHECK_DEADLOCK FALSE
INVARIANTS
  TypeOK
  OneHolder
  CompletedWasPerformed
  EffectsWithinAttempts
PROPERTY
  ImplementsGuardedActions
