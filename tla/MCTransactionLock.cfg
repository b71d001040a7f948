SPECIFICATION Spec
CONSTANTS
  c1 = c1
  c2 = c2
  c3 = c3
  A = A
  B = B
  None = None
  Torn = Torn
  Callers <- MCCallers
  Owners <- MCOwners
  OwnerOf <- MCOwnerOf
  LeaseSeconds = 1
  MaxClock = 3
  MaxInFlight = 1
  MaxCrashes = 2
INVARIANT
  TypeOK
PROPERTIES
  OneTenure
  TornLockBlocks
  StaleLockIsReleased
