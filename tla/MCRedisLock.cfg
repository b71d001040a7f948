SPECIFICATION Spec
CONSTANTS
  c1 = c1
  c2 = c2
  c3 = c3
  A = A
  B = B
  NoLock = NoLock
  Clients <- MCClients
  Owners <- MCOwners
  OwnerOf <- MCOwnerOf
  LeaseSeconds = 2
  MaxClock = 3
  MaxToken = 2
  MaxEpoch = 2
  MaxInFlight = 2
  NameOwner = {TRUE}
  Takeover = {FALSE}
INVARIANTS
  TypeOK
  TokensUnique
  LeaseProtectsHolder
  FenceAdmitsOwnGrant
PROPERTIES
  NoStealOfLiveLease
  ImplementsLeaseLock
SYMMETRY MCSymmetry
