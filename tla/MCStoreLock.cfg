SPECIFICATION Spec
CONSTANTS
  c1 = c1
  c2 = c2
  c3 = c3
  A = A
  B = B
  NoLock = NoLock
  Clients <- MCClients
  Owners <- MCOwners
  OwnerOf <- MCOwnerOf
  LeaseSeconds = 2
  MaxClock = 4
  MaxToken = 3
  MaxEpoch = 2
  MaxInFlight = 1
  NameOwner = {TRUE}
  Takeover = {TRUE, FALSE}
  Kinds = {"local-file", "sqlite"}
INVARIANTS
  TypeOK
  TokensUnique
  LeaseProtectsHolder
PROPERTY
  ImplementsLeaseLock
SYMMETRY MCSymmetry
