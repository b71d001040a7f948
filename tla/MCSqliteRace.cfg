SPECIFICATION Spec
CONSTANTS
  c1 = c1
  c2 = c2
  c3 = c3
  A = A
  B = B
  NoLock = NoLock
  Clients <- MCClients
  Owners <- MCOwners
  OwnerOf <- MCOwnerOf
  LeaseSeconds = 2
  MaxClock = 4
  MaxToken = 3
  MaxEpoch = 2
  MaxInFlight = 2
  NameOwner = {TRUE}
  Takeover = {FALSE}
  Kinds = {"sqlite"}
INVARIANT
  LeaseProtectsHolder
