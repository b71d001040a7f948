SPECIFICATION ResumeSpec
CONSTANTS
  Roots = {r1, r2}
  Root = r1
  None = None
  Torn = Torn
  Profiles <- MCProfiles
  Crashes = TRUE
  w1 = w1
  w2 = w2
  Workers = {w1, w2}
  StepLists <- MCStepLists
  Grants <- MCGrants
  Tools <- MCTools
  LeaseSeconds = 1
  MaxClock = 1
  MaxCrashes = 1
INVARIANTS
  ResumeTypeOK
  JournalTruthful
PROPERTIES
  CommittedNotRolledBack
  ReleaseOnlyWhenSettled
  Settles
CHECK_DEADLOCK FALSE
