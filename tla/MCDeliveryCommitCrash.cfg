SPECIFICATION Spec
CONSTANTS
  Roots = {r1}
  None = None
  Torn = Torn
  Profiles <- MCCommitCrash
  Crashes = TRUE
PROPERTY
  NoRecoveryAfterCommit
