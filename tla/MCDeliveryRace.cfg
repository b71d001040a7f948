SPECIFICATION Spec
CONSTANTS
  Roots = {r1, r2}
  None = None
  Torn = Torn
  Profiles <- MCRace
  Crashes = FALSE
PROPERTY
  NoForeignEntryLost
