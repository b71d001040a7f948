SPECIFICATION Spec
CONSTANTS
  Roots = {r1}
  None = None
  Torn = Torn
  Profiles <- MCDuplicate
  Crashes = FALSE
PROPERTY
  DuplicateExternalBlocked
