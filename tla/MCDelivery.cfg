SPECIFICATION Spec
CONSTANTS
  Roots = {r1, r2}
  None = None
  Torn = Torn
  Profiles <- MCProfiles
  Crashes = TRUE
INVARIANTS
  TypeOK
  CommittedEntriesStay
PROPERTIES
  RecoveryUndoesMutation
  NoForeignEntryLost
  ImplementsSharedManifest
  TerminalRecordsKept
SYMMETRY MCSymmetry
