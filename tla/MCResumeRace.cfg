SPECIFICATION ResumeSpec
CONSTANTS
  Roots = {r1}
  Root = r1
  None = None
  Torn = Torn
  Profiles <- MCRaceProfiles
  Crashes = FALSE
  w1 = w1
  w2 = w2
  Workers = {w1, w2}
  StepLists <- MCRaceStepLists
  Grants <- MCGrants
  Tools <- MCRaceTools
  LeaseSeconds = 2
  MaxClock = 0
  MaxCrashes = 0
INVARIANT
  StepsStayRecorded
