SPECIFICATION FairSpec
CONSTANTS
  r1 = r1
  m = m
  k1 = k1
  k2 = k2
  Runs = {r1}
  Missions = {m}
  MissionOf <- MCMissionOf
  MaxSteps = 2
  PlanLength <- MCPlanLength
  Keys = {k1, k2}
  KeyOf <- MCKeyOf
  MaxTries = 3
  MaxRevokeTries = 3
  MaxDeliveries = 3
  MaxFaults = 4
INVARIANT TaskForceInvariant
PROPERTIES
  CancelStaysQuiet
  StartedRunEnds
CHECK_DEADLOCK FALSE
