CONSTANTS
  m1 = m1  m2 = m2  t1 = t1  t2 = t2  u1 = u1  None = None
  Missions <- OneMission
  Tasks <- ChainTasks
  MissionOf <- ChainMissionOf
  DependsOn <- ChainDependsOn
  Universes <- OneUniverse
  UniverseOf <- InU1
  MaxAttempts = 2
  IntentClasses = {"retryable", "at_most_once"}
  StartRequests = {"r1"}
  Switchable = {u1}
  MaxCrashes = 1
SPECIFICATION Spec
INVARIANTS KernelInvariant
PROPERTIES FinishedTaskIsFinal TransitionsFollowed
