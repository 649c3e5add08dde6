CONSTANTS
  m1 = m1  m2 = m2  t1 = t1  t2 = t2  u1 = u1  None = None
  Missions <- TwoMissions
  Tasks <- PairTasks
  MissionOf <- PairMissionOf
  DependsOn <- PairDependsOn
  Universes <- OneUniverse
  UniverseOf <- InU1
  MaxAttempts = 2
  IntentClasses = {"at_most_once"}
  StartRequests = {}
  Switchable = {}
  MaxCrashes = 1
SPECIFICATION FairSpec
PROPERTIES KeepsPromise LiveMissionEnds
