SPECIFICATION Spec
CONSTANTS
  c1 = c1  c2 = c2  c3 = c3
  k1 = k1
  Calls = {c1, c2, c3}
  Keys <- MCKeys
  NoKey = NoKey
  NoCall = NoCall
  Intents <- MCIntents
  Pnls <- MCPnls
  Genesis = 10
  MaxRisk = 20
  MaxExposure = 30
  MaxOperational = 50
  Structural = 50
  DailyStop = 10
  DrawdownStop = 20
  MaxConcurrent = 2
  MaxDays = 1
SYMMETRY Interchangeable
CHECK_DEADLOCK FALSE
INVARIANTS
  EconomyInvariant
  ExposureBounded
  CapitalAccounted
  NeverOverdrawn
