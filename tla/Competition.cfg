SPECIFICATION FairSpec
CONSTANTS
  u1 = u1
  u2 = u2
  None = None
  Workers = {"w1", "w2"}
  Opportunities = {"o1"}
  Universes <- MCUniverses
  ChainOf <- MCChainOf
  Evolution = u1
  CompetitorLimit = 3
  MaxPerCycle = 2
  Composing = TRUE
  MaxTheses = 4
  MaxFaults = 1
INVARIANTS
  CompetitionInvariant
PROPERTIES
  SelectionIsForGood
  LeaseIsExclusive
  EveryOpportunityDecided
CHECK_DEADLOCK FALSE
