CONSTANTS
  Size = 2
  Used = {"trace", "stats", "test"}
SPECIFICATION Spec
INVARIANTS TypeOK OnlyRank0Speaks NoWrapperLeft SummaryIsShared
PROPERTY EveryRankEnds
