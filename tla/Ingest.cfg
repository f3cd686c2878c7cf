SPECIFICATION FairSpec
CONSTANTS
  Symbols = {"btc","eth"}
  Connections = {"c1"}
  FeedOf <- MCFeedOf
  Orders = {"o1","foreign"}
  Foreign = {"foreign"}
  BackfillLimit = 2
  MaxMinute = 1
  MaxFaults = 1
INVARIANTS
  TypeOK
  GapsAreExplained
  LiquidationsOnce
  SeededIsComplete
PROPERTIES
  CollectedIsWritten
  SeedsHappen
