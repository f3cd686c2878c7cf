SPECIFICATION Spec
CONSTANTS
  Symbols = {"btc"}
  Connections = {"c1"}
  FeedOf <- MCFeedOf
  Orders = {}
  Foreign = {}
  BackfillLimit = 2
  MaxMinute = 2
  MaxFaults = 0
INVARIANTS
  OnlyClosedRows
