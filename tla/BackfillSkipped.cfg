SPECIFICATION Spec
CONSTANTS
  Symbols = {"btc","eth"}
  Connections = {"c1"}
  FeedOf <- MCFeedOf
  Orders = {}
  Foreign = {}
  BackfillLimit = 2
  MaxMinute = 1
  MaxFaults = 1
INVARIANTS
  BackfillIsComplete
