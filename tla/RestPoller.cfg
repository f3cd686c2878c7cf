SPECIFICATION FairSpec
CONSTANTS
  Symbols = {"A", "B"}
  Configured = {"A", "B"}
  Excluded = {}
  Liquid = {"A", "B"}
  Modes = {"configured", "all_usdt_perpetual"}
  MinInterval = 1
  RetryAfters = {1, 2}
  Interval = 1
  OiInterval = 3
  MaxFaults = 4
  NoSymbol = NoSymbol
INVARIANTS
  TypeOK
  OiHadItsTurn
PROPERTIES
  SilenceKept
  OthersAreServed
