SPECIFICATION FairSpec
CONSTANTS
  Symbols = {"btc", "alt"}
  Btc = "btc"
  Majors = {"btc"}
  Universe <- MCUniverse
  Close <- MCClose
  Volume <- MCVolume
  None = None
  Scale = 1000
  MinSample = 2
  Staleness = 2
  MidLag = 2
  LongLag = 2
  Baseline = 3
  MinMad = 5
  Retention = 5
  Backfill = 3
  Lookback = 4
  MaxGapPct = 25
  MaxKlineAge = 1
  Warmup = 2
  MaxMinute = 5
  MaxLate = 2
  MaxRuns = 1
  MaxFaults = 1
INVARIANTS
  TypeOK
  MarketViewAgrees
  SamplesAreWhole
  ReportBoundsSpans
PROPERTIES
  SnapshotsCatchUp
