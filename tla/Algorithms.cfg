SPECIFICATION MCSpec
CONSTANTS
  Symbols = {"btc", "alt"}
  Majors = {"btc"}
  Snapshots <- MCSnapshots
  MaxMinute = 1
  Null = Null
  PriceThreshold = 35
  SmallMove = 10
  VolumePct = 99
  VolumeZ = 4
  AbsorptionPct = 99
  AbsorptionZ = 6
  OiBuildup = 2
  FlatNorm = 5
  FlatPct = 90
  FlatMinOi = 150
  TriggerCount = 3
  TopSize = 2
  None = None
  Scale = 100
  MinSample = 5
  Window = 3
  Limit = 4
  Answers <- MCAnswers
  MaxTs = 7
  MaxRows = 5
  Interests = {0, 1, 3}
INVARIANTS
  OnePriceRule
  RulesAreSymmetric
  OneSideConfirmed
  EveryDecisionIsVoiced
  OneAlertPerKey
  OiSampleIsAligned
CHECK_DEADLOCK FALSE
