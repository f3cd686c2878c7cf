SPECIFICATION FairSpec
CONSTANTS
  IndicatorKeys = {"imp","abs","dig"}
  LiquidationKeys = {"liq"}
  AggregateKeys = {"dig"}
  CriticalKeys = {"imp"}
  Rivals <- MCRivals
  MonotoneKeys = {"imp","abs","liq"}
  TypeMinutes <- MCTypeMinutes
  SeverityMinutes <- MCSeverityMinutes
  DefaultMinutes <- MCSeverityMinutes
  ParentWindow = 1
  ExpireAfter = 0
  HourWindow = 2
  MaxLive = 1
  Modes = {"live","shadow"}
  Answers = {"sent","failed"}
  MaxClock = 1
  MaxNews = 1
  MaxFaults = 2
INVARIANTS
  CapRespected
  StatusMatchesPush
PROPERTIES
  PassesAreAtomic
  DecisionIsStored
