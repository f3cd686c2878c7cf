SPECIFICATION Spec
CONSTANTS
  IndicatorKeys = {"imp"}
  LiquidationKeys = {}
  AggregateKeys = {}
  CriticalKeys = {"imp"}
  Rivals <- MCRivals
  MonotoneKeys = {"imp"}
  TypeMinutes <- MCNoMinutes
  SeverityMinutes <- MCSeverityMinutes
  DefaultMinutes <- MCSeverityMinutes
  ParentWindow = 2
  ExpireAfter = 2
  HourWindow = 2
  MaxLive = 0
  Modes = {"live"}
  Answers = {"sent"}
  MaxClock = 3
  MaxNews = 3
  MaxFaults = 1
INVARIANTS
  TypeOK
  CooldownRespected
  NoRepeatPush
  EscalationIsLinked
  ActiveRowsAreChained
PROPERTIES
  RowsAreFinal
