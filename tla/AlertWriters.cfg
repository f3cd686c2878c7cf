SPECIFICATION FairSpec
CONSTANTS
  Processes = {"app", "cli"}
  Loop = "app"
  Keys = {"imp", "abs"}
  CriticalKeys = {"abs"}
  Window = 2
  ParentWindow = 1
  ExpireAfter = 1
  MaxClock = 2
  Budgets <- MCBudgets
INVARIANTS
  SlotPushedOnce
  CooldownHeldAcross
PROPERTIES
  LedgerKept
  PassEnds
