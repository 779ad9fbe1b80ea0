\* One equation: LC is DISABLED and samples all the same.
SPECIFICATION Spec
CONSTANTS
  Watchpoints = {"w0", "w1"}
  Actionpoints = {0}
  MaxEquation = 2
  DefaultWDT <- BothUsed
  DefaultADT <- FirstADT
  WatchTables <- SomeWatchTables
  ActionTables <- OnlyFirst
  ByteMod = 4
  MaxFailCount = 1
PROPERTY
  DisabledTestsNothing
