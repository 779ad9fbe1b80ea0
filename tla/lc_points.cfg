\* Two watchpoints, one actionpoint, every equation of up to four items.
SPECIFICATION Spec
CONSTANTS
  Watchpoints = {"w0", "w1"}
  Actionpoints = {0}
  MaxEquation = 4
  DefaultWDT <- BothUsed
  DefaultADT <- FirstADT
  WatchTables <- SomeWatchTables
  ActionTables <- AllEquations
  ByteMod = 4
  MaxFailCount = 1
INVARIANTS
  LcTypeOK
  DefiniteIsRight
  ErrorComesFromWatch
  FailsAreCurrent
  ResultsAreOfThisTable
