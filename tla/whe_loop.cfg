\* The ground may send any three commands of WHE, and ES restarts one of the
\* applications once.
SPECIFICATION Spec
CONSTANTS
  FullCharge = 8
  Percent = 2
  GainShared = 1
  GainAlone = 2
  DischargeStep = 2
  DischargeDelay = 1
  ObsTicks = 1
  ObsDrain = 2
  ObsLow = 1
  PowerDelay = 2
  MaxDamage = 1
  Watchpoints = {"w0"}
  Actionpoints = {1}
  MaxEquation = 2
  DefaultWDT <- WheWDT
  DefaultADT <- WheADT
  WatchTables <- OnlyWheWDT
  ActionTables <- OnlyWheADT
  ByteMod = 32
  MaxFailCount = 1
  Threshold = 5
  PipeDepth = 3
  MsgLimit = 1
  Prompt = TRUE
  GroundWhe <- GroundCommands
  GroundBudget = 3
  RestartBudget = 1
INVARIANTS
  WheTypeOK
  ChargeIsBounded
  SpentIsDestroyed
  LostStaysOutOfService
  ChargeIsHeld
PROPERTIES
  DischargeIsDeserved
  DischargeEnds
  PowerComesUp
