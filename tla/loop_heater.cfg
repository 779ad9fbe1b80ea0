\* The limits of the code, in the cold.  A comment says that THERM then heats.
SPECIFICATION Spec
CONSTANTS
  NumCaps = 1
  MaxDischarging = 1
  ChargePerPct = 1
  FullCharge = 8
  ChargeGain = 1
  DischargeStep = 10
  DischargeDelay = 1
  ObsCost = 7
  ObsMinCharge = 5
  LvrCost = 1
  Percent = 1
  ObsCountMax = 1
  MaxDamage = 0
  TempScale = 1
  TempMin = 0
  TempMax = 9
  ObsTempMin = 0
  ObsTempMax = 2
  StartDraws = 1
  StartOffset = 0
  MaxDrift = 0
  DestroyPct = 1
  DamagePct = 1
  LvrMinCharge = 5
  MaxLvrAttempts = 3
  ColdLimit = 3
  HotLimit = 5
  Byte = 4
  PipeMayFail = FALSE
  PipeDepth = 10
  MsgLimit = 4
  SchDepth = 2
  SchLimit = 1
  LvrMayFail = TRUE
  GroundWise <- PowerOnly
  GroundTherm <- NoThermCmds
  Restartable = {}
  RestartBudget = 0
  GroundBudget = 1
PROPERTY
  ColdKeepsHeat
