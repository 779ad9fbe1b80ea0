\* Every command of THERM and reads that fail: an application may end, and
\* WISE may be restarted.
SPECIFICATION Spec
CONSTANTS
  NumCaps = 1
  MaxDischarging = 1
  ChargePerPct = 1
  FullCharge = 1
  ChargeGain = 1
  DischargeStep = 10
  DischargeDelay = 1
  ObsCost = 7
  ObsMinCharge = 5
  LvrCost = 1
  Percent = 1
  ObsCountMax = 1
  MaxDamage = 0
  TempScale = 1
  TempMin = 0
  TempMax = 1
  ObsTempMin = 0
  ObsTempMax = 1
  StartDraws = 1
  StartOffset = 0
  MaxDrift = 0
  DestroyPct = 1
  DamagePct = 1
  LvrMinCharge = 1
  MaxLvrAttempts = 1
  ColdLimit = 0
  HotLimit = 1
  Byte = 2
  PipeMayFail = TRUE
  PipeDepth = 10
  MsgLimit = 2
  SchDepth = 2
  SchLimit = 1
  LvrMayFail = FALSE
  GroundWise <- PowerOnly
  GroundTherm <- AllThermCmds
  Restartable = {"WISE"}
  RestartBudget = 1
  GroundBudget = 2
INVARIANTS
  TypeOK
  PipesAreCounted
CHECK_DEADLOCK FALSE
