\* The attempts, the charge and the limits of the code; the louvers obey.
SPECIFICATION Spec
CONSTANTS
  NumCaps = 1
  MaxDischarging = 1
  ChargePerPct = 1
  FullCharge = 20
  ChargeGain = 1
  DischargeStep = 10
  DischargeDelay = 1
  ObsCost = 7
  ObsMinCharge = 5
  LvrCost = 1
  Percent = 1
  ObsCountMax = 1
  MaxDamage = 0
  TempScale = 1
  TempMin = 0
  TempMax = 9
  ObsTempMin = 0
  ObsTempMax = 6
  StartDraws = 1
  StartOffset = 0
  MaxDrift = 0
  DestroyPct = 1
  DamagePct = 1
  LvrMinCharge = 5
  MaxLvrAttempts = 3
  ColdLimit = 2
  HotLimit = 5
  Byte = 4
  PipeMayFail = FALSE
  PipeDepth = 10
  MsgLimit = 4
  SchDepth = 2
  SchLimit = 1
  LvrMayFail = FALSE
  GroundWise <- PowerOnly
  GroundTherm <- NoThermCmds
  Restartable = {}
  RestartBudget = 0
  GroundBudget = 1
INVARIANT
  SoundLouverIsNotGivenUp
