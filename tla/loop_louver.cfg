\* Two attempts for each louver and a minimum charge that is one short of
\* what both may take; sound louvers, so that only staleness is at work,
\* and a restart of THERM.
SPECIFICATION Spec
CONSTANTS
  NumCaps = 1
  MaxDischarging = 1
  ChargePerPct = 1
  FullCharge = 4
  ChargeGain = 1
  DischargeStep = 10
  DischargeDelay = 1
  ObsCost = 7
  ObsMinCharge = 5
  LvrCost = 1
  Percent = 1
  ObsCountMax = 1
  MaxDamage = 0
  TempScale = 1
  TempMin = 0
  TempMax = 9
  ObsTempMin = 0
  ObsTempMax = 6
  StartDraws = 1
  StartOffset = 0
  MaxDrift = 0
  DestroyPct = 1
  DamagePct = 1
  LvrMinCharge = 3
  MaxLvrAttempts = 2
  ColdLimit = 2
  HotLimit = 5
  Byte = 4
  PipeMayFail = FALSE
  PipeDepth = 10
  MsgLimit = 3
  SchDepth = 2
  SchLimit = 1
  LvrMayFail = FALSE
  GroundWise <- PowerOnly
  GroundTherm <- NoThermCmds
  Restartable = {"THERM"}
  RestartBudget = 1
  GroundBudget = 1
INVARIANTS
  PipesAreCounted
  TogglesAreCounted
PROPERTY
  LouversSpareTheInstrument
