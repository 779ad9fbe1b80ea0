\* The six damage tokens of the code, on an instrument the ground only powers.
SPECIFICATION Spec
CONSTANTS
  NumCaps = 1
  MaxDischarging = 0
  ChargePerPct = 1
  FullCharge = 2
  ChargeGain = 2
  DischargeStep = 2
  DischargeDelay = 1
  ObsCost = 2
  ObsMinCharge = 1
  LvrCost = 1
  Percent = 3
  ObsCountMax = 1
  MaxDamage = 6
  TempScale = 1
  TempMin = 0
  TempMax = 4
  ObsTempMin = 1
  ObsTempMax = 3
  StartDraws = 2
  StartOffset = 1
  MaxDrift = 1
  DestroyPct = 1
  DamagePct = 2
  Byte = 2
  Commands <- OnlyPower
  PipeMayFail = FALSE
INVARIANT
  SixTokensDestroy
