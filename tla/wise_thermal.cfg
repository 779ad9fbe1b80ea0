\* One capacitor, a temperature that drifts in and out of both ranges, one
\* louver and one heater, the recorder, the counters and failing pipes.
SPECIFICATION Spec
CONSTANTS
  NumCaps = 1
  MaxDischarging = 0
  ChargePerPct = 1
  FullCharge = 2
  ChargeGain = 2
  DischargeStep = 2
  DischargeDelay = 1
  ObsCost = 2
  ObsMinCharge = 1
  LvrCost = 1
  Percent = 3
  ObsCountMax = 1
  MaxDamage = 1
  TempScale = 1
  TempMin = 0
  TempMax = 4
  ObsTempMin = 1
  ObsTempMax = 3
  StartDraws = 2
  StartOffset = 1
  MaxDrift = 1
  DestroyPct = 1
  DamagePct = 2
  Byte = 2
  Commands <- ThermalCmds
  PipeMayFail = TRUE
CHECK_DEADLOCK FALSE
INVARIANTS
  OffIsPristine
  TempBound
PROPERTIES
  DestroyedIsInert
