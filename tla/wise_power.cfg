\* Two capacitors and no change of temperature: every order of selecting,
\* discharging, overcharging and observing, on a fair instrument.  A wakeup of
\* charging pays for one of observing, so that no exhausted capacitor ends what
\* the countdown should.
SPECIFICATION FairSpec
CONSTANTS
  NumCaps = 2
  MaxDischarging = 1
  ChargePerPct = 1
  FullCharge = 5
  ChargeGain = 3
  DischargeStep = 4
  DischargeDelay = 2
  ObsCost = 3
  ObsMinCharge = 2
  LvrCost = 1
  Percent = 2
  ObsCountMax = 2
  MaxDamage = 1
  TempScale = 1
  TempMin = 0
  TempMax = 9
  ObsTempMin = 2
  ObsTempMax = 8
  StartDraws = 1
  StartOffset = 0
  MaxDrift = 0
  DestroyPct = 1
  DamagePct = 2
  Byte = 2
  Commands <- PowerCmds
  PipeMayFail = FALSE
INVARIANTS
  TypeOK
  BrokenCapDestroys
  CountsAreFresh
  DelayIsSpent
  ChargeBound
  ObsCountMatches
  DamageBound
PROPERTIES
  OnlyOwnFaultBreaks
  ImplementsInstrument
  ObservationEnds
  DischargeEnds
