--------------------------- MODULE WiseRefinement ---------------------------
(***************************************************************************)
(* More proofs about Wise: that it implements Instrument, and what an      *)
(* instrument that is off, destroyed or overheated keeps.                  *)
(***************************************************************************)
EXTENDS WiseProofs

\* The countdown of an observation runs exactly while one is taken.
THEOREM CountdownMatches == Spec => []ObsCountMatches
BY TypeCorrect, PTL

(***************************************************************************)
(* An instrument that is off is never simulated.                           *)
(***************************************************************************)

OffAtRest == sbcState = "OFF" => pc \notin {"sim", "cap", "obs", "therm"}

OffInv == OffAtRest /\ OffIsPristine

\* Only a powered instrument is changed by a command.
LEMMA OffCommand ==
  ASSUME NEW cmd \in Commands, ProcessNewAppCmds(cmd), sbcState' = "OFF", TypeInv
  PROVE  /\ sbcState = "OFF" /\ pc' = "cmds"
         /\ UNCHANGED <<activeCap, capVars, thermVars, damageCount, obsVars>>
<1>1. CASE RefuseCmd(cmd) \/ CountCmd(cmd)
  BY <1>1 DEF ProcessNewAppCmds, RefuseCmd, CountCmd, taskVars, healthVars
<1>2. CASE PowerSbc
  BY <1>2 DEF PowerSbc
<1>3. CASE Accepting /\ ~(RefuseCmd(cmd) \/ CountCmd(cmd) \/ PowerSbc)
  <2>1. CASE cmd.cc = "LVR_TOGGLE" /\ ToggleLvr(cmd.target)
    BY <1>3, <2>1 DEF Accepting, ToggleLvr, DrainCapCharge, TakeCapCharge, DestroyInstrument
  <2>2. CASE ~(cmd.cc = "LVR_TOGGLE" /\ ToggleLvr(cmd.target))
    BY <1>3, <2>2
    DEF Accepting, ProcessNewAppCmds, SetActiveCap, DischargeCapacitor, ToggleHtr,
        StartObs, StopObs, SendObs, DestroyInstrument, Healthy, healthVars
  <2> QED
    BY <2>1, <2>2
<1> QED
  BY <1>1, <1>2, <1>3 DEF ProcessNewAppCmds

\* Where the simulation runs the instrument is not off, and stays so.
LEMMA OffStep ==
  ASSUME TypeInv, OffAtRest, Next, sbcState' = "OFF"
  PROVE  /\ sbcState = "OFF" /\ pc' \notin {"sim", "cap", "obs", "therm"}
         /\ UNCHANGED <<activeCap, capVars, thermVars, damageCount, obsVars>>
<1>1. CASE \E cmd \in Commands : ProcessNewAppCmds(cmd)
  BY <1>1, OffCommand
<1>2. CASE Wakeup \/ LeaveRunLoop \/ ReportHousekeeping \/ EndOfCommands
  BY <1>2 DEF Wakeup, LeaveRunLoop, ReportHousekeeping, EndOfCommands, instrVars,
              healthVars, Accepting
<1>3. CASE SimulateCapacitors \/ CalculateThermal
  BY <1>3 DEF OffAtRest, SimulateCapacitors, CalculateThermal, DamageInstrument,
              DestroyInstrument, Healthy, healthVars
<1>4. CASE SimulateOneCapacitor
  <2>1. pc = "cap"
    BY <1>4 DEF SimulateOneCapacitor
  <2>2. sbcState' = sbcState
    BY <1>4, CapStepHealth DEF Destroyed
  <2> QED
    BY <2>1, <2>2 DEF OffAtRest
<1>5. CASE HandleObservation
  BY <1>5 DEF OffAtRest, HandleObservation, CountObservation, DestroyInstrument
<1> QED
  BY <1>1, <1>2, <1>3, <1>4, <1>5 DEF Next, Step

LEMMA OffInvariant == Spec => []OffInv
<1>1. Init => OffInv
  BY DEF Init, OffInv, OffAtRest, OffIsPristine
<1>2. TypeInv /\ OffInv /\ [Next]_vars => OffInv'
  <2>1. ASSUME TypeInv, OffInv, Next PROVE OffInv'
    <3>1. CASE sbcState' = "OFF"
      BY <2>1, <3>1, OffStep DEF OffInv, OffAtRest, OffIsPristine, capVars, thermVars, obsVars
    <3>2. CASE sbcState' # "OFF"
      BY <3>2 DEF OffInv, OffAtRest, OffIsPristine
    <3> QED
      BY <3>1, <3>2
  <2>2. OffInv /\ UNCHANGED vars => OffInv'
    BY DEF OffInv, OffAtRest, OffIsPristine, vars, taskVars, capVars, thermVars, healthVars,
           obsVars
  <2> QED
    BY <2>1, <2>2
<1> QED
  BY <1>1, <1>2, TypeCorrect, PTL DEF Spec, TypeInv

\* Until it is powered the instrument is as it was initialised, for every
\* number of commands and wakeups.
THEOREM OffStaysPristine == Spec => []OffIsPristine
BY OffInvariant, PTL DEF OffInv

(***************************************************************************)
(* A destroyed instrument.                                                 *)
(***************************************************************************)

\* A destroyed instrument is not recorded, selected or switched any more.
THEOREM DestroyedStaysInert == Spec => DestroyedIsInert
<1>1. ASSUME TypeInv, Next, sbcState = "ERROR"
      PROVE  UNCHANGED <<sbcState, obsWritten, activeCap, htrState, lvrState>>
  <2>1. sbcState' = "ERROR"
    BY <1>1, HealthStep DEF Destroyed
  <2>2. UNCHANGED <<obsWritten, activeCap, htrState, lvrState>>
    <3>1. CASE \E cmd \in Commands : ProcessNewAppCmds(cmd)
      BY <1>1, <3>1 DEF ProcessNewAppCmds, Accepting, RefuseCmd, PowerSbc, CountCmd,
                        thermVars, obsVars
    <3>2. CASE ~\E cmd \in Commands : ProcessNewAppCmds(cmd)
      BY <1>1, <3>2
      DEF Next, Step, Wakeup, LeaveRunLoop, EndOfCommands, SimulateCapacitors,
          SimulateOneCapacitor, HandleObservation, CalculateThermal, ReportHousekeeping,
          instrVars, thermVars, obsVars
    <3> QED
      BY <3>1, <3>2
  <2> QED
    BY <1>1, <2>1, <2>2
<1>2. TypeInv /\ [Next]_vars =>
        [sbcState = "ERROR" =>
           UNCHANGED <<sbcState, obsWritten, activeCap, htrState, lvrState>>]_vars
  BY <1>1
<1> QED
  BY <1>2, TypeCorrect, PTL DEF Spec, TypeInv, DestroyedIsInert

(***************************************************************************)
(* Overheating.                                                            *)
(***************************************************************************)

\* More degrees are no smaller a risk.
LEMMA RiskGrows ==
  ASSUME NEW a \in Nat, NEW b \in Nat, a <= b
  PROVE  (a * DestroyPct) \div TempScale <= (b * DestroyPct) \div TempScale
<1> DEFINE x == a * DestroyPct
           y == b * DestroyPct
<1>1. x \in Nat /\ y \in Nat /\ x <= y
  BY TempAssumption
<1> HIDE DEF x, y
<1>2. x \div TempScale <= y \div TempScale
  <2> DEFINE q == x \div TempScale
             r == y \div TempScale
  <2>1. /\ q \in Int /\ r \in Int
        /\ TempScale * q <= x /\ y < TempScale * (r + 1)
    BY <1>1, TempAssumption
  <2> HIDE DEF q, r
  <2>2. TempScale * q < TempScale * (r + 1)
    <3>1. TempScale * q \in Int /\ TempScale * (r + 1) \in Int
      BY <2>1, TempAssumption
    <3> QED
      BY <1>1, <2>1, <3>1
  <2>3. q < r + 1
    <3> SUFFICES ASSUME q >= r + 1 PROVE FALSE
      BY <2>1
    <3>1. PICK d \in Nat : q = (r + 1) + d
      <4>1. q - (r + 1) \in Nat /\ q = (r + 1) + (q - (r + 1))
        BY <2>1
      <4> QED
        BY <4>1
    <3>2. TempScale * q = TempScale * (r + 1) + TempScale * d
      BY <2>1, <3>1, TempAssumption
    <3>3. TempScale * d \in Nat /\ TempScale * (r + 1) \in Int
      BY <2>1, TempAssumption
    <3> QED
      BY <2>2, <3>2, <3>3
  <2>4. q <= r
    BY <2>1, <2>3
  <2> QED
    BY <2>4 DEF q, r
<1> QED
  BY <1>2 DEF x, y

\* The temperature is only updated by a draw that spares the instrument.
LEMMA TempStep ==
  ASSUME TypeInv, TempBound, Next
  PROVE  TempBound'
<1>1. CASE temp' = temp
  BY <1>1 DEF TempBound
<1>2. CASE temp' # temp
  <2>1. CalculateThermal
    BY <1>2 DEF Next, Step, Wakeup, LeaveRunLoop, ProcessNewAppCmds, RefuseCmd, SetActiveCap,
                DischargeCapacitor, ToggleHtr, ToggleLvr, StartObs, StopObs, SendObs,
                PowerSbc, CountCmd, EndOfCommands, SimulateCapacitors, SimulateOneCapacitor,
                HandleObservation, ReportHousekeeping, instrVars, thermVars
  <2>2. PICK draw \in 0 .. Percent - 1 :
          draw >= (TempOffset * DestroyPct) \div TempScale /\ DriftTemp
    BY <1>2, <2>1 DEF CalculateThermal
  <2>3. temp \in Nat /\ temp' \in Nat /\ temp' <= temp + MaxDrift
    BY <2>2, TempAssumption DEF DriftTemp, TypeInv, TypeOK
  <2>4. TempMin \in Nat /\ TempMax \in Nat /\ MaxDrift \in Nat /\ TempMin <= TempMax
    <3>1. 0 \in 0 .. StartDraws - 1
      BY TempAssumption
    <3>2. \E t \in StartTemps : TRUE
      BY <3>1 DEF StartTemps
    <3> QED
      BY <3>2, TempAssumption
  <2>5. SUFFICES ASSUME temp' > TempMax + MaxDrift
                 PROVE  ((temp' - MaxDrift - TempMax) * DestroyPct) \div TempScale < Percent
    BY DEF TempBound
  <2>6. /\ TempOffset = temp - TempMax /\ TempOffset \in Nat
        /\ temp' - MaxDrift - TempMax \in Nat
        /\ temp' - MaxDrift - TempMax <= TempOffset
    BY <2>3, <2>4, <2>5 DEF TempOffset
  <2>7. ((temp' - MaxDrift - TempMax) * DestroyPct) \div TempScale
          <= (TempOffset * DestroyPct) \div TempScale
    BY <2>6, RiskGrows
  <2>8. /\ (TempOffset * DestroyPct) \div TempScale \in Int
        /\ ((temp' - MaxDrift - TempMax) * DestroyPct) \div TempScale \in Int
    BY <2>6, TempAssumption
  <2> QED
    BY <2>2, <2>7, <2>8, CapAssumption
<1> QED
  BY <1>1, <1>2

\* No heater, observation or discharge heats the instrument further than one
\* step past the temperature at which every draw destroys it.
THEOREM OverheatingEnds == Spec => []TempBound
<1>1. Init => TempBound
  <2> SUFFICES ASSUME Init PROVE TempBound
    OBVIOUS
  <2>1. temp <= TempMax /\ temp \in Nat
    BY TempAssumption DEF Init
  <2> QED
    BY <2>1, TempAssumption DEF TempBound
<1>2. TypeInv /\ TempBound /\ [Next]_vars => TempBound'
  BY TempStep DEF TempBound, vars, thermVars
<1> QED
  BY <1>1, <1>2, TypeCorrect, PTL DEF Spec, TypeInv

(***************************************************************************)
(* Wise implements Instrument.                                             *)
(***************************************************************************)

AbstractVars == <<sbcState, capState>>

\* A move along the matrix of WISE_SetCapState is one along the chart.
LEMMA MatrixIsChart ==
  ASSUME TypeInv, NEW c \in Caps, NEW s \in CapStates,
         SetCapState(c, s) # capState
  PROVE  <<capState[c], s>> \in Life!Chart
BY DEF SetCapState, CapMatrix, CapStates, Life!Chart, TypeInv, TypeOK

\* A living instrument is lost, and with it at most the capacitor c.
LEMMA LossIsAbstract ==
  ASSUME TypeInv, sbcState \in {"POWERED", "OBSERVING"}, sbcState' = "ERROR",
         NEW c \in Caps, capState' \in {capState, SetCapState(c, "BROKEN")}
  PROVE  Life!Live
<1>1. <<sbcState, sbcState'>> \in Life!LifeCycle
  BY DEF Life!LifeCycle
<1>2. CASE capState' = capState
  BY <1>1, <1>2 DEF Life!Live
<1>3. CASE capState' # capState
  <2>1. <<capState[c], "BROKEN">> \in Life!Chart
    BY <1>3, MatrixIsChart DEF CapStates
  <2>2. capState' = [capState EXCEPT ![c] = "BROKEN"]
    BY <1>3 DEF SetCapState
  <2> QED
    BY <1>1, <2>1, <2>2 DEF Life!Live
<1> QED
  BY <1>2, <1>3

\* A capacitor moves to s.
LEMMA MoveIsAbstract ==
  ASSUME TypeInv, sbcState # "OFF", NEW c \in Caps, NEW s \in CapStates,
         capState' = SetCapState(c, s), capState' # capState,
         \/ sbcState' = sbcState /\ (s = "BROKEN" => sbcState = "ERROR")
         \/ s \in {"LEAKING", "DISCHARGING"} /\ sbcState' = "ERROR"
  PROVE  Life!Move
<1>1. <<capState[c], s>> \in Life!Chart
  BY MatrixIsChart
<1>2. capState' = [capState EXCEPT ![c] = s]
  BY DEF SetCapState
<1> QED
  BY <1>1, <1>2 DEF Life!Move, CapStates

\* Each step of the task is a step of the life cycle or of one capacitor, or
\* is none of either.
LEMMA StepIsAbstract ==
  ASSUME TypeInv, BrokenCapDestroys, OffInv, Next
  PROVE  [Life!Next]_AbstractVars
<1> USE DEF Life!Next, AbstractVars
<1>0. activeCap \in Caps /\ simCap \in Caps /\ sbcState \in SbcStates
      /\ capState \in [Caps -> CapStates]
  BY DEF TypeInv, TypeOK
<1>1. CASE Wakeup \/ LeaveRunLoop \/ EndOfCommands \/ ReportHousekeeping
  BY <1>1 DEF Wakeup, LeaveRunLoop, EndOfCommands, ReportHousekeeping, instrVars,
              capVars, healthVars
<1>2. ASSUME NEW cmd \in Commands, ProcessNewAppCmds(cmd)
      PROVE  [Life!Next]_AbstractVars
  <2>1. CASE Accepting /\ cmd.cc = "CAP_DISCHARGE" /\ DischargeCapacitor(cmd.target)
    <3>1. cmd.target \in Caps
      BY <2>1, ObsAssumption DEF CmdType
    <3>2. /\ capState' \in {capState, SetCapState(cmd.target, "DISCHARGING")}
          /\ sbcState' \in {sbcState, "ERROR"}
      BY <2>1 DEF DischargeCapacitor, DestroyInstrument, Healthy
    <3>3. sbcState \in {"POWERED", "OBSERVING"}
      BY <1>0, <2>1 DEF Accepting, SbcStates
    <3>4. CASE capState' = capState
      BY <3>1, <3>2, <3>3, <3>4, LossIsAbstract
    <3>5. CASE capState' # capState
      BY <3>1, <3>2, <3>3, <3>5, MoveIsAbstract DEF CapStates
    <3> QED
      BY <3>4, <3>5
  <2>2. CASE Accepting /\ cmd.cc = "LVR_TOGGLE" /\ ToggleLvr(cmd.target)
    <3>1. DrainCapCharge(activeCap, LvrCost) /\ sbcState \in {"POWERED", "OBSERVING"}
      BY <1>0, <2>2 DEF ToggleLvr, Accepting, SbcStates
    <3>2. \/ UNCHANGED <<capState, sbcState>>
          \/ capState' = SetCapState(activeCap, "BROKEN") /\ sbcState' = "ERROR"
      BY <3>1 DEF DrainCapCharge, TakeCapCharge, DestroyInstrument
    <3> QED
      BY <1>0, <3>1, <3>2, LossIsAbstract
  <2>3. CASE RefuseCmd(cmd) \/ SetActiveCap(cmd.target) \/ ToggleHtr(cmd.target)
             \/ SendObs \/ CountCmd(cmd)
    BY <2>3 DEF RefuseCmd, SetActiveCap, ToggleHtr, SendObs, CountCmd, capVars, healthVars
  <2>4. CASE StartObs \/ StopObs \/ PowerSbc
    <3>1. capState' = capState
      BY <2>4 DEF StartObs, StopObs, PowerSbc, capVars
    <3>2. sbcState' = sbcState \/ <<sbcState, sbcState'>> \in Life!LifeCycle
      BY <2>4 DEF StartObs, StopObs, PowerSbc, DestroyInstrument, Life!LifeCycle
    <3> QED
      BY <3>1, <3>2 DEF Life!Live
  <2> QED
    BY <1>2, <2>1, <2>2, <2>3, <2>4 DEF ProcessNewAppCmds
<1>3. CASE SimulateCapacitors \/ CalculateThermal
  <2>1. /\ capState' = capState /\ sbcState' \in {sbcState, "ERROR"}
        /\ sbcState # "OFF"
    BY <1>3 DEF SimulateCapacitors, CalculateThermal, DamageInstrument, DestroyInstrument,
                Healthy, healthVars, capVars, OffInv, OffAtRest
  <2>2. sbcState' # sbcState => sbcState \in {"POWERED", "OBSERVING"} /\ sbcState' = "ERROR"
    BY <1>0, <2>1 DEF SbcStates
  <2> QED
    BY <1>0, <2>1, <2>2, LossIsAbstract
<1>4. CASE SimulateOneCapacitor
  <2>1. sbcState # "OFF"
    BY <1>4 DEF SimulateOneCapacitor, OffInv, OffAtRest
  <2>2. CASE Explode(simCap)
    <3>1. capState' = SetCapState(simCap, "BROKEN") /\ sbcState' = "ERROR"
      BY <2>2 DEF Explode, DestroyInstrument
    <3>2. CASE sbcState = "ERROR"
      BY <1>0, <2>1, <3>1, <3>2, MoveIsAbstract DEF CapStates
    <3>3. CASE sbcState # "ERROR"
      BY <1>0, <2>1, <3>1, <3>3, LossIsAbstract DEF SbcStates
    <3> QED
      BY <3>2, <3>3
  <2>3. CASE Leak(simCap)
    <3>1. capState' = SetCapState(simCap, "LEAKING") /\ sbcState' \in {sbcState, "ERROR"}
      BY <2>3 DEF Leak, DamageInstrument, DestroyInstrument, Healthy
    <3>2. CASE capState' = capState
      <4>1. sbcState' # sbcState => sbcState \in {"POWERED", "OBSERVING"} /\ sbcState' = "ERROR"
        BY <1>0, <2>1, <3>1 DEF SbcStates
      <4> QED
        BY <1>0, <3>2, <4>1, LossIsAbstract
    <3>3. CASE capState' # capState
      BY <1>0, <2>1, <3>1, <3>3, MoveIsAbstract DEF CapStates
    <3> QED
      BY <3>2, <3>3
  <2>4. CASE Discharge(simCap)
    <3>1. \/ capState' = capState /\ sbcState' = sbcState
          \/ capState' = SetCapState(simCap, "BROKEN") /\ sbcState = "OBSERVING"
               /\ sbcState' = "ERROR"
          \/ capState' = SetCapState(simCap, "CHARGING") /\ sbcState' = sbcState
      BY <2>4 DEF Discharge, DestroyInstrument, Healthy
    <3> QED
      BY <1>0, <2>1, <3>1, LossIsAbstract, MoveIsAbstract DEF CapStates
  <2>5. CASE Charge(simCap) \/ Idle(simCap)
    BY <2>5 DEF Charge, Idle, Healthy, capVars
  <2> QED
    BY <1>4, <2>2, <2>3, <2>4, <2>5 DEF SimulateOneCapacitor
<1>5. CASE HandleObservation
  <2>1. CASE sbcState # "OBSERVING"
    BY <1>5, <2>1 DEF HandleObservation
  <2>2. CASE sbcState = "OBSERVING"
    <3>1. \/ capState' = capState /\ sbcState' \in {"OBSERVING", "POWERED", "ERROR"}
          \/ capState' = SetCapState(activeCap, "BROKEN") /\ sbcState' = "ERROR"
      BY <1>0, <1>5, <2>2
      DEF HandleObservation, CountObservation, DestroyInstrument, Unusable, SetCapState,
          CapMatrix, CapStates
    <3>2. CASE sbcState' = "ERROR"
      BY <1>0, <2>2, <3>1, <3>2, LossIsAbstract
    <3>3. CASE sbcState' # "ERROR"
      BY <2>2, <3>1, <3>3 DEF Life!Live, Life!LifeCycle
    <3> QED
      BY <3>2, <3>3
  <2> QED
    BY <2>1, <2>2
<1> QED
  BY <1>1, <1>2, <1>3, <1>4, <1>5 DEF Next, Step

\* For every number of capacitors, the instrument simulated by the task goes
\* through the life cycle and the state chart, and through nothing else.
THEOREM WiseImplementsInstrument == Spec => ImplementsInstrument
<1>1. Init => Life!Init
  BY DEF Init, Life!Init
<1>2. TypeInv /\ BrokenCapDestroys /\ OffInv /\ [Next]_vars => [Life!Next]_<<sbcState, capState>>
  BY StepIsAbstract DEF AbstractVars, vars, capVars, healthVars
<1> QED
  BY <1>1, <1>2, TypeCorrect, BreakingDestroys, OffInvariant, PTL
  DEF Spec, TypeInv, ImplementsInstrument, Life!Spec
=============================================================================
