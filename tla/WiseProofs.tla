----------------------------- MODULE WiseProofs -----------------------------
(***************************************************************************)
(* Proofs about Wise, for every number of capacitors and every value of    *)
(* its constants that satisfies the assumptions of the module.             *)
(***************************************************************************)
EXTENDS Wise, FiniteSetTheorems, TLAPS

(***************************************************************************)
(* Lemmas about the operators.                                             *)
(***************************************************************************)

\* The counts of WISE_UpdateCapStatus range over the capacitors.
LEMMA CapCount ==
  ASSUME NEW S \in SUBSET Caps
  PROVE  Cardinality(S) \in 0 .. NumCaps
<1>1. IsFiniteSet(Caps) /\ Cardinality(Caps) = NumCaps
  BY FS_Interval, CapAssumption DEF Caps
<1>2. Cardinality(S) \in Nat /\ Cardinality(S) <= Cardinality(Caps)
  BY <1>1, FS_Subset, FS_CardinalityType
<1> QED
  BY <1>1, <1>2, CapAssumption

\* The share of the gain one of n charging capacitors wins.
LEMMA GainShare ==
  ASSUME NEW n \in Nat, n > 0
  PROVE  ChargeGain \div n \in 0 .. ChargeGain
  BY CapAssumption

\* A refused or accepted transition leaves a function of the capacitors.
LEMMA SetCapStateType ==
  ASSUME capState \in [Caps -> CapStates], NEW c \in Caps, NEW s \in CapStates
  PROVE  /\ SetCapState(c, s) \in [Caps -> CapStates]
         /\ \A d \in Caps : d # c => SetCapState(c, s)[d] = capState[d]
         /\ SetCapState(c, s)[c] = IF <<capState[c], s>> \in CapMatrix THEN s ELSE capState[c]
  BY DEF SetCapState

\* A capacitor that the draw spares is within the bound of the excess.
LEMMA SparedBound ==
  ASSUME NEW c \in Caps, capCharge[c] \in Nat, capState[c] # "BROKEN", Spared(c)
  PROVE  capCharge[c] <= FullCharge + (Percent - 1) * ChargePerPct
<1>1. PICK draw \in 0 .. Percent - 1 : ~Explodes(c, draw) /\ ~Leaks(c, draw)
  BY DEF Spared
<1>2. draw * ChargePerPct >= Excess(c)
  BY <1>1, CapAssumption DEF Leaks, Excess
<1>3. draw * ChargePerPct <= (Percent - 1) * ChargePerPct
  BY CapAssumption
<1>4. draw * ChargePerPct \in Int /\ (Percent - 1) * ChargePerPct \in Int
  BY CapAssumption
<1> QED
  BY <1>2, <1>3, <1>4, CapAssumption DEF Excess

\* Draining a charge leaves charges and states, and health that is either
\* untouched or destroyed.
LEMMA DrainType ==
  ASSUME TypeOK, NEW cost \in Nat, DrainCapCharge(activeCap, cost)
  PROVE  /\ capCharge' \in [Caps -> Nat]
         /\ capState' \in [Caps -> CapStates]
         /\ \/ UNCHANGED <<capState, sbcState, intrState>>
            \/ sbcState' = "ERROR" /\ intrState' = "MAJOR"
<1>1. CASE TakeCapCharge(activeCap, cost)
  <2>1. capCharge[activeCap] - cost \in Nat
    BY <1>1 DEF TakeCapCharge, TypeOK
  <2> QED
    BY <1>1, <2>1 DEF TakeCapCharge, TypeOK
<1>2. CASE ~TakeCapCharge(activeCap, cost)
  <2>1. SetCapState(activeCap, "BROKEN") \in [Caps -> CapStates]
    BY DEF TypeOK, CapStates, SetCapState
  <2> QED
    BY <1>2, <2>1 DEF DrainCapCharge, DestroyInstrument, TypeOK
<1> QED
  BY <1>1, <1>2

\* UpdateCapStatus keeps the counts in their range.
LEMMA CountType ==
  ASSUME NEW st, UpdateCapStatus(st)
  PROVE  numCharging' \in 0 .. NumCaps /\ numDischarging' \in 0 .. NumCaps
<1>1. /\ {c \in Caps : st[c] = "CHARGING"} \in SUBSET Caps
      /\ {c \in Caps : st[c] = "DISCHARGING"} \in SUBSET Caps
  OBVIOUS
<1> QED
  BY <1>1, CapCount DEF UpdateCapStatus

(***************************************************************************)
(* Type correctness.  The countdown of an observation only stays a number  *)
(* because it is positive while it runs, so the two go together.           *)
(***************************************************************************)

TypeInv == TypeOK /\ ObsCountMatches

LEMMA TypeInit == Init => TypeInv
<1> SUFFICES ASSUME Init PROVE TypeInv
  OBVIOUS
<1>1. temp \in Nat
  BY TempAssumption DEF Init
<1>2. 0 \in Caps
  BY CapAssumption DEF Caps
<1> QED
  BY <1>1, <1>2, CapAssumption, ObsAssumption
  DEF Init, TypeInv, TypeOK, ObsCountMatches, Points, CapStates, SbcStates

\* Each command keeps the types.
LEMMA TypeCommand ==
  ASSUME TypeInv, NEW cmd \in Commands, ProcessNewAppCmds(cmd)
  PROVE  TypeInv'
<1> USE DEF TypeInv, TypeOK, ObsCountMatches
<1>0. UNCHANGED <<pc, simCap, runStatus, numCharging, numDischarging>>
  BY DEF ProcessNewAppCmds, taskVars, countVars
<1>1. CASE RefuseCmd(cmd)
  BY <1>0, <1>1 DEF RefuseCmd, capVars, thermVars, healthVars, obsVars, cmdVars
<1>2. CASE cmd.cc = "CAP_ACTIVE" /\ SetActiveCap(cmd.target)
  <2>1. cmd.target \in Caps
    BY <1>2, ObsAssumption DEF CmdType
  <2> QED
    BY <1>0, <1>2, <2>1
    DEF SetActiveCap, capVars, thermVars, healthVars, obsVars, cmdVars
<1>3. CASE cmd.cc = "CAP_DISCHARGE" /\ DischargeCapacitor(cmd.target)
  <2>1. cmd.target \in Caps
    BY <1>3, ObsAssumption DEF CmdType
  <2>2. SetCapState(cmd.target, "DISCHARGING") \in [Caps -> CapStates]
    BY <2>1, SetCapStateType DEF CapStates
  <2>3. capState' \in [Caps -> CapStates] /\ capDelay' \in [Caps -> 0 .. DischargeDelay]
    BY <1>3, <2>1, <2>2, CapAssumption DEF DischargeCapacitor
  <2>4. sbcState' \in {sbcState, "ERROR"} /\ intrState' \in {intrState, "MAJOR"}
    BY <1>3 DEF DischargeCapacitor, DestroyInstrument, Healthy
  <2>5. UNCHANGED <<activeCap, capCharge, damageCount, thermVars, obsVars, cmdVars>>
    BY <1>3 DEF DischargeCapacitor
  <2> QED
    BY <1>0, <2>3, <2>4, <2>5 DEF thermVars, obsVars, cmdVars, SbcStates
<1>4. CASE cmd.cc = "HTR_TOGGLE" /\ ToggleHtr(cmd.target)
  BY <1>0, <1>4 DEF ToggleHtr, capVars, healthVars, obsVars, cmdVars
<1>5. CASE cmd.cc = "LVR_TOGGLE" /\ ToggleLvr(cmd.target)
  <2>1. DrainCapCharge(activeCap, LvrCost)
    BY <1>5 DEF ToggleLvr
  <2>2. /\ capCharge' \in [Caps -> Nat]
        /\ capState' \in [Caps -> CapStates]
        /\ sbcState' \in {sbcState, "ERROR"} /\ intrState' \in {intrState, "MAJOR"}
    BY <2>1, DrainType, CapAssumption
  <2>3. lvrState' \in [Sides -> {"OPEN", "CLOSED"}] /\ lvrStuck' \in [Sides -> BOOLEAN]
    BY <1>5 DEF ToggleLvr
  <2>4. UNCHANGED <<activeCap, capDelay, temp, htrState, damageCount, obsVars, cmdVars>>
    BY <1>5 DEF ToggleLvr
  <2> QED
    BY <1>0, <2>2, <2>3, <2>4 DEF obsVars, cmdVars, SbcStates
<1>6. CASE StartObs
  BY <1>0, <1>6, ObsAssumption
  DEF StartObs, DestroyInstrument, capVars, thermVars, cmdVars, SbcStates
<1>7. CASE StopObs
  BY <1>0, <1>7, ObsAssumption DEF StopObs, capVars, thermVars, cmdVars, SbcStates
<1>8. CASE SendObs
  BY <1>0, <1>8, ObsAssumption
  DEF SendObs, Incr, capVars, thermVars, healthVars, cmdVars
<1>9. CASE PowerSbc
  BY <1>0, <1>9 DEF PowerSbc, capVars, thermVars, obsVars, cmdVars, SbcStates
<1>10. CASE CountCmd(cmd)
  BY <1>0, <1>10, ObsAssumption
  DEF CountCmd, Incr, capVars, thermVars, healthVars, obsVars
<1> QED
  BY <1>1, <1>2, <1>3, <1>4, <1>5, <1>6, <1>7, <1>8, <1>9, <1>10
  DEF ProcessNewAppCmds

\* What one capacitor's step does to the types it touches.
LEMMA CapStepType ==
  ASSUME TypeInv, SimulateOneCapacitor
  PROVE  /\ capCharge' \in [Caps -> Nat]
         /\ capState' \in [Caps -> CapStates]
         /\ capDelay' \in [Caps -> 0 .. DischargeDelay]
         /\ damageCount' \in {damageCount, damageCount + 1}
         /\ \/ UNCHANGED <<sbcState, intrState>>
            \/ sbcState' = "ERROR" /\ intrState' = "MAJOR"
<1> DEFINE c == simCap
<1> USE DEF TypeInv, TypeOK
<1>1. c \in Caps
  OBVIOUS
<1>2. \A s \in CapStates : SetCapState(c, s) \in [Caps -> CapStates]
  BY <1>1, SetCapStateType
<1>3. CASE Explode(c)
  BY <1>1, <1>2, <1>3 DEF Explode, DestroyInstrument, CapStates
<1>4. CASE Leak(c)
  BY <1>1, <1>2, <1>4 DEF Leak, DamageInstrument, DestroyInstrument, Healthy, CapStates
<1>5. CASE Discharge(c) /\ UNCHANGED damageCount
  <2>1. capState' \in [Caps -> CapStates]
    BY <1>1, <1>2, <1>5 DEF Discharge, CapStates
  <2>2. capDelay' \in [Caps -> 0 .. DischargeDelay]
    BY <1>1, <1>5, CapAssumption DEF Discharge
  <2>3. capCharge' \in [Caps -> Nat]
    BY <1>1, <1>5, CapAssumption DEF Discharge
  <2> QED
    BY <1>5, <2>1, <2>2, <2>3 DEF Discharge, DestroyInstrument, Healthy
<1>6. CASE Charge(c) /\ UNCHANGED damageCount
  <2>1. numCharging > 0 => ChargeGain \div numCharging \in Nat
    BY GainShare, CapAssumption
  <2>2. capCharge' \in [Caps -> Nat]
    BY <1>1, <1>6, <2>1 DEF Charge
  <2> QED
    BY <1>6, <2>2 DEF Charge, Healthy
<1>7. CASE Idle(c) /\ UNCHANGED damageCount
  BY <1>7 DEF Idle, Healthy, capVars
<1> QED
  BY <1>3, <1>4, <1>5, <1>6, <1>7 DEF SimulateOneCapacitor

\* What the observation's step does to the types it touches.
LEMMA ObsStepType ==
  ASSUME TypeInv, HandleObservation
  PROVE  /\ capCharge' \in [Caps -> Nat]
         /\ capState' \in [Caps -> CapStates]
         /\ obsPending' \in 0 .. Byte - 1
         /\ obsCount' \in 0 .. ObsCountMax
         /\ sbcState' = "OBSERVING" => obsCount' >= 1
         /\ sbcState' \in {"OFF", "POWERED"} => obsCount' = 0
         /\ \/ UNCHANGED intrState /\ sbcState' \in {sbcState, "POWERED", "OBSERVING"}
            \/ sbcState' = "ERROR" /\ intrState' = "MAJOR"
<1> USE DEF TypeInv, TypeOK, ObsCountMatches
<1>1. SetCapState(activeCap, "BROKEN") \in [Caps -> CapStates]
  BY SetCapStateType DEF CapStates
<1>2. CASE sbcState # "OBSERVING"
  BY <1>2 DEF HandleObservation
<1>3. CASE sbcState = "OBSERVING" /\ DestroyInstrument
           /\ capState' \in {capState, [capState EXCEPT ![activeCap] = "BROKEN"]}
           /\ UNCHANGED <<capCharge, obsCount, obsPending>>
  BY <1>3 DEF DestroyInstrument, CapStates
<1>4. CASE sbcState = "OBSERVING" /\ CountObservation
  <2>1. obsCount \in 1 .. ObsCountMax
    BY <1>4
  <2>2. capCharge' \in [Caps -> Nat] /\ capState' \in [Caps -> CapStates]
    BY <1>1, <1>4, CapAssumption DEF CountObservation
  <2>3. obsPending' \in 0 .. Byte - 1
    BY <1>4, ObsAssumption DEF CountObservation, Incr
  <2> QED
    BY <1>4, <2>1, <2>2, <2>3, ObsAssumption DEF CountObservation, DestroyInstrument
<1> QED
  BY <1>2, <1>3, <1>4 DEF HandleObservation

LEMMA TypeStep ==
  ASSUME TypeInv, Next
  PROVE  TypeInv'
<1> USE DEF TypeInv, TypeOK, ObsCountMatches
<1>1. CASE Wakeup
  BY <1>1 DEF Wakeup, instrVars, capVars, countVars, thermVars, healthVars,
              obsVars, cmdVars, Points
<1>2. CASE LeaveRunLoop
  BY <1>2 DEF LeaveRunLoop, instrVars, capVars, countVars, thermVars, healthVars,
              obsVars, cmdVars, Points
<1>3. ASSUME NEW cmd \in Commands, ProcessNewAppCmds(cmd) PROVE TypeInv'
  BY <1>3, TypeCommand
<1>4. CASE EndOfCommands
  BY <1>4 DEF EndOfCommands, instrVars, capVars, countVars, thermVars, healthVars,
              obsVars, cmdVars, Points
<1>5. CASE SimulateCapacitors
  <2>1. numCharging' \in 0 .. NumCaps /\ numDischarging' \in 0 .. NumCaps
    BY <1>5, CountType DEF SimulateCapacitors
  <2>2. 0 \in Caps
    BY CapAssumption DEF Caps
  <2> QED
    BY <1>5, <2>1, <2>2
    DEF SimulateCapacitors, DamageInstrument, DestroyInstrument, Healthy, Points,
        capVars, thermVars, healthVars, obsVars, cmdVars, SbcStates
<1>6. CASE SimulateOneCapacitor
  <2>1. numCharging' \in 0 .. NumCaps /\ numDischarging' \in 0 .. NumCaps
    BY <1>6, CountType DEF SimulateOneCapacitor
  <2>2. pc' \in Points /\ simCap' \in Caps
    BY <1>6, CapAssumption DEF SimulateOneCapacitor, Caps, Points
  <2>3. UNCHANGED <<runStatus, activeCap, thermVars, obsVars, cmdVars>>
    BY <1>6 DEF SimulateOneCapacitor
  <2> QED
    BY <1>6, <2>1, <2>2, <2>3, CapStepType DEF thermVars, obsVars, cmdVars, SbcStates
<1>7. CASE HandleObservation
  <2>1. /\ pc' = "therm"
        /\ UNCHANGED <<simCap, runStatus, activeCap, capDelay, countVars, thermVars,
                       damageCount, obsWritten, cmdVars>>
    BY <1>7 DEF HandleObservation
  <2> QED
    BY <1>7, <2>1, ObsStepType DEF countVars, thermVars, cmdVars, SbcStates, Points
<1>8. CASE CalculateThermal
  <2>1. temp' \in Nat
    BY <1>8, TempAssumption DEF CalculateThermal, DriftTemp
  <2>2. /\ damageCount' \in Nat
        /\ sbcState' \in {sbcState, "ERROR"} /\ intrState' \in {intrState, "MAJOR"}
    BY <1>8 DEF CalculateThermal, DamageInstrument, DestroyInstrument, Healthy, healthVars
  <2>3. /\ pc' = "hk"
        /\ UNCHANGED <<simCap, runStatus, activeCap, capVars, countVars, htrState,
                       lvrState, lvrStuck, obsVars, cmdVars>>
    BY <1>8 DEF CalculateThermal
  <2> QED
    BY <2>1, <2>2, <2>3 DEF capVars, countVars, obsVars, cmdVars, SbcStates, Points
<1>9. CASE ReportHousekeeping
  BY <1>9 DEF ReportHousekeeping, instrVars, capVars, countVars, thermVars,
              healthVars, obsVars, cmdVars, Points
<1> QED
  BY <1>1, <1>2, <1>3, <1>4, <1>5, <1>6, <1>7, <1>8, <1>9 DEF Next, Step

LEMMA TypeStutter == TypeInv /\ UNCHANGED vars => TypeInv'
  BY DEF TypeInv, TypeOK, ObsCountMatches, vars, taskVars, capVars, countVars,
         thermVars, healthVars, obsVars, cmdVars

\* Every state of WISE is well typed, and the countdown of an observation
\* is positive exactly while one is taken.
THEOREM TypeCorrect == Spec => [](TypeOK /\ ObsCountMatches)
<1>1. TypeInv /\ [Next]_vars => TypeInv'
  BY TypeStep, TypeStutter
<1> QED
  BY TypeInit, <1>1, PTL DEF Spec, TypeInv

(***************************************************************************)
(* The effect of a step on the capacitors and on the health of the         *)
(* instrument, stated once for the invariants that relate the two.         *)
(***************************************************************************)

Destroyed == sbcState' = "ERROR" /\ intrState' = "MAJOR"

\* A capacitor's step that does not destroy breaks nothing.
LEMMA CapStepHealth ==
  ASSUME TypeInv, SimulateOneCapacitor
  PROVE  \/ Destroyed
         \/ /\ UNCHANGED <<sbcState, intrState>>
            /\ \A c \in Caps : capState'[c] = "BROKEN" => capState[c] = "BROKEN"
<1> DEFINE c == simCap
<1> USE DEF TypeInv, TypeOK, Destroyed
<1>1. c \in Caps
  OBVIOUS
<1>2. \A s \in CapStates \ {"BROKEN"}, d \in Caps :
         SetCapState(c, s)[d] = "BROKEN" => capState[d] = "BROKEN"
  BY <1>1 DEF SetCapState
<1>3. CASE Explode(c)
  BY <1>3 DEF Explode, DestroyInstrument
<1>4. CASE Leak(c)
  BY <1>2, <1>4 DEF Leak, DamageInstrument, DestroyInstrument, Healthy, CapStates
<1>5. CASE Discharge(c)
  BY <1>2, <1>5 DEF Discharge, DestroyInstrument, Healthy, CapStates
<1>6. CASE Charge(c) \/ Idle(c)
  BY <1>6 DEF Charge, Idle, Healthy, capVars
<1> QED
  BY <1>3, <1>4, <1>5, <1>6 DEF SimulateOneCapacitor

\* No step brings a destroyed instrument back, and none breaks a capacitor
\* of one it leaves alive.
LEMMA HealthStep ==
  ASSUME TypeInv, Next
  PROVE  \/ Destroyed
         \/ /\ UNCHANGED intrState
            /\ sbcState' = "ERROR" <=> sbcState = "ERROR"
            /\ \A c \in Caps : capState'[c] = "BROKEN" => capState[c] = "BROKEN"
<1> USE DEF TypeInv, TypeOK, Destroyed
<1>1. CASE Wakeup \/ LeaveRunLoop \/ EndOfCommands \/ ReportHousekeeping
  BY <1>1 DEF Wakeup, LeaveRunLoop, EndOfCommands, ReportHousekeeping, instrVars,
              capVars, healthVars
<1>2. ASSUME NEW cmd \in Commands, ProcessNewAppCmds(cmd)
      PROVE  \/ Destroyed
             \/ /\ UNCHANGED intrState
                /\ sbcState' = "ERROR" <=> sbcState = "ERROR"
                /\ \A c \in Caps : capState'[c] = "BROKEN" => capState[c] = "BROKEN"
  <2>1. CASE cmd.cc = "CAP_DISCHARGE" /\ DischargeCapacitor(cmd.target)
    <3>1. cmd.target \in Caps
      BY <2>1, ObsAssumption DEF CmdType
    <3>2. \A c \in Caps :
             SetCapState(cmd.target, "DISCHARGING")[c] = "BROKEN" => capState[c] = "BROKEN"
      BY <3>1 DEF SetCapState
    <3> QED
      BY <2>1, <3>2 DEF DischargeCapacitor, DestroyInstrument, Healthy
  <2>2. CASE cmd.cc = "LVR_TOGGLE" /\ ToggleLvr(cmd.target)
    BY <2>2, DrainType, CapAssumption DEF ToggleLvr
  <2>3. CASE RefuseCmd(cmd) \/ SetActiveCap(cmd.target) \/ ToggleHtr(cmd.target)
             \/ SendObs \/ CountCmd(cmd)
    BY <2>3 DEF RefuseCmd, SetActiveCap, ToggleHtr, SendObs, CountCmd, capVars,
                healthVars
  <2>4. CASE StartObs \/ StopObs \/ PowerSbc
    BY <2>4 DEF StartObs, StopObs, PowerSbc, DestroyInstrument, capVars
  <2> QED
    BY <1>2, <2>1, <2>2, <2>3, <2>4 DEF ProcessNewAppCmds
<1>3. CASE SimulateCapacitors
  BY <1>3 DEF SimulateCapacitors, DamageInstrument, DestroyInstrument, Healthy,
              capVars, healthVars
<1>4. CASE SimulateOneCapacitor
  BY <1>4, CapStepHealth
<1>5. CASE HandleObservation
  BY <1>5 DEF HandleObservation, CountObservation, DestroyInstrument
<1>6. CASE CalculateThermal
  BY <1>6 DEF CalculateThermal, DamageInstrument, DestroyInstrument, Healthy,
              capVars, healthVars
<1> QED
  BY <1>1, <1>2, <1>3, <1>4, <1>5, <1>6 DEF Next, Step

\* Whatever breaks a capacitor destroys the instrument, and the two
\* variables that record the destruction agree.
THEOREM BreakingDestroys == Spec => []BrokenCapDestroys
<1>1. Init => BrokenCapDestroys
  BY DEF Init, BrokenCapDestroys
<1>2. TypeInv /\ BrokenCapDestroys /\ [Next]_vars => BrokenCapDestroys'
  <2>1. ASSUME TypeInv, BrokenCapDestroys, Next PROVE BrokenCapDestroys'
    BY <2>1, HealthStep DEF BrokenCapDestroys, Destroyed, TypeInv, TypeOK
  <2>2. BrokenCapDestroys /\ UNCHANGED vars => BrokenCapDestroys'
    BY DEF BrokenCapDestroys, vars, capVars, healthVars
  <2> QED
    BY <2>1, <2>2
<1> QED
  BY <1>1, <1>2, TypeCorrect, PTL DEF Spec, TypeInv

(***************************************************************************)
(* The steps that leave a group of variables alone.                        *)
(***************************************************************************)

\* The commands that touch a capacitor are the discharge and the louver.
LEMMA CommandCaps ==
  ASSUME NEW cmd \in Commands, ProcessNewAppCmds(cmd)
  PROVE  \/ UNCHANGED capVars
         \/ cmd.cc = "CAP_DISCHARGE" /\ cmd.target \in Caps /\ DischargeCapacitor(cmd.target)
         \/ cmd.cc = "LVR_TOGGLE" /\ ToggleLvr(cmd.target)
<1>1. cmd.cc = "CAP_DISCHARGE" => cmd.target \in Caps
  BY ObsAssumption DEF CmdType
<1> QED
  BY <1>1 DEF ProcessNewAppCmds, RefuseCmd, SetActiveCap, ToggleHtr, StartObs, StopObs,
              SendObs, PowerSbc, CountCmd

\* The steps of the task that do not step a capacitor.
LEMMA StepCaps ==
  ASSUME Next
  PROVE  \/ UNCHANGED capVars
         \/ \E cmd \in Commands : ProcessNewAppCmds(cmd)
         \/ SimulateOneCapacitor
         \/ HandleObservation
  BY DEF Next, Step, Wakeup, LeaveRunLoop, EndOfCommands, SimulateCapacitors,
         CalculateThermal, ReportHousekeeping, instrVars

(***************************************************************************)
(* A discharge starts with its whole delay.                                *)
(***************************************************************************)

LEMMA DelayStep ==
  ASSUME TypeInv, DelayIsSpent, Next
  PROVE  DelayIsSpent'
<1> USE DEF TypeInv, TypeOK, DelayIsSpent
<1>1. CASE UNCHANGED capVars
  BY <1>1 DEF capVars
<1>2. ASSUME NEW cmd \in Commands, ProcessNewAppCmds(cmd) PROVE DelayIsSpent'
  <2>1. CASE cmd.target \in Caps /\ DischargeCapacitor(cmd.target)
    <3>1. capState[cmd.target] # "DISCHARGING" =>
            SetCapState(cmd.target, "DISCHARGING")[cmd.target] # "CHARGING"
      BY <2>1 DEF SetCapState, CapMatrix
    <3>2. \A c \in Caps : c # cmd.target =>
            SetCapState(cmd.target, "DISCHARGING")[c] = capState[c]
      BY <2>1 DEF SetCapState
    <3> QED
      BY <2>1, <3>1, <3>2 DEF DischargeCapacitor
  <2>2. CASE ToggleLvr(cmd.target)
    BY <2>2 DEF ToggleLvr, DrainCapCharge, TakeCapCharge, SetCapState
  <2> QED
    BY <1>1, <1>2, <2>1, <2>2, CommandCaps
<1>3. CASE SimulateOneCapacitor
  <2> DEFINE c == simCap
  <2>1. CASE Explode(c)
    BY <2>1 DEF Explode, SetCapState
  <2>2. CASE Leak(c)
    BY <2>2 DEF Leak, SetCapState
  <2>3. CASE Discharge(c)
    BY <2>3 DEF Discharge, SetCapState
  <2>4. CASE Charge(c) \/ Idle(c)
    BY <2>4 DEF Charge, Idle, capVars
  <2> QED
    BY <1>3, <2>1, <2>2, <2>3, <2>4 DEF SimulateOneCapacitor
<1>4. CASE HandleObservation
  BY <1>4 DEF HandleObservation, CountObservation, SetCapState
<1> QED
  BY <1>1, <1>2, <1>3, <1>4, StepCaps

\* No capacitor goes back to charging with a delay left over.
THEOREM DischargesInFull == Spec => []DelayIsSpent
<1>1. Init => DelayIsSpent
  BY DEF Init, DelayIsSpent
<1>2. TypeInv /\ DelayIsSpent /\ [Next]_vars => DelayIsSpent'
  BY DelayStep DEF DelayIsSpent, vars, capVars
<1> QED
  BY <1>1, <1>2, TypeCorrect, PTL DEF Spec, TypeInv

(***************************************************************************)
(* The charge is bounded.                                                  *)
(***************************************************************************)

LEMMA ChargeStep ==
  ASSUME TypeInv, ChargeBound, Next
  PROVE  ChargeBound'
<1> DEFINE Top == FullCharge + (Percent - 1) * ChargePerPct
<1>0. Top \in Nat
  BY CapAssumption
<1> USE DEF TypeInv, TypeOK, ChargeBound
<1> HIDE DEF Top
<1>1. ASSUME \A c \in Caps : capCharge'[c] <= capCharge[c]
      PROVE  ChargeBound'
  <2> SUFFICES ASSUME NEW c \in Caps PROVE capCharge'[c] <= Top + ChargeGain
    BY DEF Top
  <2>1. capCharge[c] <= Top + ChargeGain
    BY DEF Top
  <2>2. capCharge'[c] \in Nat
    BY TypeStep
  <2> QED
    BY <1>0, <1>1, <2>1, <2>2, CapAssumption
<1>2. CASE UNCHANGED capVars
  BY <1>1, <1>2 DEF capVars
<1>3. ASSUME NEW cmd \in Commands, ProcessNewAppCmds(cmd) PROVE ChargeBound'
  <2>1. CASE DischargeCapacitor(cmd.target)
    BY <1>1, <2>1 DEF DischargeCapacitor
  <2>2. CASE ToggleLvr(cmd.target)
    BY <1>1, <2>2, CapAssumption DEF ToggleLvr, DrainCapCharge, TakeCapCharge
  <2> QED
    BY <1>2, <1>3, <2>1, <2>2, CommandCaps
<1>4. CASE SimulateOneCapacitor
  <2> DEFINE c == simCap
  <2>1. CASE Explode(c) \/ Leak(c) \/ Idle(c)
    BY <1>1, <2>1 DEF Explode, Leak, Idle, capVars
  <2>2. CASE Discharge(c)
    BY <1>1, <2>2, CapAssumption DEF Discharge
  <2>3. CASE Spared(c) /\ Charge(c)
    <3>1. capCharge[c] <= Top
      BY <2>3, SparedBound DEF Charge, Top
    <3>2. numCharging > 0 => ChargeGain \div numCharging \in 0 .. ChargeGain
      BY GainShare, CapAssumption
    <3>3. capCharge'[c] <= Top + ChargeGain
      BY <1>0, <2>3, <3>1, <3>2, CapAssumption DEF Charge
    <3>4. \A d \in Caps : d # c => capCharge'[d] = capCharge[d]
      BY <2>3 DEF Charge
    <3> QED
      BY <3>3, <3>4 DEF Top
  <2> QED
    BY <1>4, <2>1, <2>2, <2>3 DEF SimulateOneCapacitor
<1>5. CASE HandleObservation
  BY <1>1, <1>5, CapAssumption DEF HandleObservation, CountObservation
<1> QED
  BY <1>2, <1>3, <1>4, <1>5, StepCaps

\* No capacitor is charged beyond the excess no draw spares, plus one gain.
THEOREM ChargeIsBounded == Spec => []ChargeBound
<1>1. Init => ChargeBound
  <2>1. 0 <= FullCharge + (Percent - 1) * ChargePerPct + ChargeGain
    BY CapAssumption
  <2> QED
    BY <2>1 DEF Init, ChargeBound
<1>2. TypeInv /\ ChargeBound /\ [Next]_vars => ChargeBound'
  BY ChargeStep DEF ChargeBound, vars, capVars
<1> QED
  BY <1>1, <1>2, TypeCorrect, PTL DEF Spec, TypeInv

(***************************************************************************)
(* The counts and the observation, where the wakeup uses them.             *)
(***************************************************************************)

LEMMA CountsStep ==
  ASSUME TypeInv, CountsAreFresh, Next
  PROVE  CountsAreFresh'
<1> USE DEF TypeInv, TypeOK, CountsAreFresh
<1>1. CASE pc' \notin {"cap", "obs", "therm"}
  BY <1>1
<1>2. CASE SimulateCapacitors
  BY <1>2 DEF SimulateCapacitors, UpdateCapStatus, capVars
<1>3. CASE SimulateOneCapacitor
  BY <1>3 DEF SimulateOneCapacitor, UpdateCapStatus
<1>4. CASE HandleObservation
  <2>1. \A c \in Caps : capState'[c] = "DISCHARGING" <=> capState[c] = "DISCHARGING"
    BY <1>4 DEF HandleObservation, CountObservation, Unusable, SetCapState
  <2>2. {c \in Caps : capState'[c] = "DISCHARGING"}
          = {c \in Caps : capState[c] = "DISCHARGING"}
    BY <2>1
  <2>3. pc = "obs" /\ pc' = "therm" /\ numDischarging' = numDischarging
    BY <1>4 DEF HandleObservation, countVars
  <2> QED
    BY <2>2, <2>3
<1>5. CASE pc' \in {"cap", "obs", "therm"} /\ ~SimulateCapacitors
           /\ ~SimulateOneCapacitor /\ ~HandleObservation
  BY <1>5 DEF Next, Step, Wakeup, LeaveRunLoop, ProcessNewAppCmds, EndOfCommands,
              CalculateThermal, ReportHousekeeping, taskVars
<1> QED
  BY <1>1, <1>2, <1>3, <1>4, <1>5

\* Every use of a count sees the present states of the capacitors.
THEOREM CountsStayFresh == Spec => []CountsAreFresh
<1>1. Init => CountsAreFresh
  BY DEF Init, CountsAreFresh
<1>2. TypeInv /\ CountsAreFresh /\ [Next]_vars => CountsAreFresh'
  BY CountsStep DEF CountsAreFresh, vars, taskVars, capVars, countVars
<1> QED
  BY <1>1, <1>2, TypeCorrect, PTL DEF Spec, TypeInv

(***************************************************************************)
(* The damage tokens.  A destroyed instrument finishes the wakeup that     *)
(* destroyed it and may collect more of them; how many is known at each    *)
(* point of the wakeup.                                                    *)
(***************************************************************************)

DamageAtPoint ==
  /\ sbcState # "ERROR" => damageCount <= MaxDamage
  /\ pc = "sim" => sbcState # "ERROR"
  /\ pc = "cap" => damageCount <= MaxDamage + 1 + simCap
  /\ pc \in {"obs", "therm"} => damageCount <= MaxDamage + 1 + NumCaps
  /\ damageCount <= MaxDamage + NumCaps + 2

LEMMA DamageStep ==
  ASSUME TypeInv, DamageAtPoint, Next
  PROVE  DamageAtPoint'
<1> USE CapAssumption, ObsAssumption DEF TypeInv, TypeOK, DamageAtPoint
<1>1. CASE Wakeup \/ LeaveRunLoop \/ EndOfCommands \/ ReportHousekeeping
  BY <1>1 DEF Wakeup, LeaveRunLoop, EndOfCommands, ReportHousekeeping, instrVars,
              healthVars, Accepting
<1>2. ASSUME NEW cmd \in Commands, ProcessNewAppCmds(cmd) PROVE DamageAtPoint'
  <2>1. damageCount' = damageCount
    BY <1>2 DEF ProcessNewAppCmds, RefuseCmd, SetActiveCap, DischargeCapacitor,
                ToggleHtr, ToggleLvr, StartObs, StopObs, SendObs, PowerSbc,
                CountCmd, healthVars
  <2>2. sbcState' = "ERROR" \/ sbcState # "ERROR"
    BY <1>2, HealthStep DEF Next, Destroyed
  <2>3. pc' = "cmds"
    BY <1>2 DEF ProcessNewAppCmds, taskVars
  <2> QED
    BY <2>1, <2>2, <2>3
<1>3. CASE SimulateCapacitors
  BY <1>3 DEF SimulateCapacitors, DamageInstrument, DestroyInstrument, Healthy, healthVars
<1>4. CASE SimulateOneCapacitor
  <2>1. \/ damageCount' = damageCount /\ (sbcState' = sbcState \/ sbcState' = "ERROR")
        \/ /\ damageCount' = damageCount + 1
           /\ \/ damageCount + 1 > MaxDamage /\ sbcState' = "ERROR"
              \/ damageCount + 1 <= MaxDamage /\ sbcState' = sbcState
    BY <1>4 DEF SimulateOneCapacitor, Explode, Leak, Discharge, Charge, Idle,
                DamageInstrument, DestroyInstrument, Healthy
  <2>2. \/ pc' = "obs" /\ simCap = NumCaps - 1
        \/ pc' = "cap" /\ simCap' = simCap + 1
    BY <1>4 DEF SimulateOneCapacitor
  <2>3. pc = "cap" /\ simCap \in 0 .. NumCaps - 1
    BY <1>4 DEF SimulateOneCapacitor, Caps
  <2> QED
    BY <2>1, <2>2, <2>3
<1>5. CASE HandleObservation
  <2>1. damageCount' = damageCount /\ pc = "obs" /\ pc' = "therm"
    BY <1>5 DEF HandleObservation
  <2>2. sbcState' = "ERROR" \/ sbcState # "ERROR"
    BY <1>5, HealthStep DEF Next, Step, Destroyed
  <2> QED
    BY <2>1, <2>2
<1>6. CASE CalculateThermal
  BY <1>6 DEF CalculateThermal, DamageInstrument, DestroyInstrument, Healthy, healthVars
<1> QED
  BY <1>1, <1>2, <1>3, <1>4, <1>5, <1>6 DEF Next, Step

\* A working instrument has at most MaxDamage tokens, and the count of a
\* destroyed one stays far below the range of its counter.
THEOREM DamageIsBounded == Spec => []DamageBound
<1>1. Init => DamageAtPoint
  BY CapAssumption, ObsAssumption DEF Init, DamageAtPoint
<1>2. TypeInv /\ DamageAtPoint /\ [Next]_vars => DamageAtPoint'
  BY DamageStep DEF DamageAtPoint, vars, taskVars, healthVars
<1>3. DamageAtPoint => DamageBound
  BY DEF DamageAtPoint, DamageBound
<1> QED
  BY <1>1, <1>2, <1>3, TypeCorrect, PTL DEF Spec, TypeInv

(***************************************************************************)
(* A capacitor breaks by a fault of its own.                               *)
(***************************************************************************)

LEMMA FaultStep ==
  ASSUME TypeInv, Next
  PROVE  BreaksByItself
<1> USE DEF TypeInv, TypeOK, BreaksByItself
<1>1. CASE UNCHANGED capVars
  BY <1>1 DEF capVars
<1>2. ASSUME NEW cmd \in Commands, ProcessNewAppCmds(cmd) PROVE BreaksByItself
  <2>1. CASE cmd.target \in Caps /\ DischargeCapacitor(cmd.target)
    BY <2>1 DEF DischargeCapacitor, SetCapState
  <2>2. CASE ToggleLvr(cmd.target)
    BY <2>2 DEF ToggleLvr, DrainCapCharge, TakeCapCharge, SetCapState
  <2> QED
    BY <1>1, <1>2, <2>1, <2>2, CommandCaps
<1>3. CASE SimulateOneCapacitor
  <2> DEFINE c == simCap
  <2>1. CASE Explode(c)
    <3>1. PICK draw \in 0 .. Percent - 1 : 2 * draw * ChargePerPct < Excess(c)
      BY <2>1 DEF Explode, Explodes
    <3>2. 2 * draw * ChargePerPct \in Nat
      BY CapAssumption
    <3>3. capCharge[c] > FullCharge
      BY <3>1, <3>2, CapAssumption DEF Excess
    <3> QED
      BY <2>1, <3>3 DEF Explode, SetCapState
  <2>2. CASE Leak(c)
    BY <2>2 DEF Leak, SetCapState
  <2>3. CASE Discharge(c)
    BY <2>3 DEF Discharge, SetCapState
  <2>4. CASE Charge(c) \/ Idle(c)
    BY <2>4 DEF Charge, Idle, capVars
  <2> QED
    BY <1>3, <2>1, <2>2, <2>3, <2>4 DEF SimulateOneCapacitor
<1>4. CASE HandleObservation
  BY <1>4 DEF HandleObservation, CountObservation, SetCapState
<1> QED
  BY <1>1, <1>2, <1>3, <1>4, StepCaps

\* The exhaustion of one capacitor never breaks another.
THEOREM BreaksByOwnFault == Spec => OnlyOwnFaultBreaks
<1>1. TypeInv /\ [Next]_vars => [BreaksByItself]_vars
  BY FaultStep
<1> QED
  BY <1>1, TypeCorrect, PTL DEF Spec, TypeInv, OnlyOwnFaultBreaks
=============================================================================
