-------------------------------- MODULE Wise --------------------------------
(***************************************************************************)
(* The WISE instrument simulator (cfs/apps/wise/fsw/src/wise_app.c).       *)
(*                                                                         *)
(* WISE is one cFE task.  It pends on its scheduler pipe; every wakeup     *)
(* drains the command pipe and then steps the instrument by one second:    *)
(* capacitors, observation, temperature, housekeeping.  The task is        *)
(* modelled by its control point pc, one action per function it calls, so  *)
(* that a state inside a wakeup is a state of the specification and the    *)
(* order of the calls is the order of the code.                            *)
(*                                                                         *)
(* Charges are counted in units of 1/ChargePerPct percent: with two units  *)
(* per percent every charge the code computes is an integer (it only adds  *)
(* 3/1, 3/2, 3/3 and subtracts whole percents).  The temperature is kept   *)
(* at the resolution of its telemetry, TempScale units per degree, and its *)
(* float update is abstracted to its direction and to a largest step.      *)
(* rand() is a nondeterministic choice.                                    *)
(***************************************************************************)
EXTENDS Integers, FiniteSets

CONSTANTS
  NumCaps,          \* capacitors; the code has CAP_A, CAP_B and CAP_C
  MaxDischarging,   \* more capacitors discharging at once are a hazard (2)
  ChargePerPct,     \* charge units in one percent (2)
  FullCharge,       \* 100 percent
  ChargeGain,       \* charge won per wakeup, shared by the charging ones (3%)
  DischargeStep,    \* charge lost per wakeup of discharge (10%)
  DischargeDelay,   \* WISE_CAP_DISCHARGE_DELAY (3)
  ObsCost,          \* charge an observation takes per wakeup (7%)
  ObsMinCharge,     \* charge below which the observing capacitor breaks (5%)
  LvrCost,          \* charge a louver actuation takes (1%)
  Percent,          \* the draws of rand() % Percent (100)
  ObsCountMax,      \* WISE_OBS_COUNT (10)
  MaxDamage,        \* WISE_MAX_DAMAGE_COUNT (6)
  TempScale,        \* temperature units in one degree (10)
  TempMin, TempMax,          \* WISE_TEMP_MIN, WISE_TEMP_MAX
  ObsTempMin, ObsTempMax,    \* WISE_OBS_TEMP_MIN, WISE_OBS_TEMP_MAX
  StartDraws,       \* the draws of the starting temperature (10)
  StartOffset,      \* degrees subtracted from it (5)
  MaxDrift,         \* largest change of the temperature in one wakeup
  DestroyPct, DamagePct,     \* risk per degree outside the safe range (5, 20)
  Byte,             \* the values of a uint8 counter (256)
  Commands,         \* the commands that may stand in the command pipe
  PipeMayFail       \* TRUE: a pipe read may return an error of the bus

Caps == 0 .. NumCaps - 1
Sides == {"A", "B"}

CmdType ==
       [cc : {"CAP_ACTIVE", "CAP_DISCHARGE"}, target : Caps]
  \cup [cc : {"HTR_TOGGLE", "LVR_TOGGLE"}, target : Sides]
  \cup [cc : {"NOOP", "OBS_START", "OBS_STOP", "POWER_SBC", "SEND_OBS",
              "RESET_CNTS", "UNKNOWN"}]

\* WISE_START_TEMP: whole degrees around half the WIDTH of the observation
\* range, as the macro has it.
StartTemps ==
  {(ObsTempMax - ObsTempMin) \div 2 + TempScale * (d - StartOffset) :
     d \in 0 .. StartDraws - 1}

ASSUME CapAssumption ==
  /\ NumCaps \in Nat \ {0}
  /\ MaxDischarging \in Nat
  /\ ChargePerPct \in Nat \ {0}
  /\ FullCharge \in Nat \ {0}
  /\ ChargeGain \in Nat
  /\ DischargeStep \in Nat \ {0}
  /\ DischargeDelay \in Nat
  /\ ObsCost \in Nat \ {0}
  /\ ObsMinCharge \in Nat
  /\ LvrCost \in Nat \ {0}
  /\ Percent \in Nat \ {0}

ASSUME ObsAssumption ==
  /\ ObsCountMax \in Nat \ {0}
  /\ MaxDamage \in Nat
  /\ Byte \in Nat \ {0, 1}
  /\ Commands \subseteq CmdType
  /\ PipeMayFail \in BOOLEAN

ASSUME TempAssumption ==
  /\ TempScale \in Nat \ {0}
  /\ {TempMin, TempMax, ObsTempMin, ObsTempMax, MaxDrift, StartOffset} \subseteq Nat
  /\ StartDraws \in Nat \ {0}
  /\ StartTemps \subseteq TempMin .. TempMax
  /\ {DestroyPct, DamagePct} \subseteq Nat
-----------------------------------------------------------------------------
VARIABLES
  pc,             \* the task: "pend", then the functions of a wakeup in turn
  simCap,         \* the capacitor WISE_SimulateCapacitors steps next
  runStatus,      \* g_WISE_AppData.uiRunStatus
  activeCap, capCharge, capState, capDelay, numCharging, numDischarging,
  temp, htrState, lvrState, lvrStuck,
  sbcState, intrState, damageCount,
  obsCount, obsPending, obsWritten,
  cmdCnt, errCnt  \* g_WISE_AppData.HkTlm.usCmdCnt, usCmdErrCnt

taskVars   == <<pc, simCap, runStatus>>
capVars    == <<capCharge, capState, capDelay>>
countVars  == <<numCharging, numDischarging>>
thermVars  == <<temp, htrState, lvrState, lvrStuck>>
healthVars == <<sbcState, intrState, damageCount>>
obsVars    == <<obsCount, obsPending, obsWritten>>
cmdVars    == <<cmdCnt, errCnt>>

vars == <<taskVars, activeCap, capVars, countVars, thermVars, healthVars,
          obsVars, cmdVars>>

CapStates == {"CHARGING", "LEAKING", "DISCHARGING", "BROKEN"}
SbcStates == {"OFF", "POWERED", "OBSERVING", "ERROR"}
Points    == {"pend", "cmds", "sim", "cap", "obs", "therm", "hk", "exit"}

\* Mutant: only an instrument that is off refuses.
AcceptingUnlessOff == sbcState # "OFF"

\* Mutant: only a destroyed instrument refuses.
AcceptingUnlessLost == sbcState # "ERROR"

\* The guard on the instrument's commands and on its simulation.
Accepting == sbcState \notin {"OFF", "ERROR"}

\* A uint8 counter wraps.
Incr(n) == IF n = Byte - 1 THEN 0 ELSE n + 1
-----------------------------------------------------------------------------
Init ==
  /\ pc = "pend" /\ simCap = 0 /\ runStatus = "RUN"
  /\ activeCap = 0
  /\ capCharge = [c \in Caps |-> 0]
  /\ capState = [c \in Caps |-> "CHARGING"]
  /\ capDelay = [c \in Caps |-> 0]
  /\ numCharging = NumCaps /\ numDischarging = 0
  /\ temp \in StartTemps
  /\ htrState = [s \in Sides |-> "OFF"]
  /\ lvrState = [s \in Sides |-> "CLOSED"]
  /\ lvrStuck = [s \in Sides |-> FALSE]
  /\ sbcState = "OFF" /\ intrState = "NONE" /\ damageCount = 0
  /\ obsCount = 0 /\ obsPending = 0 /\ obsWritten = 0
  /\ cmdCnt = 0 /\ errCnt = 0

\* ES restarts a task that has not ended, which runs WISE_InitApp again: the
\* instrument is new.  Not a step of Next, which is one life of the task.
Restart ==
  /\ pc # "exit"
  /\ pc' = "pend" /\ simCap' = 0 /\ runStatus' = "RUN"
  /\ activeCap' = 0
  /\ capCharge' = [c \in Caps |-> 0]
  /\ capState' = [c \in Caps |-> "CHARGING"]
  /\ capDelay' = [c \in Caps |-> 0]
  /\ numCharging' = NumCaps /\ numDischarging' = 0
  /\ temp' \in StartTemps
  /\ htrState' = [s \in Sides |-> "OFF"]
  /\ lvrState' = [s \in Sides |-> "CLOSED"]
  /\ lvrStuck' = [s \in Sides |-> FALSE]
  /\ sbcState' = "OFF" /\ intrState' = "NONE" /\ damageCount' = 0
  /\ obsCount' = 0 /\ obsPending' = 0 /\ obsWritten' = 0
  /\ cmdCnt' = 0 /\ errCnt' = 0
-----------------------------------------------------------------------------
(* Helpers several functions call.                                         *)

\* WISE_DestroyInstrument.
DestroyInstrument == sbcState' = "ERROR" /\ intrState' = "MAJOR"

Healthy == UNCHANGED <<sbcState, intrState>>

\* Mutant: the limit is compared before the token is added.
DamageInstrumentLate ==
  /\ damageCount' = damageCount + 1
  /\ IF damageCount > MaxDamage THEN DestroyInstrument ELSE Healthy

\* WISE_DamageInstrument: one more token, and destruction past the limit.
DamageInstrument ==
  /\ damageCount' = damageCount + 1
  /\ IF damageCount + 1 > MaxDamage THEN DestroyInstrument ELSE Healthy

\* Mutant: the row of a leaking capacitor lets it discharge.
CapMatrixLeakDischarges ==
  {<<"CHARGING", "LEAKING">>, <<"CHARGING", "DISCHARGING">>,
   <<"DISCHARGING", "CHARGING">>, <<"DISCHARGING", "LEAKING">>,
   <<"LEAKING", "DISCHARGING">>} \cup (CapStates \X {"BROKEN"})

\* The matrix of WISE_SetCapState: the transitions of the state chart.
CapMatrix ==
  {<<"CHARGING", "LEAKING">>, <<"CHARGING", "DISCHARGING">>,
   <<"DISCHARGING", "CHARGING">>, <<"DISCHARGING", "LEAKING">>}
    \cup (CapStates \X {"BROKEN"})

\* capState after WISE_SetCapState(c, s); a transition off the matrix is
\* refused.
SetCapState(c, s) ==
  IF <<capState[c], s>> \in CapMatrix
  THEN [capState EXCEPT ![c] = s]
  ELSE capState

\* WISE_AlterCapCharge(c, -cost) of a charge that suffices.
TakeCapCharge(c, cost) ==
  /\ capCharge[c] >= cost
  /\ capCharge' = [capCharge EXCEPT ![c] = @ - cost]
  /\ UNCHANGED <<capState, sbcState, intrState>>

\* Mutants: an exhausted capacitor leaves the instrument alive; the first
\* capacitor breaks for the active one.
DrainCapChargeHarmless(c, cost) ==
  \/ TakeCapCharge(c, cost)
  \/ /\ capCharge[c] < cost
     /\ capCharge' = [capCharge EXCEPT ![c] = 0]
     /\ capState' = SetCapState(activeCap, "BROKEN")
     /\ Healthy
DrainCapChargeFirst(c, cost) ==
  \/ TakeCapCharge(c, cost)
  \/ /\ capCharge[c] < cost
     /\ capCharge' = [capCharge EXCEPT ![c] = 0]
     /\ capState' = SetCapState(0, "BROKEN")
     /\ DestroyInstrument

\* WISE_AlterCapCharge(c, -cost).  A charge that would go below zero is
\* exhausted: the ACTIVE capacitor breaks, whichever one c is.
DrainCapCharge(c, cost) ==
  \/ TakeCapCharge(c, cost)
  \/ /\ capCharge[c] < cost
     /\ capCharge' = [capCharge EXCEPT ![c] = 0]
     /\ capState' = SetCapState(activeCap, "BROKEN")
     /\ DestroyInstrument

\* Mutant: the states are counted before the step instead of after it.
UpdateCapStatusEarly(st) ==
  /\ numCharging' = Cardinality({c \in Caps : capState[c] = "CHARGING"})
  /\ numDischarging' = Cardinality({c \in Caps : capState[c] = "DISCHARGING"})

\* The counts WISE_UpdateCapStatus leaves for the capacitor states st.
UpdateCapStatus(st) ==
  /\ numCharging' = Cardinality({c \in Caps : st[c] = "CHARGING"})
  /\ numDischarging' = Cardinality({c \in Caps : st[c] = "DISCHARGING"})
-----------------------------------------------------------------------------
(* Commands (WISE_ProcessNewAppCmds).                                      *)

SetActiveCap(c) ==
  /\ activeCap' = c
  /\ UNCHANGED <<capVars, thermVars, healthVars, obsVars, cmdVars>>

\* Mutant: a second command arms the delay again.
DischargeCapacitorRearms(c) ==
  /\ capState' = SetCapState(c, "DISCHARGING")
  /\ capDelay' = [capDelay EXCEPT ![c] = DischargeDelay]
  /\ IF c = activeCap /\ sbcState = "OBSERVING"
     THEN DestroyInstrument
     ELSE Healthy
  /\ UNCHANGED <<activeCap, capCharge, damageCount, thermVars, obsVars, cmdVars>>

\* WISE_DischargeCapacitor.  The delay is armed even when the matrix refuses the new state, and the
\* active capacitor is refused only by destroying an observing instrument.
DischargeCapacitor(c) ==
  /\ IF capState[c] = "DISCHARGING"
     THEN UNCHANGED <<capState, capDelay>>
     ELSE /\ capState' = SetCapState(c, "DISCHARGING")
          /\ capDelay' = [capDelay EXCEPT ![c] = DischargeDelay]
  /\ IF c = activeCap /\ sbcState = "OBSERVING"
     THEN DestroyInstrument
     ELSE Healthy
  /\ UNCHANGED <<activeCap, capCharge, damageCount, thermVars, obsVars, cmdVars>>

ToggleHtr(s) ==
  /\ htrState' = [htrState EXCEPT ![s] = IF @ = "ON" THEN "OFF" ELSE "ON"]
  /\ UNCHANGED <<activeCap, capVars, temp, lvrState, lvrStuck, healthVars,
                 obsVars, cmdVars>>

\* A louver that is not stuck moves or fails to, and then may stick where
\* it is; the charge is taken in every case.
ToggleLvr(s) ==
  /\ DrainCapCharge(activeCap, LvrCost)
  /\ \/ lvrStuck[s] /\ UNCHANGED <<lvrState, lvrStuck>>
     \/ /\ ~lvrStuck[s]
        /\ \/ UNCHANGED lvrState
           \/ lvrState' = [lvrState EXCEPT
                 ![s] = IF @ = "OPEN" THEN "CLOSED" ELSE "OPEN"]
        /\ \E stick \in BOOLEAN : lvrStuck' = [lvrStuck EXCEPT ![s] = stick]
  /\ UNCHANGED <<activeCap, capDelay, temp, htrState, damageCount, obsVars,
                 cmdVars>>

\* Mutants: the countdown is not armed; it is armed again by a second
\* command.
StartObsUncounted ==
  /\ sbcState' = IF sbcState = "POWERED" THEN "OBSERVING" ELSE sbcState
  /\ UNCHANGED <<activeCap, capVars, thermVars, intrState, damageCount, obsVars,
                 cmdVars>>
StartObsRearms ==
  /\ sbcState' = IF sbcState = "POWERED" THEN "OBSERVING" ELSE sbcState
  /\ obsCount' = ObsCountMax
  /\ UNCHANGED <<activeCap, capVars, thermVars, intrState, damageCount,
                 obsPending, obsWritten, cmdVars>>

\* WISE_StartObs: without a charging capacitor it destroys the instrument.
StartObs ==
  /\ \/ /\ sbcState = "POWERED"
        /\ obsCount' = ObsCountMax
        /\ \/ /\ capState[activeCap] = "CHARGING"
              /\ sbcState' = "OBSERVING" /\ UNCHANGED intrState
           \/ capState[activeCap] # "CHARGING" /\ DestroyInstrument
     \/ /\ sbcState # "POWERED"
        /\ UNCHANGED <<sbcState, intrState, obsCount>>
  /\ UNCHANGED <<activeCap, capVars, thermVars, damageCount, obsPending,
                 obsWritten, cmdVars>>

\* Mutant: what is left of the countdown stays.
StopObsKeepsCount ==
  /\ sbcState' = IF sbcState = "OBSERVING" THEN "POWERED" ELSE sbcState
  /\ UNCHANGED <<activeCap, capVars, thermVars, intrState, damageCount, obsVars,
                 cmdVars>>

\* WISE_StopObs.
StopObs ==
  /\ \/ /\ sbcState = "OBSERVING"
        /\ sbcState' = "POWERED" /\ obsCount' = 0
     \/ sbcState # "OBSERVING" /\ UNCHANGED <<sbcState, obsCount>>
  /\ UNCHANGED <<activeCap, capVars, thermVars, intrState, damageCount,
                 obsPending, obsWritten, cmdVars>>

SendObs ==
  /\ \/ /\ sbcState = "POWERED" /\ obsPending > 0
        /\ obsPending' = obsPending - 1 /\ obsWritten' = Incr(obsWritten)
     \/ /\ sbcState # "POWERED" \/ obsPending = 0
        /\ UNCHANGED <<obsPending, obsWritten>>
  /\ UNCHANGED <<activeCap, capVars, thermVars, healthVars, obsCount, cmdVars>>

PowerSbc ==
  /\ sbcState' = IF sbcState = "OFF" THEN "POWERED" ELSE sbcState
  /\ UNCHANGED <<activeCap, capVars, thermVars, intrState, damageCount,
                 obsVars, cmdVars>>

\* The commands that only touch the counters of the telemetry.
CountCmd(cmd) ==
  /\ \/ cmd.cc = "NOOP" /\ cmdCnt' = Incr(cmdCnt) /\ UNCHANGED errCnt
     \/ cmd.cc = "UNKNOWN" /\ errCnt' = Incr(errCnt) /\ UNCHANGED cmdCnt
     \/ cmd.cc = "RESET_CNTS" /\ cmdCnt' = 0 /\ errCnt' = 0
  /\ UNCHANGED <<activeCap, capVars, thermVars, healthVars, obsVars>>

\* The commands an instrument that is off or destroyed refuses.
InstrumentCmds == {"CAP_ACTIVE", "CAP_DISCHARGE", "HTR_TOGGLE", "LVR_TOGGLE",
                   "OBS_START", "OBS_STOP", "SEND_OBS"}

RefuseCmd(cmd) ==
  /\ cmd.cc \in InstrumentCmds /\ ~Accepting
  /\ UNCHANGED <<activeCap, capVars, thermVars, healthVars, obsVars, cmdVars>>

\* One message of WISE_CMD_MID taken from the command pipe.
ProcessNewAppCmds(cmd) ==
  /\ pc = "cmds"
  /\ \/ RefuseCmd(cmd)
     \/ /\ Accepting
        /\ \/ cmd.cc = "CAP_ACTIVE" /\ SetActiveCap(cmd.target)
           \/ cmd.cc = "CAP_DISCHARGE" /\ DischargeCapacitor(cmd.target)
           \/ cmd.cc = "HTR_TOGGLE" /\ ToggleHtr(cmd.target)
           \/ cmd.cc = "LVR_TOGGLE" /\ ToggleLvr(cmd.target)
           \/ cmd.cc = "OBS_START" /\ StartObs
           \/ cmd.cc = "OBS_STOP" /\ StopObs
           \/ cmd.cc = "SEND_OBS" /\ SendObs
     \/ cmd.cc = "POWER_SBC" /\ PowerSbc
     \/ CountCmd(cmd)
  /\ UNCHANGED <<taskVars, countVars>>
-----------------------------------------------------------------------------
(* The wakeup (WISE_RcvMsg and WISE_ProcessWakeup).                        *)

instrVars == <<activeCap, capVars, countVars, thermVars, healthVars, obsVars,
               cmdVars>>

\* A wakeup message arrives on the scheduler pipe.
Wakeup ==
  /\ pc = "pend" /\ runStatus = "RUN"
  /\ pc' = "cmds"
  /\ UNCHANGED <<simCap, runStatus, instrVars>>

\* The scheduler pipe cannot be read: WISE_AppMain leaves its loop, as it
\* does after a wakeup in which another pipe failed.
LeaveRunLoop ==
  /\ pc = "pend"
  /\ runStatus = "ERROR" \/ PipeMayFail
  /\ pc' = "exit" /\ runStatus' = "ERROR"
  /\ UNCHANGED <<simCap, instrVars>>

\* The command pipe is empty or cannot be read; a failing read only marks
\* the application, the rest of the wakeup still runs.  The telemetry pipe
\* has no subscription, so WISE_ProcessNewData finds it empty.
EndOfCommands ==
  /\ pc = "cmds"
  /\ \/ UNCHANGED runStatus
     \/ PipeMayFail /\ runStatus' = "ERROR"
  /\ pc' = IF Accepting THEN "sim" ELSE "hk"
  /\ UNCHANGED <<simCap, instrVars>>

\* WISE_SimulateCapacitors up to the first capacitor: too many discharging
\* at once may destroy the instrument, which ends the simulation of the
\* capacitors but not the wakeup, or damage it.
SimulateCapacitors ==
  /\ pc = "sim"
  /\ UpdateCapStatus(capState)
  /\ simCap' = 0
  /\ \/ /\ pc' = "cap"
        /\ UNCHANGED healthVars
     \/ /\ numDischarging' > MaxDischarging
        /\ pc' = "obs"
        /\ DestroyInstrument /\ UNCHANGED damageCount
     \/ /\ numDischarging' > MaxDischarging
        /\ pc' = "cap"
        /\ DamageInstrument
  /\ UNCHANGED <<runStatus, activeCap, capVars, thermVars, obsVars, cmdVars>>

\* What an overcharged capacitor may do: the draw explodes it when it is
\* below half the excess, makes it leak when it is below the excess.
Excess(c) == capCharge[c] - FullCharge

Explodes(c, draw) == 2 * draw * ChargePerPct < Excess(c)

\* Mutant: the risk of a leak is halved too.
LeaksHalved(c, draw) ==
  ~Explodes(c, draw) /\ 2 * draw * ChargePerPct < Excess(c)

Leaks(c, draw) == ~Explodes(c, draw) /\ draw * ChargePerPct < Excess(c)

Explode(c) ==
  /\ capState[c] # "BROKEN"
  /\ \E draw \in 0 .. Percent - 1 : Explodes(c, draw)
  /\ capState' = SetCapState(c, "BROKEN")
  /\ DestroyInstrument
  /\ UNCHANGED <<capCharge, capDelay, damageCount>>

Leak(c) ==
  /\ capState[c] # "BROKEN"
  /\ \E draw \in 0 .. Percent - 1 : Leaks(c, draw)
  /\ capState' = SetCapState(c, "LEAKING")
  /\ DamageInstrument
  /\ UNCHANGED <<capCharge, capDelay>>

\* Mutant: the discharge does not wait for its delay.
DischargeAtOnce(c) ==
  /\ capState[c] = "DISCHARGING"
  /\ IF capCharge[c] > DischargeStep
     THEN /\ capCharge' = [capCharge EXCEPT ![c] = @ - DischargeStep]
          /\ capDelay' = [capDelay EXCEPT ![c] = IF @ > 0 THEN @ - 1 ELSE 0]
          /\ UNCHANGED capState
     ELSE /\ capCharge' = [capCharge EXCEPT ![c] = 0]
          /\ capState' = SetCapState(c, "CHARGING")
          /\ UNCHANGED capDelay
  /\ Healthy

Discharge(c) ==
  /\ capState[c] = "DISCHARGING"
  /\ \/ /\ capDelay[c] > 0
        /\ capDelay' = [capDelay EXCEPT ![c] = @ - 1]
        /\ UNCHANGED <<capCharge, capState>> /\ Healthy
     \/ /\ capDelay[c] = 0
        /\ c = activeCap /\ sbcState = "OBSERVING"
        /\ capState' = SetCapState(c, "BROKEN")
        /\ UNCHANGED <<capCharge, capDelay>> /\ DestroyInstrument
     \/ /\ capDelay[c] = 0
        /\ c # activeCap \/ sbcState # "OBSERVING"
        /\ IF capCharge[c] > DischargeStep
           THEN /\ capCharge' = [capCharge EXCEPT ![c] = @ - DischargeStep]
                /\ UNCHANGED capState
           ELSE /\ capCharge' = [capCharge EXCEPT ![c] = 0]
                /\ capState' = SetCapState(c, "CHARGING")
        /\ UNCHANGED capDelay /\ Healthy

\* The charge is shared by the capacitors counted as charging.
Charge(c) ==
  /\ capState[c] = "CHARGING"
  /\ capCharge' = [capCharge EXCEPT ![c] =
        IF numCharging > 0 THEN @ + ChargeGain \div numCharging ELSE @]
  /\ UNCHANGED <<capState, capDelay>> /\ Healthy

Idle(c) ==
  /\ capState[c] \in {"LEAKING", "BROKEN"}
  /\ UNCHANGED capVars /\ Healthy

\* A capacitor the draw spares, or that is not overcharged or is broken.
Spared(c) ==
  \/ capState[c] = "BROKEN"
  \/ \E draw \in 0 .. Percent - 1 : ~Explodes(c, draw) /\ ~Leaks(c, draw)

\* WISE_SimulateOneCapacitor and the WISE_UpdateCapStatus that follows it.
SimulateOneCapacitor ==
  /\ pc = "cap"
  /\ \/ Explode(simCap)
     \/ Leak(simCap)
     \/ /\ Spared(simCap)
        /\ Discharge(simCap) \/ Charge(simCap) \/ Idle(simCap)
        /\ UNCHANGED damageCount
  /\ UpdateCapStatus(capState')
  /\ IF simCap = NumCaps - 1
     THEN pc' = "obs" /\ UNCHANGED simCap
     ELSE simCap' = simCap + 1 /\ UNCHANGED pc
  /\ UNCHANGED <<runStatus, activeCap, thermVars, obsVars, cmdVars>>

\* Only a charging capacitor can serve an observation.
Unusable == capState[activeCap] # "CHARGING"

\* The last part of WISE_HandleObservation: the wakeup counts, and the
\* observation is dropped out of its temperature range or is complete.
\* StopObs has no effect on an instrument the drain has just destroyed.
CountObservation ==
  LET left    == obsCount - 1
      corrupt == temp < ObsTempMin \/ temp > ObsTempMax
      ends    == corrupt \/ left = 0
      alive   == capCharge[activeCap] >= ObsCost
  IN  /\ obsPending' = IF left = 0 /\ ~corrupt THEN Incr(obsPending) ELSE obsPending
      /\ obsCount' = IF ends /\ alive THEN 0 ELSE left
      /\ IF alive
         THEN /\ sbcState' = IF ends THEN "POWERED" ELSE "OBSERVING"
              /\ UNCHANGED <<intrState, capState>>
              /\ capCharge' = [capCharge EXCEPT ![activeCap] = @ - ObsCost]
         ELSE /\ DestroyInstrument
              /\ capState' = SetCapState(activeCap, "BROKEN")
              /\ capCharge' = [capCharge EXCEPT ![activeCap] = 0]

HandleObservation ==
  /\ pc = "obs" /\ pc' = "therm"
  /\ \/ /\ sbcState # "OBSERVING"
        /\ UNCHANGED <<capCharge, capState, sbcState, intrState, obsCount, obsPending>>
     \/ /\ sbcState = "OBSERVING" /\ Unusable
        /\ DestroyInstrument
        /\ UNCHANGED <<capCharge, capState, obsCount, obsPending>>
     \/ /\ sbcState = "OBSERVING" /\ ~Unusable
        /\ capCharge[activeCap] < ObsMinCharge
        /\ capState' = [capState EXCEPT ![activeCap] = "BROKEN"]
        /\ DestroyInstrument
        /\ UNCHANGED <<capCharge, obsCount, obsPending>>
     \/ /\ sbcState = "OBSERVING" /\ ~Unusable
        /\ capCharge[activeCap] >= ObsMinCharge
        /\ CountObservation
  /\ UNCHANGED <<simCap, runStatus, activeCap, capDelay, countVars, thermVars,
                 damageCount, obsWritten, cmdVars>>

\* How far the temperature is outside the safe range.
TempOffset ==
  CASE temp < TempMin -> TempMin - temp
    [] temp > TempMax -> temp - TempMax
    [] OTHER -> 0

Warming == \/ sbcState' = "OBSERVING"
           \/ numDischarging > 0
           \/ \E s \in Sides : htrState[s] = "ON"

Cooling == \E s \in Sides : lvrState[s] = "OPEN"

\* The float update, abstracted: the temperature only rises with a source
\* of heat, only falls with an open louver, and never below zero.
DriftTemp ==
  \E t \in 0 .. temp + MaxDrift :
     /\ temp - t <= MaxDrift
     /\ t > temp => Warming
     /\ t < temp => Cooling
     /\ temp' = t

\* Mutant: the update goes on after a destruction.
CalculateThermalGoesOn ==
  /\ pc = "therm" /\ pc' = "hk"
  /\ LET destroy == (TempOffset * DestroyPct) \div TempScale
     IN  \E draw \in 0 .. Percent - 1 :
           IF draw < destroy THEN DestroyInstrument ELSE Healthy
  /\ DriftTemp
  /\ UNCHANGED <<simCap, runStatus, activeCap, capVars, countVars, htrState,
                 lvrState, lvrStuck, damageCount, obsVars, cmdVars>>

\* WISE_CalculateThermal.  It returns before the update when it destroys.
CalculateThermal ==
  /\ pc = "therm" /\ pc' = "hk"
  /\ LET destroy == (TempOffset * DestroyPct) \div TempScale
         damage  == (TempOffset * DamagePct) \div TempScale
     IN  \E draw \in 0 .. Percent - 1 :
           \/ draw < destroy /\ DestroyInstrument /\ UNCHANGED <<damageCount, temp>>
           \/ draw >= destroy /\ draw < damage /\ DamageInstrument /\ DriftTemp
           \/ draw >= destroy /\ draw >= damage /\ UNCHANGED healthVars /\ DriftTemp
  /\ UNCHANGED <<simCap, runStatus, activeCap, capVars, countVars, htrState,
                 lvrState, lvrStuck, obsVars, cmdVars>>

\* WISE_ReportHousekeeping ends the wakeup; what it sends is a function of
\* the state.
HkTlm ==
  [activeCap |-> activeCap, sbcState |-> sbcState, damage |-> intrState,
   capState |-> capState, capCharge |-> capCharge, temp |-> temp,
   htrState |-> htrState, lvrState |-> lvrState, ssrCount |-> obsWritten]

ReportHousekeeping ==
  /\ pc = "hk" /\ pc' = "pend"
  /\ UNCHANGED <<simCap, runStatus, instrVars>>
-----------------------------------------------------------------------------
Step == \/ EndOfCommands \/ SimulateCapacitors \/ SimulateOneCapacitor
        \/ HandleObservation \/ CalculateThermal \/ ReportHousekeeping

Next == \/ Wakeup
        \/ LeaveRunLoop
        \/ \E cmd \in Commands : ProcessNewAppCmds(cmd)
        \/ Step

Spec == Init /\ [][Next]_vars

\* The scheduler keeps waking the task, the task keeps running, and the
\* ground cannot refill the command pipe for ever: it is empty again and
\* again, so its drain loop, which has no bound of its own, ends.
Fairness == WF_vars(Wakeup) /\ WF_vars(Step) /\ SF_vars(EndOfCommands)

FairSpec == Spec /\ Fairness
-----------------------------------------------------------------------------
(* Properties.                                                             *)

\* The types of the state.
TypeOK ==
  /\ pc \in Points /\ simCap \in Caps /\ runStatus \in {"RUN", "ERROR"}
  /\ activeCap \in Caps
  /\ capCharge \in [Caps -> Nat]
  /\ capState \in [Caps -> CapStates]
  /\ capDelay \in [Caps -> 0 .. DischargeDelay]
  /\ numCharging \in 0 .. NumCaps /\ numDischarging \in 0 .. NumCaps
  /\ temp \in Nat
  /\ htrState \in [Sides -> {"ON", "OFF"}]
  /\ lvrState \in [Sides -> {"OPEN", "CLOSED"}]
  /\ lvrStuck \in [Sides -> BOOLEAN]
  /\ sbcState \in SbcStates /\ intrState \in {"NONE", "MAJOR"}
  /\ damageCount \in Nat
  /\ obsCount \in 0 .. ObsCountMax
  /\ obsPending \in 0 .. Byte - 1 /\ obsWritten \in 0 .. Byte - 1
  /\ cmdCnt \in 0 .. Byte - 1 /\ errCnt \in 0 .. Byte - 1

\* The two variables that say the instrument is lost agree, and every way a
\* capacitor breaks (an explosion, a discharge under an observation, an
\* exhausted or too low charge) has destroyed the instrument.
BrokenCapDestroys ==
  /\ intrState = "MAJOR" <=> sbcState = "ERROR"
  /\ (\E c \in Caps : capState[c] = "BROKEN") => sbcState = "ERROR"

\* Where WISE_SimulateOneCapacitor divides the gain by the number of
\* charging capacitors, and where WISE_CalculateThermal heats by the number
\* of discharging ones, the counts are those of the present states: the
\* divisor is never zero ("should be impossible for this to be 0"), and an
\* observation that breaks its capacitor after the count does not stale it.
CountsAreFresh ==
  /\ pc = "cap" => numCharging = Cardinality({c \in Caps : capState[c] = "CHARGING"})
  /\ pc \in {"cap", "obs", "therm"} =>
       numDischarging = Cardinality({c \in Caps : capState[c] = "DISCHARGING"})

\* A discharge always starts with its whole delay: no capacitor goes back
\* to charging with a delay left that a later discharge would inherit.
DelayIsSpent == \A c \in Caps : capState[c] = "CHARGING" => capDelay[c] = 0

\* No capacitor is charged past the excess at which every draw makes it
\* leak or explode, plus one gain, so its telemetry, (uint16)(charge * 100),
\* never wraps.
ChargeBound ==
  \A c \in Caps : capCharge[c] <= FullCharge + (Percent - 1) * ChargePerPct + ChargeGain

\* The countdown of an observation is alive exactly while one is taken, so
\* it never runs below zero and none inherits what another left.
ObsCountMatches ==
  /\ sbcState = "OBSERVING" => obsCount >= 1
  /\ sbcState \in {"OFF", "POWERED"} => obsCount = 0

\* An instrument that works has at most MaxDamage damage tokens, and the
\* tokens one wakeup can still add to a destroyed one are bounded: one for
\* the discharge, one for each capacitor and one for the temperature.  It is
\* the token after the MaxDamage-th that destroys (wise_app.c:1491).
DamageBound ==
  /\ sbcState # "ERROR" => damageCount <= MaxDamage
  /\ damageCount <= MaxDamage + NumCaps + 2

\* "6 minor damage tokens result in instrument destruction." (wise_app.h:77)
\* The code compares with ">" after it has counted, and an instrument with six
\* tokens goes on.
SixTokensDestroy == damageCount >= MaxDamage => sbcState = "ERROR"

\* A capacitor breaks by a fault of its own: it was overcharged, or it is
\* the active one and was discharging under an observation or too low for
\* what was asked of it.
BreaksByItself ==
  \A c \in Caps :
    capState[c] # "BROKEN" /\ capState'[c] = "BROKEN" =>
      \/ capCharge[c] > FullCharge
      \/ /\ c = activeCap
         /\ \/ capState[c] = "DISCHARGING" /\ sbcState = "OBSERVING"
            \/ capCharge[c] < ObsMinCharge
            \/ capCharge'[c] = 0

OnlyOwnFaultBreaks == [][BreaksByItself]_vars

\* What the ground can still read of a destroyed instrument stays: nothing
\* is written to the recorder any more, and no command or wakeup selects
\* another capacitor, moves a louver or switches a heater.
DestroyedIsInert ==
  [][sbcState = "ERROR" =>
       UNCHANGED <<sbcState, obsWritten, activeCap, htrState, lvrState>>]_vars

\* Until it is powered the instrument is as WISE_InitApp left it, however
\* many commands and wakeups came before.
OffIsPristine ==
  sbcState = "OFF" =>
    /\ activeCap = 0 /\ temp \in StartTemps /\ damageCount = 0
    /\ \A c \in Caps :
         capCharge[c] = 0 /\ capState[c] = "CHARGING" /\ capDelay[c] = 0
    /\ \A s \in Sides :
         htrState[s] = "OFF" /\ lvrState[s] = "CLOSED" /\ ~lvrStuck[s]
    /\ obsCount = 0 /\ obsPending = 0 /\ obsWritten = 0

\* Overheating is cut off: the temperature never passes, by more than one
\* step, the one at which every draw destroys the instrument.
TempBound ==
  temp > TempMax + MaxDrift =>
    ((temp - MaxDrift - TempMax) * DestroyPct) \div TempScale < Percent

\* Wise implements the life cycle and the capacitor chart.
Life == INSTANCE Instrument WITH life <- sbcState, cap <- capState

ImplementsInstrument == Life!Spec

\* Every observation ends: it completes, is corrupted, stopped or destroys.
ObservationEnds == sbcState = "OBSERVING" ~> sbcState # "OBSERVING"

\* Every discharge comes to an end (or the instrument to its own).
DischargeEnds ==
  \A c \in Caps :
    capState[c] = "DISCHARGING" ~> capState[c] # "DISCHARGING" \/ sbcState = "ERROR"
=============================================================================
