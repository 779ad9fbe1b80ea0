---------------------------- MODULE ThermalLoop -----------------------------
(***************************************************************************)
(* The thermal control loop: SCH wakes WISE and THERM, WISE publishes its  *)
(* housekeeping, THERM answers with toggle commands, the ground commands   *)
(* both.  The four are separate tasks; they share the pipes of the         *)
(* software bus and nothing else, and any of them may be preempted between *)
(* two of its steps.  The housekeeping requests both applications also     *)
(* accept are left out: no table or command database here sends one.       *)
(***************************************************************************)
EXTENDS Integers, Sequences, FiniteSets, Pipe

CONSTANTS
  NumCaps, MaxDischarging, ChargePerPct, FullCharge, ChargeGain, DischargeStep,
  DischargeDelay, ObsCost, ObsMinCharge, LvrCost, Percent, ObsCountMax,
  MaxDamage, TempScale, TempMin, TempMax, ObsTempMin, ObsTempMax, StartDraws,
  StartOffset, MaxDrift, DestroyPct, DamagePct,          \* as in Wise
  LvrMinCharge, MaxLvrAttempts, ColdLimit, HotLimit,     \* as in Therm
  Byte, PipeMayFail, PipeDepth, MsgLimit,                \* of both
  SchDepth, SchLimit,   \* depth and limit of a scheduler pipe (2, 1)
  LvrMayFail,           \* FALSE: every louver obeys and none sticks
  GroundWise, GroundTherm,  \* the commands the ground may send to each
  GroundBudget,         \* bound: how many commands the ground sends
  Restartable,          \* the applications ES may restart
  RestartBudget         \* bound: how many restarts it makes

VARIABLES
  pc, simCap, runStatus, activeCap, capCharge, capState, capDelay, numCharging,
  numDischarging, temp, htrState, lvrState, lvrStuck, sbcState, intrState,
  damageCount, obsCount, obsPending, obsWritten, cmdCnt, errCnt,   \* Wise
  thermPc, thermRun, thermMsg, attempts, heaterTgl, thermCnt, thermErrCnt,
  thermSch, thermCmd, thermTlm,                                    \* Therm
  wiseSch, wiseCmd,     \* the pipes WISE reads
  wiseMsg,              \* the message WISE has taken and not yet handled
  schNext,              \* the entry SCH processes next
  budget, restarts,     \* what is left of GroundBudget and RestartBudget
  actuations            \* history: the louver toggles WISE has executed

W == INSTANCE Wise WITH Commands <- GroundWise
T == INSTANCE Therm

ASSUME LoopAssumption ==
  /\ {LvrMinCharge, MaxLvrAttempts, ColdLimit, HotLimit} \subseteq Nat
  /\ {PipeDepth, MsgLimit, SchDepth, SchLimit} \subseteq Nat \ {0}
  /\ Byte \in Nat /\ MaxLvrAttempts < Byte
  /\ GroundWise \subseteq W!CmdType /\ GroundTherm \subseteq T!ThermCmdType
  /\ LvrMayFail \in BOOLEAN
  /\ {GroundBudget, RestartBudget} \subseteq Nat
  /\ Restartable \subseteq {"WISE", "THERM"}

wiseVars == <<pc, simCap, runStatus, activeCap, capCharge, capState, capDelay,
              numCharging, numDischarging, temp, htrState, lvrState, lvrStuck,
              sbcState, intrState, damageCount, obsCount, obsPending,
              obsWritten, cmdCnt, errCnt>>
thermState == <<thermPc, thermRun, thermMsg, attempts, heaterTgl, thermCnt,
                thermErrCnt>>
thermPipes == <<thermSch, thermCmd, thermTlm>>
wiseTask == <<wiseVars, wiseSch, wiseMsg, actuations>>
otherVars == <<schNext, budget, restarts>>

vars == <<wiseTask, wiseCmd, thermState, thermPipes, otherVars>>

Sides == {"A", "B"}
NoMsg == T!NoMsg
WakeupMsg == [cc |-> "WAKEUP"]
-----------------------------------------------------------------------------
Init ==
  /\ W!Init /\ T!Init
  /\ wiseSch = Empty /\ wiseMsg = NoMsg
  /\ schNext = 1 /\ budget = GroundBudget /\ restarts = RestartBudget
  /\ actuations = [s \in Sides |-> 0]

\* The entries of the schedule table that wake the two applications, in the
\* order of a second: slot 0 wakes WISE and then THERM, slot 26 wakes WISE
\* again.
Schedule == <<"WISE", "THERM", "WISE">>

\* SCH_ProcessNextEntry.  SCH does not wait for the tasks it has woken.
ProcessNextEntry ==
  /\ schNext' = IF schNext = Len(Schedule) THEN 1 ELSE schNext + 1
  /\ \/ /\ Schedule[schNext] = "WISE"
        /\ wiseSch' = Put(wiseSch, WakeupMsg, SchDepth, SchLimit)
        /\ UNCHANGED thermSch
     \/ /\ Schedule[schNext] = "THERM"
        /\ thermSch' = Put(thermSch, WakeupMsg, SchDepth, SchLimit)
        /\ UNCHANGED wiseSch
  /\ UNCHANGED <<wiseVars, wiseMsg, actuations, wiseCmd, thermState, thermCmd,
                 thermTlm, budget, restarts>>

\* A command of the ground reaches the pipe of its application, or is lost
\* to the limit of that pipe.
GroundCommand ==
  /\ budget > 0 /\ budget' = budget - 1
  /\ \/ /\ \E cmd \in GroundWise : wiseCmd' = Put(wiseCmd, cmd, PipeDepth, MsgLimit)
        /\ UNCHANGED thermCmd
     \/ /\ \E cmd \in GroundTherm : thermCmd' = Put(thermCmd, cmd, PipeDepth, MsgLimit)
        /\ UNCHANGED wiseCmd
  /\ UNCHANGED <<wiseTask, thermState, thermSch, thermTlm, schNext, restarts>>
-----------------------------------------------------------------------------
(* WISE between its pipes.                                                 *)

WiseTakeWakeup ==
  /\ pc = "pend" /\ runStatus = "RUN" /\ wiseMsg = NoMsg /\ Waiting(wiseSch)
  /\ wiseMsg' = Head(wiseSch.queue) /\ wiseSch' = Take(wiseSch)
  /\ UNCHANGED <<wiseVars, actuations, wiseCmd>>

WiseWakeup ==
  /\ wiseMsg # NoMsg /\ W!Wakeup
  /\ wiseMsg' = NoMsg /\ wiseSch' = Release(wiseSch)
  /\ UNCHANGED <<actuations, wiseCmd>>

WiseTakeCmd ==
  /\ pc = "cmds" /\ wiseMsg = NoMsg /\ Waiting(wiseCmd)
  /\ wiseMsg' = Head(wiseCmd.queue) /\ wiseCmd' = Take(wiseCmd)
  /\ UNCHANGED <<wiseVars, wiseSch, actuations>>

\* A command is handled; with sound louvers (LvrMayFail = FALSE) an actuation
\* moves its louver and leaves it free.
WiseCommand ==
  /\ wiseMsg # NoMsg /\ W!ProcessNewAppCmds(wiseMsg)
  /\ LET actuates == wiseMsg.cc = "LVR_TOGGLE" /\ W!Accepting
     IN  /\ actuates /\ ~LvrMayFail =>
              /\ lvrStuck' = lvrStuck
              /\ lvrState'[wiseMsg.target] # lvrState[wiseMsg.target]
         /\ actuations' = IF actuates
                          THEN [actuations EXCEPT ![wiseMsg.target] = @ + 1]
                          ELSE actuations
  /\ wiseMsg' = NoMsg /\ wiseCmd' = Release(wiseCmd)
  /\ UNCHANGED wiseSch

\* The pipe is empty, or its read fails.
WiseEndOfCommands ==
  /\ wiseMsg = NoMsg /\ W!EndOfCommands
  /\ Waiting(wiseCmd) => runStatus' = "ERROR"
  /\ UNCHANGED <<wiseSch, wiseMsg, actuations, wiseCmd>>

WiseSimulate ==
  /\ \/ W!SimulateCapacitors \/ W!SimulateOneCapacitor
     \/ W!HandleObservation \/ W!CalculateThermal
  /\ UNCHANGED <<wiseSch, wiseMsg, actuations, wiseCmd>>

WiseLeave ==
  /\ wiseMsg = NoMsg /\ W!LeaveRunLoop
  /\ UNCHANGED <<wiseSch, wiseMsg, actuations, wiseCmd>>

\* The housekeeping message is a copy of the state at its sending.
WiseReport ==
  /\ W!ReportHousekeeping
  /\ thermTlm' = Put(thermTlm, W!HkTlm, PipeDepth, MsgLimit)
  /\ UNCHANGED <<wiseSch, wiseMsg, actuations, wiseCmd>>

WiseStep ==
  /\ \/ /\ \/ WiseTakeWakeup \/ WiseWakeup \/ WiseTakeCmd \/ WiseCommand
           \/ WiseEndOfCommands \/ WiseSimulate
        /\ UNCHANGED thermTlm
     \/ WiseReport
  /\ UNCHANGED <<thermState, thermSch, thermCmd, otherVars>>

ThermStep == T!Step /\ UNCHANGED <<wiseTask, otherVars>>

\* An application whose pipe failed leaves its loop.
Leave ==
  \/ WiseLeave /\ UNCHANGED <<thermState, thermPipes, otherVars>>
  \/ T!LeaveRunLoop /\ UNCHANGED <<wiseTask, otherVars>>

\* ES restarts an application at any point of its work; the pipes of the
\* others stay as they are, and so do the commands in them.
RestartApp ==
  /\ restarts > 0 /\ restarts' = restarts - 1
  /\ \/ /\ "WISE" \in Restartable /\ W!Restart
        /\ wiseSch' = Empty /\ wiseCmd' = Empty /\ wiseMsg' = NoMsg
        /\ UNCHANGED <<actuations, thermState, thermPipes>>
     \/ /\ "THERM" \in Restartable /\ T!Restart
        /\ UNCHANGED wiseTask
  /\ UNCHANGED <<schNext, budget>>

Next == ProcessNextEntry \/ GroundCommand \/ WiseStep \/ ThermStep \/ Leave \/ RestartApp

Spec == Init /\ [][Next]_vars

\* The slots go on, and a task that can run runs: the startup script gives
\* the three tasks one priority, and none of them spins.
Fairness == WF_vars(ProcessNextEntry) /\ WF_vars(WiseStep) /\ WF_vars(ThermStep)

\* The loops that drain a pipe have no bound of their own.  They end because a
\* task handles a message in far less than the 26 slots of 10 ms between two
\* wakeups of WISE.
DrainsEnd == []<>(pc = "pend") /\ []<>(thermPc = "pend")

FairSpec == Spec /\ Fairness /\ DrainsEnd
-----------------------------------------------------------------------------
(* Properties.                                                             *)

\* The types of what the loop adds to WISE.
TypeOK ==
  /\ thermPc \in T!Points /\ thermRun \in {"RUN", "ERROR"}
  /\ attempts \in [Sides -> 0 .. MaxLvrAttempts]
  /\ heaterTgl \in [Sides -> BOOLEAN]
  /\ thermCnt \in 0 .. Byte - 1 /\ thermErrCnt \in 0 .. Byte - 1
  /\ schNext \in 1 .. Len(Schedule)
  /\ budget \in 0 .. GroundBudget /\ restarts \in 0 .. RestartBudget
  /\ actuations \in [Sides -> Nat]

\* The BuffCount the software bus compares with the message limit is what
\* the receiver has still to handle: no message is counted twice or for
\* ever, which would close the pipe for good.
PipesAreCounted ==
  /\ wiseCmd.count = Len(wiseCmd.queue) + IF pc = "cmds" /\ wiseMsg # NoMsg THEN 1 ELSE 0
  /\ wiseSch.count = Len(wiseSch.queue) + IF pc = "pend" /\ wiseMsg # NoMsg THEN 1 ELSE 0
  /\ thermSch.count = Len(thermSch.queue) + IF thermPc = "woken" THEN 1 ELSE 0
  /\ thermCmd.count = Len(thermCmd.queue) + IF thermPc = "cmd" THEN 1 ELSE 0
  /\ thermTlm.count = Len(thermTlm.queue) + IF thermPc = "hk" THEN 1 ELSE 0
  /\ wiseSch.count <= SchLimit /\ thermSch.count <= SchLimit
  /\ {wiseCmd.count, thermCmd.count, thermTlm.count} \subseteq 0 .. MsgLimit

\* The louver toggles for s on their way to WISE.
InFlight(s) ==
  LET toggle == [cc |-> "LVR_TOGGLE", target |-> s]
  IN  Cardinality({i \in DOMAIN wiseCmd.queue : wiseCmd.queue[i] = toggle})
        + IF wiseMsg = toggle THEN 1 ELSE 0

\* As long as the ground resets nothing, THERM has counted, for the louver
\* it meant, every toggle that WISE executes or is about to: a louver costs
\* the capacitor no more than the attempts it is allowed, and as many again
\* for every restart.
TogglesAreCounted ==
  \A s \in Sides :
    actuations[s] + InFlight(s)
      <= attempts[s] + MaxLvrAttempts * (RestartBudget - restarts)

\* Neither stale housekeeping nor a queue of toggles makes THERM take the
\* last of a charge: what destroys the instrument is never a command.
LouversSpareTheInstrument ==
  [][sbcState # "ERROR" /\ sbcState' = "ERROR" => pc # "cmds"]_vars

\* In the cold a heater that is off is switched on, over stale housekeeping,
\* a restart of THERM, and a second toggle that undoes the first, unless the
\* instrument is lost or restarted first.
ColdGetsHeat ==
  \A s \in Sides :
    sbcState = "POWERED" /\ temp < ColdLimit
      ~> htrState[s] = "ON" \/ temp >= ColdLimit \/ sbcState \in {"ERROR", "OFF"}

\* The event of THERM's last attempt (therm_app.c:145): "Louver A has failed
\* to change after 3 attempts."  With louvers that always obey, none does.
SoundLouverIsNotGivenUp == \A s \in Sides : attempts[s] < MaxLvrAttempts

\* The comment in THERM_process_wise_hk (therm_app.c:201): "Temp is low.
\* Increase temp".  In the cold THERM switches no heater off.
ColdKeepsHeat ==
  [][\A s \in Sides :
       temp < ColdLimit /\ htrState[s] = "ON" => htrState'[s] = "ON"]_vars
=============================================================================
