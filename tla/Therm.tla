------------------------------- MODULE Therm --------------------------------
(***************************************************************************)
(* The thermal control application (cfs/apps/therm/fsw/src/therm_app.c).   *)
(*                                                                         *)
(* THERM is one cFE task.  A wakeup clears its heater flags, drains its    *)
(* command pipe, and then handles every WISE housekeeping message in its   *)
(* telemetry pipe: it opens the louvers that are shut, as long as it has   *)
(* attempts left and the active capacitor has charge, and toggles the      *)
(* heaters that are in the wrong state for the temperature.  Its commands  *)
(* are relative (toggles), go through WISE's command pipe and are not      *)
(* acknowledged.                                                           *)
(*                                                                         *)
(* The task is modelled by its control point thermPc.  Every message taken *)
(* and every message sent is a step, because the scheduler may run WISE    *)
(* between any two of them.  The pipes are shared with the tasks at their  *)
(* other ends; ThermalLoop composes them.                                  *)
(***************************************************************************)
EXTENDS Integers, Sequences, Pipe

CONSTANTS
  LvrMinCharge,     \* WISE_LVR_MIN_CHARGE
  MaxLvrAttempts,   \* WISE_MAX_LVR_ATTEMPTS (3)
  ColdLimit,        \* WISE_TEMP_MIN of therm_app.h (18.0 C)
  HotLimit,         \* WISE_TEMP_MAX of therm_app.h (25.0 C)
  PipeDepth,        \* depth of the command and telemetry pipes (10)
  MsgLimit,         \* CFE_SB_DEFAULT_MSG_LIMIT (4)
  Byte,             \* the values of a uint8 counter (256)
  PipeMayFail       \* TRUE: a pipe read may return an error of the bus

Sides == {"A", "B"}

ThermCmdType ==
       [cc : {"RST_LVR_CNT"}, target : Sides]
  \cup [cc : {"NOOP", "RESET", "UNKNOWN"}]

VARIABLES
  thermPc,          \* the task: "pend", then the steps of a wakeup
  thermRun,         \* g_THERM_AppData.uiRunStatus
  thermMsg,         \* the message CFE_SB_RcvMsg last returned, while in use
  attempts,         \* HkTlm.lvrAAttempts, HkTlm.lvrBAttempts
  heaterTgl,        \* heaterTglA, heaterTglB
  thermCnt, thermErrCnt,           \* HkTlm.usCmdCnt, HkTlm.usCmdErrCnt
  thermSch, thermCmd, thermTlm,    \* THERM's pipes
  wiseCmd           \* the command pipe of WISE

thermState == <<thermPc, thermRun, thermMsg, attempts, heaterTgl, thermCnt,
                thermErrCnt>>
thermVars == <<thermState, thermSch, thermCmd, thermTlm, wiseCmd>>

NoMsg == [cc |-> "NONE"]

Points == {"pend", "woken", "cmds", "cmd", "data", "hk", "lvrA", "lvrB",
           "htrA", "htrB", "exit"}

Init ==
  /\ thermPc = "pend" /\ thermRun = "RUN" /\ thermMsg = NoMsg
  /\ attempts = [s \in Sides |-> 0]
  /\ heaterTgl = [s \in Sides |-> FALSE]
  /\ thermCnt = 0 /\ thermErrCnt = 0
  /\ thermSch = Empty /\ thermCmd = Empty /\ thermTlm = Empty /\ wiseCmd = Empty

\* Mutant: what the pipe of the old task counted goes on counting.
RestartKeepsPipe ==
  /\ thermPc # "exit" /\ thermPc' = "pend" /\ thermRun' = "RUN" /\ thermMsg' = NoMsg
  /\ attempts' = [s \in Sides |-> 0]
  /\ heaterTgl' = [s \in Sides |-> FALSE]
  /\ thermCnt' = 0 /\ thermErrCnt' = 0
  /\ UNCHANGED <<thermSch, thermCmd, thermTlm, wiseCmd>>

\* ES restarts a task that has not ended, which runs THERM_InitApp again: its
\* pipes are deleted and created anew, and no attempt is remembered.
Restart ==
  /\ thermPc # "exit" /\ thermPc' = "pend" /\ thermRun' = "RUN" /\ thermMsg' = NoMsg
  /\ attempts' = [s \in Sides |-> 0]
  /\ heaterTgl' = [s \in Sides |-> FALSE]
  /\ thermCnt' = 0 /\ thermErrCnt' = 0
  /\ thermSch' = Empty /\ thermCmd' = Empty /\ thermTlm' = Empty
  /\ UNCHANGED wiseCmd

\* A uint8 counter wraps.
Incr(n) == IF n = Byte - 1 THEN 0 ELSE n + 1

\* CFE_SB_SendMsg(&WISECmd): the command may be dropped, and THERM does not
\* look at what the send returned.
SendWiseCmd(cc, s) ==
  wiseCmd' = Put(wiseCmd, [cc |-> cc, target |-> s], PipeDepth, MsgLimit)
-----------------------------------------------------------------------------
(* THERM_RcvMsg.                                                           *)

TakeWakeup ==
  /\ thermPc = "pend" /\ thermRun = "RUN" /\ Waiting(thermSch)
  /\ thermSch' = Take(thermSch)
  /\ thermPc' = "woken"
  /\ UNCHANGED <<thermRun, thermMsg, attempts, heaterTgl, thermCnt, thermErrCnt,
                 thermCmd, thermTlm, wiseCmd>>

\* THERM_WAKEUP_MID: each heater may be toggled once more.
Wakeup ==
  /\ thermPc = "woken" /\ thermPc' = "cmds"
  /\ thermSch' = Release(thermSch)
  /\ heaterTgl' = [s \in Sides |-> FALSE]
  /\ UNCHANGED <<thermRun, thermMsg, attempts, thermCnt, thermErrCnt, thermCmd,
                 thermTlm, wiseCmd>>

\* The scheduler pipe cannot be read, or another could not: the task exits.
LeaveRunLoop ==
  /\ thermPc = "pend"
  /\ thermRun = "ERROR" \/ PipeMayFail
  /\ thermPc' = "exit" /\ thermRun' = "ERROR"
  /\ UNCHANGED <<thermMsg, attempts, heaterTgl, thermCnt, thermErrCnt, thermSch,
                 thermCmd, thermTlm, wiseCmd>>
-----------------------------------------------------------------------------
(* THERM_ProcessNewCmds.                                                   *)

TakeCmd ==
  /\ thermPc = "cmds" /\ Waiting(thermCmd)
  /\ thermMsg' = Head(thermCmd.queue)
  /\ thermCmd' = Take(thermCmd)
  /\ thermPc' = "cmd"
  /\ UNCHANGED <<thermRun, attempts, heaterTgl, thermCnt, thermErrCnt, thermSch,
                 thermTlm, wiseCmd>>

\* THERM_ProcessNewAppCmds.
ProcessNewAppCmds ==
  /\ thermPc = "cmd" /\ thermPc' = "cmds"
  /\ thermCmd' = Release(thermCmd)
  /\ thermMsg' = NoMsg
  /\ \/ /\ thermMsg.cc = "NOOP" /\ thermCnt' = Incr(thermCnt)
        /\ UNCHANGED <<thermErrCnt, attempts>>
     \/ /\ thermMsg.cc = "UNKNOWN" /\ thermErrCnt' = Incr(thermErrCnt)
        /\ UNCHANGED <<thermCnt, attempts>>
     \/ /\ thermMsg.cc = "RESET" /\ thermCnt' = 0 /\ thermErrCnt' = 0
        /\ UNCHANGED attempts
     \/ /\ thermMsg.cc = "RST_LVR_CNT"
        /\ attempts' = [attempts EXCEPT ![thermMsg.target] = 0]
        /\ UNCHANGED <<thermCnt, thermErrCnt>>
  /\ UNCHANGED <<thermRun, heaterTgl, thermSch, thermTlm, wiseCmd>>

\* A read that fails marks the application; the wakeup goes on.
EndOfCommands ==
  /\ thermPc = "cmds" /\ thermPc' = "data"
  /\ \/ ~Waiting(thermCmd) /\ UNCHANGED thermRun
     \/ PipeMayFail /\ thermRun' = "ERROR"
  /\ UNCHANGED <<thermMsg, attempts, heaterTgl, thermCnt, thermErrCnt, thermSch,
                 thermCmd, thermTlm, wiseCmd>>
-----------------------------------------------------------------------------
(* THERM_ProcessNewData.                                                   *)

TakeHk ==
  /\ thermPc = "data" /\ Waiting(thermTlm)
  /\ thermMsg' = Head(thermTlm.queue)
  /\ thermTlm' = Take(thermTlm)
  /\ thermPc' = "hk"
  /\ UNCHANGED <<thermRun, attempts, heaterTgl, thermCnt, thermErrCnt, thermSch,
                 thermCmd, wiseCmd>>

\* THERM_process_wise_hk acts only on an instrument that is on and alive.
ProcessWiseHk ==
  /\ thermPc = "hk"
  /\ thermTlm' = Release(thermTlm)
  /\ \/ thermMsg.sbcState \in {"POWERED", "OBSERVING"}
        /\ thermPc' = "lvrA" /\ UNCHANGED thermMsg
     \/ thermMsg.sbcState \notin {"POWERED", "OBSERVING"}
        /\ thermPc' = "data" /\ thermMsg' = NoMsg
  /\ UNCHANGED <<thermRun, attempts, heaterTgl, thermCnt, thermErrCnt, thermSch,
                 thermCmd, wiseCmd>>

\* THERM_get_active_cap_charge: a broken or leaking capacitor counts as
\* empty, a discharging one does not.
ActiveCapCharge(hk) ==
  IF hk.capState[hk.activeCap] \in {"BROKEN", "LEAKING"}
  THEN 0
  ELSE hk.capCharge[hk.activeCap]

\* Mutant: no charge is kept for the louver.
WantsLvrWithoutCharge(s) ==
  thermMsg.lvrState[s] # "OPEN" /\ attempts[s] < MaxLvrAttempts

\* Mutant: one attempt too many.
WantsLvrOnceMore(s) ==
  /\ thermMsg.lvrState[s] # "OPEN"
  /\ attempts[s] <= MaxLvrAttempts
  /\ ActiveCapCharge(thermMsg) >= LvrMinCharge

\* A louver THERM still tries to open, with the charge to do so.
WantsLvr(s) ==
  /\ thermMsg.lvrState[s] # "OPEN"
  /\ attempts[s] < MaxLvrAttempts
  /\ ActiveCapCharge(thermMsg) >= LvrMinCharge

\* Mutant: every attempt is counted for louver A.
ToggleLvrCountsA(s) ==
  /\ thermPc = IF s = "A" THEN "lvrA" ELSE "lvrB"
  /\ thermPc' = IF s = "A" THEN "lvrB" ELSE "htrA"
  /\ \/ /\ WantsLvr(s)
        /\ SendWiseCmd("LVR_TOGGLE", s)
        /\ attempts' = [attempts EXCEPT !["A"] = @ + 1]
     \/ ~WantsLvr(s) /\ UNCHANGED <<wiseCmd, attempts>>
  /\ UNCHANGED <<thermRun, thermMsg, heaterTgl, thermCnt, thermErrCnt, thermSch,
                 thermCmd, thermTlm>>

\* THERM_toggle_lvr: the attempt is counted whatever becomes of the command.
ToggleLvr(s) ==
  /\ thermPc = IF s = "A" THEN "lvrA" ELSE "lvrB"
  /\ thermPc' = IF s = "A" THEN "lvrB" ELSE "htrA"
  /\ \/ /\ WantsLvr(s)
        /\ SendWiseCmd("LVR_TOGGLE", s)
        /\ attempts' = [attempts EXCEPT ![s] = @ + 1]
     \/ ~WantsLvr(s) /\ UNCHANGED <<wiseCmd, attempts>>
  /\ UNCHANGED <<thermRun, thermMsg, heaterTgl, thermCnt, thermErrCnt, thermSch,
                 thermCmd, thermTlm>>

\* A heater in the wrong state that this wakeup has not toggled yet.
WantsHtr(s) ==
  /\ ~heaterTgl[s]
  /\ \/ thermMsg.temp > HotLimit /\ thermMsg.htrState[s] = "ON"
     \/ /\ thermMsg.temp <= HotLimit /\ thermMsg.temp < ColdLimit
        /\ thermMsg.htrState[s] = "OFF"

\* Mutant: the flag of the other heater is set.
ToggleHtrMarksOther(s) ==
  /\ thermPc = IF s = "A" THEN "htrA" ELSE "htrB"
  /\ thermPc' = IF s = "A" THEN "htrB" ELSE "data"
  /\ thermMsg' = IF s = "A" THEN thermMsg ELSE NoMsg
  /\ \/ /\ WantsHtr(s)
        /\ SendWiseCmd("HTR_TOGGLE", s)
        /\ heaterTgl' = [t \in Sides |-> heaterTgl[t] \/ t # s]
     \/ ~WantsHtr(s) /\ UNCHANGED <<wiseCmd, heaterTgl>>
  /\ UNCHANGED <<thermRun, attempts, thermCnt, thermErrCnt, thermSch, thermCmd,
                 thermTlm>>

\* THERM_toggle_htr; after the second heater the message is done with.
ToggleHtr(s) ==
  /\ thermPc = IF s = "A" THEN "htrA" ELSE "htrB"
  /\ thermPc' = IF s = "A" THEN "htrB" ELSE "data"
  /\ thermMsg' = IF s = "A" THEN thermMsg ELSE NoMsg
  /\ \/ /\ WantsHtr(s)
        /\ SendWiseCmd("HTR_TOGGLE", s)
        /\ heaterTgl' = [heaterTgl EXCEPT ![s] = TRUE]
     \/ ~WantsHtr(s) /\ UNCHANGED <<wiseCmd, heaterTgl>>
  /\ UNCHANGED <<thermRun, attempts, thermCnt, thermErrCnt, thermSch, thermCmd,
                 thermTlm>>

\* The telemetry pipe is empty or cannot be read.  THERM_SendOutData ends
\* the wakeup; nobody on board listens to what it publishes.
EndOfData ==
  /\ thermPc = "data" /\ thermPc' = "pend"
  /\ \/ ~Waiting(thermTlm) /\ UNCHANGED thermRun
     \/ PipeMayFail /\ thermRun' = "ERROR"
  /\ UNCHANGED <<thermMsg, attempts, heaterTgl, thermCnt, thermErrCnt, thermSch,
                 thermCmd, thermTlm, wiseCmd>>
-----------------------------------------------------------------------------
\* Every step of a wakeup.
Step ==
  \/ TakeWakeup \/ Wakeup
  \/ TakeCmd \/ ProcessNewAppCmds \/ EndOfCommands
  \/ TakeHk \/ ProcessWiseHk \/ EndOfData
  \/ \E s \in Sides : ToggleLvr(s) \/ ToggleHtr(s)

Next == Step \/ LeaveRunLoop
=============================================================================
