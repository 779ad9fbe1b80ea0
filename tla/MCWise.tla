------------------------------- MODULE MCWise -------------------------------
(***************************************************************************)
(* Instances of Wise for TLC.  The charges are scaled down: they keep the  *)
(* order of the code's (LvrCost < ObsMinCharge < ObsCost < DischargeStep < *)
(* FullCharge) and the reachable excess over FullCharge.                   *)
(***************************************************************************)
EXTENDS Wise

CapCmds == [cc : {"CAP_ACTIVE", "CAP_DISCHARGE"}, target : Caps]
ObsCmds == [cc : {"OBS_START", "OBS_STOP", "POWER_SBC"}]
SsrCmds == [cc : {"SEND_OBS"}]
CountCmds == [cc : {"NOOP", "RESET_CNTS", "UNKNOWN"}]
LvrCmds == [cc : {"LVR_TOGGLE"}, target : {"A"}]
HtrCmds == [cc : {"HTR_TOGGLE"}, target : {"A"}]

\* The power system: capacitors, observations, louver actuation.
PowerCmds == CapCmds \cup ObsCmds \cup LvrCmds

\* The ground does no more than power the instrument.
OnlyPower == {[cc |-> "POWER_SBC"]}

\* The thermal system, the counters and the recorder.
ThermalCmds == ObsCmds \cup SsrCmds \cup CountCmds \cup LvrCmds \cup HtrCmds
=============================================================================
