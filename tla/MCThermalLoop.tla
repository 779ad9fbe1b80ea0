---------------------------- MODULE MCThermalLoop ----------------------------
(***************************************************************************)
(* Instances of ThermalLoop for TLC.                                       *)
(***************************************************************************)
EXTENDS ThermalLoop

\* The ground only powers the instrument.
PowerOnly == {[cc |-> "POWER_SBC"]}
NoThermCmds == {}

\* It also resets the attempts THERM counts for louver A.
Resets == [cc : {"RST_LVR_CNT"}, target : {"A"}]

\* Every command of THERM.
AllThermCmds == T!ThermCmdType
=============================================================================
