------------------------------ MODULE MCWheLoop ------------------------------
(***************************************************************************)
(* Instances of WheLoop for TLC.                                           *)
(***************************************************************************)
EXTENDS WheLoop

\* The commands of WHE, without those that only undo another one of the few.
Undoing == {[cc |-> "HTR_OFF"], [cc |-> "LOUVER_CLOSE"], [cc |-> "CAP_ACTIVE", cap |-> "A"]}
GroundCommands == WheCommands \ Undoing

\* No table is loaded in flight.
OnlyWheWDT == {WheWDT}
OnlyWheADT == {WheADT}
=============================================================================
