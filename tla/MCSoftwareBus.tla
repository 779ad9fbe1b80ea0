--------------------------- MODULE MCSoftwareBus ----------------------------
(***************************************************************************)
(* An instance of SoftwareBus for TLC.                                     *)
(***************************************************************************)
EXTENDS SoftwareBus
=============================================================================
