---------------------------- MODULE MCEmuControl ----------------------------
(***************************************************************************)
(* Instances of EmuControl: the start address and 0, two drum zones.       *)
(***************************************************************************)
EXTENDS EmuControl

MCAddresses == {0, 1}
MCZones     == {5, 6}
=============================================================================
