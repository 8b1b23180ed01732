---------------------------- MODULE MCTritPlanes ----------------------------
(***************************************************************************)
(* Instances of TritPlanes: shift counts around zero, the width of a       *)
(* register, the width of a plane, and the largest count of an address.    *)
(***************************************************************************)
EXTENDS TritNotation

MCCounts == -5 .. 5 \cup {-121, -64, -33, -32, -31, -19, 19, 31, 32, 33, 64, 121}
=============================================================================
