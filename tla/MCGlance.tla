------------------------------ MODULE MCGlance ------------------------------
(***************************************************************************)
(* Glance for TLC.  One or two APIs; the second one is there when the      *)
(* question is about several APIs, the layouts when it is about layouts.   *)
(***************************************************************************)
EXTENDS Glance, TLC

=============================================================================
