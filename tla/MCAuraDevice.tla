---------------------------- MODULE MCAuraDevice -----------------------------
(***************************************************************************)
(* Model checking of AuraDevice.  New tickets, sessions and Profile        *)
(* pseudonyms are taken by CHOOSE, so the state space has no symmetric     *)
(* copies and liveness can be checked in the same run.                     *)
(***************************************************************************)
EXTENDS AuraDevice, TLC
=============================================================================
