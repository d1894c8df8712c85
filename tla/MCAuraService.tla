--------------------------- MODULE MCAuraService ---------------------------
(***************************************************************************)
(* Model checking of AuraService: tickets, sessions and Profiles are       *)
(* interchangeable in every definition.                                    *)
(***************************************************************************)
EXTENDS AuraService, TLC

Symmetry == Permutations(Ticket) \cup Permutations(Session) \cup Permutations(Lph)
=============================================================================
