--------------------------- MODULE MCTicketSpend -----------------------------
(***************************************************************************)
(* Model checking of TicketSpend over a field of three scalars: challenges *)
(* collide, and are all there.                                             *)
(***************************************************************************)
EXTENDS TicketSpend, TLC

CONSTANTS e1, e2

MCk == e1 :> 1 @@ e2 :> 2

Symmetry == Permutations(Ticket) \cup Permutations(Transaction) \cup Permutations(Opid)
=============================================================================
