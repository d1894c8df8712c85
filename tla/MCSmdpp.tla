------------------------------ MODULE MCSmdpp -------------------------------
(***************************************************************************)
(* Model checking of Smdpp: a Profile of one full segment and one that     *)
(* needs a byte of a third, which the real ones, of several kilobytes,     *)
(* are like.                                                               *)
(***************************************************************************)
EXTENDS Smdpp, TLC

CONSTANTS p1, p2

OneSegment == [name |-> p1, length |-> 1008, metadata |-> 150]
ThreeSegments == [name |-> p2, length |-> 2017, metadata |-> 150]
MCProfile == {OneSegment, ThreeSegments}

Symmetry == Permutations(Euicc) \cup Permutations(Transaction) \cup Permutations(Nonce)
=============================================================================
