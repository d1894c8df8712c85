----------------------- MODULE MCLifecycleRepository -----------------------
(***************************************************************************)
(* Instances of LifecycleRepository for TLC.                               *)
(***************************************************************************)
EXTENDS LifecycleRepository, TLC


\* Sessions, threads and signature values are interchangeable: no definition
\* names one of them.
Symmetry == Permutations(Tx) \cup Permutations(Worker) \cup Permutations(Signature)
            \cup Permutations(Profile)
=============================================================================
