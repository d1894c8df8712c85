--------------------------- MODULE MCCardRuntime ----------------------------
(***************************************************************************)
(* An instance of CardRuntime for TLC.                                     *)
(***************************************************************************)
EXTENDS CardRuntime, TLC

CONSTANTS A, e, B, N, U, g, S, V

\* A and B are directories of the MF, e a file of A, N a directory of B; U is an
\* application with a file system and the file g, S and V ones without.  g has the
\* identifier of e.
MCFile == {MF, A, e, B, N, U, g, S, V}
MCPath == (MF :> <<MF>>) @@ (e :> <<MF, A, e>>) @@ (N :> <<MF, B, N>>) @@ (g :> <<MF, U, g>>)
          @@ [f \in {A, B, U, S, V} |-> <<MF, f>>]
MCFid == [f \in MCFile |-> IF f = g THEN e ELSE f]

\* A file system with directories side by side; a security domain that can be left through U, and
\* one that cannot be left; an application without a file system beside U, and beside
\* files alone, and channels to be opened from one another.
MCCards == {[files |-> {MF, A, e, B, U, g}, channels |-> 2],
            [files |-> {MF, U, S}, channels |-> 2],
            [files |-> {MF, S}, channels |-> 2],
            [files |-> {MF, U, g, V}, channels |-> 3],
            [files |-> {MF, A, e, V}, channels |-> 3]}

\* With C-ENC: the kinds without it are refused nothing but what is too long anyway.
MCKinds == {kind \in Kind : kind.do_cenc}
=============================================================================
