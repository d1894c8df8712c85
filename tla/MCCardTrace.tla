----------------------------- MODULE MCCardTrace -----------------------------
(* A tree of files for TLC.                                                *)
EXTENDS CardTrace

CONSTANTS ef, adf, ef_imsi, ef_odd

TheFiles == {MF, ef, adf, ef_imsi, ef_odd}
TheDFs == {MF, adf}
TheApps == {adf}
ParentOf == [f \in TheFiles |-> IF f \in {ef_imsi, ef_odd} THEN adf ELSE MF]

\* ef and ef_imsi have the same file ID.
FidOf == [f \in TheFiles |-> CASE f = MF -> "3f00" [] f = adf -> "none"
                               [] f \in {ef, ef_imsi} -> "6f07" [] f = ef_odd -> "6f99"]
SfiOf == [f \in TheFiles |-> IF f = ef_imsi THEN 7 ELSE None]
OddUnknown == TheFiles \ {ef_odd}
ThePaths == {<<CurrentApp, "6f07">>}

\* Bounds: channels on which the tracer is told too little at a time, and what else goes on
\* while a response was left unfetched.
OneAstray ==
    /\ \A ch, other \in astray : ch = other
    /\ lost > 0 => astray = {} /\ DOMAIN sel \subseteq {0, 1}
=============================================================================
