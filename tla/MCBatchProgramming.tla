--------------------------- MODULE MCBatchProgramming ------------------------
(* Cards and CSV files for TLC.                                            *)
EXTENDS BatchProgramming

CONSTANTS c1, c2, c3, one, two, three, i1, i2, i3

ThreeCards == {c1, c2, c3}
IccidOf == [c \in ThreeCards |-> CASE c = c1 -> one [] c = c2 -> two [] c = c3 -> three]

Row(iccid, imsi, adm) == [iccid |-> iccid, imsi |-> imsi, adm |-> adm]

\* Another order than the cards'; the last row has its PIN in the column that is refused.
TheRows == <<Row(two, i2, "adm1"), Row(one, i1, "adm1"), Row(three, i3, "pin_adm_hex")>>
ASSUME RowsFitCards == CsvFits
=============================================================================
