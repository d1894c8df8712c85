--------------------------- MODULE BatchProgramming --------------------------
(***************************************************************************)
(* pySim-prog.py --batch --batch-state FILE --write-csv FILE, with the card*)
(* handlers of pySim/card_handler.py: a card at a time is got, detected,   *)
(* given parameters (generated from a number, or the row of a CSV file),   *)
(* programmed, recorded and counted; a failure in any place, the end of    *)
(* the process in any place, and its next start.                           *)
(*                                                                         *)
(* What a card is given is its identity (id: the number that ICCID and     *)
(* IMSI are made of, or the ICCID of a row) and its keys (key).            *)
(***************************************************************************)
EXTENDS Naturals, Sequences, SequencesExt, FiniteSets

CONSTANTS
    Cards,
    Handlers,       \* "manual": CardHandler, "auto": CardHandlerAuto
    Sources,        \* "cmdline", "csv"
    Rows,           \* of the CSV file: sequence of [iccid, imsi, adm]
    Iccid,          \* of each card as it was delivered
    None,           \* Python's None: an option or a field of a row that is missing
    NoCard,
    Torn,           \* what a write that was cut short leaves
    WriteHlr,       \* whether --write-hlr is given
    MaxRounds,      \* cards got
    MaxStarts       \* of the program

ASSUME BatchAssumption ==
    /\ NoCard \notin Cards
    /\ None \notin Nat /\ Torn \notin Nat /\ None # Torn
    /\ Handlers \subseteq {"manual", "auto"} /\ Sources \subseteq {"cmdline", "csv"}
    /\ Len(Rows) \in Nat /\ DOMAIN Rows = 1..Len(Rows)
    /\ MaxRounds \in Nat /\ MaxStarts \in Nat

VARIABLES
    handler, source,
    pc,
    num, first,     \* opts.num; the main loop's
    cp,             \* parameters of this round
    state_file,     \* None, Torn, or the number in it
    csv_file,       \* --write-csv
    on,             \* what is on each card
    slot,           \* the card in the reader
    inserted,       \* whether it came since the handler began to wait
    done,           \* cards that were reported good and not got again since
    rounds, starts

options == <<handler, source>>
program == <<num, first, cp>>
files == <<state_file, csv_file>>
reader == <<slot, inserted>>
counters == <<rounds, starts>>
vars == <<options, pc, program, files, on, reader, done, counters>>

Working == {"detect", "generate", "program", "csv", "hlr", "count", "truncate", "save", "done"}

-----------------------------------------------------------------------------
(* Parameters.                                                             *)

Blank == [id |-> None, key |-> 0]

\* The first row that matches; 0: there is none
find_row_in_csv_file(iccid, imsi) ==
    LET Match(i) ==
            \/ num # None /\ iccid = None /\ imsi = None /\ num = i - 1
            \/ Rows[i].iccid = iccid
            \/ Rows[i].imsi = imsi
        found == {i \in DOMAIN Rows : Match(i)}
    IN  IF found = {} THEN 0 ELSE CHOOSE i \in found : \A j \in found : i <= j

\* read_params_csv raises: pin_adm_hex is checked by way of the other column for the PIN.
Raises(row) == row.adm = "pin_adm_hex"

-----------------------------------------------------------------------------
(* Start, and what may end a round or the program.                         *)

To(p) == pc' = p

\* parse_options, init_batch: a file that is there is not JSON, or d.iteritems raises.
Start ==
    /\ pc = "ended"
    /\ starts < MaxStarts
    /\ starts' = starts + 1
    /\ To(IF state_file = None THEN "get" ELSE "ended")
    /\ num' = 0 /\ first' = TRUE /\ cp' = Blank
    /\ UNCHANGED <<options, files, on, reader, done, rounds>>

\* The process ends, in any place.
End ==
    /\ pc # "ended"
    /\ To("ended")
    /\ UNCHANGED <<options, program, files, on, reader, done, counters>>

\* A step of process_card raises, or finds nothing: rc is not 0.  Until the card is programmed it
\* does not matter which: reading the ICCID and the options is "detect" here.  save_batch fails
\* to open the file, or to write what it emptied.
Fail ==
    /\ pc \in {"wait", "detect", "csv", "truncate", "save"} \/ (pc = "hlr" /\ WriteHlr)
    /\ To("error")
    /\ UNCHANGED <<options, program, files, on, reader, done, counters>>

\* The end of a round: ch.error where it failed
NextCard ==
    /\ pc = "error"
    /\ first' = FALSE
    /\ slot' = IF handler = "auto" THEN NoCard ELSE slot
    /\ To("get")
    /\ UNCHANGED <<options, num, cp, files, on, inserted, done, counters>>

-----------------------------------------------------------------------------
(* Cards come and go.                                                      *)

Insert(c) ==
    /\ handler = "manual" /\ pc \in {"get", "wait", "ended"}
    /\ slot = NoCard
    /\ slot' = c /\ inserted' = TRUE
    /\ UNCHANGED <<options, pc, program, files, on, done, counters>>

TakeOut ==
    /\ pc \in {"ended"} \cup (IF handler = "manual" THEN {"get", "wait"} ELSE {})
    /\ slot # NoCard
    /\ slot' = NoCard /\ inserted' = FALSE
    /\ UNCHANGED <<options, pc, program, files, on, done, counters>>

\* ch.get of CardHandler: wait_for_card begins.
Get ==
    /\ pc = "get" /\ handler = "manual"
    /\ rounds < MaxRounds /\ rounds' = rounds + 1
    /\ inserted' = FALSE
    /\ To("wait")
    /\ UNCHANGED <<options, program, files, on, slot, done, starts>>

\* Mutant: wait_for_card does not wait.
GotNone == pc = "wait" /\ To("detect")
           /\ UNCHANGED <<options, program, files, on, reader, done, counters>>

\* wait_for_card returns: only the first time with a card that was there.
Got ==
    /\ pc = "wait"
    /\ slot # NoCard /\ (first \/ inserted)
    /\ done' = done \ {slot}
    /\ To("detect")
    /\ UNCHANGED <<options, program, files, on, reader, counters>>

\* ch.get of CardHandlerAuto: the machine brings a card that is still blank; it gives up (SystemExit)
\* when it has none, or when the last one is still in the reader.
GetAuto ==
    /\ pc = "get" /\ handler = "auto"
    /\ rounds < MaxRounds /\ rounds' = rounds + 1
    /\ \/ /\ slot = NoCard
          /\ \E c \in {d \in Cards : on[d] = Blank} : slot' = c
          /\ To("detect")
       \/ (slot # NoCard \/ \A c \in Cards : on[c] # Blank) /\ To("ended") /\ UNCHANGED slot
    /\ UNCHANGED <<options, program, files, on, inserted, done, starts>>

-----------------------------------------------------------------------------
(* process_card                                                            *)

CardDetect ==
    /\ pc = "detect"
    /\ To("generate")
    /\ UNCHANGED <<options, program, files, on, reader, done, counters>>

\* gen_parameters: the identity from the number, fresh keys
GenParameters ==
    /\ pc = "generate" /\ source = "cmdline"
    /\ cp' = [id |-> num, key |-> rounds]
    /\ To("program")
    /\ UNCHANGED <<options, num, first, files, on, reader, done, counters>>

\* --read-iccid; no row: "error", and so when read_params_csv raises
ReadParamsCsv ==
    /\ pc = "generate" /\ source = "csv"
    /\ LET i == find_row_in_csv_file(Iccid[slot], None)
       IN  IF i = 0 \/ (i # 0 /\ Raises(Rows[i]))
           THEN To("error") /\ UNCHANGED cp
           ELSE cp' = [id |-> Rows[i].iccid, key |-> i] /\ To("program")
    /\ UNCHANGED <<options, num, first, files, on, reader, done, counters>>

\* card.program: it raises after it has written nothing, or the identity, or all.
Program ==
    /\ pc = "program"
    /\ \/ on' = [on EXCEPT ![slot] = cp] /\ To("csv")
       \/ \E written \in {on[slot], [cp EXCEPT !.key = 0], cp} :
              on' = [on EXCEPT ![slot] = written] /\ To("error")
    /\ UNCHANGED <<options, program, files, reader, done, counters>>

\* Mutant: the row does not get into the file.
WriteParamsCsvLost ==
    /\ pc = "csv"
    /\ To("hlr")
    /\ UNCHANGED <<options, program, files, on, reader, done, counters>>

WriteParamsCsv ==
    /\ pc = "csv"
    /\ csv_file' = Append(csv_file, cp)
    /\ To("hlr")
    /\ UNCHANGED <<options, program, state_file, on, reader, done, counters>>

\* write_params_hlr: without the option nothing; with it, it raises (Fail): the quoting of Ki takes
\* the bytes for characters, and the transaction is not committed.
WriteParamsHlr ==
    /\ pc = "hlr" /\ ~WriteHlr
    /\ To("count")
    /\ UNCHANGED <<options, program, files, on, reader, done, counters>>

\* Mutant: the number stays.
CountNot == pc = "count" /\ To("truncate")
            /\ UNCHANGED <<options, program, files, on, reader, done, counters>>

Count ==
    /\ pc = "count"
    /\ num' = num + 1
    /\ To("truncate")
    /\ UNCHANGED <<options, first, cp, files, on, reader, done, counters>>

\* save_batch opens the file, which empties it, and writes it.
Truncate ==
    /\ pc = "truncate"
    /\ state_file' = Torn
    /\ To("save")
    /\ UNCHANGED <<options, program, csv_file, on, reader, done, counters>>

\* Mutant: the number before it was counted up.
SaveOld ==
    /\ pc = "save"
    /\ state_file' = num - 1
    /\ To("done")
    /\ UNCHANGED <<options, program, csv_file, on, reader, done, counters>>

Save ==
    /\ pc = "save"
    /\ state_file' = num
    /\ To("done")
    /\ UNCHANGED <<options, program, csv_file, on, reader, done, counters>>

\* ch.done; the machine may fail (SystemExit).
Done ==
    /\ pc = "done"
    /\ first' = FALSE
    /\ done' = done \cup {slot}
    /\ slot' = IF handler = "auto" THEN NoCard ELSE slot
    /\ To("get")
    /\ UNCHANGED <<options, num, cp, files, on, inserted, counters>>

-----------------------------------------------------------------------------
Init ==
    /\ handler \in Handlers /\ source \in Sources
    /\ pc = "ended" /\ num = 0 /\ first = TRUE /\ cp = Blank
    /\ state_file = None /\ csv_file = << >>
    /\ on = [c \in Cards |-> Blank]
    /\ slot = NoCard /\ inserted = FALSE
    /\ done = {}
    /\ rounds = 0 /\ starts = 0

ProcessCard ==
    \/ CardDetect \/ GenParameters \/ ReadParamsCsv \/ Program
    \/ WriteParamsCsv \/ WriteParamsHlr \/ Count \/ Truncate \/ Save \/ Done

Next ==
    \/ Start \/ End \/ Fail \/ NextCard
    \/ \E c \in Cards : Insert(c)
    \/ TakeOut \/ Get \/ Got \/ GetAuto
    \/ ProcessCard

Spec == Init /\ [][Next]_vars
-----------------------------------------------------------------------------
\* What a CSV file and the cards it is for are like, as they are delivered: no row without an IMSI,
\* and no ICCID twice among the cards.
CsvFits ==
    /\ \A i \in DOMAIN Rows : Rows[i].imsi # None
    /\ \A c \in Cards : Iccid[c] # None
    /\ \A c, d \in Cards : Iccid[c] = Iccid[d] => c = d

Numbers == 0..MaxRounds
Identities == Numbers \cup {None} \cup {Rows[i].iccid : i \in DOMAIN Rows}
Given == [id : Identities, key : Numbers \cup DOMAIN Rows]

TypeOK ==
    /\ handler \in Handlers /\ source \in Sources
    /\ pc \in Working \cup {"ended", "get", "wait", "error"}
    /\ num \in Numbers /\ first \in BOOLEAN /\ cp \in Given
    /\ state_file \in Numbers \cup {None, Torn}
    /\ csv_file \in Seq(Given)
    /\ on \in [Cards -> Given]
    /\ slot \in Cards \cup {NoCard} /\ inserted \in BOOLEAN
    /\ pc \in Working => slot # NoCard
    /\ done \subseteq Cards
    /\ rounds \in 0..MaxRounds /\ starts \in 0..MaxStarts

\* No two cards that were reported good have the same identity, after failed rounds and restarts
\* too (process_card, gen_parameters, and for CSV files find_row_in_csv_file).
GoodCardsDiffer == \A c, d \in done : on[c].id = on[d].id => c = d

\* The keys of a card that was reported good are in the CSV file: as they are on the card, not
\* those of an earlier round (process_card).
GoodCardsRecorded == \A c \in done : on[c] \in Range(csv_file)

\* The state file, where it is whole, is beyond every number on a card that was reported good
\* (save_batch before ch.done).
SavedIsBeyond ==
    source = "cmdline" /\ state_file \in Nat => \A c \in done : on[c].id < state_file
=============================================================================
