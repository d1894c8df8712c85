----------------------------- MODULE ToolProofs ------------------------------
(***************************************************************************)
(* The two tools that prepare cards and profiles.  What batch programming  *)
(* (pySim-prog.py) keeps, for any cards, any CSV file and any number of    *)
(* rounds and starts; and what the profile element sequence of saip-tool   *)
(* keeps, for any profiles, any PEs and any number of calls.               *)
(***************************************************************************)
EXTENDS BatchProgramming, ProfileElements, FiniteSetTheorems, WellFoundedInduction,
        SequenceTheorems, TLAPS

\* Where the card in the reader has its identity, and its keys, from this round.
Programmed == {"csv", "hlr", "count", "truncate", "save", "done"}
\* Where the row is in the CSV file as well.
Recorded == {"hlr", "count", "truncate", "save", "done"}
\* Where the number is still the one of this round.
Uncounted == {"wait", "detect", "generate", "program", "csv", "hlr", "count"}

\* The number is behind the rounds, so that it keeps within its bound.
NumberBehind ==
    /\ num <= rounds
    /\ pc \in Uncounted => num < rounds
    /\ pc \in Working \cup {"wait"} => rounds > 0

\* The card being programmed is not among the good ones.
SlotNotDone == pc \in Working => slot \notin done

\* A good card has keys: the machine does not take it for a blank one.
GoodHaveKeys == \A c \in done : on[c].key # 0

\* What the parameters of the round are.
RoundsOwn ==
    /\ pc = "program" => cp.key # 0
    /\ pc = "csv" => on[slot] = cp
    /\ pc \in Programmed => on[slot].key # 0
    /\ pc \in Recorded => on[slot] \in Range(csv_file)

\* From the number: the good cards are below it, the card of the round as well once it is counted.
\* A program that begins again begins at 0, but only before the first card is good.
NumberBeyond ==
    source = "cmdline" =>
        /\ state_file = None => done = {}
        /\ \A c \in done : on[c].id \in Nat
        /\ pc # "ended" => \A c \in done : on[c].id < num
        /\ pc = "program" => cp.id = num
        /\ pc \in {"csv", "hlr", "count"} => on[slot].id = num
        /\ pc \in {"truncate", "save", "done"} => on[slot].id \in Nat /\ on[slot].id < num
        /\ pc \in Programmed => \A c \in done : on[c].id < on[slot].id
        /\ pc = "done" => state_file = num

\* From a CSV file: the card has the ICCID it was delivered with.
IccidKept ==
    source = "csv" =>
        /\ pc = "program" => cp.id = Iccid[slot]
        /\ pc \in Programmed => on[slot].id = Iccid[slot]
        /\ \A c \in done : on[c].id = Iccid[c]

BatchInv ==
    /\ TypeOK
    /\ NumberBehind /\ SlotNotDone /\ GoodHaveKeys /\ RoundsOwn /\ NumberBeyond
    /\ GoodCardsRecorded
    /\ SavedIsBeyond

-----------------------------------------------------------------------------
(* Rows and the CSV file.                                                  *)

\* A set of numbers that is not empty has a least one.
LEMMA LeastNumber ==
    ASSUME NEW T \in SUBSET Nat, T # {}
    PROVE  \E i \in T : \A j \in T : i <= j
<1>1. PICK i \in T : \A j \in T : ~(<<j, i>> \in OpToRel(<, Nat))
  BY NatLessThanWellFounded, WFMin
<1>2. ASSUME NEW j \in T PROVE i <= j
  <2>1. i \in Nat /\ j \in Nat
    OBVIOUS
  <2>2. ~(j < i)
    BY <1>1, <2>1 DEF OpToRel
  <2> QED
    BY <2>1, <2>2
<1> QED
  BY <1>2

\* The row that is found is a row of the file; asked for an ICCID it has that, or the IMSI.
LEMMA RowFound ==
    ASSUME BatchAssumption, NEW iccid, NEW imsi,
           find_row_in_csv_file(iccid, imsi) # 0
    PROVE  LET i == find_row_in_csv_file(iccid, imsi)
           IN  /\ i \in DOMAIN Rows
               /\ iccid # None => Rows[i].iccid = iccid \/ Rows[i].imsi = imsi
<1> DEFINE Match(i) == \/ num # None /\ iccid = None /\ imsi = None /\ num = i - 1
                       \/ Rows[i].iccid = iccid
                       \/ Rows[i].imsi = imsi
           found == {i \in DOMAIN Rows : Match(i)}
<1>1. found # {} /\ find_row_in_csv_file(iccid, imsi) =
          CHOOSE i \in found : \A j \in found : i <= j
  BY DEF find_row_in_csv_file
<1>2. found \in SUBSET Nat
  BY DEF BatchAssumption
<1>3. \E i \in found : \A j \in found : i <= j
  <2> HIDE DEF found
  <2> QED
    BY <1>1, <1>2, LeastNumber
<1>4. find_row_in_csv_file(iccid, imsi) \in found
  <2> HIDE DEF found
  <2> QED
    BY <1>1, <1>3
<1> QED
  BY <1>4

\* What is in the file stays in it, and the new row is.
LEMMA RowAppended ==
    ASSUME NEW S, NEW s \in Seq(S), NEW x \in S
    PROVE  Range(s) \subseteq Range(Append(s, x)) /\ x \in Range(Append(s, x))
<1>1. /\ DOMAIN Append(s, x) = 1..(Len(s) + 1)
      /\ DOMAIN s = 1..Len(s) /\ Len(s) \in Nat
      /\ \A i \in 1..Len(s) : Append(s, x)[i] = s[i]
      /\ Append(s, x)[Len(s) + 1] = x
  OBVIOUS
<1>2. Len(s) + 1 \in DOMAIN Append(s, x) /\ DOMAIN s \subseteq DOMAIN Append(s, x)
  BY <1>1
<1> QED
  BY <1>1, <1>2 DEF Range

-----------------------------------------------------------------------------
(* Types, and the numbers within their bound.                              *)

LEMMA TypesAtStart ==
    ASSUME BatchAssumption, Init PROVE TypeOK /\ NumberBehind
<1>1. << >> \in Seq(Given) /\ Blank \in Given
  BY DEF Blank, Given, Identities, Numbers, BatchAssumption
<1>2. on \in [Cards -> Given] /\ csv_file \in Seq(Given) /\ cp \in Given
  BY <1>1 DEF Init
<1>3. /\ pc = "ended" /\ num = 0 /\ first = TRUE /\ state_file = None /\ slot = NoCard
      /\ inserted = FALSE /\ done = {} /\ rounds = 0 /\ starts = 0
      /\ handler \in Handlers /\ source \in Sources
  BY DEF Init
<1>4. 0 \in Numbers /\ 0 \in 0..MaxRounds /\ 0 \in 0..MaxStarts
  BY DEF Numbers, BatchAssumption
<1>5. NumberBehind
  BY <1>3 DEF NumberBehind, Working, Uncounted
<1>6. pc \in Working \cup {"ended", "get", "wait", "error"} /\ pc \notin Working
  BY <1>3 DEF Working
<1>7. first \in BOOLEAN /\ inserted \in BOOLEAN /\ done \subseteq Cards
  BY <1>3
<1> QED
  BY <1>2, <1>3, <1>4, <1>5, <1>6, <1>7 DEF TypeOK

LEMMA TypesKept ==
    ASSUME BatchAssumption, TypeOK, NumberBehind, [Next]_vars
    PROVE  TypeOK' /\ NumberBehind'
<1> USE DEF BatchAssumption
<1>0. Blank \in Given /\ Numbers \subseteq Nat
  BY DEF Blank, Given, Identities, Numbers
<1>1. CASE Start
  BY <1>1, <1>0 DEF TypeOK, NumberBehind, Numbers, Working, Uncounted, Start, counters, program,
     files, reader, options, To
<1>2. CASE End
  BY <1>2, <1>0 DEF TypeOK, NumberBehind, Numbers, Working, Uncounted, End, counters, program,
     files, reader, options, To
<1>3. CASE Fail
  BY <1>3, <1>0 DEF TypeOK, NumberBehind, Numbers, Working, Uncounted, Fail, counters, program,
     files, reader, options, To
<1>4. CASE NextCard
  BY <1>4, <1>0 DEF TypeOK, NumberBehind, Numbers, Working, Uncounted, NextCard, counters,
     program, files, reader, options, To
<1>5. CASE \E c \in Cards : Insert(c)
  BY <1>5, <1>0 DEF TypeOK, NumberBehind, Numbers, Working, Uncounted, Insert, counters,
     program, files, reader, options, To
<1>6. CASE TakeOut
  BY <1>6, <1>0 DEF TypeOK, NumberBehind, Numbers, Working, Uncounted, TakeOut, counters,
     program, files, reader, options, To
<1>7. CASE Get
  <2>1. /\ pc' = "wait" /\ inserted' = FALSE /\ rounds' = rounds + 1 /\ rounds < MaxRounds
        /\ UNCHANGED <<handler, source, num, first, cp, state_file, csv_file, on, slot, done, starts>>
    BY <1>7 DEF Get, options, program, files, To
  <2>2. rounds' \in 0..MaxRounds /\ num' <= rounds' /\ num' < rounds' /\ rounds' > 0
    BY <2>1 DEF TypeOK, NumberBehind, Numbers
  <2> QED
    BY <2>1, <2>2 DEF TypeOK, NumberBehind, Working
<1>8. CASE Got
  BY <1>8, <1>0 DEF TypeOK, NumberBehind, Numbers, Working, Uncounted, Got, counters, program,
     files, reader, options, To
<1>9. CASE GetAuto
  BY <1>9, <1>0 DEF TypeOK, NumberBehind, Numbers, Working, Uncounted, GetAuto, counters,
     program, files, reader, options, To
<1>10. CASE CardDetect
  BY <1>10, <1>0 DEF TypeOK, NumberBehind, Numbers, Working, Uncounted, CardDetect, counters,
     program, files, reader, options, To
<1>11. CASE GenParameters
  <2>1. cp' \in Given
    BY <1>11 DEF GenParameters, TypeOK, Given, Identities, Numbers
  <2> QED
    BY <1>11, <2>1 DEF TypeOK, NumberBehind, Numbers, Working, Uncounted, GenParameters,
       counters, program, files, reader, options, To
<1>12. CASE ReadParamsCsv
  <2>1. cp' \in Given
    BY <1>12, RowFound DEF ReadParamsCsv, TypeOK, Given, Identities, To
  <2>2. pc' \in {"error", "program"}
    BY <1>12 DEF ReadParamsCsv, To
  <2> QED
    BY <1>12, <2>1, <2>2 DEF TypeOK, NumberBehind, Numbers, Working, Uncounted, ReadParamsCsv,
       counters, program, files, reader, options, To
<1>13. CASE Program
  <2>1. cp \in Given /\ [cp EXCEPT !.key = 0] \in Given /\ slot \in Cards
    BY <1>13 DEF Program, TypeOK, Given, Numbers, Working
  <2>2. on' \in [Cards -> Given] /\ pc' \in {"csv", "error"}
    BY <1>13, <2>1 DEF Program, TypeOK, To
  <2> QED
    BY <1>13, <2>2 DEF TypeOK, NumberBehind, Numbers, Working, Uncounted, Program, counters,
       program, files, reader, options, To
<1>14. CASE WriteParamsCsv
  BY <1>14, <1>0 DEF TypeOK, NumberBehind, Numbers, Working, Uncounted, WriteParamsCsv,
     counters, program, files, reader, options, To
<1>15. CASE WriteParamsHlr
  BY <1>15, <1>0 DEF TypeOK, NumberBehind, Numbers, Working, Uncounted, WriteParamsHlr,
     counters, program, files, reader, options, To
<1>16. CASE Count
  BY <1>16, <1>0 DEF TypeOK, NumberBehind, Numbers, Working, Uncounted, Count, counters,
     program, files, reader, options, To
<1>17. CASE Truncate
  BY <1>17, <1>0 DEF TypeOK, NumberBehind, Numbers, Working, Uncounted, Truncate, counters,
     program, files, reader, options, To
<1>18. CASE Save
  BY <1>18, <1>0 DEF TypeOK, NumberBehind, Numbers, Working, Uncounted, Save, counters, program,
     files, reader, options, To
<1>19. CASE Done
  BY <1>19, <1>0 DEF TypeOK, NumberBehind, Numbers, Working, Uncounted, Done, counters, program,
     files, reader, options, To
<1>20. CASE UNCHANGED vars
  BY <1>20, <1>0 DEF TypeOK, NumberBehind, Numbers, Working, Uncounted, vars, counters, program,
     files, reader, options, To
<1> QED
  BY <1>1, <1>2, <1>3, <1>4, <1>5, <1>6, <1>7, <1>8, <1>9, <1>10, <1>11, <1>12, <1>13, <1>14,
     <1>15, <1>16, <1>17, <1>18, <1>19, <1>20 DEF Next, ProcessCard

-----------------------------------------------------------------------------
(* The good cards and the rows of the CSV file.                            *)

LEMMA CardsKept ==
    ASSUME BatchAssumption, TypeOK, NumberBehind,
           SlotNotDone, GoodHaveKeys, RoundsOwn, GoodCardsRecorded, [Next]_vars
    PROVE  SlotNotDone' /\ GoodHaveKeys' /\ RoundsOwn' /\ GoodCardsRecorded'
<1>0. on \in [Cards -> Given] /\ done \subseteq Cards /\ slot \in Cards \cup {NoCard}
      /\ (pc \in Working => slot \in Cards) /\ Blank.key = 0
  BY DEF TypeOK, Blank
<1>1. CASE Start
  BY <1>1, <1>0 DEF SlotNotDone, GoodHaveKeys, RoundsOwn, GoodCardsRecorded, Working,
     Programmed, Recorded, Start, counters, program, files, reader, options, To
<1>2. CASE End
  BY <1>2, <1>0 DEF SlotNotDone, GoodHaveKeys, RoundsOwn, GoodCardsRecorded, Working,
     Programmed, Recorded, End, counters, program, files, reader, options, To
<1>3. CASE Fail
  BY <1>3, <1>0 DEF SlotNotDone, GoodHaveKeys, RoundsOwn, GoodCardsRecorded, Working,
     Programmed, Recorded, Fail, counters, program, files, reader, options, To
<1>4. CASE NextCard
  BY <1>4, <1>0 DEF SlotNotDone, GoodHaveKeys, RoundsOwn, GoodCardsRecorded, Working,
     Programmed, Recorded, NextCard, counters, program, files, reader, options, To
<1>5. CASE \E c \in Cards : Insert(c)
  BY <1>5, <1>0 DEF SlotNotDone, GoodHaveKeys, RoundsOwn, GoodCardsRecorded, Working,
     Programmed, Recorded, Insert, counters, program, files, reader, options, To
<1>6. CASE TakeOut
  BY <1>6, <1>0 DEF SlotNotDone, GoodHaveKeys, RoundsOwn, GoodCardsRecorded, Working,
     Programmed, Recorded, TakeOut, counters, program, files, reader, options, To
<1>7. CASE Get
  BY <1>7, <1>0 DEF SlotNotDone, GoodHaveKeys, RoundsOwn, GoodCardsRecorded, Working,
     Programmed, Recorded, Get, counters, program, files, reader, options, To
<1>8. CASE Got
  BY <1>8, <1>0 DEF SlotNotDone, GoodHaveKeys, RoundsOwn, GoodCardsRecorded, Working,
     Programmed, Recorded, Got, counters, program, files, reader, options, To
<1>9. CASE GetAuto
  BY <1>9, <1>0 DEF SlotNotDone, GoodHaveKeys, RoundsOwn, GoodCardsRecorded, Working,
     Programmed, Recorded, GetAuto, counters, program, files, reader, options, To
<1>10. CASE CardDetect
  BY <1>10, <1>0 DEF SlotNotDone, GoodHaveKeys, RoundsOwn, GoodCardsRecorded, Working,
     Programmed, Recorded, CardDetect, counters, program, files, reader, options, To
<1>11. CASE GenParameters
  <2>1. cp'.key # 0 /\ rounds \in Nat
    BY <1>11 DEF GenParameters, NumberBehind, Working, TypeOK
  <2> QED
    BY <1>11, <1>0, <2>1 DEF SlotNotDone, GoodHaveKeys, RoundsOwn, GoodCardsRecorded, Working,
       Programmed, Recorded, GenParameters, counters, program, files, reader, options, To
<1>12. CASE ReadParamsCsv
  <2>1. pc' = "program" => cp'.key # 0
    BY <1>12, RowFound DEF ReadParamsCsv, To, BatchAssumption
  <2>2. pc' \in {"error", "program"}
    BY <1>12 DEF ReadParamsCsv, To
  <2> QED
    BY <1>12, <1>0, <2>1, <2>2 DEF SlotNotDone, GoodHaveKeys, RoundsOwn, GoodCardsRecorded,
       Working, Programmed, Recorded, ReadParamsCsv, counters, program, files, reader,
       options, To
<1>13. CASE Program
  <2>1. /\ slot \in Cards /\ slot \notin done /\ cp.key # 0
        /\ \A c \in done : on'[c] = on[c]
        /\ pc' = "error" \/ (pc' = "csv" /\ on'[slot] = cp)
        /\ UNCHANGED <<slot, cp, done, csv_file>>
    BY <1>13, <1>0 DEF Program, SlotNotDone, RoundsOwn, Working, program, files, reader, To
  <2> QED
    BY <2>1 DEF SlotNotDone, GoodHaveKeys, RoundsOwn, GoodCardsRecorded, Working, Programmed,
       Recorded
<1>14. CASE WriteParamsCsv
  <2>1. csv_file \in Seq(Given) /\ cp \in Given /\ csv_file' = Append(csv_file, cp)
    BY <1>14 DEF WriteParamsCsv, TypeOK
  <2>2. Range(csv_file) \subseteq Range(csv_file') /\ cp \in Range(csv_file')
    BY <2>1, RowAppended
  <2> QED
    BY <1>14, <1>0, <2>2 DEF SlotNotDone, GoodHaveKeys, RoundsOwn, GoodCardsRecorded, Working,
       Programmed, Recorded, WriteParamsCsv, counters, program, files, reader, options, To
<1>15. CASE WriteParamsHlr
  BY <1>15, <1>0 DEF SlotNotDone, GoodHaveKeys, RoundsOwn, GoodCardsRecorded, Working,
     Programmed, Recorded, WriteParamsHlr, counters, program, files, reader, options, To
<1>16. CASE Count
  BY <1>16, <1>0 DEF SlotNotDone, GoodHaveKeys, RoundsOwn, GoodCardsRecorded, Working,
     Programmed, Recorded, Count, counters, program, files, reader, options, To
<1>17. CASE Truncate
  BY <1>17, <1>0 DEF SlotNotDone, GoodHaveKeys, RoundsOwn, GoodCardsRecorded, Working,
     Programmed, Recorded, Truncate, counters, program, files, reader, options, To
<1>18. CASE Save
  BY <1>18, <1>0 DEF SlotNotDone, GoodHaveKeys, RoundsOwn, GoodCardsRecorded, Working,
     Programmed, Recorded, Save, counters, program, files, reader, options, To
<1>19. CASE Done
  BY <1>19, <1>0 DEF SlotNotDone, GoodHaveKeys, RoundsOwn, GoodCardsRecorded, Working,
     Programmed, Recorded, Done, counters, program, files, reader, options, To
<1>20. CASE UNCHANGED vars
  BY <1>20, <1>0 DEF SlotNotDone, GoodHaveKeys, RoundsOwn, GoodCardsRecorded, Working,
     Programmed, Recorded, vars, counters, program, files, reader, options, To
<1> QED
  BY <1>1, <1>2, <1>3, <1>4, <1>5, <1>6, <1>7, <1>8, <1>9, <1>10, <1>11, <1>12, <1>13, <1>14,
     <1>15, <1>16, <1>17, <1>18, <1>19, <1>20 DEF Next, ProcessCard

-----------------------------------------------------------------------------
(* The numbers.                                                            *)

LEMMA NumbersKept ==
    ASSUME BatchAssumption, TypeOK, SlotNotDone, NumberBeyond, SavedIsBeyond,
           source = "cmdline", [Next]_vars
    PROVE  NumberBeyond' /\ SavedIsBeyond'
<1>0. /\ on \in [Cards -> Given] /\ done \subseteq Cards /\ slot \in Cards \cup {NoCard}
      /\ pc \in Working => slot \in Cards
      /\ num \in Nat /\ None \notin Nat /\ Torn \notin Nat /\ Torn # None
  BY DEF TypeOK, Numbers, BatchAssumption
<1>1. CASE Start
  BY <1>1, <1>0 DEF NumberBeyond, SavedIsBeyond, Working, Programmed, Start, counters, program,
     files, reader, options, To
<1>2. CASE End
  BY <1>2, <1>0 DEF NumberBeyond, SavedIsBeyond, Working, Programmed, End, counters, program,
     files, reader, options, To
<1>3. CASE Fail
  BY <1>3, <1>0 DEF NumberBeyond, SavedIsBeyond, Working, Programmed, Fail, counters, program,
     files, reader, options, To
<1>4. CASE NextCard
  BY <1>4, <1>0 DEF NumberBeyond, SavedIsBeyond, Working, Programmed, NextCard, counters,
     program, files, reader, options, To
<1>5. CASE \E c \in Cards : Insert(c)
  BY <1>5, <1>0 DEF NumberBeyond, SavedIsBeyond, Working, Programmed, Insert, counters, program,
     files, reader, options, To
<1>6. CASE TakeOut
  BY <1>6, <1>0 DEF NumberBeyond, SavedIsBeyond, Working, Programmed, TakeOut, counters,
     program, files, reader, options, To
<1>7. CASE Get
  BY <1>7, <1>0 DEF NumberBeyond, SavedIsBeyond, Working, Programmed, Get, counters, program,
     files, reader, options, To
<1>8. CASE Got
  BY <1>8, <1>0 DEF NumberBeyond, SavedIsBeyond, Working, Programmed, Got, counters, program,
     files, reader, options, To
<1>9. CASE GetAuto
  BY <1>9, <1>0 DEF NumberBeyond, SavedIsBeyond, Working, Programmed, GetAuto, counters,
     program, files, reader, options, To
<1>10. CASE CardDetect
  BY <1>10, <1>0 DEF NumberBeyond, SavedIsBeyond, Working, Programmed, CardDetect, counters,
     program, files, reader, options, To
<1>11. CASE GenParameters
  BY <1>11, <1>0 DEF NumberBeyond, SavedIsBeyond, Working, Programmed, GenParameters, counters,
     program, files, reader, options, To
<1>12. CASE ReadParamsCsv
  BY <1>12, <1>0 DEF NumberBeyond, SavedIsBeyond, Working, Programmed, ReadParamsCsv, counters,
     program, files, reader, options, To
<1>13. CASE Program
  <2>1. /\ slot \in Cards /\ slot \notin done /\ cp.id = num
        /\ \A c \in done : on'[c] = on[c] /\ on[c].id < num
        /\ pc' = "error" \/ (pc' = "csv" /\ on'[slot] = cp)
        /\ UNCHANGED <<source, num, slot, cp, done, state_file>>
    BY <1>13, <1>0 DEF Program, SlotNotDone, NumberBeyond, Working, options, program, files,
       reader, To
  <2>2. pc' = "csv" => on'[slot].id = num
    BY <2>1
  <2> QED
    BY <2>1, <2>2 DEF NumberBeyond, SavedIsBeyond, Working, Programmed
<1>14. CASE WriteParamsCsv
  BY <1>14, <1>0 DEF NumberBeyond, SavedIsBeyond, Working, Programmed, WriteParamsCsv, counters,
     program, files, reader, options, To
<1>15. CASE WriteParamsHlr
  BY <1>15, <1>0 DEF NumberBeyond, SavedIsBeyond, Working, Programmed, WriteParamsHlr, counters,
     program, files, reader, options, To
<1>16. CASE Count
  BY <1>16, <1>0 DEF NumberBeyond, SavedIsBeyond, Working, Programmed, Count, counters, program,
     files, reader, options, To
<1>17. CASE Truncate
  BY <1>17, <1>0 DEF NumberBeyond, SavedIsBeyond, Working, Programmed, Truncate, counters,
     program, files, reader, options, To
<1>18. CASE Save
  BY <1>18, <1>0 DEF NumberBeyond, SavedIsBeyond, Working, Programmed, Save, counters, program,
     files, reader, options, To
<1>19. CASE Done
  BY <1>19, <1>0 DEF NumberBeyond, SavedIsBeyond, Working, Programmed, Done, counters, program,
     files, reader, options, To
<1>20. CASE UNCHANGED vars
  BY <1>20, <1>0 DEF NumberBeyond, SavedIsBeyond, Working, Programmed, vars, counters, program,
     files, reader, options, To
<1> QED
  BY <1>1, <1>2, <1>3, <1>4, <1>5, <1>6, <1>7, <1>8, <1>9, <1>10, <1>11, <1>12, <1>13, <1>14,
     <1>15, <1>16, <1>17, <1>18, <1>19, <1>20 DEF Next, ProcessCard

-----------------------------------------------------------------------------
(* The identities of a CSV file.                                           *)

LEMMA IccidsKept ==
    ASSUME BatchAssumption, CsvFits, TypeOK, SlotNotDone, IccidKept, source = "csv", [Next]_vars
    PROVE  IccidKept'
<1>0. /\ on \in [Cards -> Given] /\ done \subseteq Cards /\ slot \in Cards \cup {NoCard}
      /\ pc \in Working => slot \in Cards
  BY DEF TypeOK
<1>1. CASE Start
  BY <1>1, <1>0 DEF IccidKept, Working, Programmed, Start, counters, program, files, reader,
     options, To
<1>2. CASE End
  BY <1>2, <1>0 DEF IccidKept, Working, Programmed, End, counters, program, files, reader,
     options, To
<1>3. CASE Fail
  BY <1>3, <1>0 DEF IccidKept, Working, Programmed, Fail, counters, program, files, reader,
     options, To
<1>4. CASE NextCard
  BY <1>4, <1>0 DEF IccidKept, Working, Programmed, NextCard, counters, program, files, reader,
     options, To
<1>5. CASE \E c \in Cards : Insert(c)
  BY <1>5, <1>0 DEF IccidKept, Working, Programmed, Insert, counters, program, files, reader,
     options, To
<1>6. CASE TakeOut
  BY <1>6, <1>0 DEF IccidKept, Working, Programmed, TakeOut, counters, program, files, reader,
     options, To
<1>7. CASE Get
  BY <1>7, <1>0 DEF IccidKept, Working, Programmed, Get, counters, program, files, reader,
     options, To
<1>8. CASE Got
  BY <1>8, <1>0 DEF IccidKept, Working, Programmed, Got, counters, program, files, reader,
     options, To
<1>9. CASE GetAuto
  BY <1>9, <1>0 DEF IccidKept, Working, Programmed, GetAuto, counters, program, files, reader,
     options, To
<1>10. CASE CardDetect
  BY <1>10, <1>0 DEF IccidKept, Working, Programmed, CardDetect, counters, program, files,
     reader, options, To
<1>11. CASE GenParameters
  BY <1>11, <1>0 DEF IccidKept, Working, Programmed, GenParameters, counters, program, files,
     reader, options, To
<1>12. CASE ReadParamsCsv
  <2>1. slot \in Cards /\ Iccid[slot] # None
    BY <1>12, <1>0 DEF ReadParamsCsv, Working, CsvFits
  <2>2. pc' = "program" => cp'.id = Iccid[slot]
    BY <1>12, <2>1, RowFound DEF ReadParamsCsv, To, CsvFits
  <2>3. pc' \in {"error", "program"}
    BY <1>12 DEF ReadParamsCsv, To
  <2> QED
    BY <1>12, <1>0, <2>2, <2>3 DEF IccidKept, Working, Programmed, ReadParamsCsv, counters,
       program, files, reader, options, To
<1>13. CASE Program
  <2>1. /\ slot \in Cards /\ slot \notin done /\ cp.id = Iccid[slot]
        /\ \A c \in done : on'[c] = on[c]
        /\ pc' = "error" \/ (pc' = "csv" /\ on'[slot] = cp)
        /\ UNCHANGED <<source, slot, cp, done>>
    BY <1>13, <1>0 DEF Program, SlotNotDone, IccidKept, Working, options, program, reader, To
  <2> QED
    BY <2>1 DEF IccidKept, Working, Programmed
<1>14. CASE WriteParamsCsv
  BY <1>14, <1>0 DEF IccidKept, Working, Programmed, WriteParamsCsv, counters, program, files,
     reader, options, To
<1>15. CASE WriteParamsHlr
  BY <1>15, <1>0 DEF IccidKept, Working, Programmed, WriteParamsHlr, counters, program, files,
     reader, options, To
<1>16. CASE Count
  BY <1>16, <1>0 DEF IccidKept, Working, Programmed, Count, counters, program, files, reader,
     options, To
<1>17. CASE Truncate
  BY <1>17, <1>0 DEF IccidKept, Working, Programmed, Truncate, counters, program, files, reader,
     options, To
<1>18. CASE Save
  BY <1>18, <1>0 DEF IccidKept, Working, Programmed, Save, counters, program, files, reader,
     options, To
<1>19. CASE Done
  BY <1>19, <1>0 DEF IccidKept, Working, Programmed, Done, counters, program, files, reader,
     options, To
<1>20. CASE UNCHANGED vars
  BY <1>20, <1>0 DEF IccidKept, Working, Programmed, vars, counters, program, files, reader,
     options, To
<1> QED
  BY <1>1, <1>2, <1>3, <1>4, <1>5, <1>6, <1>7, <1>8, <1>9, <1>10, <1>11, <1>12, <1>13, <1>14,
     <1>15, <1>16, <1>17, <1>18, <1>19, <1>20 DEF Next, ProcessCard

-----------------------------------------------------------------------------
(* The theorems.                                                           *)

LEMMA SourceStays ==
    ASSUME [Next]_vars PROVE source' = source
  BY DEF Next, ProcessCard, vars, options,
         Start, End, Fail, NextCard, Insert, TakeOut, Get, Got, GetAuto, CardDetect,
         GenParameters, ReadParamsCsv, Program, WriteParamsCsv, WriteParamsHlr, Count,
         Truncate, Save, Done

LEMMA BatchInductive == Spec => []BatchInv
<1> USE BatchAssumption
<1>1. Init => BatchInv
  <2> SUFFICES ASSUME Init PROVE BatchInv
    OBVIOUS
  <2>1. TypeOK /\ NumberBehind
    BY TypesAtStart
  <2>2. SlotNotDone /\ GoodHaveKeys /\ RoundsOwn /\ NumberBeyond /\ GoodCardsRecorded /\ SavedIsBeyond
    BY DEF Init, SlotNotDone, GoodHaveKeys, RoundsOwn, NumberBeyond, GoodCardsRecorded,
           SavedIsBeyond, Working, Programmed, Recorded
  <2> QED
    BY <2>1, <2>2 DEF BatchInv
<1>2. BatchInv /\ [Next]_vars => BatchInv'
  <2> SUFFICES ASSUME BatchInv, [Next]_vars PROVE BatchInv'
    OBVIOUS
  <2> USE DEF BatchInv
  <2>1. TypeOK' /\ NumberBehind'
    BY TypesKept
  <2>2. SlotNotDone' /\ GoodHaveKeys' /\ RoundsOwn' /\ GoodCardsRecorded'
    BY CardsKept
  <2>3. NumberBeyond' /\ SavedIsBeyond'
    <3>1. CASE source = "cmdline"
      BY <3>1, NumbersKept
    <3>2. CASE source # "cmdline"
      <4>1. source' = source
        BY SourceStays
      <4> QED
        BY <4>1, <3>2 DEF NumberBeyond, SavedIsBeyond
    <3> QED
      BY <3>1, <3>2
  <2> QED
    BY <2>1, <2>2, <2>3
<1> QED
  BY <1>1, <1>2, PTL DEF Spec

\* TypeOK: what the program, the reader and the cards hold; the number is within the rounds.
THEOREM BatchTypeCorrect == Spec => []TypeOK
<1>1. BatchInv => TypeOK
  BY DEF BatchInv
<1> QED
  BY <1>1, BatchInductive, PTL

\* GoodCardsRecorded: the keys of every good card are in the CSV file, as they are on the card.
THEOREM GoodCardsAlwaysRecorded == Spec => []GoodCardsRecorded
<1>1. BatchInv => GoodCardsRecorded
  BY DEF BatchInv
<1> QED
  BY <1>1, BatchInductive, PTL

\* SavedIsBeyond: a state file that is whole is beyond every number given to a good card.
THEOREM SavedAlwaysBeyond == Spec => []SavedIsBeyond
<1>1. BatchInv => SavedIsBeyond
  BY DEF BatchInv
<1> QED
  BY <1>1, BatchInductive, PTL

\* Good cards that differ, as a step keeps it: below the number, or with their own ICCIDs.
LEMMA DifferKept ==
    ASSUME BatchAssumption, BatchInv, GoodCardsDiffer, source = "cmdline", [Next]_vars
    PROVE  GoodCardsDiffer'
<1>0. on \in [Cards -> Given] /\ done \subseteq Cards
  BY DEF BatchInv, TypeOK
<1>1. CASE Start
  BY <1>1 DEF GoodCardsDiffer, Start, counters, program, files, reader, options, To
<1>2. CASE End
  BY <1>2 DEF GoodCardsDiffer, End, counters, program, files, reader, options, To
<1>3. CASE Fail
  BY <1>3 DEF GoodCardsDiffer, Fail, counters, program, files, reader, options, To
<1>4. CASE NextCard
  BY <1>4 DEF GoodCardsDiffer, NextCard, counters, program, files, reader, options, To
<1>5. CASE \E c \in Cards : Insert(c)
  BY <1>5 DEF GoodCardsDiffer, Insert, counters, program, files, reader, options, To
<1>6. CASE TakeOut
  BY <1>6 DEF GoodCardsDiffer, TakeOut, counters, program, files, reader, options, To
<1>7. CASE Get
  BY <1>7 DEF GoodCardsDiffer, Get, counters, program, files, reader, options, To
<1>8. CASE Got
  BY <1>8 DEF GoodCardsDiffer, Got, counters, program, files, reader, options, To
<1>9. CASE GetAuto
  BY <1>9 DEF GoodCardsDiffer, GetAuto, counters, program, files, reader, options, To
<1>10. CASE CardDetect
  BY <1>10 DEF GoodCardsDiffer, CardDetect, counters, program, files, reader, options, To
<1>11. CASE GenParameters
  BY <1>11 DEF GoodCardsDiffer, GenParameters, counters, program, files, reader, options, To
<1>12. CASE ReadParamsCsv
  BY <1>12 DEF GoodCardsDiffer, ReadParamsCsv, counters, program, files, reader, options, To
<1>13. CASE Program
  <2>1. slot \notin done /\ done' = done /\ \A c \in done : on'[c] = on[c]
    BY <1>13, <1>0 DEF Program, BatchInv, SlotNotDone, Working
  <2> QED
    BY <2>1 DEF GoodCardsDiffer
<1>14. CASE WriteParamsCsv
  BY <1>14 DEF GoodCardsDiffer, WriteParamsCsv, counters, program, files, reader, options, To
<1>15. CASE WriteParamsHlr
  BY <1>15 DEF GoodCardsDiffer, WriteParamsHlr, counters, program, files, reader, options, To
<1>16. CASE Count
  BY <1>16 DEF GoodCardsDiffer, Count, counters, program, files, reader, options, To
<1>17. CASE Truncate
  BY <1>17 DEF GoodCardsDiffer, Truncate, counters, program, files, reader, options, To
<1>18. CASE Save
  BY <1>18 DEF GoodCardsDiffer, Save, counters, program, files, reader, options, To
<1>19. CASE Done
  <2>1. /\ done' = done \cup {slot} /\ on' = on
        /\ on[slot].id \in Nat /\ \A c \in done : on[c].id \in Nat /\ on[c].id < on[slot].id
    BY <1>19 DEF Done, BatchInv, NumberBeyond, Programmed
  <2>2. \A c \in done : on[c].id # on[slot].id
    BY <2>1
  <2> QED
    BY <2>1, <2>2 DEF GoodCardsDiffer
<1>20. CASE UNCHANGED vars
  BY <1>20 DEF GoodCardsDiffer, vars, counters, program, files, reader, options, To
<1> QED
  BY <1>1, <1>2, <1>3, <1>4, <1>5, <1>6, <1>7, <1>8, <1>9, <1>10, <1>11, <1>12, <1>13, <1>14,
     <1>15, <1>16, <1>17, <1>18, <1>19, <1>20 DEF Next, ProcessCard

\* GoodCardsDiffer: no two good cards have one identity, whatever rounds failed and however often
\* the program was started: of generated parameters, and of a CSV file that fits the cards.
THEOREM GoodCardsAlwaysDiffer ==
    ASSUME "csv" \in Sources => CsvFits PROVE Spec => []GoodCardsDiffer
<1> USE BatchAssumption
<1> DEFINE Differ == IccidKept /\ (source = "cmdline" => GoodCardsDiffer)
<1>1. Init => Differ
  BY DEF Init, IccidKept, GoodCardsDiffer, Programmed
<1>2. BatchInv /\ Differ /\ [Next]_vars => Differ'
  <2> SUFFICES ASSUME BatchInv, Differ, [Next]_vars PROVE Differ'
    OBVIOUS
  <2>1. source' = source
    BY SourceStays
  <2>2. IccidKept'
    <3>1. CASE source = "csv"
      BY <3>1, IccidsKept DEF BatchInv, TypeOK
    <3>2. CASE source # "csv"
      BY <2>1, <3>2 DEF IccidKept
    <3> QED
      BY <3>1, <3>2
  <2>3. (source = "cmdline" => GoodCardsDiffer)'
    BY <2>1, DifferKept
  <2> QED
    BY <2>2, <2>3
<1>3. BatchInv /\ Differ => GoodCardsDiffer
  <2> SUFFICES ASSUME BatchInv, Differ PROVE GoodCardsDiffer
    OBVIOUS
  <2>1. source \in {"cmdline", "csv"} /\ done \subseteq Cards
    BY DEF BatchInv, TypeOK, BatchAssumption
  <2>2. CASE source = "csv"
    BY <2>1, <2>2 DEF BatchInv, TypeOK, IccidKept, GoodCardsDiffer, CsvFits
  <2> QED
    BY <2>1, <2>2
<1> HIDE DEF Differ
<1> QED
  BY <1>1, <1>2, <1>3, BatchInductive, PTL DEF Spec

-----------------------------------------------------------------------------
(***************************************************************************)
(* The profile element sequence.                                           *)
(***************************************************************************)

(* Lists of those of a list that are in a set.                             *)

\* k leads from each place of only to its place among the first n of the list, in order.
Picked(k, n, list, set, only) ==
    /\ k \in [1..Len(only) -> 1..n]
    /\ \A a, b \in 1..Len(only) : a < b => k[a] < k[b]
    /\ \A a \in 1..Len(only) : only[a] = list[k[a]] /\ only[a] \in set
    /\ \A i \in 1..n : list[i] \in set => \E a \in 1..Len(only) : k[a] = i

Perhaps(x, set) == IF x \in set THEN <<x>> ELSE << >>

\* A list made element by element: h[n] is what the first n have made of it.
Grown(h, list, set) ==
    /\ h[0] = << >>
    /\ \A n \in 1..Len(list) : h[n] = h[n - 1] \o Perhaps(list[n], set)

LEMMA GrownOne ==
    ASSUME NEW X, NEW list \in Seq(X), NEW set
    PROVE  \E h \in [0..Len(list) -> Seq(X)] : Grown(h, list, set)
<1> DEFINE m == Len(list)
           One(i) == Perhaps(list[i], set)
           Goes(k, h) == h[0] = << >> /\ \A i \in 1..k : h[i] = h[i - 1] \o One(i)
           Bad == {k \in 0..m : \A h \in [0..k -> Seq(X)] : ~Goes(k, h)}
<1>0. m \in Nat /\ \A i \in 1..m : One(i) \in Seq(X)
  <2>1. ASSUME NEW i \in 1..m PROVE One(i) \in Seq(X)
    <3>1. list[i] \in X
      OBVIOUS
    <3>2. <<list[i]>> \in Seq(X) /\ << >> \in Seq(X)
      BY <3>1
    <3> QED
      BY <3>2 DEF Perhaps
  <2> QED
    BY <2>1
<1>1. SUFFICES ASSUME m \in Bad PROVE FALSE
  <2>1. m \in 0..m
    BY <1>0
  <2>2. PICK h \in [0..m -> Seq(X)] : Goes(m, h)
    BY <2>1
  <2> QED
    BY <2>2 DEF Grown
<1> HIDE DEF One, m
<1>2. Bad \in SUBSET Nat /\ Bad # {}
  <2>1. 0..m \in SUBSET Nat
    BY <1>0
  <2> HIDE DEF Goes
  <2>2. Bad \subseteq 0..m
    OBVIOUS
  <2> QED
    BY <1>1, <2>1, <2>2
<1>3. PICK k \in Bad : \A j \in Bad : k <= j
  <2> HIDE DEF Bad
  <2> QED
    BY <1>2, LeastNumber
<1>4. k # 0
  <2> SUFFICES ASSUME k = 0 PROVE FALSE
    OBVIOUS
  <2> DEFINE h == [i \in 0..0 |-> << >>]
  <2>1. h \in [0..k -> Seq(X)] /\ Goes(k, h)
    OBVIOUS
  <2> QED
    BY <2>1
<1>5. k \in 1..m /\ k - 1 \in 0..m /\ ~(k <= k - 1)
  BY <1>0, <1>4
<1>6. k - 1 \notin Bad
  <2> HIDE DEF Bad
  <2> QED
    BY <1>3, <1>5
<1>7. PICK g \in [0..(k - 1) -> Seq(X)] : Goes(k - 1, g)
  BY <1>5, <1>6
<1> DEFINE h == [i \in 0..k |-> IF i = k THEN g[k - 1] \o One(k) ELSE g[i]]
<1>8. g[k - 1] \in Seq(X) /\ One(k) \in Seq(X)
  BY <1>0, <1>5, <1>7
<1>9. h \in [0..k -> Seq(X)]
  BY <1>5, <1>7, <1>8
<1>10. Goes(k, h)
  <2>1. h[0] = << >>
    BY <1>5, <1>7
  <2>2. ASSUME NEW i \in 1..k PROVE h[i] = h[i - 1] \o One(i)
    <3>1. i - 1 \in 0..(k - 1) /\ i - 1 # k /\ i - 1 \in 0..k /\ i \in 0..k
      BY <1>0, <1>5
    <3>2. h[i - 1] = g[i - 1]
      BY <3>1
    <3>3. CASE i = k
      BY <3>1, <3>2, <3>3
    <3>4. CASE i # k
      <4>1. i \in 1..(k - 1)
        BY <1>0, <1>5, <3>4
      <4>2. g[i] = g[i - 1] \o One(i)
        BY <1>7, <4>1
      <4> QED
        BY <3>1, <3>2, <3>4, <4>2
    <3> QED
      BY <3>3, <3>4
  <2> QED
    BY <2>1, <2>2
<1> QED
  BY <1>3, <1>9, <1>10

\* What has grown is, after n elements, picked from these.
LEMMA GrownPicks ==
    ASSUME NEW X, NEW list \in Seq(X), NEW set,
           NEW h \in [0..Len(list) -> Seq(X)], Grown(h, list, set), NEW n \in 0..Len(list)
    PROVE  \E k : Picked(k, n, list, set, h[n])
<1> DEFINE m == Len(list)
           Good(i) == \E k : Picked(k, i, list, set, h[i])
           Bad == {i \in 0..m : ~Good(i)}
<1>0. m \in Nat
  OBVIOUS
<1>1. SUFFICES ASSUME n \in Bad PROVE FALSE
  OBVIOUS
<1> HIDE DEF m
<1>2. Bad \in SUBSET Nat /\ Bad # {}
  BY <1>0, <1>1
<1>3. PICK i \in Bad : \A j \in Bad : i <= j
  <2> HIDE DEF Bad
  <2> QED
    BY <1>2, LeastNumber
<1>4. i # 0
  <2>1. h[0] = << >>
    BY DEF Grown
  <2>2. Picked([a \in {} |-> 0], 0, list, set, << >>)
    BY DEF Picked
  <2> QED
    BY <2>1, <2>2
<1>5. i \in 1..m /\ i - 1 \in 0..m /\ ~(i <= i - 1)
  BY <1>0, <1>4
<1>6. i - 1 \notin Bad
  <2> HIDE DEF Bad
  <2> QED
    BY <1>3, <1>5
<1>7. PICK k : Picked(k, i - 1, list, set, h[i - 1])
  BY <1>5, <1>6
<1> DEFINE s == h[i - 1]
           l == Len(s)
<1>8. s \in Seq(X) /\ l \in Nat /\ list[i] \in X
  BY <1>5 DEF m
<1>9. h[i] = s \o Perhaps(list[i], set)
  BY <1>5 DEF Grown, m
<1> HIDE DEF s
<1>10. CASE list[i] \notin set
  <2>1. h[i] = s
    BY <1>8, <1>9, <1>10 DEF Perhaps
  <2>2. Picked(k, i, list, set, s)
    BY <1>0, <1>5, <1>7, <1>8, <1>10 DEF Picked, s
  <2> QED
    BY <2>1, <2>2
<1>11. CASE list[i] \in set
  <2>1. h[i] = Append(s, list[i])
    BY <1>8, <1>9, <1>11 DEF Perhaps
  <2> DEFINE t == Append(s, list[i])
             q == [a \in 1..(l + 1) |-> IF a = l + 1 THEN i ELSE k[a]]
  <2>2. Len(t) = l + 1 /\ t[l + 1] = list[i] /\ \A a \in 1..l : t[a] = s[a]
    BY <1>8
  <2>3. k \in [1..l -> 1..(i - 1)]
    BY <1>7 DEF Picked, s
  <2>4. /\ \A a, b \in 1..l : a < b => k[a] < k[b]
        /\ \A a \in 1..l : s[a] = list[k[a]] /\ s[a] \in set
        /\ \A j \in 1..(i - 1) : list[j] \in set => \E a \in 1..l : k[a] = j
    BY <1>7 DEF Picked, s
  <2> HIDE DEF t, l
  <2>5. q \in [1..(l + 1) -> 1..i]
    BY <1>0, <1>5, <1>8, <2>3
  <2>6. ASSUME NEW a \in 1..(l + 1), NEW b \in 1..(l + 1), a < b PROVE q[a] < q[b]
    BY <1>0, <1>5, <1>8, <2>3, <2>4, <2>6
  <2>7. ASSUME NEW a \in 1..(l + 1) PROVE t[a] = list[q[a]] /\ t[a] \in set
    <3>1. CASE a = l + 1
      <4>1. q[a] = i
        BY <3>1
      <4> QED
        BY <1>11, <2>2, <3>1, <4>1
    <3>2. CASE a # l + 1
      <4>1. a \in 1..l /\ q[a] = k[a]
        BY <1>8, <3>2
      <4> QED
        BY <2>2, <2>4, <4>1
    <3> QED
      BY <3>1, <3>2
  <2>8. ASSUME NEW j \in 1..i, list[j] \in set PROVE \E a \in 1..(l + 1) : q[a] = j
    <3>1. CASE j = i
      BY <1>8, <3>1
    <3>2. CASE j # i
      <4>1. j \in 1..(i - 1)
        BY <1>0, <1>5, <3>2
      <4>2. PICK a \in 1..l : k[a] = j
        BY <2>4, <2>8, <4>1
      <4>3. a \in 1..(l + 1) /\ a # l + 1
        BY <1>8
      <4> QED
        BY <4>2, <4>3
    <3> QED
      BY <3>1, <3>2
  <2> HIDE DEF q
  <2>9. Picked(q, i, list, set, t)
    BY <2>2, <2>5, <2>6, <2>7, <2>8 DEF Picked
  <2> QED
    BY <2>1, <2>9 DEF t
<1> QED
  BY <1>10, <1>11

LEMMA OnlyIs ==
    ASSUME NEW X, NEW list \in Seq(X), NEW set
    PROVE  /\ Only(list, set) \in Seq(X)
           /\ \E k : Picked(k, Len(list), list, set, Only(list, set))
<1> DEFINE m == Len(list)
           One(i) == Perhaps(list[i], set)
           kept == CHOOSE f : f = [n \in 0..m |-> IF n = 0 THEN << >> ELSE f[n - 1] \o One(n)]
<1>1. PICK h \in [0..m -> Seq(X)] : Grown(h, list, set)
  BY GrownOne
<1>2. m \in Nat /\ h[0] = << >> /\ \A n \in 1..m : h[n] = h[n - 1] \o One(n)
  <2>1. m \in Nat
    OBVIOUS
  <2>2. Grown(h, list, set)
    BY <1>1
  <2> QED
    BY <2>1, <2>2 DEF Grown
<1>3. Only(list, set) = kept[m]
  BY DEF Only, Perhaps
<1> HIDE DEF m, One
<1>4. h = [n \in 0..m |-> IF n = 0 THEN << >> ELSE h[n - 1] \o One(n)]
  <2>1. ASSUME NEW n \in 0..m PROVE h[n] = IF n = 0 THEN << >> ELSE h[n - 1] \o One(n)
    <3>1. n = 0 \/ n \in 1..m
      BY <1>2
    <3> QED
      BY <1>2, <3>1
  <2> QED
    BY <1>1, <2>1
<1>5. kept = [n \in 0..m |-> IF n = 0 THEN << >> ELSE kept[n - 1] \o One(n)]
  BY <1>4
<1> HIDE DEF kept
<1>6. kept \in [0..m -> Seq(X)] /\ Grown(kept, list, set)
  <2> DEFINE Wrong == {n \in 0..m : kept[n] # h[n]}
  <2>1. Wrong = {}
    <3> SUFFICES ASSUME Wrong # {} PROVE FALSE
      OBVIOUS
    <3>1. Wrong \in SUBSET Nat
      BY <1>2
    <3>2. PICK n \in Wrong : \A j \in Wrong : n <= j
      <4> HIDE DEF Wrong
      <4> QED
        BY <3>1, LeastNumber
    <3>3. n \in 0..m /\ n \in 1..m /\ n - 1 \in 0..m /\ ~(n <= n - 1)
      BY <1>2, <1>5, <3>2
    <3>4. kept[n - 1] = h[n - 1]
      BY <3>2, <3>3
    <3>5. kept[n] = kept[n - 1] \o One(n)
      <4>1. kept[n] = IF n = 0 THEN << >> ELSE kept[n - 1] \o One(n)
        <5> HIDE DEF Wrong
        <5> QED
          BY <1>5, <3>3
      <4>2. n # 0
        BY <1>2, <3>3
      <4> QED
        BY <4>1, <4>2
    <3>6. h[n] = h[n - 1] \o One(n)
      BY <1>2, <3>3
    <3> QED
      BY <3>2, <3>4, <3>5, <3>6
  <2>2. \A n \in 0..m : kept[n] = h[n]
    BY <2>1
  <2>3. kept = h
    BY <1>1, <1>5, <2>2
  <2> QED
    BY <1>1, <2>3
<1>7. m \in 0..m
  BY <1>2
<1>8. \E k : Picked(k, m, list, set, kept[m])
  BY <1>6, <1>7, GrownPicks DEF m
<1> QED
  BY <1>3, <1>6, <1>7, <1>8 DEF m

\* As a set; and a list without repetitions stays one.
LEMMA OnlyHolds ==
    ASSUME NEW X, NEW list \in Seq(X), NEW set
    PROVE  /\ Only(list, set) \in Seq(X)
           /\ ToSet(Only(list, set)) = ToSet(list) \cap set
           /\ Distinct(list) => Distinct(Only(list, set))
<1> DEFINE o == Only(list, set)
<1>1. PICK k : Picked(k, Len(list), list, set, o)
  BY OnlyIs
<1>2. o \in Seq(X) /\ DOMAIN list = 1..Len(list) /\ DOMAIN o = 1..Len(o)
  BY OnlyIs
<1> HIDE DEF o
<1>3. ToSet(o) = ToSet(list) \cap set
  BY <1>1, <1>2 DEF Picked, ToSet
<1>4. ASSUME Distinct(list), NEW a \in DOMAIN o, NEW b \in DOMAIN o, o[a] = o[b] PROVE a = b
  <2>1. k[a] = k[b]
    BY <1>1, <1>2, <1>4 DEF Picked, Distinct
  <2>2. a \in Nat /\ b \in Nat /\ k[a] \in Nat /\ (a < b => k[a] < k[b]) /\ (b < a => k[b] < k[a])
    BY <1>1, <1>2 DEF Picked
  <2> QED
    BY <2>1, <2>2
<1> QED
  BY <1>2, <1>3, <1>4 DEF o, Distinct

\* A list without repetitions is not longer than there are PEs.
LEMMA DistinctBounded ==
    ASSUME NEW list \in Seq(PE), Distinct(list)
    PROVE  Len(list) \in 0..Cardinality(PE)
<1> DEFINE m == Len(list)
<1>1. m \in Nat /\ list \in [1..m -> PE] /\ DOMAIN list = 1..m
  OBVIOUS
<1>2. list \in Injection(1..m, PE)
  BY <1>1 DEF Distinct, Injection, IsInjective
<1>3. IsFiniteSet(PE)
  BY ElementsAssumption
<1>4. IsFiniteSet(1..m) /\ Cardinality(1..m) = m
  BY <1>1, FS_Interval
<1> HIDE DEF m
<1>5. Cardinality(1..m) <= Cardinality(PE) /\ Cardinality(PE) \in Nat
  BY <1>2, <1>3, FS_Injection, FS_CardinalityType
<1> QED
  BY <1>1, <1>4, <1>5 DEF m

LEMMA JoinLen ==
    ASSUME NEW X, NEW s \in Seq(X), NEW t \in Seq(X)
    PROVE  s \o t \in Seq(X) /\ Len(s \o t) = Len(s) + Len(t)
OBVIOUS

LEMMA JoinAt ==
    ASSUME NEW X, NEW s \in Seq(X), NEW t \in Seq(X), NEW j \in 1..(Len(s) + Len(t))
    PROVE  (s \o t)[j] = IF j <= Len(s) THEN s[j] ELSE t[j - Len(s)]
OBVIOUS

LEMMA InsertedIs ==
    ASSUME NEW list \in Seq(PE), NEW i \in 1..(Len(list) + 1), NEW pe \in PE
    PROVE  LET l == InsertAt(list, i, pe)
           IN  /\ l \in Seq(PE) /\ Len(l) = Len(list) + 1
               /\ \A j \in 1..(Len(list) + 1) :
                    l[j] = IF j < i THEN list[j] ELSE IF j = i THEN pe ELSE list[j - 1]
<1> DEFINE m == Len(list)
           a == SubSeq(list, 1, i - 1)
           b == SubSeq(list, i, m)
<1>1. m \in Nat /\ i \in Nat
  OBVIOUS
<1>2. a \in Seq(PE) /\ Len(a) = i - 1 /\ \A j \in 1..(i - 1) : a[j] = list[j]
  OBVIOUS
<1>3. b \in Seq(PE) /\ Len(b) = m - i + 1 /\ \A j \in 1..(m - i + 1) : b[j] = list[i + j - 1]
  OBVIOUS
<1>4. InsertAt(list, i, pe) = a \o <<pe>> \o b
  BY DEF InsertAt
<1> HIDE DEF a, b, m
<1> DEFINE c == a \o <<pe>>
<1>5. c \in Seq(PE) /\ Len(c) = i /\ c[i] = pe /\ \A j \in 1..(i - 1) : c[j] = list[j]
  BY <1>1, <1>2
<1> HIDE DEF c
<1> DEFINE l == c \o b
<1>6. l \in Seq(PE) /\ Len(l) = m + 1
  <2>1. l \in Seq(PE) /\ Len(l) = Len(c) + Len(b)
    BY <1>3, <1>5, JoinLen
  <2> QED
    BY <1>1, <1>3, <1>5, <2>1
<1>7. ASSUME NEW j \in 1..(m + 1)
      PROVE  l[j] = IF j < i THEN list[j] ELSE IF j = i THEN pe ELSE list[j - 1]
  <2>1. CASE j <= i
    <3>1. l[j] = c[j]
      <4>1. j \in 1..(Len(c) + Len(b)) /\ j <= Len(c)
        BY <1>1, <1>3, <1>5, <2>1
      <4> QED
        BY <1>3, <1>5, <4>1, JoinAt
    <3> QED
      BY <1>1, <1>5, <2>1, <3>1
  <2>2. CASE j > i
    <3>1. l[j] = b[j - i]
      <4>1. j \in 1..(Len(c) + Len(b)) /\ ~(j <= Len(c))
        BY <1>1, <1>3, <1>5, <2>2
      <4> QED
        BY <1>3, <1>5, <4>1, JoinAt
    <3>2. j - i \in 1..(m - i + 1) /\ i + (j - i) - 1 = j - 1
      BY <1>1, <2>2 DEF m
    <3> QED
      BY <1>1, <1>3, <2>2, <3>1, <3>2
  <2>3. j <= i \/ j > i
    BY <1>1
  <2> HIDE DEF l
  <2> QED
    BY <2>1, <2>2, <2>3
<1> QED
  BY <1>4, <1>6, <1>7 DEF c, m

LEMMA InsertedHolds ==
    ASSUME NEW list \in Seq(PE), NEW i \in 1..(Len(list) + 1), NEW pe \in PE
    PROVE  LET l == InsertAt(list, i, pe)
           IN  /\ l \in Seq(PE)
               /\ ToSet(l) = ToSet(list) \cup {pe}
               /\ Distinct(list) /\ pe \notin ToSet(list) => Distinct(l)
<1> DEFINE m == Len(list)
           l == InsertAt(list, i, pe)
<1>1. l \in Seq(PE) /\ DOMAIN l = 1..(m + 1) /\ DOMAIN list = 1..m /\ m \in Nat /\ i \in Nat
  BY InsertedIs
<1>2. \A j \in 1..(m + 1) : l[j] = IF j < i THEN list[j] ELSE IF j = i THEN pe ELSE list[j - 1]
  BY InsertedIs
<1>3. i \in 1..(m + 1)
  OBVIOUS
<1> HIDE DEF l, m
<1>4. ToSet(l) = ToSet(list) \cup {pe}
  <2>1. ASSUME NEW j \in 1..(m + 1) PROVE l[j] \in ToSet(list) \cup {pe}
    BY <1>1, <1>2, <1>3 DEF ToSet
  <2>2. ASSUME NEW j \in 1..m PROVE list[j] \in ToSet(l)
    <3>1. CASE j < i
      <4>1. j \in 1..(m + 1) /\ l[j] = list[j]
        BY <1>1, <1>2, <3>1
      <4> QED
        BY <1>1, <4>1 DEF ToSet
    <3>2. CASE ~(j < i)
      <4>1. j + 1 \in 1..(m + 1) /\ j + 1 - 1 = j /\ l[j + 1] = list[j]
        BY <1>1, <1>2, <3>2
      <4> QED
        BY <1>1, <4>1 DEF ToSet
    <3> QED
      BY <3>1, <3>2
  <2>3. pe \in ToSet(l)
    BY <1>1, <1>2, <1>3 DEF ToSet
  <2> QED
    BY <1>1, <2>1, <2>2, <2>3 DEF ToSet
<1>5. ASSUME Distinct(list), pe \notin ToSet(list), NEW a \in 1..(m + 1), NEW b \in 1..(m + 1), l[a] = l[b]
      PROVE  a = b
  <2> DEFINE old(j) == IF j < i THEN j ELSE j - 1
  <2>1. \A j \in 1..(m + 1) : j # i => old(j) \in 1..m /\ l[j] = list[old(j)]
    BY <1>1, <1>2, <1>3
  <2>2. \A j \in 1..m : list[j] # pe
    BY <1>1, <1>5 DEF ToSet
  <2>3. l[i] = pe
    BY <1>1, <1>2, <1>3
  <2>4. CASE a = i \/ b = i
    <3> HIDE DEF old
    <3> QED
      BY <1>5, <2>1, <2>2, <2>3, <2>4
  <2>5. CASE a # i /\ b # i
    <3>1. old(a) = old(b)
      <4> HIDE DEF old
      <4> QED
        BY <1>1, <1>5, <2>1, <2>5 DEF Distinct
    <3> QED
      BY <1>1, <2>5, <3>1
  <2> QED
    BY <2>4, <2>5
<1> QED
  BY <1>1, <1>4, <1>5 DEF l, Distinct

-----------------------------------------------------------------------------
(* The instances of an NAA.                                                *)

LEMMA LeastIsMin ==
    ASSUME NEW T \in SUBSET Nat, T # {}
    PROVE  Min(T) \in T /\ \A j \in T : Min(T) <= j
BY LeastNumber DEF Min

Instance == Seq(PE) \ {<< >>}
Heads == Naa \cup {"mf"}

\* The PEs that may be in an instance, where those are that begin one, and where the next begins.
Related(list) == Only(list, naa_related)
Starts(list) == {i \in DOMAIN Related(list) : type[Related(list)[i]] \in Heads}
NextStart(list, i) == Min({j \in Starts(list) : j > i} \cup {Len(Related(list)) + 1})
Mine(list, naa) ==
    Only([i \in DOMAIN Related(list) |-> i], {i \in Starts(list) : type[Related(list)[i]] = naa})

LEMMA InstancesAre ==
    ASSUME NEW list, NEW naa
    PROVE  Instances(list, naa) =
             [n \in DOMAIN Mine(list, naa) |->
                SubSeq(Related(list), Mine(list, naa)[n], NextStart(list, Mine(list, naa)[n]) - 1)]
BY DEF Instances, Mine, NextStart, Starts, Related, Heads

LEMMA StartsKnown ==
    ASSUME NEW list \in Seq(PE), NEW i \in Starts(list)
    PROVE  /\ Related(list) \in Seq(PE) /\ i \in 1..Len(Related(list))
           /\ NextStart(list, i) \in (i + 1)..(Len(Related(list)) + 1)
           /\ \A j \in Starts(list) : j > i => NextStart(list, i) <= j
<1> DEFINE r == Len(Related(list))
           T == {j \in Starts(list) : j > i} \cup {r + 1}
<1>1. Related(list) \in Seq(PE) /\ DOMAIN Related(list) = 1..r /\ r \in Nat
  BY OnlyHolds DEF Related
<1> HIDE DEF r
<1>2. Starts(list) \subseteq 1..r
  BY <1>1 DEF Starts
<1>3. T \in SUBSET ((i + 1)..(r + 1)) /\ T # {}
  BY <1>1, <1>2
<1>4. Min(T) \in T /\ \A j \in T : Min(T) <= j
  <2>1. i \in Nat
    BY <1>1, <1>2
  <2>2. T \in SUBSET Nat
    BY <1>1, <1>3, <2>1
  <2> HIDE DEF T
  <2> QED
    BY <1>3, <2>2, LeastIsMin
<1>5. NextStart(list, i) = Min(T)
  BY DEF NextStart, r
<1>6. \A j \in Starts(list) : j > i => j \in T
  OBVIOUS
<1> HIDE DEF T
<1> QED
  BY <1>1, <1>2, <1>3, <1>4, <1>5, <1>6 DEF r

LEMMA MineKnown ==
    ASSUME NEW list \in Seq(PE), NEW naa
    PROVE  /\ DOMAIN Mine(list, naa) = 1..Len(Mine(list, naa)) /\ Len(Mine(list, naa)) \in Nat
           /\ ToSet(Mine(list, naa)) = {i \in Starts(list) : type[Related(list)[i]] = naa}
<1> DEFINE r == Len(Related(list))
           all == [i \in 1..r |-> i]
           T == {i \in Starts(list) : type[Related(list)[i]] = naa}
<1>1. DOMAIN Related(list) = 1..r /\ r \in Nat
  BY OnlyHolds DEF Related
<1>2. Mine(list, naa) = Only(all, T)
  BY <1>1 DEF Mine
<1>3. all \in Seq(Nat) /\ ToSet(all) = 1..r
  <2>1. \A i \in 1..r : i \in Nat
    BY <1>1
  <2> HIDE DEF r
  <2>2. all \in Seq(Nat) /\ DOMAIN all = 1..r
    BY <1>1, <2>1
  <2> QED
    BY <2>2 DEF ToSet
<1>4. T \subseteq 1..r
  BY <1>1 DEF Starts
<1> HIDE DEF all, T, r
<1> DEFINE o == Only(all, T)
<1>5. o \in Seq(Nat) /\ ToSet(o) = ToSet(all) \cap T
  BY <1>3, OnlyHolds
<1> HIDE DEF o
<1>6. ToSet(o) = T
  <2>1. ToSet(all) = 1..r
    BY <1>3
  <2> QED
    BY <1>4, <1>5, <2>1
<1>7. DOMAIN o = 1..Len(o) /\ Len(o) \in Nat
  BY <1>5
<1> QED
  BY <1>2, <1>6, <1>7 DEF T, o

\* An instance is a list of PEs of which the first is of the NAA.
LEMMA InstanceHeaded ==
    ASSUME NEW list \in Seq(PE), NEW i \in Starts(list),
           NEW inst, inst = SubSeq(Related(list), i, NextStart(list, i) - 1)
    PROVE  /\ inst \in Instance /\ Head(inst) = Related(list)[i]
           /\ \A j \in i..(NextStart(list, i) - 1) : Related(list)[j] \in ToSet(inst)
<1> DEFINE rel == Related(list)
           nxt == NextStart(list, i)
<1>1. rel \in Seq(PE) /\ i \in 1..Len(rel) /\ nxt \in (i + 1)..(Len(rel) + 1)
  BY StartsKnown
<1> HIDE DEF rel, nxt
<1> DEFINE s == SubSeq(rel, i, nxt - 1)
<1>2. /\ s \in Seq(PE) /\ Len(s) = nxt - i /\ s[1] = rel[i]
      /\ \A j \in 1..(nxt - i) : s[j] = rel[i + j - 1]
  BY <1>1
<1>3. inst = s
  BY DEF rel, nxt
<1> HIDE DEF s
<1>4. s # << >> /\ Head(s) = rel[i]
  BY <1>1, <1>2
<1>5. ASSUME NEW j \in i..(nxt - 1) PROVE rel[j] \in ToSet(s)
  <2>1. j - i + 1 \in 1..(nxt - i) /\ i + (j - i + 1) - 1 = j
    BY <1>1
  <2>2. s[j - i + 1] = rel[j]
    BY <1>2, <2>1
  <2>3. DOMAIN s = 1..(nxt - i)
    BY <1>2
  <2> QED
    BY <2>1, <2>2, <2>3 DEF ToSet
<1> QED
  BY <1>2, <1>3, <1>4, <1>5 DEF Instance, rel, nxt

LEMMA InstancesTyped ==
    ASSUME NEW list \in Seq(PE), NEW naa
    PROVE  Instances(list, naa) \in Seq(Instance)
<1> DEFINE m == Len(Mine(list, naa))
           One(n) == SubSeq(Related(list), Mine(list, naa)[n], NextStart(list, Mine(list, naa)[n]) - 1)
<1>1. DOMAIN Mine(list, naa) = 1..m /\ m \in Nat
  BY MineKnown
<1>2. ASSUME NEW n \in 1..m PROVE One(n) \in Instance
  <2>1. Mine(list, naa)[n] \in Starts(list)
    BY <1>1, MineKnown DEF ToSet
  <2> QED
    BY <2>1, InstanceHeaded
<1>3. Instances(list, naa) = [n \in 1..m |-> One(n)]
  BY <1>1, InstancesAre
<1> HIDE DEF m, One
<1> QED
  BY <1>1, <1>2, <1>3

\* A PE that begins an instance, and one that follows it before the next begins.
Belongs(list, i, j) ==
    /\ i \in DOMAIN list /\ j \in DOMAIN list /\ i <= j
    /\ type[list[i]] \in Heads /\ type[list[j]] \notin petype_not_naa_related
    /\ \A m \in (i + 1)..j : type[list[m]] \notin Heads

LEMMA InstanceFound ==
    ASSUME NEW list \in Seq(PE), NEW i, NEW j, Belongs(list, i, j)
    PROVE  \E inst \in ToSet(Instances(list, type[list[i]])) :
             Head(inst) = list[i] /\ list[j] \in ToSet(inst)
<1> DEFINE rel == Related(list)
           r == Len(rel)
           naa == type[list[i]]
<1>1. PICK k : Picked(k, Len(list), list, naa_related, rel)
  BY OnlyIs DEF Related
<1>2. rel \in Seq(PE) /\ DOMAIN rel = 1..r /\ r \in Nat
  BY OnlyIs DEF Related
<1>3. i \in 1..Len(list) /\ j \in 1..Len(list) /\ list[i] \in PE /\ list[j] \in PE /\ i <= j
  BY DEF Belongs
<1>4. list[i] \in naa_related /\ list[j] \in naa_related
  BY <1>3 DEF Belongs, naa_related, Heads, Naa, petype_not_naa_related
<1> HIDE DEF rel, r
<1>5. PICK a \in 1..r : k[a] = i
  BY <1>1, <1>3, <1>4 DEF Picked, r
<1>6. PICK b \in 1..r : k[b] = j
  BY <1>1, <1>3, <1>4 DEF Picked, r
<1>7. a <= b
  <2>1. ~(b < a)
    BY <1>1, <1>2, <1>3, <1>5, <1>6 DEF Picked, r
  <2> QED
    BY <1>2, <2>1
<1>8. rel[a] = list[i] /\ rel[b] = list[j]
  BY <1>1, <1>5, <1>6 DEF Picked, r
<1>9. a \in Starts(list)
  BY <1>2, <1>5, <1>8 DEF Starts, Belongs, rel
<1> DEFINE nxt == NextStart(list, a)
<1>10. nxt \in (a + 1)..(r + 1) /\ (nxt \in Starts(list) \/ nxt = r + 1)
  <2> DEFINE T == {c \in Starts(list) : c > a} \cup {r + 1}
  <2>1. nxt = Min(T)
    BY DEF NextStart, r, rel
  <2>2. T \in SUBSET Nat /\ T # {}
    BY <1>2 DEF Starts, rel
  <2>3. Min(T) \in T
    <3> HIDE DEF T
    <3> QED
      BY <2>2, LeastIsMin
  <2>4. nxt \in (a + 1)..(r + 1)
    BY <1>9, StartsKnown DEF r, rel
  <2> QED
    BY <2>1, <2>3, <2>4
<1> HIDE DEF nxt
<1>11. b < nxt
  <2> SUFFICES ASSUME nxt <= b PROVE FALSE
    BY <1>2, <1>10
  <2>1. nxt \in Starts(list) /\ nxt \in 1..r /\ a < nxt
    BY <1>2, <1>10
  <2>2. k[a] < k[nxt] /\ k[nxt] <= k[b] /\ k[nxt] \in 1..Len(list)
    <3>1. nxt = b \/ nxt < b
      BY <1>2, <2>1
    <3>2. k \in [1..r -> 1..Len(list)] /\ \A c, d \in 1..r : c < d => k[c] < k[d]
      BY <1>1 DEF Picked, r
    <3> QED
      BY <1>2, <2>1, <3>1, <3>2
  <2>3. k[nxt] \in (i + 1)..j
    BY <1>3, <1>5, <1>6, <2>2
  <2>4. type[list[k[nxt]]] \in Heads
    <3>1. rel[nxt] = list[k[nxt]]
      BY <1>1, <2>1 DEF Picked, r
    <3> QED
      BY <2>1, <3>1 DEF Starts, rel
  <2> QED
    BY <2>3, <2>4 DEF Belongs
<1> DEFINE inst == SubSeq(Related(list), a, NextStart(list, a) - 1)
<1>12. Head(inst) = list[i] /\ list[j] \in ToSet(inst)
  <2>1. b \in a..(nxt - 1)
    BY <1>2, <1>7, <1>10, <1>11
  <2>2. /\ Head(inst) = Related(list)[a]
        /\ \A c \in a..(NextStart(list, a) - 1) : Related(list)[c] \in ToSet(inst)
    <3> HIDE DEF inst
    <3> QED
      BY <1>9, InstanceHeaded DEF inst
  <2> HIDE DEF inst
  <2> QED
    BY <1>8, <2>1, <2>2 DEF nxt, rel
<1>13. inst \in ToSet(Instances(list, naa))
  <2>1. a \in ToSet(Mine(list, naa))
    BY <1>8, <1>9, MineKnown DEF rel
  <2>2. PICK n \in DOMAIN Mine(list, naa) : Mine(list, naa)[n] = a
    BY <2>1 DEF ToSet
  <2>3. n \in DOMAIN Instances(list, naa) /\ Instances(list, naa)[n] = inst
    BY <2>2, InstancesAre
  <2> HIDE DEF inst, naa
  <2> QED
    BY <2>3 DEF ToSet
<1> HIDE DEF inst
<1> QED
  BY <1>12, <1>13

-----------------------------------------------------------------------------
(* What the index by NAA holds.                                            *)

IndexTyped(by) == DOMAIN by \subseteq Heads /\ \A n \in DOMAIN by : by[n] \in Seq(Instance)

\* Each instance of the list is in it.
IndexHas(by, list) ==
    \A n \in Types(list) \cap Heads :
        n \in DOMAIN by /\ ToSet(Instances(list, n)) \subseteq ToSet(by[n])

LEMMA JoinHolds ==
    ASSUME NEW X, NEW s \in Seq(X), NEW t \in Seq(X)
    PROVE  s \o t \in Seq(X) /\ ToSet(s \o t) = ToSet(s) \cup ToSet(t)
<1> DEFINE c == s \o t
<1>1. /\ c \in Seq(X) /\ Len(c) = Len(s) + Len(t) /\ Len(s) \in Nat /\ Len(t) \in Nat
      /\ DOMAIN s = 1..Len(s) /\ DOMAIN t = 1..Len(t) /\ DOMAIN c = 1..Len(c)
      /\ \A i \in 1..Len(c) : c[i] = IF i <= Len(s) THEN s[i] ELSE t[i - Len(s)]
  OBVIOUS
<1> HIDE DEF c
<1>2. ASSUME NEW i \in DOMAIN s PROVE s[i] \in ToSet(c)
  <2>1. i \in DOMAIN c /\ c[i] = s[i]
    BY <1>1
  <2> QED
    BY <2>1 DEF ToSet
<1>3. ASSUME NEW i \in DOMAIN t PROVE t[i] \in ToSet(c)
  <2>1. Len(s) + i \in DOMAIN c /\ ~(Len(s) + i <= Len(s)) /\ Len(s) + i - Len(s) = i
    BY <1>1
  <2>2. c[Len(s) + i] = t[i]
    BY <1>1, <2>1
  <2> QED
    BY <2>1, <2>2 DEF ToSet
<1>4. ASSUME NEW i \in DOMAIN c PROVE c[i] \in ToSet(s) \cup ToSet(t)
  <2>1. CASE i <= Len(s)
    BY <1>1, <2>1 DEF ToSet
  <2>2. CASE ~(i <= Len(s))
    <3>1. i - Len(s) \in DOMAIN t /\ c[i] = t[i - Len(s)]
      BY <1>1, <2>2
    <3> QED
      BY <3>1 DEF ToSet
  <2> QED
    BY <2>1, <2>2
<1> QED
  BY <1>1, <1>2, <1>3, <1>4 DEF ToSet, c

LEMMA ByNaaGood ==
    ASSUME NEW by, IndexTyped(by), NEW list \in Seq(PE)
    PROVE  IndexTyped(ByNaa(by, list)) /\ IndexHas(ByNaa(by, list), list)
<1> DEFINE new == DOMAIN by \cup (Types(list) \cap Heads)
           One(n) == Indexed(by, n) \o Instances(list, n)
<1>1. ByNaa(by, list) = [n \in new |-> One(n)]
  BY DEF ByNaa, Heads
<1>2. new \subseteq Heads
  BY DEF IndexTyped
<1>3. ASSUME NEW n \in new
      PROVE  One(n) \in Seq(Instance) /\ ToSet(Instances(list, n)) \subseteq ToSet(One(n))
  <2> DEFINE a == Indexed(by, n)
             b == Instances(list, n)
  <2>1. a \in Seq(Instance)
    BY DEF Indexed, IndexTyped
  <2>2. b \in Seq(Instance)
    BY InstancesTyped
  <2> HIDE DEF a, b
  <2>3. a \o b \in Seq(Instance) /\ ToSet(a \o b) = ToSet(a) \cup ToSet(b)
    BY <2>1, <2>2, JoinHolds
  <2> QED
    BY <2>3 DEF a, b
<1> HIDE DEF One
<1>4. IndexTyped([n \in new |-> One(n)])
  BY <1>2, <1>3 DEF IndexTyped
<1>5. IndexHas([n \in new |-> One(n)], list)
  BY <1>3 DEF IndexHas
<1> QED
  BY <1>1, <1>4, <1>5

-----------------------------------------------------------------------------
(* The numbers.                                                            *)

\* Each PE of the list has its place among them, no other PE has it.
PlaceIn(list, pe) == CHOOSE i \in DOMAIN Headed(list) : Headed(list)[i] = pe

LEMMA PlacesDiffer ==
    ASSUME NEW list \in Seq(PE), Distinct(list)
    PROVE  \A pe \in ToSet(list) \cap numbered :
             /\ PlaceIn(list, pe) \in 1..Cardinality(PE)
             /\ PlaceIn(list, pe) \in DOMAIN Headed(list) /\ Headed(list)[PlaceIn(list, pe)] = pe
<1> DEFINE h == Headed(list)
<1>1. h \in Seq(PE) /\ Distinct(h) /\ ToSet(h) = ToSet(list) \cap numbered
  BY OnlyHolds DEF Headed
<1>2. DOMAIN h = 1..Len(h) /\ Len(h) \in 0..Cardinality(PE) /\ Cardinality(PE) \in Nat
  BY <1>1, DistinctBounded, ElementsAssumption, FS_CardinalityType
<1> HIDE DEF h
<1>3. 1..Len(h) \subseteq 1..Cardinality(PE)
  BY <1>2
<1>4. SUFFICES ASSUME NEW pe \in ToSet(list) \cap numbered
               PROVE  /\ PlaceIn(list, pe) \in DOMAIN h /\ h[PlaceIn(list, pe)] = pe
  BY <1>2, <1>3 DEF h
<1>5. \E i \in DOMAIN h : h[i] = pe
  BY <1>1 DEF ToSet
<1> QED
  BY <1>5 DEF PlaceIn, h

IdTyped(id) == id \in [PE -> 0..Cardinality(PE)] /\ \A pe \in PE \ numbered : id[pe] = 0

LEMMA RenumberIs ==
    ASSUME NEW list \in Seq(PE), Distinct(list)
    PROVE  Renumber(list) = [pe \in PE |-> IF pe \in ToSet(list) \cap numbered
                                          THEN PlaceIn(list, pe) ELSE identification[pe]]
BY DEF Renumber, PlaceIn

LEMMA RenumberGood ==
    ASSUME NEW list \in Seq(PE), Distinct(list), IdTyped(identification)
    PROVE  /\ IdTyped(Renumber(list))
           /\ \A a, b \in ToSet(list) \cap numbered : Renumber(list)[a] = Renumber(list)[b] => a = b
<1>1. Cardinality(PE) \in Nat
  BY ElementsAssumption, FS_CardinalityType
<1>2. \A pe \in ToSet(list) \cap numbered :
             /\ PlaceIn(list, pe) \in 1..Cardinality(PE)
             /\ PlaceIn(list, pe) \in DOMAIN Headed(list) /\ Headed(list)[PlaceIn(list, pe)] = pe
  BY PlacesDiffer
<1>3. Renumber(list) = [pe \in PE |-> IF pe \in ToSet(list) \cap numbered
                                     THEN PlaceIn(list, pe) ELSE identification[pe]]
  BY RenumberIs
<1>4. ToSet(list) \subseteq PE
  BY DEF ToSet
<1>5. IdTyped(Renumber(list))
  <2>1. 1..Cardinality(PE) \subseteq 0..Cardinality(PE)
    BY <1>1
  <2> QED
    BY <1>2, <1>3, <2>1 DEF IdTyped
<1>6. \A pe \in ToSet(list) \cap numbered : Renumber(list)[pe] = PlaceIn(list, pe)
  BY <1>3, <1>4
<1> QED
  BY <1>2, <1>5, <1>6

-----------------------------------------------------------------------------
(* The inductive invariant.                                                *)

\* The two indexes are those of the list, and the one by NAA at least holds its instances.
ListInv ==
    /\ pe_list \in Seq(PE) /\ Distinct(pe_list)
    /\ pe_by_type = ByType(pe_list)
    /\ IndexTyped(pes_by_naa) /\ IndexHas(pes_by_naa, pe_list)

\* Only a PE that has a number is numbered.
NumberInv == IdTyped(identification)

HeaderInv ==
    /\ services \subseteq AnyService /\ gfste \subseteq with_template /\ mf \subseteq PE
    /\ outcome \in {"read", "done", "removed", "rebuilt", "raised"}
    /\ calls \in 0..MaxCalls

ElementsInv == ListInv /\ NumberInv /\ HeaderInv

\* The list is another and is indexed, from whatever the index held.
NewList(list) ==
    /\ list \in Seq(PE) /\ Distinct(list)
    /\ pe_list' = list /\ pe_by_type' = ByType(list)
    /\ \E by : IndexTyped(by) /\ pes_by_naa' = ByNaa(by, list)

LEMMA NewListGood == ASSUME NEW list, NewList(list) PROVE ListInv'
<1>1. PICK by : IndexTyped(by) /\ pes_by_naa' = ByNaa(by, list)
  BY DEF NewList
<1>2. IndexTyped(ByNaa(by, list)) /\ IndexHas(ByNaa(by, list), list)
  BY <1>1, ByNaaGood DEF NewList
<1>3. IndexTyped(pes_by_naa') /\ IndexHas(pes_by_naa', pe_list')
  BY <1>1, <1>2 DEF NewList
<1> QED
  BY <1>3 DEF NewList, ListInv

LEMMA EmptyTyped == IndexTyped(<< >>)
BY DEF IndexTyped

LEMMA IndexOfIs ==
    ASSUME pe_list \in Seq(PE), NEW pe \in ToSet(pe_list)
    PROVE  IndexOf(pe) \in 1..Len(pe_list) /\ pe_list[IndexOf(pe)] = pe /\ pe \in PE
<1>1. DOMAIN pe_list = 1..Len(pe_list)
  OBVIOUS
<1>2. \E i \in DOMAIN pe_list : pe_list[i] = pe
  BY DEF ToSet
<1> QED
  BY <1>1, <1>2 DEF IndexOf

\* The PEs of a type.
Of(list, t) == {pe \in ToSet(list) : type[pe] = t}

LEMMA OccurringIs ==
    ASSUME NEW list \in Seq(PE), NEW t
    PROVE  Occurring(list, t) \in Seq(PE) /\ ToSet(Occurring(list, t)) = Of(list, t)
<1>1. ToSet(list) \subseteq PE
  BY DEF ToSet
<1> QED
  BY <1>1, OnlyHolds DEF Occurring, Of

\* Of a type that occurs, the first is in the list.
LEMMA FirstOf ==
    ASSUME NEW list \in Seq(PE), NEW t, t \in Types(list)
    PROVE  Occurring(list, t)[1] \in Of(list, t) /\ Head(Occurring(list, t)) = Occurring(list, t)[1]
<1> DEFINE o == Occurring(list, t)
<1>1. o \in Seq(PE) /\ ToSet(o) = Of(list, t)
  BY OccurringIs
<1>2. Of(list, t) # {}
  BY DEF Types, Of
<1> HIDE DEF o
<1>3. DOMAIN o = 1..Len(o) /\ Len(o) \in Nat /\ Head(o) = o[1]
  BY <1>1
<1>4. PICK i \in DOMAIN o : TRUE
  BY <1>1, <1>2 DEF ToSet
<1>5. 1 \in DOMAIN o
  BY <1>3, <1>4
<1> QED
  BY <1>1, <1>3, <1>5 DEF ToSet, o

\* Where a call inserts its PE, if it does.
LEMMA AppendWhere ==
    ASSUME ListInv, NEW pe \in PE, AppendPe(pe)
    PROVE  /\ pe \in PE \ ToSet(pe_list) /\ Call
           /\ \E i \in 1..(Len(pe_list) + 1) : InsertedAt(i, pe)
<1>1. Len(pe_list) + 1 \in 1..(Len(pe_list) + 1)
  BY DEF ListInv
<1> QED
  BY <1>1 DEF AppendPe

LEMMA InsertWhere ==
    ASSUME ListInv, NEW pe \in PE, NEW before, InsertAfterPe(before, pe)
    PROVE  /\ pe \in PE \ ToSet(pe_list) /\ Call
           /\ \E i \in 1..(Len(pe_list) + 1) : InsertedAt(i, pe)
<1>1. IndexOf(before) \in 1..Len(pe_list)
  BY IndexOfIs DEF ListInv, InsertAfterPe
<1>2. IndexOf(before) + 1 \in 1..(Len(pe_list) + 1)
  BY <1>1 DEF ListInv
<1> QED
  BY <1>2 DEF InsertAfterPe

\* An application and an SSD are inserted after a security domain.
AfterDomain(i) ==
    i \in 2..(Len(pe_list) + 1) /\ type[pe_list[i - 1]] = "securityDomain"

LEMMA AfterFirst ==
    ASSUME ListInv, "securityDomain" \in Types(pe_list)
    PROVE  AfterDomain(IndexOf(Occurring(pe_list, "securityDomain")[1]) + 1)
<1> DEFINE sd == Occurring(pe_list, "securityDomain")[1]
<1>1. sd \in Of(pe_list, "securityDomain")
  BY FirstOf DEF ListInv
<1> HIDE DEF sd
<1>2. sd \in ToSet(pe_list) /\ type[sd] = "securityDomain"
  BY <1>1 DEF Of
<1> DEFINE k == IndexOf(sd)
<1>3. k \in 1..Len(pe_list) /\ pe_list[k] = sd
  BY <1>2, IndexOfIs DEF ListInv
<1> HIDE DEF k
<1> DEFINE i == k + 1
<1>4. i \in 2..(Len(pe_list) + 1) /\ i - 1 = k
  BY <1>3 DEF ListInv
<1> HIDE DEF i
<1>5. AfterDomain(i)
  BY <1>2, <1>3, <1>4 DEF AfterDomain
<1> QED
  BY <1>5 DEF i, k, sd

LEMMA SsdWhere ==
    ASSUME ListInv, NEW ssd \in PE, AddSsd(ssd)
    PROVE  /\ ssd \in PE \ ToSet(pe_list) /\ Call /\ type[ssd] = "securityDomain"
           /\ CallRaises \/ \E i \in 1..(Len(pe_list) + 1) : AfterDomain(i) /\ InsertedAt(i, ssd)
<1>1. CASE "securityDomain" \in Types(pe_list)
  <2> DEFINE i == IndexOf(Head(Occurring(pe_list, "securityDomain"))) + 1
  <2>1. AfterDomain(i)
    BY <1>1, AfterFirst, FirstOf DEF ListInv
  <2>2. InsertedAt(i, ssd)
    BY <1>1 DEF AddSsd
  <2> HIDE DEF i
  <2>3. i \in 1..(Len(pe_list) + 1)
    BY <2>1 DEF AfterDomain, ListInv
  <2> QED
    BY <2>1, <2>2, <2>3 DEF AddSsd
<1>2. CASE "securityDomain" \notin Types(pe_list)
  BY <1>2 DEF AddSsd
<1> QED
  BY <1>1, <1>2

LEMMA AppWhere ==
    ASSUME ListInv, NEW app \in PE, AddApp(app)
    PROVE  /\ app \in PE \ ToSet(pe_list) /\ Call /\ type[app] = "application"
           /\ CallRaises \/ \E i \in 1..(Len(pe_list) + 1) : AfterDomain(i) /\ InsertedAt(i, app)
<1> DEFINE there == "securityDomain" \in DOMAIN pe_by_type /\ Len(pe_by_type["securityDomain"]) = 1
<1>1. CASE there
  <2> DEFINE i == IndexOf(pe_by_type["securityDomain"][1]) + 1
  <2>0. InsertedAt(i, app)
    BY <1>1 DEF AddApp
  <2>1. /\ "securityDomain" \in Types(pe_list)
        /\ pe_by_type["securityDomain"] = Occurring(pe_list, "securityDomain")
    BY <1>1 DEF ListInv, ByType
  <2>2. AfterDomain(i)
    BY <2>1, AfterFirst
  <2> HIDE DEF i
  <2>3. i \in 1..(Len(pe_list) + 1)
    BY <2>2 DEF AfterDomain, ListInv
  <2> QED
    BY <2>0, <2>2, <2>3 DEF AddApp
<1>2. CASE ~there
  BY <1>2 DEF AddApp
<1> QED
  BY <1>1, <1>2

LEMMA InsertedNew ==
    ASSUME ListInv, NEW pe \in PE \ ToSet(pe_list), NEW i \in 1..(Len(pe_list) + 1), InsertedAt(i, pe)
    PROVE  NewList(InsertAt(pe_list, i, pe)) /\ identification' = Renumber(InsertAt(pe_list, i, pe))
<1> DEFINE l == InsertAt(pe_list, i, pe)
<1>1. l \in Seq(PE) /\ Distinct(l)
  BY InsertedHolds DEF ListInv
<1>2. pe_list' = l /\ pe_by_type' = ByType(l) /\ pes_by_naa' = ByNaa(pes_by_naa, l)
  BY DEF InsertedAt, Processed
<1>3. identification' = Renumber(l)
  BY DEF InsertedAt
<1> HIDE DEF l
<1>4. NewList(l)
  BY <1>1, <1>2 DEF NewList, ListInv
<1> QED
  BY <1>3, <1>4 DEF l

LEMMA WithoutNew ==
    ASSUME ListInv, NEW ids, NEW types, Processed(Without(ids, types))
    PROVE  NewList(Without(ids, types))
<1> DEFINE l == Without(ids, types)
<1>1. l \in Seq(PE) /\ Distinct(l)
  BY OnlyHolds DEF ListInv, Without
<1> HIDE DEF l
<1>2. pe_list' = l /\ pe_by_type' = ByType(l) /\ pes_by_naa' = ByNaa(pes_by_naa, l)
  BY DEF Processed, l
<1>3. NewList(l)
  BY <1>1, <1>2 DEF NewList, ListInv
<1> QED
  BY <1>3 DEF l

\* remove_naas_of_type: what is left after the instances, and after the RFMs.
Gone(naa) == UNION {ToSet(inst) : inst \in ToSet(Indexed(pes_by_naa, naa))}
Opened(naa) == {aid[pe] : pe \in ToSet(Occurring(pe_list, naa))} \ {NoAid}
Kept(naa) == Only(pe_list, PE \ Gone(naa))
Rest(naa) == Only(Kept(naa), {pe \in PE : ~(type[pe] = "rfm" /\ aid[pe] \in Opened(naa))})

LEMMA RemoveNaasIs ==
    ASSUME NEW naa \in Naa, RemoveNaasOfType(naa)
    PROVE  /\ Call
           /\ \/ CallRaises
              \/ /\ services' = services \ {naa} /\ gfste' = gfste \ templates[naa]
                 /\ pe_list' = Rest(naa) /\ pe_by_type' = ByType(Rest(naa))
                 /\ pes_by_naa' = ByNaa(ByNaa(pes_by_naa, Kept(naa)), Rest(naa))
                 /\ outcome' = "removed" /\ UNCHANGED <<identification, mf>>
BY DEF RemoveNaasOfType, Gone, Opened, Kept, Rest

LEMMA RestHolds ==
    ASSUME ListInv, NEW naa
    PROVE  /\ Kept(naa) \in Seq(PE)
           /\ Rest(naa) \in Seq(PE) /\ Distinct(Rest(naa))
           /\ ToSet(Rest(naa)) =
                ToSet(pe_list) \cap {pe \in PE \ Gone(naa) : ~(type[pe] = "rfm" /\ aid[pe] \in Opened(naa))}
<1> DEFINE A == PE \ Gone(naa)
           B == {pe \in PE : ~(type[pe] = "rfm" /\ aid[pe] \in Opened(naa))}
           k == Only(pe_list, A)
<1>1. k \in Seq(PE) /\ Distinct(k) /\ ToSet(k) = ToSet(pe_list) \cap A
  <2> HIDE DEF A
  <2> QED
    BY OnlyHolds DEF ListInv
<1> DEFINE l == Only(k, B)
<1>2. l \in Seq(PE) /\ Distinct(l) /\ ToSet(l) = ToSet(k) \cap B
  <2> HIDE DEF k, B
  <2> QED
    BY <1>1, OnlyHolds
<1>3. k = Kept(naa) /\ l = Rest(naa)
  BY DEF Kept, Rest
<1> HIDE DEF k, l
<1>4. ToSet(l) = ToSet(pe_list) \cap {pe \in A : pe \in B}
  BY <1>1, <1>2
<1> QED
  BY <1>1, <1>2, <1>3, <1>4

LEMMA RestNew ==
    ASSUME ListInv, NEW naa \in Naa, RemoveNaasOfType(naa), ~CallRaises
    PROVE  NewList(Rest(naa))
<1>1. /\ pe_list' = Rest(naa) /\ pe_by_type' = ByType(Rest(naa))
      /\ pes_by_naa' = ByNaa(ByNaa(pes_by_naa, Kept(naa)), Rest(naa))
  BY RemoveNaasIs
<1>2. IndexTyped(ByNaa(pes_by_naa, Kept(naa)))
  BY RestHolds, ByNaaGood DEF ListInv
<1> QED
  BY <1>1, <1>2, RestHolds DEF NewList

-----------------------------------------------------------------------------
(* The invariant is kept.                                                  *)

\* What a call does to the list: nothing, or another is indexed.
ListLeft == UNCHANGED <<pe_list, pe_by_type, pes_by_naa>>
ListMoves == ListLeft \/ \E list : NewList(list)

LEMMA ListSteps ==
    ASSUME ListInv, [ElementsNext]_element_vars
    PROVE  ListMoves
<1> USE ElementsAssumption
<1>1. ASSUME CallRaises PROVE ListLeft
  BY <1>1 DEF CallRaises, ListLeft
<1>2. ASSUME NEW pe \in New, AppendPe(pe) PROVE ListMoves
  BY <1>2, AppendWhere, InsertedNew DEF ListMoves
<1>3. ASSUME NEW before \in After, NEW pe \in New, InsertAfterPe(before, pe) PROVE ListMoves
  BY <1>3, InsertWhere, InsertedNew DEF ListMoves
<1>4. ASSUME NEW pe \in New, AddSsd(pe) PROVE ListMoves
  BY <1>1, <1>4, SsdWhere, InsertedNew DEF ListMoves
<1>5. ASSUME NEW pe \in New, AddApp(pe) PROVE ListMoves
  BY <1>1, <1>5, AppWhere, InsertedNew DEF ListMoves
<1>6. ASSUME NEW ids, NEW types, RemovePe(ids, types) PROVE ListMoves
  BY <1>6, WithoutNew DEF RemovePe, ListMoves
<1>7. ASSUME NEW app \in PE, RemoveApp(app) PROVE ListMoves
  BY <1>7, WithoutNew DEF RemoveApp, ListMoves
<1>8. ASSUME NEW naa \in Naa, RemoveNaasOfType(naa) PROVE ListMoves
  BY <1>1, <1>8, RestNew DEF ListMoves
<1>9. ASSUME RebuildMandatoryServices PROVE ListMoves
  BY <1>1, <1>9 DEF RebuildMandatoryServices, ListMoves, ListLeft
<1>10. ASSUME RebuildMandatoryGfstelist PROVE ListMoves
  BY <1>1, <1>10 DEF RebuildMandatoryGfstelist, ListMoves, ListLeft
<1>11. ASSUME NEW s, NEW add, EditMandSrvList(s, add) PROVE ListMoves
  BY <1>1, <1>11 DEF EditMandSrvList, ListMoves, ListLeft
<1>12. ASSUME WriteAndRead PROVE ListMoves
  <2>1. NewList(pe_list)
    BY <1>12, EmptyTyped DEF WriteAndRead, NewList, ListInv
  <2> QED
    BY <2>1 DEF ListMoves
<1>13. ASSUME UNCHANGED element_vars PROVE ListMoves
  BY <1>13 DEF element_vars, ListMoves, ListLeft
<1> QED
  BY <1>2, <1>3, <1>4, <1>5, <1>6, <1>7, <1>8, <1>9, <1>10, <1>11, <1>12, <1>13 DEF ElementsNext

LEMMA ListKept == ASSUME ListInv, [ElementsNext]_element_vars PROVE ListInv'
<1>1. CASE ListLeft
  BY <1>1 DEF ListLeft, ListInv
<1>2. ASSUME NEW list, NewList(list) PROVE ListInv'
  BY <1>2, NewListGood
<1> QED
  BY <1>1, <1>2, ListSteps DEF ListMoves

LEMMA NumberKept ==
    ASSUME ListInv, NumberInv, [ElementsNext]_element_vars
    PROVE  NumberInv'
<1> USE ElementsAssumption
<1>1. ASSUME identification' = identification PROVE NumberInv'
  BY <1>1 DEF NumberInv, IdTyped
<1>2. ASSUME NEW pe \in PE \ ToSet(pe_list),
             \E i \in 1..(Len(pe_list) + 1) : InsertedAt(i, pe)
      PROVE  NumberInv'
  <2>1. PICK i \in 1..(Len(pe_list) + 1) : InsertedAt(i, pe)
    BY <1>2
  <2> DEFINE l == InsertAt(pe_list, i, pe)
  <2>2. NewList(l) /\ identification' = Renumber(l)
    BY <2>1, InsertedNew
  <2> HIDE DEF l
  <2>3. IdTyped(Renumber(l))
    BY <2>2, RenumberGood DEF NewList, NumberInv
  <2> QED
    BY <2>2, <2>3 DEF NumberInv
<1>3. ASSUME CallRaises PROVE NumberInv'
  BY <1>1, <1>3 DEF CallRaises
<1>4. ASSUME NEW pe \in New, AppendPe(pe) PROVE NumberInv'
  BY <1>2, <1>4, AppendWhere
<1>5. ASSUME NEW before \in After, NEW pe \in New, InsertAfterPe(before, pe) PROVE NumberInv'
  BY <1>2, <1>5, InsertWhere
<1>6. ASSUME NEW pe \in New, AddSsd(pe) PROVE NumberInv'
  BY <1>2, <1>3, <1>6, SsdWhere
<1>7. ASSUME NEW pe \in New, AddApp(pe) PROVE NumberInv'
  BY <1>2, <1>3, <1>7, AppWhere
<1>8. ASSUME NEW naa \in Naa, RemoveNaasOfType(naa) PROVE NumberInv'
  BY <1>1, <1>3, <1>8, RemoveNaasIs
<1>9. ASSUME \/ \E ids, types : RemovePe(ids, types)
             \/ \E app : RemoveApp(app)
             \/ RebuildMandatoryServices \/ RebuildMandatoryGfstelist
             \/ \E s, add : EditMandSrvList(s, add)
             \/ WriteAndRead \/ UNCHANGED element_vars
      PROVE  NumberInv'
  <2>1. identification' = identification
    BY <1>9 DEF RemovePe, RemoveApp, RebuildMandatoryServices, RebuildMandatoryGfstelist,
                EditMandSrvList, WriteAndRead, element_vars, CallRaises
  <2> QED
    BY <1>1, <2>1
<1> QED
  BY <1>4, <1>5, <1>6, <1>7, <1>8, <1>9 DEF ElementsNext

LEMMA TreeTyped == ASSUME NEW list \in Seq(PE) PROVE TreeOf(list) \subseteq PE
BY DEF TreeOf, ToSet

LEMMA CallCounts == ASSUME Call, calls \in 0..MaxCalls PROVE calls' \in 0..MaxCalls
BY ElementsAssumption DEF Call

HeaderParts == services \subseteq AnyService /\ gfste \subseteq with_template /\ mf \subseteq PE

LEMMA HeaderKept ==
    ASSUME ListInv, HeaderInv, [ElementsNext]_element_vars
    PROVE  HeaderInv'
<1> USE ElementsAssumption
<1> DEFINE Good == /\ HeaderParts'
                   /\ outcome' \in {"read", "done", "removed", "rebuilt", "raised"}
<1>0. HeaderParts
  BY DEF HeaderParts, HeaderInv
<1>1. ASSUME CallRaises PROVE Good
  BY <1>0, <1>1 DEF CallRaises, HeaderParts
<1>2. ASSUME NEW i, NEW pe, InsertedAt(i, pe) PROVE Good
  BY <1>0, <1>2 DEF InsertedAt, HeaderParts
<1>3. ASSUME NEW pe \in New, AppendPe(pe) \/ \E before \in After : InsertAfterPe(before, pe) PROVE Call /\ Good
  BY <1>2, <1>3 DEF AppendPe, InsertAfterPe
<1>4. ASSUME NEW pe \in New, AddSsd(pe) \/ AddApp(pe) PROVE Call /\ Good
  BY <1>1, <1>2, <1>4 DEF AddSsd, AddApp
<1>5. ASSUME \/ \E ids, types : RemovePe(ids, types)
             \/ \E app : RemoveApp(app)
      PROVE  Call /\ Good
  BY <1>0, <1>5 DEF RemovePe, RemoveApp, HeaderParts
<1>6. ASSUME NEW naa \in Naa, RemoveNaasOfType(naa) PROVE Call /\ Good
  BY <1>0, <1>1, <1>6, RemoveNaasIs DEF HeaderParts
<1>7. ASSUME RebuildMandatoryServices PROVE Call /\ Good
  <2>1. aka_services \subseteq Algorithm
    BY DEF aka_services, Mandated
  <2>2. CASE ~CallRaises
    <3>1. services' \subseteq AnyService
      BY <1>0, <1>7, <2>1, <2>2 DEF RebuildMandatoryServices, HeaderParts, AnyService, multiple_services
    <3> QED
      BY <1>0, <1>7, <2>2, <3>1 DEF RebuildMandatoryServices, HeaderParts
  <2> QED
    BY <1>1, <1>7, <2>2 DEF RebuildMandatoryServices
<1>8. ASSUME RebuildMandatoryGfstelist PROVE Call /\ Good
  BY <1>0, <1>1, <1>8 DEF RebuildMandatoryGfstelist, HeaderParts
<1>9. ASSUME NEW s \in Flag, NEW add \in BOOLEAN, EditMandSrvList(s, add) PROVE Call /\ Good
  BY <1>0, <1>1, <1>9 DEF EditMandSrvList, HeaderParts, AnyService
<1>10. ASSUME WriteAndRead PROVE Call /\ Good
  BY <1>0, <1>10, TreeTyped DEF WriteAndRead, HeaderParts, ListInv
<1>11. ASSUME UNCHANGED element_vars PROVE HeaderInv'
  BY <1>11 DEF element_vars, HeaderInv
<1>12. ASSUME Call /\ Good PROVE HeaderInv'
  BY <1>12, CallCounts DEF HeaderInv, HeaderParts
<1> HIDE DEF Good
<1> QED
  BY <1>3, <1>4, <1>5, <1>6, <1>7, <1>8, <1>9, <1>10, <1>11, <1>12 DEF ElementsNext

LEMMA ElementsAtStart == ElementsInit => ElementsInv
<1> SUFFICES ASSUME ElementsInit PROVE ElementsInv
  OBVIOUS
<1> USE ElementsAssumption
<1>1. PICK p \in Profile :
        /\ pe_list = p.list
        /\ pe_by_type = ByType(p.list)
        /\ pes_by_naa = ByNaa(<< >>, p.list)
        /\ identification = [pe \in PE |->
             IF pe \in ToSet(p.list) /\ type[pe] # "header"
             THEN CHOOSE i \in DOMAIN Headed(p.list) : Headed(p.list)[i] = pe ELSE 0]
        /\ services = p.services
        /\ gfste = {type[pe] : pe \in {q \in ToSet(p.list) \cap mandated :
                                         type[q] \in with_template}}
        /\ mf = TreeOf(p.list)
        /\ outcome = "read"
        /\ calls = 0
  BY DEF ElementsInit
<1>2. pe_list \in Seq(PE) /\ Distinct(pe_list)
  BY <1>1
<1>3. ListInv
  BY <1>1, <1>2, EmptyTyped, ByNaaGood DEF ListInv
<1>4. NumberInv
  <2>1. \A pe \in ToSet(pe_list) \cap numbered : PlaceIn(pe_list, pe) \in 1..Cardinality(PE)
    BY <1>2, PlacesDiffer
  <2>2. Cardinality(PE) \in Nat
    BY FS_CardinalityType
  <2>3. identification = [pe \in PE |-> IF pe \in ToSet(pe_list) \cap numbered
                                       THEN PlaceIn(pe_list, pe) ELSE 0]
    BY <1>1 DEF PlaceIn, numbered
  <2> QED
    BY <2>1, <2>2, <2>3 DEF NumberInv, IdTyped
<1>5. HeaderInv
  BY <1>1, <1>2, TreeTyped DEF HeaderInv
<1> QED
  BY <1>3, <1>4, <1>5 DEF ElementsInv

LEMMA ElementsInductive == ElementsSpec => []ElementsInv
<1>1. ElementsInv /\ [ElementsNext]_element_vars => ElementsInv'
  BY ListKept, NumberKept, HeaderKept DEF ElementsInv
<1> QED
  BY <1>1, ElementsAtStart, PTL DEF ElementsSpec

-----------------------------------------------------------------------------
\* The profile's variables have their types in every state.
THEOREM ElementsTypeCorrect == ElementsSpec => []ElementsTypeOK
<1>1. ElementsInv => ElementsTypeOK
  <2> SUFFICES ASSUME ElementsInv PROVE ElementsTypeOK
    OBVIOUS
  <2>1. ASSUME NEW m \in DOMAIN pes_by_naa, NEW inst \in ToSet(pes_by_naa[m])
        PROVE  inst \in Seq(PE) /\ inst # << >>
    <3>1. pes_by_naa[m] \in Seq(Instance)
      BY DEF ElementsInv, ListInv, IndexTyped
    <3>2. inst \in Instance
      BY <3>1 DEF ToSet
    <3> QED
      BY <3>2 DEF Instance
  <2>2. DOMAIN pes_by_naa \subseteq Naa \cup {"mf"}
    BY DEF ElementsInv, ListInv, IndexTyped, Heads
  <2> QED
    BY <2>1, <2>2 DEF ElementsTypeOK, ElementsInv, ListInv, NumberInv, IdTyped, HeaderInv
<1> QED
  BY <1>1, ElementsInductive, PTL

\* Whatever was inserted, removed and written, each PE of an NAA's instance in the sequence is
\* found in pes_by_naa, in an instance headed by that NAA.
THEOREM EveryInstanceAlwaysIndexed == ElementsSpec => []EveryInstanceIndexed
<1>1. ElementsInv => EveryInstanceIndexed
  <2> SUFFICES ASSUME ElementsInv, NEW i \in DOMAIN pe_list, NEW j \in DOMAIN pe_list,
                      i <= j, type[pe_list[i]] \in Naa \cup {"mf"},
                      type[pe_list[j]] \notin petype_not_naa_related,
                      \A m \in (i + 1)..j : type[pe_list[m]] \notin Naa \cup {"mf"}
               PROVE  /\ type[pe_list[i]] \in DOMAIN pes_by_naa
                      /\ \E inst \in ToSet(pes_by_naa[type[pe_list[i]]]) :
                           Head(inst) = pe_list[i] /\ pe_list[j] \in ToSet(inst)
    BY DEF EveryInstanceIndexed
  <2>1. Belongs(pe_list, i, j)
    BY DEF Belongs, Heads
  <2> DEFINE n == type[pe_list[i]]
  <2>2. n \in Types(pe_list) \cap Heads
    BY DEF Types, ToSet, Heads
  <2>3. PICK inst \in ToSet(Instances(pe_list, n)) : Head(inst) = pe_list[i] /\ pe_list[j] \in ToSet(inst)
    BY <2>1, InstanceFound DEF ElementsInv, ListInv
  <2> HIDE DEF n
  <2>4. n \in DOMAIN pes_by_naa /\ inst \in ToSet(pes_by_naa[n])
    BY <2>2, <2>3 DEF ElementsInv, ListInv, IndexHas
  <2> QED
    BY <2>3, <2>4 DEF n
<1> QED
  BY <1>1, ElementsInductive, PTL

LEMMA NaaGone ==
    ASSUME ListInv, NEW naa \in Naa, NEW pe \in Of(pe_list, naa)
    PROVE  pe \in Gone(naa)
<1>1. PICK i \in DOMAIN pe_list : pe_list[i] = pe
  BY DEF Of, ToSet
<1>2. i \in Nat /\ (i + 1)..i = {} /\ i <= i
  <2>1. i \in Nat
    BY DEF ListInv
  <2> QED
    BY <2>1
<1>3. type[pe_list[i]] = naa
  BY <1>1 DEF Of
<1>4. Belongs(pe_list, i, i)
  BY <1>2, <1>3 DEF Belongs, Heads, Naa, petype_not_naa_related
<1>5. PICK inst \in ToSet(Instances(pe_list, naa)) : pe \in ToSet(inst)
  BY <1>1, <1>3, <1>4, InstanceFound DEF ListInv
<1>6. naa \in Types(pe_list) \cap Heads
  BY DEF Of, Types, Heads
<1>7. naa \in DOMAIN pes_by_naa /\ inst \in ToSet(pes_by_naa[naa])
  BY <1>5, <1>6 DEF ListInv, IndexHas
<1> QED
  BY <1>5, <1>7 DEF Gone, Indexed

\* After remove_naas_of_type the sequence has no PE of the NAA and no RFM that opens one of the
\* ADFs this NAA had: the index that the instances are found in misses none of them.
THEOREM RemovedAlwaysLeavesNoAdf == ElementsSpec => RemovedLeavesNoAdf
<1> DEFINE Leaves(naa) ==
             /\ naa \notin Types(pe_list')
             /\ \A r \in ToSet(pe_list'), pe \in ToSet(Occurring(pe_list, naa)) :
                  type[r] = "rfm" /\ aid[pe] # NoAid => aid[r] # aid[pe]
<1>1. ASSUME ElementsInv, NEW naa \in Naa, RemoveNaasOfType(naa), outcome' = "removed"
      PROVE  Leaves(naa)
  <2>1. ListInv
    BY <1>1 DEF ElementsInv
  <2>2. pe_list' = Rest(naa)
    BY <1>1, RemoveNaasIs DEF CallRaises
  <2>3. ToSet(Rest(naa)) =
          ToSet(pe_list) \cap {pe \in PE \ Gone(naa) : ~(type[pe] = "rfm" /\ aid[pe] \in Opened(naa))}
    BY <2>1, RestHolds
  <2>4. naa \notin Types(Rest(naa))
    BY <1>1, <2>1, <2>3, NaaGone DEF Types, Of
  <2>5. ASSUME NEW r \in ToSet(Rest(naa)), NEW pe \in ToSet(Occurring(pe_list, naa)),
               type[r] = "rfm", aid[pe] # NoAid
        PROVE  aid[r] # aid[pe]
    BY <2>3, <2>5 DEF Opened
  <2> QED
    BY <2>2, <2>4, <2>5
<1>2. ElementsInv => \A naa \in Naa : RemoveNaasOfType(naa) /\ outcome' = "removed" => Leaves(naa)
  BY <1>1
<1> QED
  BY <1>2, ElementsInductive, PTL DEF RemovedLeavesNoAdf

-----------------------------------------------------------------------------
(* The check, before and after.                                            *)

\* As many PEs of a type are listed as there are.
LEMMA OccurringCounts ==
    ASSUME NEW list \in Seq(PE), Distinct(list), NEW t
    PROVE  Len(Occurring(list, t)) = Cardinality(Of(list, t))
<1> DEFINE o == Occurring(list, t)
           m == Len(o)
           S == Of(list, t)
<1>1. o \in Seq(PE) /\ ToSet(o) = S
  BY OccurringIs
<1>2. Distinct(o)
  BY OnlyHolds DEF Occurring
<1> HIDE DEF o, S
<1>3. m \in Nat /\ DOMAIN o = 1..m /\ o \in [1..m -> S]
  BY <1>1 DEF ToSet
<1>4. o \in Bijection(1..m, S)
  BY <1>1, <1>2, <1>3 DEF Distinct, Bijection, Injection, Surjection, IsInjective, ToSet
<1> HIDE DEF m
<1>5. IsFiniteSet(1..m) /\ Cardinality(1..m) = m
  BY <1>3, FS_Interval
<1>6. Cardinality(S) = m
  BY <1>4, <1>5, FS_Bijection DEF ExistsBijection
<1> QED
  BY <1>6 DEF o, m, S

\* The types of the PEs that are added and removed, which the check does not count.
Loose == {"securityDomain", "application"}

\* But for its loose PEs the list after the call has those it had.
SameButLoose(after) == \A t : t \notin Loose => Of(after, t) = Of(pe_list, t)

\* The parts of the check that count PEs.
Counted == check_number_of_occurrence /\ check_optional_ordering
           /\ check_mandatory_services /\ check_mandatory_services_aka

LEMMA SameCounts ==
    ASSUME ListInv, pe_list' \in Seq(PE), Distinct(pe_list'), SameButLoose(pe_list'), NEW t, t \notin Loose
    PROVE  /\ Has(t) <=> Has(t)'
           /\ Single(t) <=> Single(t)'
           /\ Len(Occurring(pe_list, t)) = Len(Occurring(pe_list', t))
           /\ ToSet(Occurring(pe_list, t)) = ToSet(Occurring(pe_list', t))
<1>1. Of(pe_list', t) = Of(pe_list, t)
  BY DEF SameButLoose
<1>2. Len(Occurring(pe_list, t)) = Cardinality(Of(pe_list, t))
  BY OccurringCounts DEF ListInv
<1>3. Len(Occurring(pe_list', t)) = Cardinality(Of(pe_list', t))
  BY OccurringCounts
<1>4. /\ ToSet(Occurring(pe_list, t)) = Of(pe_list, t)
      /\ ToSet(Occurring(pe_list', t)) = Of(pe_list', t)
  BY OccurringIs DEF ListInv
<1>5. Has(t) <=> Of(pe_list, t) # {}
  BY DEF Has, Types, Of
<1>6. t \in Types(pe_list') <=> Of(pe_list', t) # {}
  BY DEF Types, Of
<1>7. Len(Occurring(pe_list, t)) = Len(Occurring(pe_list', t))
  BY <1>1, <1>2, <1>3
<1> QED
  BY <1>1, <1>4, <1>5, <1>6, <1>7 DEF Has, Single

LEMMA CountedKept ==
    ASSUME ListInv, pe_list' \in Seq(PE), Distinct(pe_list'), SameButLoose(pe_list'),
           services' = services, Counted
    PROVE  Counted'
<1> DEFINE Firm == {"header", "mf", "end", "cd", "telecom", "usim", "isim", "csim", "opt-usim",
                    "opt-isim", "opt-csim", "gsm-access", "phonebook", "df-saip", "df-5gs",
                    "akaParameter", "cdmaParameter"}
<1>1. ASSUME NEW t \in Firm
      PROVE  /\ Has(t) <=> Has(t)'
             /\ Single(t) <=> Single(t)'
             /\ Len(Occurring(pe_list, t)) = Len(Occurring(pe_list', t))
             /\ ToSet(Occurring(pe_list, t)) = ToSet(Occurring(pe_list', t))
  <2>1. t \notin Loose
    BY DEF Loose
  <2> HIDE DEF Firm
  <2> QED
    BY <2>1, SameCounts
<1>2. check_number_of_occurrence'
  BY <1>1 DEF Counted, check_number_of_occurrence
<1>3. check_optional_ordering'
  BY <1>1 DEF Counted, check_optional_ordering, Naa
<1>4. check_mandatory_services'
  BY <1>1 DEF Counted, check_mandatory_services, Naa
<1>5. check_mandatory_services_aka'
  BY <1>1 DEF Counted, check_mandatory_services_aka
<1> QED
  BY <1>2, <1>3, <1>4, <1>5 DEF Counted

\* The check of the numbers, on the set of PEs that have one.
NumbersDiffer ==
    \A a, b \in ToSet(pe_list) \cap numbered : identification[a] = identification[b] => a = b

LEMMA UniqueMeans ==
    ASSUME pe_list \in Seq(PE), Distinct(pe_list)
    PROVE  check_identification_unique <=> NumbersDiffer
<1> DEFINE h == Headed(pe_list)
<1>1. h \in Seq(PE) /\ Distinct(h) /\ ToSet(h) = ToSet(pe_list) \cap numbered
  BY OnlyHolds DEF Headed
<1>2. check_identification_unique <=>
        \A i, j \in DOMAIN h : i # j => identification[h[i]] # identification[h[j]]
  BY DEF check_identification_unique
<1> HIDE DEF h
<1>3. ASSUME check_identification_unique PROVE NumbersDiffer
  <2> SUFFICES ASSUME NEW a \in ToSet(h), NEW b \in ToSet(h), identification[a] = identification[b]
               PROVE  a = b
    BY <1>1 DEF NumbersDiffer
  <2>1. PICK i \in DOMAIN h : h[i] = a
    BY DEF ToSet
  <2>2. PICK j \in DOMAIN h : h[j] = b
    BY DEF ToSet
  <2> QED
    BY <1>2, <1>3, <2>1, <2>2
<1>4. ASSUME NumbersDiffer PROVE check_identification_unique
  <2> SUFFICES ASSUME NEW i \in DOMAIN h, NEW j \in DOMAIN h, i # j
               PROVE  identification[h[i]] # identification[h[j]]
    BY <1>2
  <2>1. h[i] \in ToSet(h) /\ h[j] \in ToSet(h)
    BY DEF ToSet
  <2>2. h[i] # h[j]
    BY <1>1 DEF Distinct
  <2> QED
    BY <1>1, <1>4, <2>1, <2>2 DEF NumbersDiffer
<1> QED
  BY <1>3, <1>4

UniqueSame ==
    pe_list \in Seq(PE) /\ Distinct(pe_list) => (check_identification_unique <=> NumbersDiffer)

LEMMA UniqueNow == UniqueSame
BY UniqueMeans DEF UniqueSame

LEMMA UniqueThen == UniqueSame'
BY UniqueNow, PTL

LEMMA UniqueMeansNext ==
    ASSUME pe_list' \in Seq(PE), Distinct(pe_list')
    PROVE  check_identification_unique' <=> NumbersDiffer'
BY UniqueThen DEF UniqueSame

\* A profile that is accepted is after it with a loose PE more, behind a security domain.
LEMMA InsertAccepted ==
    ASSUME ElementsInv, CheckBasicStructure, NEW pe \in PE \ ToSet(pe_list), type[pe] \in Loose,
           NEW i \in 1..(Len(pe_list) + 1), AfterDomain(i), InsertedAt(i, pe)
    PROVE  CheckBasicStructure'
<1> DEFINE l == InsertAt(pe_list, i, pe)
           m == Len(pe_list)
<1>0. ListInv /\ NumberInv
  BY DEF ElementsInv
<1>1. NewList(l) /\ identification' = Renumber(l) /\ services' = services
  BY <1>0, InsertedNew DEF InsertedAt
<1>2. pe_list \in Seq(PE) /\ m \in Nat
  BY <1>0 DEF ListInv
<1>3. /\ Len(l) = m + 1
      /\ \A j \in 1..(m + 1) : l[j] = IF j < i THEN pe_list[j] ELSE IF j = i THEN pe ELSE pe_list[j - 1]
  BY <1>2, InsertedIs
<1>4. ToSet(l) = ToSet(pe_list) \cup {pe}
  BY <1>2, InsertedHolds
<1> HIDE DEF l
<1>5. l \in Seq(PE) /\ Distinct(l) /\ pe_list' = l
  BY <1>1 DEF NewList
<1>6. check_start_and_end'
  <2>1. m >= 2 /\ type[pe_list[1]] = "header" /\ type[pe_list[2]] = "mf" /\ type[pe_list[m]] = "end"
    BY <1>2 DEF CheckBasicStructure, check_start_and_end, Last
  <2>2. i \in 2..(m + 1) /\ type[pe_list[i - 1]] = "securityDomain"
    BY DEF AfterDomain
  <2> HIDE DEF m
  <2>3. i - 1 # 1 /\ i - 1 # 2 /\ i - 1 # m
    BY <2>1, <2>2
  <2>4. i \in 4..m
    BY <1>2, <2>1, <2>2, <2>3
  <2>5. l[1] = pe_list[1] /\ l[2] = pe_list[2] /\ l[m + 1] = pe_list[m]
    BY <1>2, <1>3, <2>1, <2>4
  <2>6. Len(l) >= 2 /\ Last(l) = l[m + 1]
    BY <1>2, <1>3, <2>1 DEF Last
  <2> QED
    BY <1>5, <2>1, <2>5, <2>6 DEF check_start_and_end
<1>7. SameButLoose(l)
  BY <1>4 DEF SameButLoose, Of
<1>8. Counted'
  BY <1>0, <1>1, <1>5, <1>7, CountedKept DEF Counted, CheckBasicStructure
<1>9. check_identification_unique'
  <2>1. \A a, b \in ToSet(l) \cap numbered : Renumber(l)[a] = Renumber(l)[b] => a = b
    BY <1>0, <1>5, RenumberGood DEF NumberInv
  <2>2. NumbersDiffer'
    BY <1>1, <1>5, <2>1 DEF NumbersDiffer
  <2> QED
    BY <1>5, <2>2, UniqueMeansNext
<1> QED
  BY <1>6, <1>8, <1>9 DEF Counted, CheckBasicStructure

\* The first, the second and the last of a list stay those of what is left of it.
LEMMA EndsStay ==
    ASSUME NEW list \in Seq(PE), NEW set, Len(list) >= 2,
           list[1] \in set, list[2] \in set, list[Len(list)] \in set
    PROVE  /\ Len(Only(list, set)) >= 2
           /\ Only(list, set)[1] = list[1] /\ Only(list, set)[2] = list[2]
           /\ Only(list, set)[Len(Only(list, set))] = list[Len(list)]
<1> DEFINE o == Only(list, set)
           m == Len(list)
           r == Len(o)
<1>1. PICK k : Picked(k, m, list, set, o)
  BY OnlyIs
<1>2. o \in Seq(PE) /\ r \in Nat /\ m \in Nat /\ m >= 2
  BY OnlyIs
<1> HIDE DEF o
<1>3. /\ k \in [1..r -> 1..m]
      /\ \A a, b \in 1..r : a < b => k[a] < k[b]
      /\ \A a \in 1..r : o[a] = list[k[a]]
      /\ \A i \in 1..m : list[i] \in set => \E a \in 1..r : k[a] = i
  BY <1>1 DEF Picked
<1> HIDE DEF m, r
<1>4. list[1] \in set /\ list[2] \in set /\ list[m] \in set
  BY DEF m
<1> DEFINE At(i) == \E x \in 1..r : k[x] = i
<1>5. 1 \in 1..m /\ 2 \in 1..m /\ m \in 1..m
  BY <1>2
<1>6. At(1) /\ At(2) /\ At(m)
  BY <1>3, <1>4, <1>5
<1>7. PICK a \in 1..r : k[a] = 1
  BY <1>6
<1>8. PICK b \in 1..r : k[b] = 2
  BY <1>6
<1>9. PICK c \in 1..r : k[c] = m
  BY <1>6
<1>10. a = 1
  <2> SUFFICES ASSUME a # 1 PROVE FALSE
    OBVIOUS
  <2>1. 1 \in 1..r /\ 1 < a
    BY <1>2
  <2>2. k[1] < k[a] /\ k[1] \in 1..m
    BY <1>3, <2>1
  <2> QED
    BY <1>2, <1>7, <2>2
<1>11. b = 2
  <2> SUFFICES ASSUME b # 2 PROVE FALSE
    OBVIOUS
  <2>1. b # 1
    BY <1>7, <1>8, <1>10
  <2>2. 2 \in 1..r /\ 1 \in 1..r /\ 2 < b /\ 1 < 2
    BY <1>2, <2>1
  <2>3. k[1] < k[2] /\ k[2] < k[b] /\ k[2] \in 1..m
    BY <1>3, <2>2
  <2> QED
    BY <1>2, <1>7, <1>8, <1>10, <2>3
<1>12. c = r
  <2> SUFFICES ASSUME c # r PROVE FALSE
    OBVIOUS
  <2>1. r \in 1..r /\ c < r
    BY <1>2
  <2>2. k[c] < k[r] /\ k[r] \in 1..m
    BY <1>3, <2>1
  <2> QED
    BY <1>2, <1>9, <2>2
<1> QED
  BY <1>2, <1>3, <1>7, <1>8, <1>9, <1>10, <1>11, <1>12 DEF o, m, r

\* A profile that is accepted is after it without one of its applications: no other PE has the
\* application's number.
LEMMA RemoveAccepted ==
    ASSUME ElementsInv, CheckBasicStructure, NEW app \in PE, RemoveApp(app)
    PROVE  CheckBasicStructure'
<1> DEFINE id == identification[app]
           stays == {pe \in PE : /\ identification[pe] = 0 \/ identification[pe] \notin {id}
                                /\ type[pe] \notin {}}
           l == Only(pe_list, stays)
<1>0. ListInv /\ NumberInv
  BY DEF ElementsInv
<1>1. /\ pe_list' = l /\ services' = services /\ identification' = identification
      /\ type[app] = "application" /\ app \in ToSet(pe_list)
  BY DEF RemoveApp, Processed, Without
<1>2. pe_list \in Seq(PE) /\ Distinct(pe_list) /\ Len(pe_list) \in Nat /\ ToSet(pe_list) \subseteq PE
  BY <1>0 DEF ListInv, ToSet
<1>3. NumbersDiffer
  BY <1>2, UniqueMeans DEF CheckBasicStructure
<1>4. ASSUME NEW pe \in ToSet(pe_list), pe # app PROVE pe \in stays
  <2>1. CASE pe \in numbered
    <3>1. app \in ToSet(pe_list) \cap numbered
      BY <1>1 DEF numbered
    <3>2. identification[pe] # id
      BY <1>3, <1>4, <2>1, <3>1 DEF NumbersDiffer
    <3> QED
      BY <1>2, <3>2
  <2>2. CASE pe \notin numbered
    <3>1. identification[pe] = 0
      BY <1>0, <1>2, <2>2 DEF NumberInv, IdTyped
    <3> QED
      BY <1>2, <3>1
  <2> QED
    BY <2>1, <2>2
<1> HIDE DEF stays
<1>5. l \in Seq(PE) /\ ToSet(l) = ToSet(pe_list) \cap stays /\ Distinct(l)
  BY <1>2, OnlyHolds
<1>6. check_start_and_end'
  <2>1. /\ Len(pe_list) >= 2 /\ type[pe_list[1]] = "header" /\ type[pe_list[2]] = "mf"
        /\ type[pe_list[Len(pe_list)]] = "end"
    BY DEF CheckBasicStructure, check_start_and_end, Last
  <2>2. /\ pe_list[1] \in ToSet(pe_list) /\ pe_list[2] \in ToSet(pe_list)
        /\ pe_list[Len(pe_list)] \in ToSet(pe_list)
    BY <1>2, <2>1 DEF ToSet
  <2>3. pe_list[1] \in stays /\ pe_list[2] \in stays /\ pe_list[Len(pe_list)] \in stays
    BY <1>1, <1>4, <2>1, <2>2
  <2>4. Len(l) >= 2 /\ l[1] = pe_list[1] /\ l[2] = pe_list[2] /\ l[Len(l)] = pe_list[Len(pe_list)]
    BY <1>2, <2>1, <2>3, EndsStay
  <2> HIDE DEF l
  <2> QED
    BY <1>1, <2>1, <2>4 DEF check_start_and_end, Last
<1> HIDE DEF l
<1>7. SameButLoose(l)
  BY <1>1, <1>4, <1>5 DEF SameButLoose, Of, Loose
<1>8. Counted'
  BY <1>0, <1>1, <1>5, <1>7, CountedKept DEF Counted, CheckBasicStructure
<1>9. check_identification_unique'
  <2>1. NumbersDiffer'
    BY <1>1, <1>3, <1>5 DEF NumbersDiffer
  <2> QED
    BY <1>1, <1>5, <2>1, UniqueMeansNext
<1> QED
  BY <1>6, <1>8, <1>9 DEF Counted, CheckBasicStructure

\* What is raised leaves the profile as it was.
LEMMA RaisedAccepted == ASSUME CheckBasicStructure, CallRaises PROVE CheckBasicStructure'
<1>1. pe_list' = pe_list /\ services' = services /\ identification' = identification
  BY DEF CallRaises
<1> QED
  BY <1>1 DEF CheckBasicStructure, check_start_and_end, check_number_of_occurrence,
              check_optional_ordering, check_mandatory_services, check_mandatory_services_aka,
              check_identification_unique, Has, Single

\* To add an application or an SSD to a profile that the check accepts, or to remove one of its
\* applications, leaves a profile that the check accepts, whatever was done to it before.
THEOREM AddedAlwaysAccepted == ElementsSpec => AddedIsAccepted
<1>1. ASSUME ElementsInv, CheckBasicStructure, NEW pe \in PE, AddApp(pe) \/ AddSsd(pe)
      PROVE  CheckBasicStructure'
  <2>1. ListInv
    BY <1>1 DEF ElementsInv
  <2>2. /\ pe \in PE \ ToSet(pe_list) /\ type[pe] \in Loose
        /\ CallRaises \/ \E i \in 1..(Len(pe_list) + 1) : AfterDomain(i) /\ InsertedAt(i, pe)
    BY <1>1, <2>1, AppWhere, SsdWhere DEF Loose
  <2> QED
    BY <1>1, <2>2, InsertAccepted, RaisedAccepted
<1>2. ElementsInv => (CheckBasicStructure /\ (\E pe \in PE : AddApp(pe) \/ AddSsd(pe) \/ RemoveApp(pe))
                        => CheckBasicStructure')
  BY <1>1, RemoveAccepted
<1> QED
  BY <1>2, ElementsInductive, PTL DEF AddedIsAccepted
=============================================================================
