------------------------------ MODULE CardTrace ------------------------------
(***************************************************************************)
(* pySim-trace.py: the exchanges of a phone and a card (both external) are *)
(* overheard, TpduFilter of pySim/apdu/__init__.py makes APDUs of TPDUs,   *)
(* and the commands of pySim/apdu/ts_102_221.py keep a picture of what is  *)
(* selected on each logical channel, by the files of the card profile.     *)
(*                                                                         *)
(* The card keeps to TS 102 221: response data of SELECT are announced with*)
(* 61xx and fetched by GET RESPONSE, unless the phone does without them, a *)
(* wrong length is answered 6Cxx and repeated, and a file that is addressed*)
(* by its SFI becomes the current one.                                     *)
(***************************************************************************)
EXTENDS Naturals, Sequences

CONSTANTS
    Files, MF, DFs, Apps,   \* of the card; Apps are its ADFs
    Parent, Fid, Sfi,
    Known,                  \* files of the card profile
    Usim,                   \* the application that the tracer takes to be the current one
    Paths,                  \* of SELECT by path from the MF
    None,
    Channels,
    Pieces,                 \* how many pieces the response data of a SELECT may have
    Refuses,                \* whether the card may refuse a SELECT
    Corrected,              \* commands that may be answered 6Cxx
    MaxLost                 \* commands from one whose response data the phone left where they
                            \* are to the next reset; 0: it never leaves them

CurrentApp == "7fff"

VARIABLES
    sel, app,       \* the card: current file and current application of each open channel
    waiting,        \* the command that is not finished, its answer, and why
    last_cmd,       \* TpduFilter
    seen,           \* RuntimeState.lchan: selected_file, selected_adf
    belongs,        \* whether command and response of the last APDU handed on belong together
    logged,         \* of the last APDU, if it is a READ: its channel, and whether the tracer
                    \* shows it under the file that was read, or under none
    stopped,        \* what the tracer has raised
    astray,         \* channels on which it was told too little since it last knew
    lost            \* commands since a response was left unfetched; 0: none was since the last reset

card == <<sel, app, waiting>>
tracer == <<last_cmd, seen, belongs, logged, stopped>>
vars == <<card, tracer, astray, lost>>

Nothing == [why |-> "none"]
NotLogged == [ch |-> 0, right |-> TRUE]

Command(what, ch, arg) == [what |-> what, ch |-> ch, arg |-> arg]
Selects == {"fid", "path", "aid"}

Commands(ch) ==
    {Command("fid", ch, id) : id \in {Fid[f] : f \in Files \ Apps}}
    \cup {Command("path", ch, path) : path \in Paths}
    \cup {Command("aid", ch, a) : a \in Apps}
    \cup {Command("open", ch, n) : n \in Channels}
    \cup {Command("close", ch, n) : n \in Channels \ {0}}
    \cup {Command("read", ch, 0)}
    \cup {Command("sfi", ch, s) : s \in {Sfi[f] : f \in Files} \ {None}}
    \cup {Command("status", ch, 0)}

-----------------------------------------------------------------------------
(* The tree of files.                                                      *)

\* get_cwd
Cwd(f) == IF f \in DFs THEN f ELSE Parent[f]

ChildrenOf(d, files) == {f \in files \ (Apps \cup {MF}) : Parent[f] = d}

ancestors[f \in Files] == IF f = MF THEN {} ELSE {Parent[f]} \cup ancestors[Parent[f]]

\* get_selectables(['FIDS','MF','PARENT','SELF'])
Selectables(f) == {f, MF} \cup ancestors[f] \cup ChildrenOf(Cwd(f), Known)

\* A tree of files, and the profile's part of it.  7FFF is reserved by TS 102 221, which has a FID
\* mean one file among those that can be selected from anywhere (for siblings, add_file too).
ASSUME TraceAssumption ==
    /\ Apps \subseteq DFs \ {MF} /\ MF \in DFs /\ DFs \subseteq Files /\ None \notin Files
    /\ Parent \in [Files -> DFs] /\ Parent[MF] = MF
    /\ \A S \in SUBSET Files : S # {} /\ (\A f \in S : Parent[f] \in S) => MF \in S
    /\ Known \subseteq Files /\ MF \in Known /\ \A f \in Known : Parent[f] \in Known
    /\ Usim \in Apps \cap Known
    /\ \A f \in Files \ Apps : Fid[f] # CurrentApp
    /\ \A f \in Known : \A g, h \in Selectables(f) \ Apps : Fid[g] = Fid[h] => g = h
    /\ \A path \in Paths : Len(path) \in Nat
    /\ 0 \in Channels /\ Channels \subseteq Nat /\ Pieces \subseteq Nat /\ MaxLost \in Nat

Found(f, id) == {g \in Selectables(f) \ Apps : Fid[g] = id}

\* What the card finds.
Reaches(f, id) ==
    {g \in {Cwd(f), Parent[Cwd(f)], MF} \cup ChildrenOf(Cwd(f), Files) : g \notin Apps /\ Fid[g] = id}

Walk(path, current) ==
    LET to[i \in 0..Len(path)] ==
            IF i = 0 THEN {MF}
            ELSE IF path[i] = CurrentApp THEN {current} \ {None}
            ELSE UNION {{g \in ChildrenOf(f, Files) : Fid[g] = path[i]} : f \in to[i - 1] \cap DFs}
    IN  to[Len(path)]

-----------------------------------------------------------------------------
(* The card.                                                               *)

\* The files that a command is about; more than one would be a tree with a FID twice.
Target(c) ==
    CASE c.what = "fid" -> Reaches(sel[c.ch], c.arg)
      [] c.what = "path" -> Walk(c.arg, app[c.ch])
      [] c.what = "aid" -> {c.arg}
      [] c.what = "read" -> {sel[c.ch]} \ DFs
      [] c.what = "sfi" -> {f \in ChildrenOf(Cwd(sel[c.ch]), Files) : Sfi[f] = c.arg}
      [] OTHER -> {}

Answer(c, ok, file, chan, whole) ==
    [cmd |-> c, ok |-> ok, file |-> file, chan |-> chan, whole |-> whole]

Refused(c) == Answer(c, FALSE, None, 0, 0)

\* It opens the channel it is asked for, or one that is free; or none.
Opened(c) == {n \in Channels \ DOMAIN sel : n # 0 /\ c.arg \in {0, n}}

Answers(c) ==
    CASE c.what \in Selects ->
            {Answer(c, TRUE, f, 0, n) : f \in Target(c), n \in Pieces}
            \cup (IF Refuses \/ Target(c) = {} THEN {Refused(c)} ELSE {})
      [] c.what \in {"read", "sfi"} ->
            IF Target(c) = {} THEN {Refused(c)} ELSE {Answer(c, TRUE, f, 0, 0) : f \in Target(c)}
      [] c.what = "open" ->
            IF Opened(c) = {} THEN {Refused(c)} ELSE {Answer(c, TRUE, None, n, 0) : n \in Opened(c)}
      [] c.what = "close" ->
            IF c.arg \in DOMAIN sel /\ c.arg # c.ch THEN {Answer(c, TRUE, None, c.arg, 0)} ELSE {Refused(c)}
      [] c.what = "status" ->
            {Answer(c, TRUE, None, 0, 0)} \cup (IF Refuses THEN {Refused(c)} ELSE {})

Without(f, n) == [ch \in DOMAIN f \ {n} |-> f[ch]]
With(f, n, x) == [ch \in DOMAIN f \cup {n} |-> IF ch = n THEN x ELSE f[ch]]

\* A channel opened from the basic one begins at the MF, one from another where that is.
Execute(r) ==
    LET c == r.cmd
    IN  IF ~r.ok THEN UNCHANGED <<sel, app>>
        ELSE /\ sel' = CASE c.what \in {"read", "status"} -> sel
                         [] c.what = "open" ->
                                With(sel, r.chan, IF c.ch = 0 THEN MF ELSE Cwd(sel[c.ch]))
                         [] c.what = "close" -> Without(sel, c.arg)
                         [] OTHER -> [sel EXCEPT ![c.ch] = r.file]
             /\ app' = CASE c.what = "aid" -> [app EXCEPT ![c.ch] = c.arg]
                         [] c.what = "open" -> With(app, r.chan, IF c.ch = 0 THEN None ELSE app[c.ch])
                         [] c.what = "close" -> Without(app, c.arg)
                         [] OTHER -> app

-----------------------------------------------------------------------------
(* The tracer: process_on_lchan and process_global.                        *)

Start == [file |-> MF, adf |-> None]

\* One element of a path.
Step(ok, at, id) ==
    IF id = CurrentApp
    THEN LET a == IF at.adf = None THEN Usim ELSE at.adf IN [file |-> a, adf |-> a]
    ELSE IF ok /\ Found(at.file, id) # {}
    THEN [at EXCEPT !.file = CHOOSE g \in Found(at.file, id) : TRUE]
    ELSE at

\* SELECT by path from the MF, to which it goes back in any case
select_path(path, ok, at) ==
    LET after[i \in 0..Len(path)] ==
            IF i = 0 THEN [at EXCEPT !.file = MF] ELSE Step(ok, after[i - 1], path[i])
    IN  after[Len(path)]

\* Mutant: the file ID is kept, not the file it is of.
Selected_any(c, ok, at) ==
    CASE c.what = "fid" -> [at EXCEPT !.file = c.arg]
      [] c.what = "path" -> select_path(c.arg, ok, at)
      [] c.what = "aid" -> [file |-> c.arg, adf |-> c.arg]

\* UiccSelect
Selected(c, ok, at) ==
    CASE c.what = "fid" -> Step(ok, at, c.arg)
      [] c.what = "path" -> select_path(c.arg, ok, at)
      [] c.what = "aid" -> IF c.arg \in Known THEN [file |-> c.arg, adf |-> c.arg] ELSE at

\* Mutant: a new channel is always at the MF.
add_lchan_mf(from) == Start

\* RuntimeLchan.add_lchan
add_lchan(from) ==
    IF from = 0 THEN Start ELSE [file |-> Cwd(seen[from].file), adf |-> seen[from].adf]

\* process of the command c with the response r
ManageChannel(c, r) ==
    IF ~r.ok THEN UNCHANGED <<seen, stopped>>
    ELSE IF c.what = "close" THEN seen' = Without(seen, c.arg) /\ UNCHANGED stopped
    ELSE LET created == IF c.arg # 0 THEN c.arg ELSE r.chan
         IN  IF c.ch \notin DOMAIN seen \/ created \in DOMAIN seen \cup {0}
             THEN stopped' = "channel" /\ UNCHANGED seen
             ELSE seen' = With(seen, created, add_lchan(c.ch)) /\ UNCHANGED stopped

\* READ BINARY, UPDATE BINARY and their likes: the file that the APDU is shown under, if any.
Read(c, r) ==
    LET file == IF c.what = "read" THEN {seen[c.ch].file}
                ELSE {f \in ChildrenOf(Cwd(seen[c.ch].file), Known) : Sfi[f] = c.arg}
    IN  logged' = [ch |-> c.ch, right |-> r.ok => file \subseteq {r.file}]

Process(c, r) ==
    IF c.what \in {"open", "close"} THEN ManageChannel(c, r) /\ logged' = NotLogged
    ELSE IF c.ch \notin DOMAIN seen THEN stopped' = "channel" /\ logged' = NotLogged /\ UNCHANGED seen
    ELSE CASE c.what \in Selects ->
                /\ seen' = [seen EXCEPT ![c.ch] = Selected(c, r.ok, @)]
                /\ logged' = NotLogged
                /\ UNCHANGED stopped
           [] c.what \in {"read", "sfi"} -> Read(c, r) /\ UNCHANGED <<seen, stopped>>
           [] c.what = "status" ->
                /\ stopped' = IF r.ok THEN stopped ELSE "undecodable"
                /\ logged' = NotLogged
                /\ UNCHANGED seen

\* Where the tracer is told too little, and SELECT by AID tells it all.
Told(r) ==
    LET c == r.cmd
    IN  CASE c.what = "aid" /\ r.ok /\ c.arg \in Known -> astray \ {c.ch}
          [] c.what \in {"path", "aid"} /\ ~r.ok -> astray \cup {c.ch}
          [] c.what \in Selects /\ r.ok /\ r.file \notin Known -> astray \cup {c.ch}
          [] c.what = "sfi" /\ r.ok -> astray \cup {c.ch}
          [] c.what = "open" /\ r.ok ->
                IF c.ch \in astray \ {0} THEN astray \cup {r.chan} ELSE astray \ {r.chan}
          [] c.what = "close" /\ r.ok -> astray \ {c.arg}
          [] OTHER -> astray

-----------------------------------------------------------------------------
(* TpduFilter.input_tpdu                                                   *)

\* After 61xx and 6Cxx.
Remembered(ins, c) == IF ins = "get_response" THEN last_cmd ELSE c

Withheld(ins, c) ==
    /\ last_cmd' = Remembered(ins, c)
    /\ UNCHANGED <<seen, belongs, logged, stopped, astray>>

\* Mutant: the command is remembered for the next response too.
HandedOn_kept(c, r) ==
    LET icmd == IF last_cmd # Nothing THEN last_cmd ELSE c
    IN  /\ UNCHANGED last_cmd
        /\ belongs' = (icmd = r.cmd)
        /\ Process(icmd, r)
        /\ astray' = Told(r)

\* Any other status word: the response is handed on with the command that is remembered.
HandedOn(c, r) ==
    LET icmd == IF last_cmd # Nothing THEN last_cmd ELSE c
    IN  /\ last_cmd' = Nothing
        /\ belongs' = (icmd = r.cmd)
        /\ Process(icmd, r)
        /\ astray' = Told(r)

-----------------------------------------------------------------------------
(* Phone and card.                                                         *)

\* A command is sent, and answered, or its response data are announced.
Send(c) ==
    /\ stopped = "no"
    /\ waiting = Nothing \/ (waiting.why = "61" /\ lost < MaxLost)
    /\ lost' = IF lost > 0 \/ waiting # Nothing THEN lost + 1 ELSE 0
    /\ lost' <= MaxLost
    /\ \E r \in Answers(c) :
           /\ Execute(r)
           /\ IF r.whole > 0
              THEN waiting' = [why |-> "61", r |-> r, left |-> r.whole] /\ Withheld("command", c)
              ELSE waiting' = Nothing /\ HandedOn(c, r)

GetResponse ==
    /\ stopped = "no"
    /\ waiting.why = "61"
    /\ IF waiting.left > 1
       THEN /\ waiting' = [waiting EXCEPT !.left = @ - 1]
            /\ Withheld("get_response", waiting.r.cmd)
       ELSE /\ waiting' = Nothing
            /\ HandedOn(Command("get_response", waiting.r.cmd.ch, 0), waiting.r)
    /\ UNCHANGED <<sel, app, lost>>

\* 6Cxx, and the command once more
SendWrongLength(c) ==
    /\ stopped = "no"
    /\ waiting = Nothing
    /\ c.what \in Corrected
    /\ waiting' = [why |-> "6c", cmd |-> c]
    /\ Withheld("command", c)
    /\ UNCHANGED <<sel, app, lost>>

Repeat ==
    /\ stopped = "no"
    /\ waiting.why = "6c"
    /\ \E r \in Answers(waiting.cmd) : Execute(r) /\ HandedOn(waiting.cmd, r)
    /\ waiting' = Nothing
    /\ UNCHANGED lost

\* The card is reset: Tracer.main, RuntimeState.reset.  The filter is not.
CardReset ==
    /\ stopped = "no"
    /\ waiting = Nothing \/ MaxLost > 0
    /\ sel' = [ch \in {0} |-> MF] /\ app' = [ch \in {0} |-> None]
    /\ waiting' = Nothing
    /\ seen' = [ch \in {0} |-> Start]
    /\ belongs' = TRUE
    /\ logged' = NotLogged
    /\ astray' = {}
    /\ lost' = IF last_cmd # Nothing THEN 1 ELSE 0
    /\ UNCHANGED <<last_cmd, stopped>>

-----------------------------------------------------------------------------
Init ==
    /\ sel = [ch \in {0} |-> MF] /\ app = [ch \in {0} |-> None]
    /\ waiting = Nothing /\ last_cmd = Nothing
    /\ seen = [ch \in {0} |-> Start]
    /\ belongs = TRUE
    /\ logged = NotLogged
    /\ stopped = "no"
    /\ astray = {} /\ lost = 0

Next ==
    \/ \E ch \in DOMAIN sel : \E c \in Commands(ch) : Send(c) \/ SendWrongLength(c)
    \/ GetResponse \/ Repeat
    \/ CardReset

Spec == Init /\ [][Next]_vars
-----------------------------------------------------------------------------
TypeOK ==
    /\ 0 \in DOMAIN sel /\ DOMAIN sel \subseteq Channels /\ DOMAIN app = DOMAIN sel
    /\ \A ch \in DOMAIN sel : sel[ch] \in Files /\ app[ch] \in Apps \cup {None}
    /\ 0 \in DOMAIN seen /\ DOMAIN seen \subseteq Channels
    /\ \A ch \in DOMAIN seen : seen[ch].file \in Known /\ seen[ch].adf \in Apps \cup {None}
    /\ waiting.why \in {"none", "61", "6c"}
    /\ waiting # Nothing => last_cmd # Nothing
    /\ belongs \in BOOLEAN
    /\ logged \in [ch : Channels, right : BOOLEAN]
    /\ stopped \in {"no", "channel", "undecodable"}
    /\ astray \subseteq Channels /\ lost \in 0..MaxLost

\* The tracer's picture of every channel is the card's, until a SELECT by path or AID is refused,
\* a file that the profile has not or an SFI is used on that channel, or a response is not fetched;
\* and it is again after the next SELECT by AID.  What is read on a channel with such a picture is
\* shown under its own file (UiccSelect, ManageChannel, ReadBinary, RuntimeState.reset).
PictureRight ==
    waiting = Nothing /\ stopped = "no" /\ lost = 0 =>
        /\ DOMAIN seen = DOMAIN sel
        /\ \A ch \in DOMAIN sel \ astray : seen[ch] = [file |-> sel[ch], adf |-> app[ch]]
        /\ logged.right \/ logged.ch \in astray

\* Over GET RESPONSE and repetitions a response is handed on with its own command, and the tracer
\* always knows the channel, unless a response was never fetched (TpduFilter, ManageChannel).
ResponsesBelong == lost > 0 \/ (belongs /\ stopped # "channel")
=============================================================================
