----------------------------- MODULE CardRuntime -----------------------------
(***************************************************************************)
(* The shell's picture of a card, pySim/runtime.py: one RuntimeLchan for   *)
(* each logical channel, with the file it believes selected, and the card  *)
(* it talks to.  Files are selected by identifier, one SELECT at a time,   *)
(* along a path built from the picture; files that are not in the picture  *)
(* are probed for; administrative commands move the card's selection       *)
(* behind the picture's back; a security domain is talked to in a secure   *)
(* channel (module SecureChannel).                                         *)
(*                                                                         *)
(* A file object of the shell is the sequence of its ancestors, itself     *)
(* last: a DF probed for from its sibling becomes that sibling's child.    *)
(* A command names the channel it is sent on, which stands for a           *)
(* switch_channel before it.                                               *)
(***************************************************************************)
EXTENDS SecureChannel, Integers, FiniteSets, SequencesExt, FiniteSetsExt

CONSTANTS
    File, MF,    \* the files a card may have
    Path,        \* [File -> Seq(File)]: a file's ancestors, itself last
    Fid,         \* the file identifiers; several directories use the same ones
    Ef,          \* elementary files; the others are directories
    Adf, Fs,     \* application directories, and those with a file system (has_fs)
    Sd,          \* security domains
    Known,       \* files of the card profile
    Cards,       \* what a card may come as: its files and its number of channels
    Creatable,   \* files created while the shell runs
    Kinds,       \* the secure channels in use
    NoAdf, NoScp,
    Channel,     \* 0 is the basic channel; the class bytes modelled have room for three more
    MaxProbed, MaxDeleted, MaxMacs

Parent == [f \in File \ {MF} |-> Last(Front(Path[f]))]

ASSUME RuntimeAssumption ==
    /\ \A card \in Cards : card.files \subseteq File /\ MF \in card.files /\ card.channels \in Nat
    /\ MF \in File \ (Adf \cup Ef)
    /\ \A f \in File : Len(Path[f]) > 0 /\ Path[f] \in Seq(File) /\ Last(Path[f]) = f
    /\ Path[MF] = <<MF>> /\ \A f \in File \ {MF} : Len(Path[f]) > 1 /\ Path[Parent[f]] = Front(Path[f])
    /\ \A f \in File \ {MF} : Parent[f] \notin Ef \cup (Adf \ Fs) /\ (f \in Adf => Parent[f] = MF)
    /\ Fs \subseteq Adf \cap Known /\ Sd \subseteq Adf \ Fs /\ Adf \cap Ef = {} /\ NoAdf \notin Adf
    /\ Kinds \subseteq Kind /\ 0 \in Channel /\ Channel \subseteq 0..3 /\ NoScp \notin Scp(Channel)

VARIABLES
    channels,    \* card: how many it has
    exists,      \* card: its files
    gone,        \* files deleted so far
    current,     \* card: open channel -> selected file
    session,     \* card: channel -> secure channel session
    tree,        \* shell: the file objects
    lchan,       \* RuntimeState.lchan: channel -> RuntimeLchan
    lost,        \* what an exchange that failed on the link, or a file that was created and could
                 \* not be left again, may have put wrong: "nothing", where the channels
                 \* stand, until a "reset", or the file objects, until an "equip"
    garbled      \* kinds of the sessions whose card decrypted something not meant

vars == <<channels, exists, gone, current, session, tree, lchan, lost, garbled>>

Directory(f) == IF f \in Ef THEN Parent[f] ELSE f

Below(f) == {g \in File : IsPrefix(Path[f], Path[g])}

-----------------------------------------------------------------------------
(* The card (external).                                                    *)

\* What SELECT by identifier finds: the MF, the directory selected, its
\* parent, its files, and the directories beside it; nothing but its own
\* files from an application's directory, and nothing at all without a file system.
InReach == [at \in File |->
    LET here == Directory(at)
        inner == here \notin Adf \cup {MF}
    IN  IF here \in Adf \ Fs THEN {}
        ELSE ({MF, here} \cup (IF inner THEN {Parent[here]} ELSE {})
              \cup {g \in File \ {MF} :
                      \/ Parent[g] = here
                      \/ inner /\ g \notin Ef /\ Parent[g] = Parent[here]}) \ Adf]

\* Directories are complete, and an identifier tells apart what a SELECT may find
\* (TS 102 221, 8.6).
ASSUME FileAssumption ==
    /\ MF \in Known /\ Known \subseteq File /\ \A f \in Known \ {MF} : Parent[f] \in Known
    /\ \A card \in Cards : \A f \in card.files \ {MF} : Parent[f] \in card.files
    /\ \A at \in File : \A f, g \in InReach[at] : Fid[f] = Fid[g] => f = g

ByFid(files, at, fid) == {g \in files \cap InReach[at] : Fid[g] = fid}

\* An application is found by its AID, from anywhere, and by nothing else.
Found(files, at, f) == IF f \in Adf THEN {f} \cap files ELSE ByFid(files, at, Fid[f])

\* The applications of the card among those of the profile (_match_applications), and the
\* profile's files, which the card need not have.
Model(files) == {Path[f] : f \in {g \in Known : ToSet(Path[g]) \cap Adf \subseteq files}}
Profile == Model(File)

-----------------------------------------------------------------------------
(* Selecting: at is the file selected on the card, which has the files,    *)
(* file and adf are selected_file and selected_adf of the channel, moved   *)
(* that a SELECT has succeeded.                                            *)

Standing(ch) == [files |-> exists, at |-> current[ch], file |-> lchan[ch].selected_file,
                 adf |-> lchan[ch].selected_adf, moved |-> FALSE]

\* get_selectables, but for the children of an EF, which has none.
Selectables(file) ==
    {SubSeq(file, 1, k) : k \in 1..Len(file)}
    \cup {o \in tree : Len(o) = 2 /\ Last(o) \in Adf}
    \cup {o \in tree : Len(o) = Len(file) + 1 /\ Front(o) = file}

clip_path(path) ==
    LET applications == {i \in DOMAIN path : Last(path[i]) \in Adf}
    IN  IF applications = {} THEN path ELSE SubSeq(path, Max(applications), Len(path))

\* Up to the deepest directory above the target, and down to the target.
build_select_path_to(file, target) ==
    LET common == Max({k \in 1..Min({Len(file), Len(target) - 1}) :
                          SubSeq(file, 1, k) = SubSeq(target, 1, k)})
        up == [i \in 1..(Len(file) - common) |-> SubSeq(file, 1, Len(file) - i)]
        down == [i \in 1..(Len(target) - common) |-> SubSeq(target, 1, common + i)]
    IN  IF target = <<MF>> THEN <<target>> ELSE clip_path(up \o down)

\* _select_post
Registered(s, file) ==
    [s EXCEPT !.file = file, !.adf = IF Last(file) \in Adf THEN Last(file) ELSE @]

\* The SELECTs of a path, up to the first refusal: at[i] is where the card stands after i of them.
Along(s, path) ==
    LET at[i \in 0..Len(path)] ==
            IF i = 0 THEN {s.at} ELSE UNION {Found(s.files, f, Last(path[i])) : f \in at[i - 1]}
        n == Max({i \in DOMAIN at : at[i] # {}})
    IN  [ok |-> n = Len(path),
         s |-> [Registered(s, IF n = 0 THEN s.file ELSE path[n])
                EXCEPT !.at = CHOOSE f \in at[n] : TRUE, !.moved = @ \/ n > 0]]

\* Where a SELECT by identifier does not work, an application with a file system is selected first.
Escaped(s, target) ==
    LET ways == {o \in tree : Len(o) = 2 /\ Last(o) \in Fs}
    IN  IF s.adf \in Adf \ Fs /\ Last(target) \notin Adf /\ ways # {}
        THEN Along(s, build_select_path_to(s.file, CHOOSE o \in ways : TRUE)).s ELSE s

\* Mutant: the application is not left first.
select_file_trapped(s, target) == Along(s, build_select_path_to(s.file, target))

select_file(s, target) ==
    LET t == Escaped(s, target) IN Along(t, build_select_path_to(t.file, target))

\* select of a name the picture has: back to where it was when that fails.
select(s, target) ==
    LET r == select_file(s, target) IN IF r.ok THEN r.s ELSE select_file(r.s, s.file).s

\* Mutant: a file found from an EF is left selected on the card.
probe_file_stays(s, fid) ==
    LET found == ByFid(s.files, s.at, fid)
        there == [s EXCEPT !.at = CHOOSE f \in found : TRUE, !.moved = TRUE]
        object == Append(s.file, there.at)
    IN  CASE found = {} -> [s |-> select_file(s, s.file).s, object |-> {}]
          [] found # {} /\ Last(s.file) \in Ef -> [s |-> there, object |-> {}]
          [] found # {} /\ Last(s.file) \notin Ef
               -> [s |-> Registered(there, object), object |-> {object}]

\* Mutant: the new object is selected without being added to the picture.
probe_file_unadded(s, fid) ==
    LET there == [s EXCEPT !.at = CHOOSE f \in ByFid(s.files, s.at, fid) : TRUE, !.moved = TRUE]
    IN  [object |-> {}, s |-> IF ByFid(s.files, s.at, fid) = {} \/ Last(s.file) \in Ef
                              THEN select_file(s, s.file).s ELSE Registered(there, Append(s.file, there.at))]

\* select of an identifier the picture does not have.  An EF cannot take the
\* new object: the exception is raised after the card has selected the file.
probe_file(s, fid) ==
    LET found == ByFid(s.files, s.at, fid)
        there == [s EXCEPT !.at = CHOOSE f \in found : TRUE, !.moved = TRUE]
        object == Append(s.file, there.at)
    IN  CASE found = {} -> [s |-> select_file(s, s.file).s, object |-> {}]
          [] found # {} /\ Last(s.file) \in Ef -> [s |-> select_file(there, s.file).s, object |-> {}]
          [] found # {} /\ Last(s.file) \notin Ef
               -> [s |-> Registered(there, object), object |-> {object}]

-----------------------------------------------------------------------------
\* The function that is v on the basic channel alone, and f with v on one channel more.
Alone(v) == [c \in {0} |-> v]
Joined(f, nr, v) == [c \in DOMAIN f \cup {nr} |-> IF c = nr THEN v ELSE f[c]]

Fresh == [selected_file |-> <<MF>>, selected_adf |-> NoAdf, scp |-> NoScp]

NoSessions == [c \in Channel |-> NoScp]

\* After init_card and equip.
Init ==
    /\ \E card \in Cards : exists = card.files /\ channels = card.channels
    /\ gone = {} /\ garbled = {} /\ lost = "nothing"
    /\ current = Alone(MF) /\ lchan = Alone(Fresh)
    /\ session = NoSessions
    /\ tree = Model(exists)

\* One exchange fails until the shell is in order again.
Unlost(answered) == ~answered => lost = "nothing"
After(answered) == IF answered THEN lost ELSE "reset"

\* Channels open at both ends: a command on any other is refused.
Open == DOMAIN lchan \cap DOMAIN current

\* The card and the channel come to stand at s; a selection ends the secure
\* channel session of the card there, not the one of the shell.
Stand(ch, s) ==
    /\ current' = [current EXCEPT ![ch] = s.at]
    /\ lchan' = [lchan EXCEPT ![ch] = [selected_file |-> s.file, selected_adf |-> s.adf, scp |-> @.scp]]
    /\ session' = IF s.moved THEN [session EXCEPT ![ch] = NoScp] ELSE session

Select(ch, target) ==
    /\ Stand(ch, select(Standing(ch), target))
    /\ UNCHANGED <<channels, exists, gone, tree, lost, garbled>>

Probe(ch, fid) ==
    /\ \A o \in Selectables(lchan[ch].selected_file) : Last(o) \in Adf \/ Fid[Last(o)] # fid
    /\ LET r == probe_file(Standing(ch), fid)
       IN  /\ Stand(ch, r.s)
           /\ tree' = tree \cup r.object
           /\ Cardinality(tree' \ Profile) <= MaxProbed
           /\ lost' = IF lost = "reset" /\ r.object # {} THEN "equip" ELSE lost
    /\ UNCHANGED <<channels, exists, gone, garbled>>

\* The link fails on the way to the target: that is not a status word, so the loop of
\* select_file registers nothing; select goes back, if the link is up again.
SelectLost(ch, target) ==
    /\ lost = "nothing"
    /\ LET s == Escaped(Standing(ch), target)
           path == build_select_path_to(s.file, target)
       IN  \E n \in 0..Len(path) :
             LET cut == Along(s, SubSeq(path, 1, n)).s
                 left == [s EXCEPT !.at = cut.at, !.moved = cut.moved]
             IN  Stand(ch, left) \/ Stand(ch, select_file(left, lchan[ch].selected_file).s)
    /\ lost' = "reset"
    /\ UNCHANGED <<channels, exists, gone, tree, garbled>>

\* read_binary, read_record, update_binary and the others: the EF is selected by its
\* identifier again, and what that finds is read or written.
Access(ch) ==
    LET s == Standing(ch)
        found == ByFid(s.files, s.at, Fid[Last(s.file)])
    IN  /\ Last(s.file) \in Ef /\ found # {}
        /\ Stand(ch, [s EXCEPT !.at = CHOOSE f \in found : TRUE, !.moved = TRUE])
        /\ UNCHANGED <<channels, exists, gone, tree, lost, garbled>>

\* The file a name or an identifier given to a command stands for.
Named(ch, f) == \E o \in Selectables(lchan[ch].selected_file) : Fid[Last(o)] = Fid[f]

\* do_create_ef, do_create_df and, of a file that exists, do_resize_ef: the card selects the
\* file, and the shell selects again what it believed selected. From a directory created
\* elsewhere than in the MF or in an application that is refused: SELECT by
\* identifier does not find the directory above the one it was created in.
Administer(ch, f) ==
    /\ f \in Creatable \ exists \/ (f \in exists \cap Ef /\ Named(ch, f))
    /\ Parent[f] = Directory(current[ch])
    /\ exists' = exists \cup {f}
    /\ LET s == [Standing(ch) EXCEPT !.files = @ \cup {f}, !.at = f, !.moved = TRUE]
           r == select_file(s, s.file)
       IN  /\ Stand(ch, r.s)
           /\ lost' = IF r.ok \/ lost # "nothing" THEN lost ELSE "reset"
    /\ UNCHANGED <<channels, gone, tree, garbled>>

\* do_delete_file of a file of the directory selected, with all that is
\* below it, that no other channel uses; the card selects the directory
\* when the file was selected.
Delete(ch, f) ==
    /\ Cardinality(gone) < MaxDeleted /\ f \in exists \ {MF}
    /\ Parent[f] = Directory(current[ch]) /\ Named(ch, f)
    /\ \A other \in DOMAIN current \ {ch} : current[other] \notin Below(f)
    /\ exists' = exists \ Below(f)
    /\ gone' = gone \cup {f}
    /\ current' = [current EXCEPT ![ch] = IF @ = f THEN Parent[f] ELSE @]
    /\ UNCHANGED <<channels, session, tree, lchan, lost, garbled>>

-----------------------------------------------------------------------------
\* Mutant: the new channel always starts at the MF.
Inherited_never(ch, nr) == Fresh

\* RuntimeLchan.add_lchan
Inherited(ch, nr) ==
    IF ch = 0 THEN Fresh
    ELSE LET file == lchan[ch].selected_file
         IN  [Fresh EXCEPT !.selected_file = IF Last(file) \in Ef THEN Front(file) ELSE file,
                           !.selected_adf = lchan[ch].selected_adf]

\* do_open_channel.  When the answer does not arrive, or the shell already
\* has the channel, only the card has opened it.
OpenChannel(ch, nr, answered) ==
    /\ nr < channels /\ nr \notin DOMAIN current /\ Unlost(answered)
    /\ current' = Joined(current, nr, IF ch = 0 THEN MF ELSE Directory(current[ch]))
    /\ lchan' = IF answered /\ nr \notin DOMAIN lchan
                THEN Joined(lchan, nr, Inherited(ch, nr)) ELSE lchan
    /\ lost' = After(answered)
    /\ UNCHANGED <<channels, exists, gone, session, tree, garbled>>

\* do_close_channel
CloseChannel(nr, answered) ==
    /\ nr # 0 /\ Unlost(answered)
    /\ current' = Restrict(current, DOMAIN current \ {nr})
    /\ session' = [session EXCEPT ![nr] = NoScp]
    /\ lchan' = IF answered THEN Restrict(lchan, DOMAIN lchan \ {nr}) ELSE lchan
    /\ lost' = After(answered)
    /\ UNCHANGED <<channels, exists, gone, tree, garbled>>

ResetChannel ==
    LET s == select([Standing(0) EXCEPT !.at = MF], <<MF>>)
    IN  [Fresh EXCEPT !.selected_file = s.file]

\* RuntimeState.reset
Reset ==
    /\ current' = Alone(MF) /\ session' = NoSessions
    /\ lchan' = Alone(ResetChannel)
    /\ lost' = IF lost = "reset" THEN "nothing" ELSE lost
    /\ UNCHANGED <<channels, exists, gone, tree, garbled>>

\* The link fails before or after the card was reset; the shell has already
\* dropped its channels.
ResetLost ==
    /\ lost = "nothing" /\ lost' = "reset"
    /\ lchan' = Alone([Fresh EXCEPT !.selected_file = lchan[0].selected_file,
                                    !.selected_adf = lchan[0].selected_adf])
    /\ \/ current' = Alone(MF) /\ session' = NoSessions
       \/ UNCHANGED <<current, session>>
    /\ UNCHANGED <<channels, exists, gone, tree, garbled>>

\* do_equip: a picture of its own.
Equip ==
    /\ tree' = Model(exists)
    /\ current' = Alone(MF) /\ session' = NoSessions /\ lchan' = Alone(Fresh)
    /\ lost' = "nothing"
    /\ UNCHANGED <<channels, exists, gone, garbled>>

-----------------------------------------------------------------------------
Secured(ch, scp) ==
    [lchan EXCEPT ![ch] = [selected_file |-> @.selected_file, selected_adf |-> @.selected_adf, scp |-> scp]]

\* do_establish_scp02, do_establish_scp03, in the channel of the command.
\* A session is known by its channel: INITIALIZE UPDATE ends the one before.
Establish(ch, kind, answer) ==
    /\ Last(lchan[ch].selected_file) \in Sd /\ current[ch] \in Sd
    /\ lchan[ch].scp = NoScp
    /\ session' = [session EXCEPT ![ch] = IF answer = "refused" THEN NoScp ELSE Established(kind, ch)]
    /\ lchan' = IF answer = "answered" THEN Secured(ch, Established(kind, ch)) ELSE lchan
    /\ Unlost(answer # "lost") /\ lost' = After(answer # "lost")
    /\ UNCHANGED <<channels, exists, gone, current, tree, garbled>>

\* do_release_scp: nothing is sent.
Release(ch) ==
    /\ lchan[ch].scp # NoScp
    /\ lchan' = Secured(ch, NoScp)
    /\ UNCHANGED <<channels, exists, gone, current, session, tree, lost, garbled>>

\* The card takes a wrapped command, or ends the session.  The class byte
\* of SCP03 has lost its channel, SCP02 takes none but 0.
Arrives(wrapped, lc) ==
    LET card == session[0]
        good == card # NoScp /\ Verifies(card, [wrapped EXCEPT !.macs = @ - 1])
    IN  /\ session' = [session EXCEPT ![0] = IF good THEN Taken(card) ELSE NoScp]
        /\ garbled' = IF good /\ lc > 0 /\ card.kind.do_cenc /\ ~AsMeant(card, wrapped)
                      THEN garbled \cup {card.kind} ELSE garbled

\* Any command with class byte 80: without data, or with up to a full chunk.
Command(ch, lc) ==
    LET scp == lchan[ch].scp
        w == wrap_cmd_apdu(scp, ch, lc)
    IN  /\ scp.macs < MaxMacs /\ scp.block_nr < MaxMacs
        /\ lchan' = Secured(ch, w.scp)
        /\ \/ w.sent /\ Arrives(w.scp, lc)
              /\ \E answered \in BOOLEAN : Unlost(answered) /\ lost' = After(answered)
           \/ w.sent /\ Unlost(FALSE) /\ lost' = After(FALSE) /\ UNCHANGED <<session, garbled>>
           \/ ~w.sent /\ UNCHANGED <<session, garbled, lost>>
        /\ UNCHANGED <<channels, exists, gone, current, tree>>

-----------------------------------------------------------------------------
Next ==
    \/ \E ch \in Open :
         \/ \E target \in Selectables(lchan[ch].selected_file) : Select(ch, target) \/ SelectLost(ch, target)
         \/ \E fid \in {Fid[f] : f \in File \ Adf} : Probe(ch, fid)
         \/ \E f \in File \ (Adf \cup {MF}) : Administer(ch, f) \/ Delete(ch, f)
         \/ \E nr \in Channel, answered \in BOOLEAN : OpenChannel(ch, nr, answered)
         \/ \E kind \in Kinds, answer \in {"answered", "refused", "lost"} : Establish(ch, kind, answer)
         \/ Access(ch) \/ Release(ch)
         \/ lchan[ch].scp # NoScp /\ \E lc \in {0, 16, max_cmd_len(lchan[ch].scp)} : Command(ch, lc)
    \/ \E nr \in Open, answered \in BOOLEAN : CloseChannel(nr, answered)
    \/ Reset \/ ResetLost \/ Equip

Spec == Init /\ [][Next]_vars

-----------------------------------------------------------------------------
Object == {o \in Seq(File) : Len(o) > 0}

TypeOK ==
    /\ channels \in Nat /\ exists \subseteq File /\ gone \subseteq File /\ lost \in {"nothing", "reset", "equip"}
    /\ DOMAIN current \subseteq Channel /\ \A c \in DOMAIN current : current[c] \in exists
    /\ session \in [Channel -> Scp(Channel) \cup {NoScp}]
    /\ tree \subseteq Object /\ garbled \subseteq Kinds
    /\ DOMAIN lchan \subseteq Channel
    /\ \A c \in DOMAIN lchan : /\ lchan[c].selected_file \in tree
                               /\ lchan[c].selected_adf \in Adf \cup {NoAdf}
                               /\ lchan[c].scp \in Scp(Channel) \cup {NoScp}

\* The shell never talks to another file than the one it shows: as long as
\* no exchange failed, nor the way back from a new file, it has the channels the card has, and the file it believes selected is
\* the card's, unless that file or one above it was deleted (runtime.py:416-421
\* warns of the incoherence; ts_102_222.py selects again for its sake).
Coherent ==
    lost = "nothing" => /\ DOMAIN lchan = DOMAIN current
             /\ \A c \in DOMAIN current :
                  LET file == lchan[c].selected_file
                  IN  ToSet(file) \cap gone = {} => current[c] = Last(file)

\* The shell knows when the card stands in an application without a file system, where SELECT by
\* identifier does not work: select_file decides by it whether to leave
\* through another application.
ApplicationKnown ==
    lost = "nothing" => \A c \in DOMAIN current :
                (current[c] \in Adf \ Fs) = (lchan[c].selected_adf \in Adf \ Fs)

\* No file of the picture is out of reach: from wherever a channel stands, also from a directory
\* hung under its sibling by a probe, select_file comes to each file whose directories exist,
\* provided that the card has a file system application to leave another one through.
EveryFileSelectable ==
    lost = "nothing" => \A c \in DOMAIN current, o \in tree :
        LET s == Standing(c)
            r == select_file(s, o)
        IN  /\ ToSet(o) \cup ToSet(s.file) \subseteq exists
            /\ current[c] \in Adf \ Fs => (Last(o) \in Adf \/ exists \cap Fs # {})
            => r.ok /\ r.s.at = Last(o)

\* The two ends of a secure channel count alike, whatever commands were
\* refused before they were sent, as long as no exchange failed; except that a command with C-ENC
\* that is too long after padding has already moved the chain (SCP02) or
\* the counter (SCP03 with 16 byte MACs).
InStep ==
    lost = "nothing" => \A c \in DOMAIN lchan :
        LET scp == lchan[c].scp
            card == session[c]
        IN  scp # NoScp /\ card # NoScp /\ c = 0
            => /\ (scp.kind.protocol = "SCP02" /\ scp.kind.do_cenc) \/ scp.macs = card.macs
               /\ (scp.kind.s_mode = 16 /\ scp.kind.do_cenc) \/ scp.block_nr = card.block_nr

\* A command the card has verified means there what the shell meant, also after lost and refused
\* commands: only a session of 16 byte MACs with C-ENC can go on with another counter.
TakenAsMeant == \A kind \in garbled : kind.s_mode = 16 /\ kind.do_cenc
=============================================================================
