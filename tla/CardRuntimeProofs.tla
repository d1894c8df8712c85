-------------------------- MODULE CardRuntimeProofs --------------------------
(***************************************************************************)
(* What holds of CardRuntime for every card, every set of files, of        *)
(* channels and every kind of session.                                     *)
(*                                                                         *)
(* Of the secure channels: the invariant IInv rests on this, that the      *)
(* encryption counter of either end is a function of the length of its MAC *)
(* chain, unless a command with C-ENC can be refused between the one and   *)
(* the other, which 16 byte MACs allow.                                    *)
(*                                                                         *)
(* Of the picture of the files: the invariant SelInv says that every file  *)
(* object can be reached from the one above it and that one from it, so    *)
(* that a SELECT by identifier, along a path of such objects, finds the    *)
(* file that is meant or nothing (PathClean); and that, as long as nothing *)
(* is lost, the card stands in the file shown, or in the directory of an   *)
(* EF that was deleted there (AtRight).                                    *)
(***************************************************************************)
EXTENDS CardRuntime, SequenceTheorems, WellFoundedInduction, TLAPS

\* The counter, of a session whose commands are refused before it moves.
Numbered(scp) ==
    /\ scp.macs >= 1
    /\ scp.kind.do_cenc /\ scp.kind.protocol = "SCP03" /\ scp.kind.s_mode = 8
       => scp.block_nr = scp.macs - 1
    /\ ~scp.kind.do_cenc \/ scp.kind.protocol = "SCP02" => scp.block_nr = 0

EndsOK ==
    /\ session \in [Channel -> Scp(Channel) \cup {NoScp}]
    /\ DOMAIN lchan \subseteq Channel
    /\ \A c \in DOMAIN lchan : lchan[c].scp \in Scp(Channel) \cup {NoScp}

KindsOK ==
    /\ garbled \subseteq Kinds
    /\ \A c \in Channel : session[c] # NoScp => session[c].kind \in Kinds

\* A session is known by its channel, and is of one kind at both ends.
OneSession ==
    /\ \A c \in Channel : session[c] # NoScp => session[c].id = c /\ Numbered(session[c])
    /\ \A c \in DOMAIN lchan :
          lchan[c].scp # NoScp => /\ lchan[c].scp.id = c /\ Numbered(lchan[c].scp)
                                  /\ session[c] # NoScp => session[c].kind = lchan[c].scp.kind

IInv == EndsOK /\ KindsOK /\ OneSession /\ InStep /\ TakenAsMeant

-----------------------------------------------------------------------------
(* The wrapping of one command.                                            *)

\* A session wrapped once, or refused, is a session again.
LEMMA WrapType ==
    ASSUME NEW Id, NEW scp \in Scp(Id), NEW nr, NEW lc \in Nat
    PROVE  /\ wrap_cmd_apdu(scp, nr, lc).scp \in Scp(Id)
           /\ wrap_cmd_apdu(scp, nr, lc).scp.kind = scp.kind
           /\ wrap_cmd_apdu(scp, nr, lc).scp.id = scp.id
BY DEF Scp, Kind, wrap_cmd_apdu, wrap_scp02, wrap_scp03, Padded, Counted, Chained, Raised, Sent

\* Without C-ENC a command that is refused has moved nothing: _wrap_cmd_apdu
\* checks the length before it computes the MAC.
THEOREM RefusedMovesNothing ==
    ASSUME NEW Id, NEW scp \in Scp(Id), NEW nr, NEW lc \in Nat,
           ~scp.kind.do_cenc, ~wrap_cmd_apdu(scp, nr, lc).sent
    PROVE  wrap_cmd_apdu(scp, nr, lc).scp = scp
BY DEF Scp, Kind, wrap_cmd_apdu, wrap_scp02, wrap_scp03, Counted, Chained, Raised, Sent

\* Without C-ENC everything up to max_cmd_len is sent on the basic channel; with
\* C-ENC a full chunk, as store_data cuts it, never is: max_cmd_len leaves no room for the padding.
THEOREM FullChunk ==
    ASSUME NEW Id, NEW scp \in Scp(Id), NEW lc \in Nat
    PROVE  /\ ~scp.kind.do_cenc /\ lc <= max_cmd_len(scp) => wrap_cmd_apdu(scp, 0, lc).sent
           /\ scp.kind.do_cenc => ~wrap_cmd_apdu(scp, 0, max_cmd_len(scp)).sent
BY DEF Scp, Kind, wrap_cmd_apdu, wrap_scp02, wrap_scp03, Padded, Counted, Chained, Raised, Sent, max_cmd_len

\* A command that is sent has moved the chain and the counter by one; one that
\* is refused, neither, but for the two cases InStep excepts.
LEMMA WrapMoves ==
    ASSUME NEW Id, NEW scp \in Scp(Id), NEW nr, NEW lc \in Nat,
           NEW w, w = wrap_cmd_apdu(scp, nr, lc)
    PROVE  /\ w.sent => w.scp = Chained(Counted(scp))
           /\ ~w.sent /\ ~(scp.kind.protocol = "SCP02" /\ scp.kind.do_cenc) => w.scp.macs = scp.macs
           /\ ~w.sent /\ ~(scp.kind.s_mode = 16 /\ scp.kind.do_cenc) => w.scp.block_nr = scp.block_nr
BY DEF Scp, Kind, wrap_cmd_apdu, wrap_scp02, wrap_scp03, Padded, Counted, Chained, Raised, Sent

\* Wrapping keeps the counter with the chain.
LEMMA WrapNumbered ==
    ASSUME NEW Id, NEW scp \in Scp(Id), NEW nr, NEW lc \in Nat, Numbered(scp)
    PROVE  Numbered(wrap_cmd_apdu(scp, nr, lc).scp)
BY DEF Numbered, Scp, Kind, wrap_cmd_apdu, wrap_scp02, wrap_scp03, Padded, Counted, Chained, Raised, Sent

\* The card, having taken a command, is in a session of the same kind.
LEMMA TakenType ==
    ASSUME NEW Id, NEW card \in Scp(Id), Numbered(card)
    PROVE  /\ Taken(card) \in Scp(Id) /\ Taken(card).kind = card.kind /\ Taken(card).id = card.id
           /\ Numbered(Taken(card))
           /\ Taken(card).macs = card.macs + 1
           /\ Taken(card).block_nr = Counted(card).block_nr
BY DEF Numbered, Scp, Kind, Taken, Counted, Chained

-----------------------------------------------------------------------------
(* The steps of the specification.                                         *)

\* What every step but Establish and Command does: sessions go on as they
\* were or end, at either end, and no exchange that failed is forgotten
\* while the card has one.
LEMMA Framed ==
    ASSUME IInv, garbled' = garbled,
           (lost' = "nothing" => lost = "nothing") \/ (\A c \in Channel : session'[c] = NoScp),
           session' \in [Channel -> Scp(Channel) \cup {NoScp}],
           \A c \in Channel : session'[c] \in {NoScp, session[c]},
           DOMAIN lchan' \subseteq Channel,
           \A c \in DOMAIN lchan' : \/ lchan'[c].scp = NoScp
                                    \/ c \in DOMAIN lchan /\ lchan'[c].scp = lchan[c].scp
    PROVE  IInv'
<1>1. EndsOK'
  BY DEF IInv, EndsOK
<1>2. OneSession'
  BY <1>1 DEF IInv, EndsOK, OneSession, Numbered
<1>3. InStep'
  BY <1>1 DEF IInv, InStep, EndsOK
<1>4. TakenAsMeant'
  BY DEF IInv, TakenAsMeant
<1>5. KindsOK'
  BY DEF IInv, KindsOK
<1> QED
  BY <1>1, <1>2, <1>3, <1>4, <1>5 DEF IInv

\* A channel that comes to stand elsewhere.
LEMMA Stands ==
    ASSUME IInv, NEW ch \in DOMAIN lchan, NEW s, Stand(ch, s),
           garbled' = garbled, lost' = "nothing" => lost = "nothing"
    PROVE  IInv'
<1>1. session \in [Channel -> Scp(Channel) \cup {NoScp}] /\ ch \in Channel /\ DOMAIN lchan \subseteq Channel
  BY DEF IInv, EndsOK
<1>2. /\ session' \in [Channel -> Scp(Channel) \cup {NoScp}]
      /\ \A c \in Channel : session'[c] \in {NoScp, session[c]}
  BY <1>1 DEF Stand
<1>3. DOMAIN lchan' = DOMAIN lchan /\ \A c \in DOMAIN lchan : lchan'[c].scp = lchan[c].scp
  BY DEF Stand
<1> QED
  BY <1>1, <1>2, <1>3, Framed

\* EXTERNAL AUTHENTICATE starts the chain at both ends, or at the card alone when its answer is lost.
LEMMA Establishes ==
    ASSUME IInv, RuntimeAssumption, NEW ch \in Open, NEW kind \in Kinds,
           NEW answer \in {"answered", "refused", "lost"}, Establish(ch, kind, answer)
    PROVE  IInv'
<1> DEFINE scp == Established(kind, ch)
<1>0. /\ session \in [Channel -> Scp(Channel) \cup {NoScp}] /\ ch \in Channel
      /\ ch \in DOMAIN lchan /\ DOMAIN lchan \subseteq Channel /\ kind \in Kind
      /\ lchan[ch].scp = NoScp
  BY DEF IInv, EndsOK, Open, Establish, RuntimeAssumption
<1>1. scp \in Scp(Channel) /\ scp.id = ch /\ Numbered(scp) /\ scp.kind = kind
  BY <1>0 DEF Established, Scp, Numbered, Kind
<1>2. /\ session' \in [Channel -> Scp(Channel) \cup {NoScp}]
      /\ \A c \in Channel : c # ch => session'[c] = session[c]
      /\ session'[ch] = IF answer = "refused" THEN NoScp ELSE scp
  BY <1>0, <1>1 DEF Establish
<1>3. /\ DOMAIN lchan' = DOMAIN lchan
      /\ \A c \in DOMAIN lchan : c # ch => lchan'[c].scp = lchan[c].scp
      /\ lchan'[ch].scp = IF answer = "answered" THEN scp ELSE NoScp
  BY <1>0 DEF Establish, Secured
<1>4. garbled' = garbled /\ (lost' = "nothing" => lost = "nothing")
  BY DEF Establish, Unlost, After
<1> HIDE DEF scp
<1>5. EndsOK'
  BY <1>0, <1>1, <1>2, <1>3 DEF IInv, EndsOK
<1>6. OneSession'
  <2>1. ASSUME NEW c \in Channel, session'[c] # NoScp
        PROVE  session'[c].id = c /\ Numbered(session'[c])
    BY <2>1, <1>1, <1>2 DEF IInv, OneSession
  <2>2. ASSUME NEW c \in DOMAIN lchan, lchan'[c].scp # NoScp
        PROVE  /\ lchan'[c].scp.id = c /\ Numbered(lchan'[c].scp)
               /\ session'[c] # NoScp => session'[c].kind = lchan'[c].scp.kind
    <3>1. CASE c = ch
      BY <2>2, <3>1, <1>1, <1>2, <1>3
    <3>2. CASE c # ch
      BY <2>2, <3>2, <1>0, <1>2, <1>3 DEF IInv, OneSession
    <3> QED
      BY <3>1, <3>2
  <2>3. \A c \in Channel : session'[c] # NoScp => session'[c].id = c /\ Numbered(session'[c])
    BY <2>1
  <2>4. \A c \in DOMAIN lchan' :
           lchan'[c].scp # NoScp => /\ lchan'[c].scp.id = c /\ Numbered(lchan'[c].scp)
                                    /\ session'[c] # NoScp => session'[c].kind = lchan'[c].scp.kind
    BY <1>3, <2>2
  <2> QED
    BY <2>3, <2>4 DEF OneSession, Numbered
<1>7. InStep'
  BY <1>0, <1>1, <1>2, <1>3, <1>4 DEF IInv, InStep
<1>8. TakenAsMeant'
  BY <1>4 DEF IInv, TakenAsMeant
<1>9. KindsOK'
  BY <1>1, <1>2, <1>4 DEF IInv, KindsOK
<1> QED
  BY <1>5, <1>6, <1>7, <1>8, <1>9 DEF IInv

\* A command that arrives: the card ends the session, or has verified it, and then stood where
\* the host stood before it was wrapped.
LEMMA Arrived ==
    ASSUME IInv, RuntimeAssumption, NEW ch \in Open, NEW lc \in Nat, lchan[ch].scp # NoScp,
           NEW w, w = wrap_cmd_apdu(lchan[ch].scp, ch, lc), w.sent, Arrives(w.scp, lc)
    PROVE  /\ session' \in [Channel -> Scp(Channel) \cup {NoScp}]
           /\ \A c \in Channel : c # 0 => session'[c] = session[c]
           /\ \/ session'[0] = NoScp
              \/ /\ ch = 0 /\ session[0] # NoScp /\ session[0].macs = lchan[0].scp.macs
                 /\ session'[0] = Taken(session[0])
           /\ TakenAsMeant' /\ KindsOK'
<1> DEFINE scp == lchan[ch].scp
           card == session[0]
           good == card # NoScp /\ Verifies(card, [w.scp EXCEPT !.macs = @ - 1])
<1>0. /\ session \in [Channel -> Scp(Channel) \cup {NoScp}] /\ 0 \in Channel /\ ch \in Channel
      /\ ch \in DOMAIN lchan /\ scp \in Scp(Channel) /\ scp.id = ch /\ Numbered(scp)
      /\ card # NoScp => /\ card \in Scp(Channel) /\ card.id = 0 /\ Numbered(card)
                         /\ ch = 0 => card.kind = scp.kind
  BY DEF IInv, EndsOK, OneSession, Open, RuntimeAssumption
<1>1. /\ w.scp = Chained(Counted(scp)) /\ w.scp \in Scp(Channel)
      /\ w.scp.macs = scp.macs + 1 /\ w.scp.id = ch /\ w.scp.block_nr = Counted(scp).block_nr
  <2>1. w.scp = Chained(Counted(scp)) /\ w.scp \in Scp(Channel) /\ w.scp.id = ch
    BY <1>0, WrapMoves, WrapType
  <2> QED
    BY <1>0, <2>1 DEF Scp, Chained, Counted
<1>2. good => ch = 0 /\ card \in Scp(Channel) /\ card.macs = scp.macs /\ card.kind = scp.kind
  <2>1. /\ [w.scp EXCEPT !.macs = @ - 1].macs = scp.macs
        /\ [w.scp EXCEPT !.macs = @ - 1].id = ch
    BY <1>0, <1>1 DEF Scp
  <2> QED
    BY <1>0, <2>1 DEF Verifies
<1>3. good => Taken(card) \in Scp(Channel)
  BY <1>0, TakenType
<1>4. /\ session' = [session EXCEPT ![0] = IF good THEN Taken(card) ELSE NoScp]
      /\ garbled' = IF good /\ lc > 0 /\ card.kind.do_cenc /\ ~AsMeant(card, w.scp)
                    THEN garbled \cup {card.kind} ELSE garbled
  BY DEF Arrives
<1> HIDE DEF good
<1>5. session' \in [Channel -> Scp(Channel) \cup {NoScp}]
  BY <1>0, <1>3, <1>4
<1>6. \/ session'[0] = NoScp
      \/ /\ ch = 0 /\ session[0] # NoScp /\ session[0].macs = lchan[0].scp.macs
         /\ session'[0] = Taken(session[0])
  <2>1. good => session[0] # NoScp
    BY DEF good
  <2> QED
    BY <1>0, <1>2, <1>4, <2>1
<1>7. good /\ card.kind.do_cenc /\ ~AsMeant(card, w.scp) => card.kind.s_mode = 16
  <2>1. SUFFICES ASSUME good, card.kind.do_cenc, card.kind.s_mode # 16
                 PROVE  AsMeant(card, w.scp)
    OBVIOUS
  <2>2. card \in Scp(Channel) /\ card # NoScp /\ Numbered(card) /\ card.macs = scp.macs /\ card.kind = scp.kind
    BY <1>0, <1>2, <2>1 DEF good
  <2>3. card.block_nr = scp.block_nr
    BY <1>0, <2>1, <2>2 DEF Numbered, Scp, Kind
  <2> QED
    BY <1>0, <1>1, <2>2, <2>3 DEF AsMeant, Counted, Scp
<1>8. TakenAsMeant'
  BY <1>4, <1>7 DEF IInv, TakenAsMeant
<1>9. KindsOK'
  <2>1. good => card.kind \in Kinds /\ Taken(card).kind = card.kind
    <3>1. good => card # NoScp /\ card \in Scp(Channel) /\ Numbered(card)
      BY <1>0, <1>2 DEF good
    <3> QED
      BY <1>0, <3>1, TakenType DEF IInv, KindsOK
  <2>2. garbled' \subseteq Kinds
    BY <1>4, <2>1 DEF IInv, KindsOK
  <2>3. \A c \in Channel : session'[c] # NoScp => session'[c].kind \in Kinds
    BY <1>0, <1>4, <2>1 DEF IInv, KindsOK
  <2> QED
    BY <2>2, <2>3 DEF KindsOK
<1> QED
  BY <1>4, <1>5, <1>6, <1>8, <1>9, <1>0

\* A command with class byte 80.
LEMMA Commands ==
    ASSUME IInv, RuntimeAssumption, NEW ch \in Open, NEW lc \in Nat, lchan[ch].scp # NoScp, Command(ch, lc)
    PROVE  IInv'
<1> DEFINE scp == lchan[ch].scp
           w == wrap_cmd_apdu(scp, ch, lc)
<1>0. /\ session \in [Channel -> Scp(Channel) \cup {NoScp}] /\ 0 \in Channel /\ ch \in Channel
      /\ ch \in DOMAIN lchan /\ DOMAIN lchan \subseteq Channel
      /\ scp \in Scp(Channel) /\ scp # NoScp /\ scp.id = ch /\ Numbered(scp)
  BY DEF IInv, EndsOK, OneSession, Open, RuntimeAssumption
<1>1. w.scp \in Scp(Channel) /\ w.scp # NoScp /\ w.scp.id = ch /\ w.scp.kind = scp.kind /\ Numbered(w.scp)
  BY <1>0, WrapType, WrapNumbered DEF RuntimeAssumption
<1>2. /\ DOMAIN lchan' = DOMAIN lchan
      /\ \A c \in DOMAIN lchan : c # ch => lchan'[c].scp = lchan[c].scp
      /\ lchan'[ch].scp = w.scp
  BY <1>0 DEF Command, Secured
<1>3. \/ w.sent /\ Arrives(w.scp, lc) /\ (lost' = "nothing" => lost = "nothing")
      \/ w.sent /\ lost' # "nothing" /\ session' = session /\ garbled' = garbled
      \/ ~w.sent /\ session' = session /\ garbled' = garbled /\ lost' = lost
  BY DEF Command, Unlost, After
<1>4. /\ w.sent => w.scp = Chained(Counted(scp))
      /\ ~w.sent /\ ~(scp.kind.protocol = "SCP02" /\ scp.kind.do_cenc) => w.scp.macs = scp.macs
      /\ ~w.sent /\ ~(scp.kind.s_mode = 16 /\ scp.kind.do_cenc) => w.scp.block_nr = scp.block_nr
  <2> HIDE DEF scp
  <2> QED
    BY <1>0, WrapMoves
<1>5. CASE w.sent /\ Arrives(w.scp, lc) /\ (lost' = "nothing" => lost = "nothing")
  <2>1. /\ session' \in [Channel -> Scp(Channel) \cup {NoScp}]
        /\ \A c \in Channel : c # 0 => session'[c] = session[c]
        /\ \/ session'[0] = NoScp
           \/ /\ ch = 0 /\ session[0] # NoScp /\ session[0].macs = lchan[0].scp.macs
              /\ session'[0] = Taken(session[0])
        /\ TakenAsMeant' /\ KindsOK'
    BY <1>0, <1>5, Arrived
  <2>2. session[0] # NoScp => /\ session[0] \in Scp(Channel) /\ session[0].id = 0 /\ Numbered(session[0])
                              /\ ch = 0 => session[0].kind = scp.kind
    BY <1>0 DEF IInv, OneSession
  <2>3. session'[0] # NoScp => /\ ch = 0 /\ session[0] # NoScp /\ session[0].macs = scp.macs
                               /\ session'[0].kind = scp.kind /\ session'[0].id = 0 /\ Numbered(session'[0])
                               /\ session'[0].macs = session[0].macs + 1
                               /\ session'[0].block_nr = Counted(session[0]).block_nr
    BY <2>1, <2>2, TakenType
  <2> HIDE DEF w
  <2>4. EndsOK'
    BY <1>0, <1>1, <1>2, <2>1 DEF IInv, EndsOK
  <2>5. OneSession'
    <3>1. ASSUME NEW c \in Channel, session'[c] # NoScp
          PROVE  session'[c].id = c /\ Numbered(session'[c])
      BY <3>1, <2>1, <2>3 DEF IInv, OneSession
    <3>2. ASSUME NEW c \in DOMAIN lchan', lchan'[c].scp # NoScp
          PROVE  /\ lchan'[c].scp.id = c /\ Numbered(lchan'[c].scp)
                 /\ session'[c] # NoScp => session'[c].kind = lchan'[c].scp.kind
      <4>1. CASE c = ch /\ c = 0
        BY <4>1, <1>1, <1>2, <2>3
      <4>2. CASE c = ch /\ c # 0
        <5>1. session'[ch] = session[ch] /\ (session[ch] # NoScp => session[ch].kind = scp.kind)
          BY <4>2, <1>0, <2>1 DEF IInv, OneSession
        <5> QED
          BY <4>2, <5>1, <1>1, <1>2
      <4>3. CASE c # ch
        <5>1. c \in DOMAIN lchan /\ c \in Channel /\ lchan'[c].scp = lchan[c].scp
          BY <4>3, <1>0, <1>2
        <5>2. session'[c] \in {NoScp, session[c]}
          BY <4>3, <5>1, <2>1, <2>3
        <5>3. /\ lchan[c].scp.id = c /\ Numbered(lchan[c].scp)
              /\ session[c] # NoScp => session[c].kind = lchan[c].scp.kind
          BY <3>2, <5>1 DEF IInv, OneSession
        <5> QED
          BY <5>1, <5>2, <5>3
      <4> QED
        BY <4>1, <4>2, <4>3
    <3>3. \A c \in Channel : session'[c] # NoScp => session'[c].id = c /\ Numbered(session'[c])
      BY <3>1
    <3> QED
      BY <3>2, <3>3 DEF OneSession, Numbered
  <2>6. InStep'
    <3>1. SUFFICES ASSUME lost = "nothing", session'[0] # NoScp, 0 \in DOMAIN lchan
                   PROVE  /\ (scp.kind.protocol = "SCP02" /\ scp.kind.do_cenc)
                             \/ lchan'[0].scp.macs = session'[0].macs
                          /\ (scp.kind.s_mode = 16 /\ scp.kind.do_cenc)
                             \/ lchan'[0].scp.block_nr = session'[0].block_nr
      BY <1>1, <1>2, <1>5, <2>3 DEF InStep
    <3>2. (scp.kind.s_mode = 16 /\ scp.kind.do_cenc) \/ scp.block_nr = session[0].block_nr
      BY <3>1, <2>3, <1>0 DEF IInv, InStep
    <3>3. lchan'[0].scp = Chained(Counted(scp)) /\ session[0].kind = scp.kind /\ session[0] \in Scp(Channel)
      BY <3>1, <1>2, <1>4, <1>5, <2>2, <2>3
    <3>4. lchan'[0].scp.macs = scp.macs + 1 /\ lchan'[0].scp.block_nr = Counted(scp).block_nr
      BY <3>3, <1>0 DEF Scp, Counted, Chained
    <3>5. scp.block_nr = session[0].block_nr => Counted(scp).block_nr = Counted(session[0]).block_nr
      BY <3>3, <1>0 DEF Scp, Counted
    <3> QED
      BY <3>1, <3>2, <3>4, <3>5, <2>3
  <2> QED
    BY <2>1, <2>4, <2>5, <2>6 DEF IInv
<1>6. CASE session' = session /\ garbled' = garbled /\ (lost' # "nothing" \/ (~w.sent /\ lost' = lost))
  <2> HIDE DEF w
  <2>1. EndsOK'
    BY <1>0, <1>1, <1>2, <1>6 DEF IInv, EndsOK
  <2>2. OneSession'
    BY <1>0, <1>1, <1>2, <1>6 DEF IInv, OneSession, Numbered
  <2>3. InStep'
    BY <1>0, <1>1, <1>2, <1>4, <1>6 DEF IInv, InStep
  <2>4. TakenAsMeant' /\ KindsOK'
    BY <1>6 DEF IInv, TakenAsMeant, KindsOK
  <2> QED
    BY <2>1, <2>2, <2>3, <2>4 DEF IInv
<1> QED
  BY <1>3, <1>5, <1>6

-----------------------------------------------------------------------------
\* At first there is no session.
LEMMA Starts ==
    ASSUME RuntimeAssumption, Init
    PROVE  IInv
<1>1. lchan = [c \in {0} |-> Fresh] /\ session = NoSessions /\ garbled = {} /\ 0 \in Channel
  BY DEF Init, Alone, RuntimeAssumption
<1>2. Fresh.scp = NoScp
  BY DEF Fresh
<1> QED
  BY <1>1, <1>2 DEF IInv, EndsOK, KindsOK, OneSession, InStep, TakenAsMeant, NoSessions

\* The steps on a channel open at both ends.
LEMMA OnChannel ==
    ASSUME IInv, RuntimeAssumption, NEW ch \in Open,
           \/ \E target \in Selectables(lchan[ch].selected_file) : Select(ch, target) \/ SelectLost(ch, target)
           \/ \E fid \in {Fid[f] : f \in File \ Adf} : Probe(ch, fid)
           \/ \E f \in File \ (Adf \cup {MF}) : Administer(ch, f) \/ Delete(ch, f)
           \/ \E nr \in Channel, answered \in BOOLEAN : OpenChannel(ch, nr, answered)
           \/ Access(ch) \/ Release(ch)
    PROVE  IInv'
<1>0. /\ ch \in DOMAIN lchan /\ DOMAIN lchan \subseteq Channel
      /\ session \in [Channel -> Scp(Channel) \cup {NoScp}]
  BY DEF Open, IInv, EndsOK
<1>1. ASSUME NEW target, Select(ch, target)
      PROVE  IInv'
  BY <1>0, <1>1, Stands DEF Select
<1>2. ASSUME NEW target, SelectLost(ch, target)
      PROVE  IInv'
  <2>1. PICK s : Stand(ch, s)
    BY <1>2 DEF SelectLost
  <2>2. garbled' = garbled /\ lost' = "reset"
    BY <1>2 DEF SelectLost
  <2> QED
    BY <1>0, <2>1, <2>2, Stands
<1>3. ASSUME NEW fid, Probe(ch, fid)
      PROVE  IInv'
  <2>1. PICK s : Stand(ch, s)
    BY <1>3 DEF Probe
  <2>2. garbled' = garbled /\ (lost' = "nothing" => lost = "nothing")
    BY <1>3 DEF Probe
  <2> QED
    BY <1>0, <2>1, <2>2, Stands
<1>4. ASSUME NEW f, Administer(ch, f)
      PROVE  IInv'
  <2>1. PICK s : Stand(ch, s)
    BY <1>4 DEF Administer
  <2>2. garbled' = garbled /\ (lost' = "nothing" => lost = "nothing")
    BY <1>4 DEF Administer
  <2> QED
    BY <1>0, <2>1, <2>2, Stands
<1>5. ASSUME NEW f, Delete(ch, f)
      PROVE  IInv'
  <2>1. lchan' = lchan /\ session' = session /\ garbled' = garbled /\ lost' = lost
    BY <1>5 DEF Delete
  <2> QED
    BY <1>0, <2>1, Framed
<1>6. ASSUME NEW nr \in Channel, NEW answered \in BOOLEAN, OpenChannel(ch, nr, answered)
      PROVE  IInv'
  <2>1. session' = session /\ garbled' = garbled /\ (lost' = "nothing" => lost = "nothing")
    BY <1>6 DEF OpenChannel, Unlost, After
  <2>2. Inherited(ch, nr).scp = NoScp
    BY DEF Inherited, Fresh
  <2>3. CASE lchan' = lchan
    BY <1>0, <2>1, <2>3, Framed
  <2>4. CASE nr \notin DOMAIN lchan /\ lchan' = Joined(lchan, nr, Inherited(ch, nr))
    <3>1. /\ DOMAIN lchan' = DOMAIN lchan \cup {nr}
          /\ \A c \in DOMAIN lchan' : IF c = nr THEN lchan'[c].scp = NoScp ELSE lchan'[c] = lchan[c]
      BY <2>2, <2>4 DEF Joined
    <3> QED
      BY <1>0, <2>1, <3>1, Framed
  <2> QED
    BY <1>6, <2>3, <2>4 DEF OpenChannel
<1>7. ASSUME Access(ch)
      PROVE  IInv'
  <2>1. PICK s : Stand(ch, s)
    BY <1>7 DEF Access
  <2>2. garbled' = garbled /\ lost' = lost
    BY <1>7 DEF Access
  <2> QED
    BY <1>0, <2>1, <2>2, Stands
<1>8. ASSUME Release(ch)
      PROVE  IInv'
  <2>1. session' = session /\ garbled' = garbled /\ lost' = lost
    BY <1>8 DEF Release
  <2>2. DOMAIN lchan' = DOMAIN lchan
        /\ \A c \in DOMAIN lchan : lchan'[c].scp = IF c = ch THEN NoScp ELSE lchan[c].scp
    BY <1>0, <1>8 DEF Release, Secured
  <2> QED
    BY <1>0, <2>1, <2>2, Framed
<1> QED
  BY <1>1, <1>2, <1>3, <1>4, <1>5, <1>6, <1>7, <1>8

\* The steps of the whole card.
LEMMA OnCard ==
    ASSUME IInv, RuntimeAssumption,
           \/ \E nr \in Open, answered \in BOOLEAN : CloseChannel(nr, answered)
           \/ Reset \/ ResetLost \/ Equip
    PROVE  IInv'
<1>0. /\ DOMAIN lchan \subseteq Channel /\ session \in [Channel -> Scp(Channel) \cup {NoScp}]
      /\ 0 \in Channel /\ Fresh.scp = NoScp
      /\ NoSessions \in [Channel -> {NoScp}]
  BY DEF IInv, EndsOK, RuntimeAssumption, Fresh, NoSessions
<1>1. ASSUME NEW nr \in Open, NEW answered \in BOOLEAN, CloseChannel(nr, answered)
      PROVE  IInv'
  <2>1. /\ session' = [session EXCEPT ![nr] = NoScp] /\ garbled' = garbled
        /\ lost' = "nothing" => lost = "nothing"
    BY <1>1 DEF CloseChannel, Unlost, After
  <2>2. DOMAIN lchan' \subseteq DOMAIN lchan /\ \A c \in DOMAIN lchan' : lchan'[c] = lchan[c]
    BY <1>1 DEF CloseChannel, Restrict
  <2> QED
    BY <1>0, <2>1, <2>2, Framed
<1>2. ASSUME Reset
      PROVE  IInv'
  <2>1. session' = NoSessions /\ garbled' = garbled
    BY <1>2 DEF Reset
  <2>2. DOMAIN lchan' = {0} /\ lchan'[0].scp = NoScp
    BY <1>2 DEF Reset, Alone, ResetChannel, Fresh
  <2> QED
    BY <1>0, <2>1, <2>2, Framed
<1>3. ASSUME ResetLost
      PROVE  IInv'
  <2>1. session' \in {NoSessions, session} /\ garbled' = garbled /\ lost' = "reset"
    BY <1>3 DEF ResetLost
  <2>2. DOMAIN lchan' = {0} /\ lchan'[0].scp = NoScp
    BY <1>3 DEF ResetLost, Alone, Fresh
  <2> QED
    BY <1>0, <2>1, <2>2, Framed
<1>4. ASSUME Equip
      PROVE  IInv'
  <2>1. session' = NoSessions /\ garbled' = garbled
    BY <1>4 DEF Equip
  <2>2. DOMAIN lchan' = {0} /\ lchan'[0].scp = NoScp
    BY <1>4 DEF Equip, Alone, Fresh
  <2> QED
    BY <1>0, <2>1, <2>2, Framed
<1> QED
  BY <1>1, <1>2, <1>3, <1>4

\* Every step keeps the two ends together.
LEMMA Steps ==
    ASSUME IInv, RuntimeAssumption, [Next]_vars
    PROVE  IInv'
<1>1. ASSUME NEW ch \in Open, NEW kind \in Kinds, NEW answer \in {"answered", "refused", "lost"},
             Establish(ch, kind, answer)
      PROVE  IInv'
  BY <1>1, Establishes
<1>2. ASSUME NEW ch \in Open, lchan[ch].scp # NoScp,
             NEW lc \in {0, 16, max_cmd_len(lchan[ch].scp)}, Command(ch, lc)
      PROVE  IInv'
  <2>1. lchan[ch].scp \in Scp(Channel)
    BY <1>2 DEF IInv, EndsOK, Open
  <2>2. lc \in Nat
    BY <2>1 DEF Scp, Kind, max_cmd_len
  <2> QED
    BY <1>2, <2>2, Commands
<1>3. CASE UNCHANGED vars
  BY <1>3 DEF vars, IInv, EndsOK, KindsOK, OneSession, Numbered, InStep, TakenAsMeant
<1> QED
  BY <1>1, <1>2, <1>3, OnChannel, OnCard DEF Next

\* The encryption counters and the chains of the two ends agree in every state in which no
\* exchange has failed, but for the two cases of a refusal after padding (SCP02._wrap_cmd_apdu and
\* SCP03._wrap_cmd_apdu, which raise after they have moved the one or the other).
THEOREM EndsInStep == Spec => []InStep
<1>1. Init => IInv
  BY Starts, RuntimeAssumption
<1>2. IInv /\ [Next]_vars => IInv'
  BY Steps, RuntimeAssumption
<1>3. IInv => InStep
  BY DEF IInv
<1> QED
  BY <1>1, <1>2, <1>3, PTL DEF Spec

\* What the card verifies it decrypts to what the shell meant, whatever was lost or refused on the
\* way, in every session but one of SCP03 with C-ENC and 16 byte MACs.
THEOREM NothingGarbled == Spec => []TakenAsMeant
<1>1. Init => IInv
  BY Starts, RuntimeAssumption
<1>2. IInv /\ [Next]_vars => IInv'
  BY Steps, RuntimeAssumption
<1>3. IInv => TakenAsMeant
  BY DEF IInv
<1> QED
  BY <1>1, <1>2, <1>3, PTL DEF Spec

-----------------------------------------------------------------------------
(* Numbers.                                                                *)

\* A set of numbers that is not empty has a least one.
LEMMA LeastNumber ==
    ASSUME NEW T \in SUBSET Nat, T # {}
    PROVE  \E i \in T : \A j \in T : i <= j
<1>1. PICK i \in T : \A j \in T : ~(<<j, i>> \in OpToRel(<, Nat))
  BY NatLessThanWellFounded, WFMin
<1>2. ASSUME NEW j \in T PROVE i <= j
  <2>1. i \in Nat /\ j \in Nat
    OBVIOUS
  <2>2. ~(j < i)
    BY <1>1, <2>1 DEF OpToRel
  <2> QED
    BY <2>1, <2>2
<1> QED
  BY <1>2

\* And one that is bounded has a greatest, which is its Max.
LEMMA GreatestNumber ==
    ASSUME NEW n \in Nat, NEW T \in SUBSET (0..n), T # {}
    PROVE  Max(T) \in T /\ \A j \in T : j <= Max(T)
<1> DEFINE R == {n - j : j \in T}
<1>1. R \in SUBSET Nat /\ R # {}
  <2>1. \A j \in T : n - j \in Nat
    OBVIOUS
  <2> QED
    BY <2>1
<1>2. \E r \in R : \A q \in R : r <= q
  <2> HIDE DEF R
  <2> QED
    BY <1>1, LeastNumber
<1>3. PICK i \in T : \A q \in R : n - i <= q
  BY <1>2
<1>4. \A j \in T : i >= j
  <2> TAKE j \in T
  <2>1. n - j \in R
    OBVIOUS
  <2>2. n - i <= n - j
    BY <1>3, <2>1
  <2>3. i \in 0..n /\ j \in 0..n
    OBVIOUS
  <2> QED
    BY <2>2, <2>3
<1>5. Max(T) \in T /\ \A j \in T : Max(T) >= j
  BY <1>4 DEF Max
<1> QED
  BY <1>5

OneStep(n, S) == [(1..n) \X S -> S]

LedBy(step, n, S, begin, h) ==
    /\ h \in [0..n -> S]
    /\ h[0] = begin
    /\ \A i \in 1..n : h[i] = step[<<i, h[i - 1]>>]

\* What is begun and can be gone on with is somewhere after n steps.
LEMMA StepByStep ==
    ASSUME NEW n \in Nat, NEW S, NEW begin \in S, NEW step \in OneStep(n, S)
    PROVE  \E h : LedBy(step, n, S, begin, h)
<1> DEFINE Goes(k, h) == /\ h[0] = begin
                         /\ \A i \in 1..k : h[i] = step[<<i, h[i - 1]>>]
           Bad == {k \in 0..n : \A h \in [0..k -> S] : ~Goes(k, h)}
<1>0. step \in [(1..n) \X S -> S]
  BY DEF OneStep
<1>1. SUFFICES ASSUME n \in Bad PROVE FALSE
  BY DEF LedBy
<1>2. Bad \in SUBSET Nat /\ Bad # {}
  BY <1>1
<1>3. PICK k \in Bad : \A j \in Bad : k <= j
  <2> HIDE DEF Bad
  <2> QED
    BY <1>2, LeastNumber
<1>4. k # 0
  <2> SUFFICES ASSUME k = 0 PROVE FALSE
    OBVIOUS
  <2> DEFINE h == [i \in 0..0 |-> begin]
  <2>1. h \in [0..k -> S] /\ Goes(k, h)
    OBVIOUS
  <2> QED
    BY <2>1
<1>5. k \in 1..n /\ k - 1 \in 0..n /\ ~(k <= k - 1)
  BY <1>4
<1>6. k - 1 \notin Bad
  <2> HIDE DEF Bad
  <2> QED
    BY <1>3, <1>5
<1>7. PICK g \in [0..(k - 1) -> S] : Goes(k - 1, g)
  BY <1>5, <1>6
<1> DEFINE h == [i \in 0..k |-> IF i = k THEN step[<<k, g[k - 1]>>] ELSE g[i]]
<1>8. step[<<k, g[k - 1]>>] \in S
  BY <1>0, <1>5, <1>7
<1>9. h \in [0..k -> S]
  BY <1>5, <1>7, <1>8
<1>10. Goes(k, h)
  <2>1. h[0] = begin
    BY <1>5, <1>7
  <2>2. ASSUME NEW i \in 1..k PROVE h[i] = step[<<i, h[i - 1]>>]
    <3>1. i - 1 \in 0..(k - 1) /\ i - 1 # k /\ i - 1 \in 0..k /\ i \in 0..k
      BY <1>5
    <3>2. h[i - 1] = g[i - 1]
      BY <3>1
    <3>3. CASE i = k
      BY <3>1, <3>2, <3>3
    <3>4. CASE i # k
      <4>1. i \in 1..(k - 1)
        BY <1>5, <3>4
      <4> QED
        BY <1>7, <3>1, <3>2, <3>4, <4>1
    <3> QED
      BY <3>3, <3>4
  <2> QED
    BY <2>1, <2>2
<1> QED
  BY <1>3, <1>9, <1>10

-----------------------------------------------------------------------------
(* File objects, and the paths between them.                               *)

\* The first k elements of a sequence.
LEMMA Prefixed ==
    ASSUME NEW S, NEW o \in Seq(S), NEW k \in 1..Len(o)
    PROVE  /\ SubSeq(o, 1, k) \in Seq(S) /\ Len(SubSeq(o, 1, k)) = k
           /\ \A i \in 1..k : SubSeq(o, 1, k)[i] = o[i]
           /\ Last(SubSeq(o, 1, k)) = o[k]
           /\ k > 1 => Front(SubSeq(o, 1, k)) = SubSeq(o, 1, k - 1)
<1>1. /\ SubSeq(o, 1, k) \in Seq(S) /\ Len(SubSeq(o, 1, k)) = k
      /\ \A i \in 1..k : SubSeq(o, 1, k)[i] = o[i]
  OBVIOUS
<1>2. Last(SubSeq(o, 1, k)) = o[k]
  BY <1>1 DEF Last
<1>3. ASSUME k > 1 PROVE Front(SubSeq(o, 1, k)) = SubSeq(o, 1, k - 1)
  <2>1. Front(SubSeq(o, 1, k)) = SubSeq(SubSeq(o, 1, k), 1, k - 1)
    BY <1>1 DEF Front
  <2> QED
    BY <1>1, <1>3, <2>1
<1> QED
  BY <1>1, <1>2, <1>3

TreeTyped ==
    /\ tree \subseteq Object /\ <<MF>> \in tree
    /\ \A o \in tree : o[1] = MF /\ (Len(o) > 1 => Front(o) \in tree)

\* What is above a file object is one.
LEMMA AboveInTree ==
    ASSUME TreeTyped, NEW o \in tree, NEW k \in 1..Len(o)
    PROVE  SubSeq(o, 1, k) \in tree
<1>0. o \in Seq(File) /\ Len(o) > 0
  BY DEF TreeTyped, Object
<1> DEFINE Wrong == {d \in 0..(Len(o) - 1) : SubSeq(o, 1, Len(o) - d) \notin tree}
<1>1. SUFFICES ASSUME Wrong # {} PROVE FALSE
  <2>1. Len(o) - k \in 0..(Len(o) - 1) /\ Len(o) - (Len(o) - k) = k
    BY <1>0
  <2> QED
    BY <2>1
<1>2. PICK d \in Wrong : \A j \in Wrong : d <= j
  <2>1. Wrong \in SUBSET Nat
    OBVIOUS
  <2> HIDE DEF Wrong
  <2> QED
    BY <1>1, <2>1, LeastNumber
<1>3. d \in 0..(Len(o) - 1) /\ d # 0
  <2>1. SubSeq(o, 1, Len(o) - 0) = o
    BY <1>0
  <2>2. d \in 0..(Len(o) - 1) /\ SubSeq(o, 1, Len(o) - d) \notin tree
    BY <1>2
  <2> QED
    BY <2>1, <2>2
<1>4. d - 1 \in 0..(Len(o) - 1) /\ d - 1 \notin Wrong
  <2>1. d \in 0..(Len(o) - 1) /\ ~(d <= d - 1) /\ d - 1 \in 0..(Len(o) - 1)
    BY <1>0, <1>3
  <2> HIDE DEF Wrong
  <2> QED
    BY <1>2, <1>3, <2>1
<1>5. SubSeq(o, 1, Len(o) - (d - 1)) \in tree
  BY <1>4
<1>6. Len(o) - (d - 1) \in 1..Len(o) /\ Len(o) - (d - 1) > 1 /\ (Len(o) - (d - 1)) - 1 = Len(o) - d
  BY <1>0, <1>3
<1>7. Front(SubSeq(o, 1, Len(o) - (d - 1))) = SubSeq(o, 1, Len(o) - d)
  BY <1>0, <1>6, Prefixed
<1>8. Len(SubSeq(o, 1, Len(o) - (d - 1))) > 1
  BY <1>0, <1>6, Prefixed
<1> QED
  BY <1>2, <1>5, <1>7, <1>8 DEF TreeTyped

\* One is the directory of the other.
Adjacent(o, p) ==
    \/ Len(o) > 1 /\ p = Front(o)
    \/ Len(p) > 1 /\ o = Front(p)

\* Nothing that is not above the one or the other.
Within(o, file, target) ==
    ToSet(o) \subseteq ToSet(file) \cup ToSet(target) /\ (Len(o) <= Len(file) \/ Len(o) <= Len(target))

\* A way from a file to another, one directory at a time, or from an application on.
Way(file, target, path) ==
    /\ path \in Seq(tree) /\ Len(path) > 0 /\ path[Len(path)] = target
    /\ \A i \in 1..Len(path) : Within(path[i], file, target)
    /\ \A i \in 1..(Len(path) - 1) : \E o \in tree : Len(o) > 1 /\ path[i] = Front(o)
    /\ \A i \in 2..Len(path) : Adjacent(path[i - 1], path[i])

Entered(file, path) ==
    /\ Last(path[1]) \in Adf \/ path[1] = <<MF>> \/ Adjacent(file, path[1])
    /\ \A i \in 2..Len(path) : Last(path[i]) \notin Adf

\* A way is clipped to its last application.
LEMMA Clipped ==
    ASSUME NEW file, NEW target, NEW path, Way(file, target, path),
           path[1] = <<MF>> \/ Adjacent(file, path[1])
    PROVE  Way(file, target, clip_path(path)) /\ Entered(file, clip_path(path))
<1> DEFINE n == Len(path)
           apps == {i \in DOMAIN path : Last(path[i]) \in Adf}
<1>0. path \in Seq(tree) /\ n \in Nat /\ n > 0 /\ DOMAIN path = 1..n
  BY DEF Way
<1>1. CASE apps = {}
  <2>1. clip_path(path) = path
    BY <1>1 DEF clip_path
  <2>2. \A i \in 2..n : Last(path[i]) \notin Adf
    BY <1>0, <1>1
  <2> QED
    BY <2>1, <2>2 DEF Entered
<1>2. CASE apps # {}
  <2> DEFINE m == Max(apps)
             p == SubSeq(path, m, n)
  <2>1. m \in apps /\ \A j \in apps : j <= m
    <3>1. apps \in SUBSET (0..n)
      BY <1>0
    <3> HIDE DEF apps
    <3> QED
      BY <1>0, <1>2, <3>1, GreatestNumber
  <2>2. clip_path(path) = p
    BY <1>2 DEF clip_path
  <2> HIDE DEF m
  <2>3. m \in 1..n /\ Last(path[m]) \in Adf /\ \A j \in (m + 1)..n : Last(path[j]) \notin Adf
    <3>1. m \in 1..n /\ Last(path[m]) \in Adf
      BY <1>0, <2>1
    <3>2. ASSUME NEW j \in (m + 1)..n PROVE Last(path[j]) \notin Adf
      <4>1. j \in 1..n /\ ~(j <= m)
        BY <3>1, <1>0
      <4> QED
        BY <1>0, <2>1, <4>1
    <3> QED
      BY <3>1, <3>2
  <2>4. /\ p \in Seq(tree) /\ Len(p) = n - m + 1
        /\ \A i \in 1..(n - m + 1) : p[i] = path[i + m - 1]
    BY <1>0, <2>3
  <2> HIDE DEF p
  <2>5. p[Len(p)] = target
    <3>1. n - m + 1 \in 1..(n - m + 1) /\ (n - m + 1) + m - 1 = n
      BY <1>0, <2>3
    <3> QED
      BY <2>4, <3>1 DEF Way
  <2>6. \A i \in 1..Len(p) : Within(p[i], file, target)
    <3>1. ASSUME NEW i \in 1..Len(p) PROVE Within(p[i], file, target)
      <4>1. i + m - 1 \in 1..n /\ p[i] = path[i + m - 1]
        BY <1>0, <2>3, <2>4
      <4> QED
        BY <4>1 DEF Way
    <3> QED
      BY <3>1
  <2>7. \A i \in 1..(Len(p) - 1) : \E o \in tree : Len(o) > 1 /\ p[i] = Front(o)
    <3>1. ASSUME NEW i \in 1..(Len(p) - 1) PROVE \E o \in tree : Len(o) > 1 /\ p[i] = Front(o)
      <4>1. i + m - 1 \in 1..(n - 1) /\ p[i] = path[i + m - 1]
        BY <1>0, <2>3, <2>4
      <4> QED
        BY <4>1 DEF Way
    <3> QED
      BY <3>1
  <2>8. \A i \in 2..Len(p) : Adjacent(p[i - 1], p[i]) /\ Last(p[i]) \notin Adf
    <3>1. ASSUME NEW i \in 2..Len(p) PROVE Adjacent(p[i - 1], p[i]) /\ Last(p[i]) \notin Adf
      <4>1. /\ i + m - 1 \in 2..n /\ i + m - 1 \in (m + 1)..n /\ p[i] = path[i + m - 1]
            /\ p[i - 1] = path[(i + m - 1) - 1]
        <5>1. i \in 1..(n - m + 1) /\ i - 1 \in 1..(n - m + 1) /\ (i - 1) + m - 1 = (i + m - 1) - 1
          BY <1>0, <2>3, <2>4
        <5> QED
          BY <1>0, <2>3, <2>4, <5>1
      <4> QED
        BY <2>3, <4>1 DEF Way
    <3> QED
      BY <3>1
  <2>9. Last(p[1]) \in Adf
    <3>1. 1 \in 1..(n - m + 1) /\ 1 + m - 1 = m
      BY <1>0, <2>3
    <3> QED
      BY <2>3, <2>4, <3>1
  <2>10. Len(p) > 0
    BY <1>0, <2>3, <2>4
  <2> QED
    BY <2>2, <2>4, <2>5, <2>6, <2>7, <2>8, <2>9, <2>10 DEF Way, Entered
<1> QED
  BY <1>1, <1>2

\* The path that is built for the target is such a way.
LEMMA Paths ==
    ASSUME TreeTyped, NEW file \in tree, NEW target \in tree
    PROVE  /\ Way(file, target, build_select_path_to(file, target))
           /\ Entered(file, build_select_path_to(file, target))
<1> DEFINE f == Len(file)
           t == Len(target)
<1>0. /\ file \in Seq(File) /\ target \in Seq(File) /\ f \in Nat /\ t \in Nat /\ f > 0 /\ t > 0
      /\ file[1] = MF /\ target[1] = MF /\ <<MF>> \in tree
  BY DEF TreeTyped, Object
<1>1. CASE target = <<MF>>
  <2> DEFINE p == <<target>>
  <2>1. build_select_path_to(file, target) = p
    BY <1>1 DEF build_select_path_to
  <2>2. p \in Seq(tree) /\ Len(p) = 1 /\ p[1] = target
    OBVIOUS
  <2> HIDE DEF p
  <2>3. Way(file, target, p)
    BY <1>0, <2>2 DEF Way, Within
  <2>4. Entered(file, p)
    BY <1>1, <2>2 DEF Entered
  <2> QED
    BY <2>1, <2>3, <2>4
<1>2. CASE target # <<MF>>
  <2> DEFINE lens == {f, t - 1}
             S == {k \in 1..Min(lens) : SubSeq(file, 1, k) = SubSeq(target, 1, k)}
             c == Max(S)
             up == [i \in 1..(f - c) |-> SubSeq(file, 1, f - i)]
             down == [i \in 1..(t - c) |-> SubSeq(target, 1, c + i)]
             p == up \o down
  <2>1. build_select_path_to(file, target) = clip_path(p)
    BY <1>2 DEF build_select_path_to
  <2>2. t > 1
    <3>1. t = 1 => target = <<MF>>
      BY <1>0
    <3> QED
      BY <1>0, <1>2, <3>1
  <2>3. Min(lens) \in Nat /\ Min(lens) >= 1 /\ Min(lens) <= f /\ Min(lens) <= t - 1
    <3>1. \E x \in lens : \A y \in lens : x =< y
      BY <1>0
    <3>2. Min(lens) \in lens /\ \A y \in lens : Min(lens) =< y
      BY <3>1 DEF Min
    <3> HIDE DEF f, t
    <3> QED
      BY <1>0, <2>2, <3>2
  <2>4. 1 \in S
    <3>1. SubSeq(file, 1, 1) = SubSeq(target, 1, 1)
      BY <1>0
    <3>2. 1 \in 1..Min(lens)
      BY <2>3
    <3> HIDE DEF lens
    <3> QED
      BY <3>1, <3>2
  <2>5. c \in S
    <3>1. S \in SUBSET (0..Min(lens))
      OBVIOUS
    <3> HIDE DEF S, lens
    <3> QED
      BY <2>3, <2>4, <3>1, GreatestNumber
  <2>6. c \in 1..f /\ c \in 1..(t - 1) /\ SubSeq(file, 1, c) = SubSeq(target, 1, c)
    <3> HIDE DEF c, lens
    <3> QED
      BY <1>0, <2>3, <2>5
  <2> HIDE DEF c, S, lens
  <2>7. \A i \in 1..(f - c) : SubSeq(file, 1, f - i) \in tree
    BY <1>0, <2>6, AboveInTree
  <2>8. \A i \in 1..(t - c) : SubSeq(target, 1, c + i) \in tree
    BY <1>0, <2>6, AboveInTree
  <2>9. up \in Seq(tree) /\ Len(up) = f - c /\ down \in Seq(tree) /\ Len(down) = t - c
    BY <1>0, <2>6, <2>7, <2>8
  <2>10. /\ p \in Seq(tree) /\ Len(p) = (f - c) + (t - c)
         /\ \A i \in 1..(f - c) : p[i] = SubSeq(file, 1, f - i)
         /\ \A i \in (f - c + 1)..((f - c) + (t - c)) : p[i] = SubSeq(target, 1, c + (i - (f - c)))
    <3>1. /\ p \in Seq(tree) /\ Len(p) = (f - c) + (t - c)
      <4> HIDE DEF up, down
      <4> QED
        BY <2>9
    <3>2. ASSUME NEW i \in 1..(f - c) PROVE p[i] = SubSeq(file, 1, f - i)
      <4>1. p[i] = up[i]
        BY <1>0, <2>6, <2>9, <3>1
      <4> QED
        BY <4>1
    <3>3. ASSUME NEW i \in (f - c + 1)..((f - c) + (t - c)) PROVE p[i] = SubSeq(target, 1, c + (i - (f - c)))
      <4>1. i - (f - c) \in 1..(t - c)
        BY <1>0, <2>6
      <4>2. p[i] = down[i - (f - c)]
        BY <1>0, <2>6, <2>9, <3>1, <4>1
      <4> QED
        BY <4>1, <4>2
    <3> QED
      BY <3>1, <3>2, <3>3
  <2> HIDE DEF up, down, p
  <2>11. p[Len(p)] = target
    <3>1. Len(p) \in (f - c + 1)..((f - c) + (t - c)) /\ c + (Len(p) - (f - c)) = t
      BY <1>0, <2>6, <2>10
    <3>2. SubSeq(target, 1, t) = target
      BY <1>0
    <3> QED
      BY <2>10, <3>1, <3>2
  <2>12. \A i \in 1..Len(p) : Within(p[i], file, target)
    <3>1. ASSUME NEW i \in 1..(f - c) PROVE ToSet(p[i]) \subseteq ToSet(file) /\ Len(p[i]) <= f
      <4>1. f - i \in 1..f
        BY <1>0, <2>6
      <4> DEFINE k == f - i
      <4> HIDE DEF k
      <4>3. p[i] = SubSeq(file, 1, k) /\ k \in 1..f
        BY <2>10, <4>1 DEF k
      <4>2. Len(p[i]) = k /\ p[i] \in Seq(File) /\ \A j \in 1..k : p[i][j] = file[j]
        BY <1>0, <4>3, Prefixed
      <4> QED
        BY <1>0, <4>3, <4>2 DEF ToSet
    <3>2. ASSUME NEW i \in (f - c + 1)..((f - c) + (t - c)) PROVE ToSet(p[i]) \subseteq ToSet(target) /\ Len(p[i]) <= t
      <4>1. c + (i - (f - c)) \in 1..t
        BY <1>0, <2>6
      <4> DEFINE k == c + (i - (f - c))
      <4> HIDE DEF k
      <4>3. p[i] = SubSeq(target, 1, k) /\ k \in 1..t
        BY <2>10, <4>1 DEF k
      <4>2. Len(p[i]) = k /\ p[i] \in Seq(File) /\ \A j \in 1..k : p[i][j] = target[j]
        BY <1>0, <4>3, Prefixed
      <4> QED
        BY <1>0, <4>3, <4>2 DEF ToSet
    <3>3. \A i \in 1..Len(p) : i \in 1..(f - c) \/ i \in (f - c + 1)..((f - c) + (t - c))
      BY <1>0, <2>6, <2>10
    <3> QED
      BY <3>1, <3>2, <3>3 DEF Within
  <2>13. \A i \in 1..(Len(p) - 1) : \E o \in tree : Len(o) > 1 /\ p[i] = Front(o)
    <3>1. ASSUME NEW i \in 1..(f - c) PROVE \E o \in tree : Len(o) > 1 /\ p[i] = Front(o)
      <4>1. f - i + 1 \in 1..f /\ f - i + 1 > 1 /\ (f - i + 1) - 1 = f - i
        BY <1>0, <2>6
      <4>2. /\ SubSeq(file, 1, f - i + 1) \in tree
            /\ Front(SubSeq(file, 1, f - i + 1)) = SubSeq(file, 1, f - i)
            /\ Len(SubSeq(file, 1, f - i + 1)) > 1
        BY <1>0, <4>1, AboveInTree, Prefixed
      <4> QED
        BY <2>10, <4>2
    <3>2. ASSUME NEW i \in (f - c + 1)..((f - c) + (t - c) - 1)
          PROVE \E o \in tree : Len(o) > 1 /\ p[i] = Front(o)
      <4> DEFINE k == c + (i - (f - c)) + 1
      <4>1. /\ k \in 1..t /\ k > 1 /\ k - 1 = c + (i - (f - c))
            /\ i \in (f - c + 1)..((f - c) + (t - c))
        BY <1>0, <2>6
      <4> HIDE DEF k
      <4>2. /\ SubSeq(target, 1, k) \in tree
            /\ Front(SubSeq(target, 1, k)) = SubSeq(target, 1, k - 1)
            /\ Len(SubSeq(target, 1, k)) > 1
        BY <1>0, <4>1, AboveInTree, Prefixed
      <4> QED
        BY <2>10, <4>1, <4>2
    <3>3. \A i \in 1..(Len(p) - 1) : i \in 1..(f - c) \/ i \in (f - c + 1)..((f - c) + (t - c) - 1)
      BY <1>0, <2>6, <2>10
    <3> QED
      BY <3>1, <3>2, <3>3
  <2>14. \A i \in 2..Len(p) : Adjacent(p[i - 1], p[i])
    <3>1. ASSUME NEW i \in 2..Len(p), i <= f - c PROVE Adjacent(p[i - 1], p[i])
      <4> DEFINE k == f - (i - 1)
      <4>1. /\ i \in 1..(f - c) /\ i - 1 \in 1..(f - c) /\ k \in 1..f /\ k > 1 /\ k - 1 = f - i
        BY <1>0, <2>6, <3>1
      <4>2. p[i - 1] = SubSeq(file, 1, k) /\ p[i] = SubSeq(file, 1, k - 1)
        BY <2>10, <4>1
      <4> HIDE DEF k
      <4>3. Len(p[i - 1]) > 1 /\ Front(p[i - 1]) = p[i]
        BY <1>0, <4>1, <4>2, Prefixed
      <4> QED
        BY <4>3 DEF Adjacent
    <3>2. ASSUME NEW i \in 2..Len(p), i > f - c PROVE Adjacent(p[i - 1], p[i])
      <4> DEFINE k == c + (i - (f - c))
      <4>1. /\ i \in (f - c + 1)..((f - c) + (t - c)) /\ k \in 1..t /\ k > 1
            /\ k - 1 = c + ((i - 1) - (f - c))
        BY <1>0, <2>6, <2>10, <3>2
      <4>2. p[i] = SubSeq(target, 1, k)
        BY <2>10, <4>1
      <4>3. p[i - 1] = SubSeq(target, 1, k - 1)
        <5>1. CASE i = f - c + 1
          <6>1. i - 1 \in 1..(f - c) /\ f - (i - 1) = c /\ k - 1 = c
            BY <1>0, <2>6, <3>2, <5>1
          <6> HIDE DEF k
          <6> QED
            BY <2>6, <2>10, <6>1
        <5>2. CASE i # f - c + 1
          <6>1. i - 1 \in (f - c + 1)..((f - c) + (t - c))
            <7>1. f \in Nat /\ c \in Nat /\ t \in Nat /\ i \in Nat /\ i <= (f - c) + (t - c) /\ i > f - c
              BY <1>0, <2>6, <3>2, <4>1
            <7> HIDE DEF f, t, k
            <7> QED
              BY <5>2, <7>1
          <6> HIDE DEF k
          <6> QED
            BY <2>10, <4>1, <6>1
        <5> QED
          BY <5>1, <5>2
      <4> HIDE DEF k
      <4>4. Len(p[i]) > 1 /\ Front(p[i]) = p[i - 1]
        BY <1>0, <4>1, <4>2, <4>3, Prefixed
      <4> QED
        BY <4>4 DEF Adjacent
    <3>3. \A i \in 2..Len(p) : i <= f - c \/ i > f - c
      BY <1>0, <2>6, <2>10
    <3> QED
      BY <3>1, <3>2, <3>3
  <2>15. Adjacent(file, p[1])
    <3>1. CASE f - c > 0
      <4>1. 1 \in 1..(f - c) /\ f > 1
        BY <1>0, <2>6, <3>1
      <4>2. p[1] = Front(file)
        BY <2>10, <4>1 DEF Front
      <4> QED
        BY <4>1, <4>2 DEF Adjacent
    <3>2. CASE f - c = 0
      <4>1. /\ 1 \in (f - c + 1)..((f - c) + (t - c)) /\ c + (1 - (f - c)) = c + 1
            /\ c + 1 \in 1..t /\ c + 1 > 1 /\ (c + 1) - 1 = f
        BY <1>0, <2>6, <3>2
      <4>2. p[1] = SubSeq(target, 1, c + 1)
        BY <2>10, <4>1
      <4>3. SubSeq(target, 1, (c + 1) - 1) = file
        <5>1. SubSeq(file, 1, f) = file /\ c = f
          BY <1>0, <2>6, <3>2
        <5> QED
          BY <2>6, <4>1, <5>1
      <4> DEFINE k == c + 1
      <4> HIDE DEF k
      <4>5. k \in 1..t /\ k > 1 /\ p[1] = SubSeq(target, 1, k) /\ SubSeq(target, 1, k - 1) = file
        BY <4>1, <4>2, <4>3 DEF k
      <4>4. Len(p[1]) > 1 /\ Front(p[1]) = file
        BY <1>0, <4>5, Prefixed
      <4> QED
        BY <4>4 DEF Adjacent
    <3> QED
      BY <1>0, <2>6, <3>1, <3>2
  <2>16. Len(p) > 0
    BY <1>0, <2>6, <2>10
  <2>17. Way(file, target, p)
    BY <2>10, <2>11, <2>12, <2>13, <2>14, <2>16 DEF Way
  <2> QED
    BY <2>1, <2>15, <2>17, Clipped
<1> QED
  BY <1>1, <1>2

-----------------------------------------------------------------------------
(* Selecting along a path.                                                 *)

Places == [files : {files \in SUBSET File : exists \subseteq files}, at : File, file : tree, adf : Adf \cup {NoAdf}, moved : BOOLEAN]

\* Nothing else than f can be found from at when f is asked for.
Clean(at, f) == f \in Adf \/ InReach[at] = {} \/ f \in InReach[at]

LEMMA FoundIt ==
    ASSUME NEW files, NEW at \in File, NEW f \in File, Clean(at, f)
    PROVE  /\ Found(files, at, f) \subseteq {f} \cap files
           /\ f \in files /\ (f \in Adf \/ InReach[at] # {}) => Found(files, at, f) = {f}
<1>1. \A g, k \in InReach[at] : Fid[g] = Fid[k] => g = k
  BY FileAssumption
<1>2. CASE f \in Adf
  BY <1>2 DEF Found
<1>3. CASE f \notin Adf
  BY <1>1, <1>3 DEF Found, ByFid, Clean
<1> QED
  BY <1>2, <1>3

LEMMA FoundOnCard ==
    ASSUME NEW files, NEW at, NEW f
    PROVE  Found(files, at, f) \subseteq files
BY DEF Found, ByFid

\* Where the card stands after each SELECT of the path, h, of which n succeed.
MadeAlong(h, n, s, path) ==
    /\ h \in [0..Len(path) -> SUBSET File] /\ h[0] = {s.at}
    /\ \A i \in 1..Len(path) : h[i] = UNION {Found(s.files, f, Last(path[i])) : f \in h[i - 1]}
    /\ n \in 0..Len(path) /\ h[n] # {} /\ \A j \in 0..Len(path) : h[j] # {} => j <= n
    /\ Along(s, path).ok <=> n = Len(path)
    /\ LET r == Along(s, path).s
       IN  /\ r.at \in h[n] /\ r.files = s.files
           /\ r.file = IF n = 0 THEN s.file ELSE path[n]
           /\ r.adf = IF Last(r.file) \in Adf THEN Last(r.file) ELSE s.adf
           /\ r \in Places

LEMMA AlongMade ==
    ASSUME TreeTyped, NEW s \in Places, NEW path \in Seq(tree)
    PROVE  \E h, n : MadeAlong(h, n, s, path)
<1> DEFINE m == Len(path)
           On(i, X) == UNION {Found(s.files, f, Last(path[i])) : f \in X}
           step == [x \in (1..m) \X SUBSET File |-> On(x[1], x[2])]
           at == CHOOSE a : a = [i \in 0..m |-> IF i = 0 THEN {s.at} ELSE On(i, a[i - 1])]
           n == Max({i \in DOMAIN at : at[i] # {}})
<1>1. m \in Nat /\ {s.at} \in SUBSET File /\ s.file \in tree /\ s.at \in File /\ s.files \subseteq File
  BY DEF Places
<1>2. ASSUME NEW i, NEW X PROVE On(i, X) \in SUBSET File
  BY <1>1, FoundOnCard
<1>3. Along(s, path) = [ok |-> n = m, s |-> [Registered(s, IF n = 0 THEN s.file ELSE path[n])
                                             EXCEPT !.at = CHOOSE f \in at[n] : TRUE, !.moved = @ \/ n > 0]]
  BY DEF Along
<1> HIDE DEF On
<1>4. step \in OneStep(m, SUBSET File)
  BY <1>2 DEF OneStep
<1>5. PICK h \in [0..m -> SUBSET File] : h[0] = {s.at} /\ \A i \in 1..m : h[i] = step[<<i, h[i - 1]>>]
  <2> HIDE DEF step, m
  <2>1. \E h : LedBy(step, m, SUBSET File, {s.at}, h)
    BY <1>1, <1>4, StepByStep
  <2> QED
    BY <2>1 DEF LedBy
<1>6. ASSUME NEW i \in 1..m PROVE h[i] = On(i, h[i - 1])
  <2>1. i - 1 \in 0..m
    BY <1>1
  <2> QED
    BY <1>5, <2>1
<1>7. h = [i \in 0..m |-> IF i = 0 THEN {s.at} ELSE On(i, h[i - 1])]
  <2>1. ASSUME NEW i \in 0..m PROVE h[i] = IF i = 0 THEN {s.at} ELSE On(i, h[i - 1])
    <3>1. i = 0 \/ i \in 1..m
      BY <1>1
    <3> QED
      BY <1>5, <1>6, <3>1
  <2> HIDE DEF m
  <2> QED
    BY <1>5, <2>1
<1>8. at = [i \in 0..m |-> IF i = 0 THEN {s.at} ELSE On(i, at[i - 1])]
  <2> HIDE DEF m
  <2> QED
    BY <1>7
<1> HIDE DEF at
<1> DEFINE Wrong == {i \in 0..m : at[i] # h[i]}
<1>9. Wrong = {}
  <2> SUFFICES ASSUME Wrong # {} PROVE FALSE
    OBVIOUS
  <2>1. Wrong \in SUBSET Nat
    BY <1>1
  <2>2. PICK i \in Wrong : \A j \in Wrong : i <= j
    <3> HIDE DEF Wrong
    <3> QED
      BY <2>1, LeastNumber
  <2>3. i \in 1..m /\ i - 1 \in 0..m /\ ~(i <= i - 1)
    BY <1>1, <1>5, <1>8, <2>2
  <2>4. at[i - 1] = h[i - 1]
    BY <2>2, <2>3
  <2>5. at[i] = On(i, at[i - 1])
    <3>1. i \in 0..m /\ i # 0
      BY <1>1, <2>3
    <3>2. at[i] = IF i = 0 THEN {s.at} ELSE On(i, at[i - 1])
      BY <1>8, <3>1
    <3> QED
      BY <3>1, <3>2
  <2>6. h[i] = On(i, h[i - 1])
    BY <1>6, <2>3
  <2> QED
    BY <2>2, <2>4, <2>5, <2>6
<1>10. DOMAIN at = 0..m /\ \A i \in 0..m : at[i] = h[i]
  BY <1>8, <1>9
<1>11. n \in 0..m /\ h[n] # {} /\ \A j \in 0..m : h[j] # {} => j <= n
  <2> DEFINE T == {i \in DOMAIN at : at[i] # {}}
  <2>1. T \in SUBSET (0..m) /\ 0 \in T
    BY <1>1, <1>5, <1>10
  <2>2. Max(T) \in T /\ \A j \in T : j <= Max(T)
    <3> HIDE DEF T
    <3> QED
      BY <1>1, <2>1, GreatestNumber
  <2> HIDE DEF n
  <2>3. n \in T /\ \A j \in T : j <= n
    BY <2>2 DEF n
  <2> QED
    BY <1>10, <2>3
<1> HIDE DEF n
<1> DEFINE there == CHOOSE f \in at[n] : TRUE
           file == IF n = 0 THEN s.file ELSE path[n]
           r == Along(s, path).s
<1>12. there \in h[n] /\ there \in File
  BY <1>5, <1>10, <1>11
<1> HIDE DEF there
<1>13. file \in tree
  BY <1>1, <1>11
<1>14. Along(s, path).ok <=> n = m
  BY <1>3
<1>15. r = [Registered(s, file) EXCEPT !.at = there, !.moved = @ \/ n > 0]
  BY <1>3 DEF there
<1> HIDE DEF r, file
<1>16. /\ r.at = there /\ r.files = s.files /\ r.file = file /\ r.adf = (IF Last(file) \in Adf THEN Last(file) ELSE s.adf)
       /\ r \in Places
  BY <1>12, <1>13, <1>15 DEF Registered, Places
<1>17. MadeAlong(h, n, s, path)
  BY <1>5, <1>6, <1>11, <1>12, <1>14, <1>16 DEF MadeAlong, On, r, file
<1> QED
  BY <1>17

LEMMA AlongTypes ==
    ASSUME TreeTyped, NEW s \in Places, NEW path \in Seq(tree)
    PROVE  /\ Along(s, path).s \in Places /\ Along(s, path).s.at \in s.files \cup {s.at}
           /\ Along(s, path).s.files = s.files
<1>1. PICK h, n : MadeAlong(h, n, s, path)
  BY AlongMade
<1>2. CASE n = 0
  BY <1>1, <1>2 DEF MadeAlong
<1>3. CASE n # 0
  <2>1. n \in 1..Len(path)
    BY <1>1, <1>3 DEF MadeAlong
  <2>2. h[n] \subseteq s.files
    BY <1>1, <2>1, FoundOnCard DEF MadeAlong
  <2> QED
    BY <1>1, <2>2 DEF MadeAlong
<1> QED
  BY <1>2, <1>3

LEMMA LastFile ==
    ASSUME TreeTyped, NEW o \in tree
    PROVE  Last(o) \in File /\ Last(o) \in ToSet(o) /\ o \in Seq(File) /\ Len(o) > 0 /\ Len(o) \in Nat
BY DEF TreeTyped, Object, Last, ToSet

\* Where the card stands before the SELECT of path[i], when all before have succeeded.
Before(at, path, i) == IF i = 1 THEN at ELSE Last(path[i - 1])

\* No SELECT of the path finds another file than it is meant to.
PlainAlong(files, at, path) ==
    \A i \in 1..Len(path) : Found(files, Before(at, path, i), Last(path[i])) \subseteq {Last(path[i])}

CleanAlong(at, path) == \A i \in 1..Len(path) : Clean(Before(at, path, i), Last(path[i]))

LEMMA CleanIsPlain ==
    ASSUME TreeTyped, NEW files, NEW at \in File, NEW path \in Seq(tree), CleanAlong(at, path)
    PROVE  PlainAlong(files, at, path)
<1>1. ASSUME NEW i \in 1..Len(path)
      PROVE  Found(files, Before(at, path, i), Last(path[i])) \subseteq {Last(path[i])}
  <2>1. path[i] \in tree /\ (i # 1 => path[i - 1] \in tree)
    OBVIOUS
  <2>2. Before(at, path, i) \in File /\ Last(path[i]) \in File
    BY <2>1, LastFile DEF Before
  <2> QED
    BY <2>2, FoundIt DEF CleanAlong
<1> QED
  BY <1>1 DEF PlainAlong

\* The first n SELECTs succeed, and the next one does not.
Reached(s, path, n) ==
    /\ n \in 0..Len(path) /\ (Along(s, path).ok <=> n = Len(path))
    /\ \A i \in 1..n : Found(s.files, Before(s.at, path, i), Last(path[i])) # {}
    /\ n < Len(path) => Found(s.files, Before(s.at, path, n + 1), Last(path[n + 1])) = {}
    /\ LET r == Along(s, path).s
       IN  /\ r.at = Before(s.at, path, n + 1)
           /\ r.file = IF n = 0 THEN s.file ELSE path[n]
           /\ r.adf = IF Last(r.file) \in Adf THEN Last(r.file) ELSE s.adf

LEMMA AlongClean ==
    ASSUME TreeTyped, NEW s \in Places, NEW path \in Seq(tree), PlainAlong(s.files, s.at, path)
    PROVE  \E n : Reached(s, path, n)
<1>1. PICK h, n : MadeAlong(h, n, s, path)
  BY AlongMade
<1> DEFINE m == Len(path)
<1>0. m \in Nat /\ s.at \in File /\ n \in 0..m /\ h[0] = {s.at} /\ h[n] # {}
  BY <1>1 DEF MadeAlong, Places
<1>2. ASSUME NEW i \in 1..m, h[i - 1] \subseteq {Before(s.at, path, i)}
      PROVE  h[i] \subseteq {Last(path[i])} /\ (h[i] # {} => Found(s.files, Before(s.at, path, i), Last(path[i])) # {})
  <2>3. Found(s.files, Before(s.at, path, i), Last(path[i])) \subseteq {Last(path[i])}
    BY DEF PlainAlong
  <2>4. h[i] = UNION {Found(s.files, f, Last(path[i])) : f \in h[i - 1]}
    BY <1>1 DEF MadeAlong
  <2>5. h[i] \subseteq Found(s.files, Before(s.at, path, i), Last(path[i]))
    BY <1>2, <2>4
  <2> QED
    BY <2>3, <2>5
<1> DEFINE Wrong == {i \in 1..m : ~(h[i] \subseteq {Last(path[i])})}
<1>3. Wrong = {}
  <2> SUFFICES ASSUME Wrong # {} PROVE FALSE
    OBVIOUS
  <2>1. Wrong \in SUBSET Nat
    BY <1>0
  <2>2. PICK i \in Wrong : \A j \in Wrong : i <= j
    <3> HIDE DEF Wrong
    <3> QED
      BY <2>1, LeastNumber
  <2>3. i \in 1..m /\ ~(i <= i - 1)
    BY <1>0, <2>2
  <2>4. h[i - 1] \subseteq {Before(s.at, path, i)}
    <3>1. CASE i = 1
      BY <1>0, <3>1 DEF Before
    <3>2. CASE i # 1
      <4>1. i - 1 \in 1..m /\ i - 1 \notin Wrong
        BY <1>0, <2>2, <2>3, <3>2
      <4> QED
        BY <3>2, <4>1 DEF Before
    <3> QED
      BY <3>1, <3>2
  <2> QED
    BY <1>2, <2>2, <2>3, <2>4
<1>4. ASSUME NEW i \in 1..(m + 1), i = 1 \/ i - 1 \in 1..m PROVE h[i - 1] \subseteq {Before(s.at, path, i)}
  <2>1. CASE i = 1
    BY <1>0, <2>1 DEF Before
  <2>2. CASE i # 1
    BY <1>3, <1>4, <2>2 DEF Before
  <2> QED
    BY <2>1, <2>2
<1>5. ASSUME NEW i \in 1..m PROVE i \in 1..(m + 1) /\ (i = 1 \/ i - 1 \in 1..m)
  BY <1>0
<1> DEFINE Lost == {d \in 0..n : h[n - d] = {}}
<1>6. Lost = {}
  <2> SUFFICES ASSUME Lost # {} PROVE FALSE
    OBVIOUS
  <2>1. Lost \in SUBSET Nat
    BY <1>0
  <2>2. PICK d \in Lost : \A j \in Lost : d <= j
    <3> HIDE DEF Lost
    <3> QED
      BY <2>1, LeastNumber
  <2>3. d \in 0..n /\ h[n - d] = {}
    BY <2>2
  <2>4. d # 0
    <3>1. n - 0 = n
      BY <1>0
    <3> QED
      BY <1>0, <2>3, <3>1
  <2>5. d - 1 \in 0..n /\ ~(d <= d - 1) /\ n - (d - 1) \in 1..m /\ (n - (d - 1)) - 1 = n - d
    BY <1>0, <2>3, <2>4
  <2>6. h[n - (d - 1)] # {}
    <3>1. d - 1 \notin Lost
      <4> HIDE DEF Lost
      <4> QED
        BY <2>2, <2>5
    <3> QED
      BY <2>5, <3>1
  <2> DEFINE k == n - (d - 1)
  <2> HIDE DEF k
  <2>7. k \in 1..m /\ h[k] # {} /\ h[k - 1] = {}
    BY <2>3, <2>5, <2>6 DEF k
  <2>8. h[k] = UNION {Found(s.files, f, Last(path[k])) : f \in h[k - 1]}
    BY <1>1, <2>7 DEF MadeAlong
  <2> QED
    BY <2>7, <2>8
<1>7. ASSUME NEW i \in 1..n PROVE h[i] # {} /\ i \in 1..m
  <2>1. n - i \in 0..n /\ n - (n - i) = i /\ i \in 1..m
    BY <1>0
  <2>2. n - i \notin Lost
    BY <1>6
  <2> QED
    BY <2>1, <2>2
<1>8. \A i \in 1..n : Found(s.files, Before(s.at, path, i), Last(path[i])) # {}
  <2> TAKE i \in 1..n
  <2> QED
    BY <1>2, <1>4, <1>5, <1>7
<1>9. h[n] = {Before(s.at, path, n + 1)}
  <2>1. n + 1 \in 1..(m + 1) /\ (n + 1 = 1 \/ (n + 1) - 1 \in 1..m) /\ (n + 1) - 1 = n
    BY <1>0
  <2> DEFINE k == n + 1
  <2> HIDE DEF k
  <2>2. k \in 1..(m + 1) /\ (k = 1 \/ k - 1 \in 1..m) /\ k - 1 = n
    BY <2>1 DEF k
  <2>3. h[k - 1] \subseteq {Before(s.at, path, k)}
    BY <1>4, <2>2
  <2> QED
    BY <1>0, <2>2, <2>3 DEF k
<1>10. ASSUME n < m PROVE Found(s.files, Before(s.at, path, n + 1), Last(path[n + 1])) = {}
  <2> DEFINE k == n + 1
  <2> HIDE DEF k
  <2>1. k \in 1..m /\ k - 1 = n /\ k \in 0..m /\ ~(k <= n)
    BY <1>0, <1>10 DEF k
  <2>2. h[k] = {}
    BY <1>1, <2>1 DEF MadeAlong
  <2>3. h[k] = UNION {Found(s.files, f, Last(path[k])) : f \in h[k - 1]}
    BY <1>1, <2>1 DEF MadeAlong
  <2>4. h[k - 1] = {Before(s.at, path, k)}
    BY <1>9, <2>1 DEF k
  <2>5. Found(s.files, Before(s.at, path, k), Last(path[k])) = {}
    BY <2>2, <2>3, <2>4
  <2> QED
    BY <2>5 DEF k
<1>11. Reached(s, path, n)
  BY <1>0, <1>1, <1>8, <1>9, <1>10 DEF Reached, MadeAlong
<1> QED
  BY <1>11

\* The directory of a file object.
Above(o) == Last(Front(o))

\* What the shell knows of the files it has objects for.
Sound(o) ==
    /\ Above(o) \notin Ef \cup (Adf \ Fs)
    /\ Last(o) \in Adf => Len(o) = 2 /\ Last(o) \in exists
    /\ Last(o) \notin Adf => /\ Last(o) # MF /\ Last(o) \in InReach[Above(o)]
                             /\ Above(o) \in Adf \/ Above(o) \in InReach[Last(o)]
    /\ Last(o) \in Ef => Above(o) = Parent[Last(o)]

TreeSound ==
    /\ \A o \in tree : Len(o) > 1 => Sound(o)
    /\ \A u \in exists \cap Fs : <<MF, u>> \in tree

\* The shell shows the file the card has selected, or one that was deleted there.
AtRight(at, file) ==
    \/ at = Last(file)
    \/ Len(file) > 1 /\ Last(file) \in Ef \cap gone /\ at = Above(file)

\* And knows whether it is in an application without a file system.
Knows(at, adf) == at \in Adf \ Fs <=> adf \in Adf \ Fs

Fits(s) == AtRight(s.at, s.file) /\ Knows(s.at, s.adf)

Trusted == TreeTyped /\ TreeSound /\ exists \subseteq File /\ MF \in exists

LEMMA Reaches ==
    ASSUME NEW at \in File
    PROVE  /\ InReach[at] = {} <=> Directory(at) \in Adf \ Fs
           /\ InReach[at] \subseteq File \ Adf
           /\ InReach[at] # {} => MF \in InReach[at]
           /\ InReach[at] # {} /\ Directory(at) \notin Adf => Directory(at) \in InReach[at]
           /\ Directory(at) \in File
<1>1. MF \in File \ (Adf \cup Ef)
  BY RuntimeAssumption
<1>2. Directory(at) \in File /\ \A f \in File \ {MF} : Parent[f] \in File
  <2>1. \A f \in File \ {MF} : Path[f] \in Seq(File) /\ Len(Path[f]) > 1
    BY RuntimeAssumption
  <2>2. ASSUME NEW f \in File \ {MF} PROVE Parent[f] \in File
    <3>1. Front(Path[f]) \in Seq(File) /\ Len(Front(Path[f])) > 0
      BY <2>1 DEF Front
    <3> QED
      BY <3>1 DEF Parent, Last
  <2> QED
    BY <1>1, <2>2 DEF Directory
<1> QED
  BY <1>1, <1>2 DEF InReach

LEMMA AboveFile ==
    ASSUME TreeTyped, NEW o \in tree, Len(o) > 1
    PROVE  Above(o) \in File /\ Front(o) \in tree
BY LastFile DEF TreeTyped, Above

LEMMA AdjacentClean ==
    ASSUME Trusted, NEW o \in tree, NEW p \in tree, Adjacent(o, p)
    PROVE  Clean(Last(o), Last(p))
<1>1. Last(o) \in File /\ Last(p) \in File /\ MF \notin Adf
  BY LastFile, RuntimeAssumption DEF Trusted
<1>2. CASE Len(o) > 1 /\ p = Front(o)
  <2>1. Sound(o) /\ Last(p) = Above(o)
    BY <1>2 DEF Trusted, TreeSound, Above
  <2>2. CASE Last(o) \in Adf
    <3>1. Last(p) = MF
      <4>1. Len(o) = 2 /\ o \in Seq(File) /\ o[1] = MF
        BY <2>1, <2>2, LastFile DEF Sound, Trusted, TreeTyped
      <4> QED
        BY <1>2, <4>1 DEF Front, Last
    <3> QED
      BY <1>1, <3>1, Reaches DEF Clean
  <2>3. CASE Last(o) \notin Adf
    BY <2>1, <2>3 DEF Sound, Clean
  <2> QED
    BY <2>2, <2>3
<1>3. CASE Len(p) > 1 /\ o = Front(p)
  BY <1>3 DEF Trusted, TreeSound, Sound, Above, Clean
<1> QED
  BY <1>2, <1>3 DEF Adjacent

LEMMA PathClean ==
    ASSUME Trusted, NEW file \in tree, NEW target \in tree, NEW at \in File, AtRight(at, file)
    PROVE  CleanAlong(at, build_select_path_to(file, target))
<1> DEFINE p == build_select_path_to(file, target)
<1>1. Way(file, target, p) /\ Entered(file, p)
  BY Paths DEF Trusted
<1> HIDE DEF p
<1>2. p \in Seq(tree) /\ Len(p) > 0
  BY <1>1 DEF Way
<1>3. ASSUME NEW i \in 1..Len(p), i # 1 PROVE Clean(Last(p[i - 1]), Last(p[i]))
  <2>1. i \in 2..Len(p) /\ p[i - 1] \in tree /\ p[i] \in tree
    BY <1>2, <1>3
  <2> QED
    BY <1>1, <2>1, AdjacentClean DEF Way
<1>4. Clean(at, Last(p[1]))
  <2>0. p[1] \in tree /\ MF \notin Adf
    BY <1>2, RuntimeAssumption
  <2>1. CASE Last(p[1]) \in Adf
    BY <2>1 DEF Clean
  <2>2. CASE p[1] = <<MF>>
    <3>1. Last(p[1]) = MF
      BY <2>2 DEF Last
    <3> QED
      BY <3>1, Reaches DEF Clean
  <2>3. CASE Adjacent(file, p[1]) /\ at = Last(file)
    BY <2>0, <2>3, AdjacentClean
  <2>4. CASE Adjacent(file, p[1]) /\ Len(file) > 1 /\ Last(file) \in Ef /\ at = Above(file)
    <3>1. ASSUME Len(p[1]) > 1, file = Front(p[1]) PROVE FALSE
      <4>1. Sound(p[1]) /\ Above(p[1]) = Last(file)
        BY <2>0, <3>1 DEF Trusted, TreeSound, Above
      <4> QED
        BY <2>4, <4>1 DEF Sound
    <3>2. at = Last(p[1])
      BY <2>4, <3>1 DEF Adjacent, Above
    <3>3. at \notin Ef
      BY <2>4 DEF Trusted, TreeSound, Sound
    <3>4. at \in Adf \/ InReach[at] = {} \/ at \in InReach[at]
      BY <3>3, Reaches DEF Directory
    <3> QED
      BY <3>2, <3>4 DEF Clean
  <2> QED
    BY <1>1, <2>1, <2>2, <2>3, <2>4 DEF Entered, AtRight
<1> QED
  BY <1>3, <1>4 DEF CleanAlong, Before, p

\* An application is one SELECT away.
LEMMA ToApplication ==
    ASSUME Trusted, NEW file \in tree, NEW target \in tree, Last(target) \in Adf
    PROVE  /\ Len(build_select_path_to(file, target)) = 1
           /\ build_select_path_to(file, target)[1] = target
<1> DEFINE p == build_select_path_to(file, target)
<1>1. Way(file, target, p) /\ Entered(file, p)
  BY Paths DEF Trusted
<1> HIDE DEF p
<1>2. p \in Seq(tree) /\ Len(p) > 0 /\ p[Len(p)] = target
  BY <1>1 DEF Way
<1>3. Len(p) = 1
  <2> SUFFICES ASSUME Len(p) # 1 PROVE FALSE
    OBVIOUS
  <2>0. Len(p) \in Nat
    BY <1>2
  <2>1. Len(p) \in 2..Len(p)
    <3> DEFINE k == Len(p)
    <3> HIDE DEF k
    <3>1. k \in Nat /\ k > 0 /\ k # 1
      BY <1>2, <2>0 DEF k
    <3>2. k \in 2..k
      BY <3>1
    <3> QED
      BY <3>2 DEF k
  <2>2. Last(p[Len(p)]) \notin Adf
    BY <1>1, <2>1 DEF Entered
  <2> QED
    BY <1>2, <2>2
<1> QED
  BY <1>2, <1>3 DEF p

LEMMA ApplicationSelected ==
    ASSUME Trusted, NEW s \in Places, NEW target \in tree, Last(target) \in Adf,
           NEW r, r = Along(s, build_select_path_to(s.file, target))
    PROVE  r.ok /\ r.s.at = Last(target) /\ r.s.file = target /\ r.s.adf = Last(target)
<1> DEFINE p == build_select_path_to(s.file, target)
<1>0. s.at \in File /\ s.file \in tree /\ exists \subseteq File /\ exists \subseteq s.files /\ TreeTyped
  BY DEF Places, Trusted
<1>1. Len(p) = 1 /\ p[1] = target /\ p \in Seq(tree) /\ CleanAlong(s.at, p)
  <2>1. Len(p) = 1 /\ p[1] = target /\ p \in Seq(tree)
    BY <1>0, ToApplication, Paths DEF Way
  <2>2. ASSUME NEW i \in 1..Len(p) PROVE Clean(Before(s.at, p, i), Last(p[i]))
    <3>1. i = 1
      BY <2>1
    <3> QED
      BY <2>1, <3>1 DEF Clean
  <2> QED
    BY <2>1, <2>2 DEF CleanAlong
<1>2. Last(target) \in File /\ Last(target) \in exists
  <2>1. Len(target) > 1
    <3>1. target[1] = MF /\ MF \notin Adf /\ Len(target) > 0 /\ Len(target) \in Nat
      BY <1>0, LastFile, RuntimeAssumption DEF TreeTyped
    <3> QED
      BY <3>1 DEF Last
  <2> QED
    BY <1>0, <2>1, LastFile DEF Trusted, TreeSound, Sound
<1> HIDE DEF p
<1>3. PICK n : Reached(s, p, n)
  BY <1>0, <1>1, CleanIsPlain, AlongClean
<1>4. n = 1
  <2>1. n # 0
    <3>1. Found(s.files, s.at, Last(target)) = {Last(target)}
      <4>1. Last(target) \in s.files
        BY <1>0, <1>2
      <4> QED
        BY <4>1 DEF Found
    <3>2. n = 0 => Found(s.files, Before(s.at, p, 0 + 1), Last(p[0 + 1])) = {}
      BY <1>1, <1>3 DEF Reached
    <3>3. Before(s.at, p, 0 + 1) = s.at /\ p[0 + 1] = target
      BY <1>1 DEF Before
    <3> QED
      BY <3>1, <3>2, <3>3
  <2> QED
    BY <1>1, <1>3, <2>1 DEF Reached
<1>5. Before(s.at, p, 1 + 1) = Last(target)
  BY <1>1 DEF Before
<1>6. r.ok /\ r.s.at = Last(target) /\ r.s.file = target
  BY <1>1, <1>3, <1>4, <1>5 DEF Reached, p
<1> QED
  BY <1>3, <1>6 DEF Reached, p

LEMMA EscapedTypes ==
    ASSUME TreeTyped, NEW s \in Places, NEW target
    PROVE  /\ Escaped(s, target) \in Places /\ Escaped(s, target).at \in s.files \cup {s.at}
           /\ Escaped(s, target).files = s.files
<1> DEFINE ways == {o \in tree : Len(o) = 2 /\ Last(o) \in Fs}
           way == CHOOSE o \in ways : TRUE
           p == build_select_path_to(s.file, way)
<1>1. CASE ways # {}
  <2>1. way \in tree /\ s.file \in tree
    BY <1>1 DEF Places
  <2>2. p \in Seq(tree)
    BY <2>1, Paths DEF Way
  <2> HIDE DEF way, p
  <2>3. Along(s, p).s \in Places /\ Along(s, p).s.at \in s.files \cup {s.at} /\ Along(s, p).s.files = s.files
    BY <2>2, AlongTypes
  <2> QED
    BY <2>3 DEF Escaped, way, p
<1>2. CASE ways = {}
  BY <1>2 DEF Escaped
<1> QED
  BY <1>1, <1>2

LEMMA SelectFileTypes ==
    ASSUME TreeTyped, NEW s \in Places, NEW target \in tree
    PROVE  /\ select_file(s, target).s \in Places
           /\ select_file(s, target).s.at \in s.files \cup {s.at}
           /\ select_file(s, target).s.files = s.files
<1> DEFINE t == Escaped(s, target)
           p == build_select_path_to(t.file, target)
<1>1. t \in Places /\ t.at \in s.files \cup {s.at} /\ t.files = s.files
  BY EscapedTypes
<1> HIDE DEF t
<1>2. p \in Seq(tree)
  <2>1. t.file \in tree
    BY <1>1 DEF Places
  <2> QED
    BY <2>1, Paths DEF Way
<1> HIDE DEF p
<1>3. Along(t, p).s \in Places /\ Along(t, p).s.at \in t.files \cup {t.at} /\ Along(t, p).s.files = t.files
  BY <1>1, <1>2, AlongTypes
<1> QED
  BY <1>1, <1>3 DEF select_file, t, p

LEMMA SelectTypes ==
    ASSUME TreeTyped, NEW s \in Places, NEW target \in tree
    PROVE  /\ select(s, target) \in Places /\ select(s, target).at \in s.files \cup {s.at}
           /\ select(s, target).files = s.files
<1>1. s.file \in tree
  BY DEF Places
<1> DEFINE r == select_file(s, target)
<1>2. r.s \in Places /\ r.s.at \in s.files \cup {s.at} /\ r.s.files = s.files
  BY SelectFileTypes
<1> HIDE DEF r
<1>3. /\ select_file(r.s, s.file).s \in Places /\ select_file(r.s, s.file).s.at \in s.files \cup {r.s.at}
      /\ select_file(r.s, s.file).s.files = s.files
  BY <1>1, <1>2, SelectFileTypes
<1> QED
  BY <1>2, <1>3 DEF select, r

\* After leaving an application for another, if there is need and a way.
LEMMA EscapedFits ==
    ASSUME Trusted, NEW s \in Places, NEW target \in tree, Fits(s), NEW t, t = Escaped(s, target)
    PROVE  /\ t \in Places /\ Fits(t)
           /\ \/ t.adf \notin Adf \ Fs
              \/ Last(target) \in Adf
              \/ t = s /\ \A o \in tree : Len(o) = 2 => Last(o) \notin Fs
           /\ t = s \/ (t.file \in tree /\ Len(t.file) = 2 /\ Last(t.file) \in exists)
<1> DEFINE ways == {o \in tree : Len(o) = 2 /\ Last(o) \in Fs}
           way == CHOOSE o \in ways : TRUE
           p == build_select_path_to(s.file, way)
<1>1. t \in Places
  BY EscapedTypes DEF Trusted
<1>2. CASE s.adf \in Adf \ Fs /\ Last(target) \notin Adf /\ ways # {}
  <2>1. way \in tree /\ Len(way) = 2 /\ Last(way) \in Fs
    BY <1>2
  <2>2. t = Along(s, p).s
    BY <1>2 DEF Escaped
  <2> HIDE DEF way
  <2>3. Last(way) \in Adf
    BY <2>1, RuntimeAssumption
  <2>4. t.at = Last(way) /\ t.file = way /\ t.adf = Last(way)
    BY <2>1, <2>2, <2>3, ApplicationSelected DEF Fits
  <2>5. Last(way) \in exists
    BY <2>1, <2>3 DEF Trusted, TreeSound, Sound
  <2> QED
    BY <1>1, <2>1, <2>3, <2>4, <2>5 DEF Fits, AtRight, Knows
<1>3. CASE ~(s.adf \in Adf \ Fs /\ Last(target) \notin Adf /\ ways # {})
  <2>1. t = s
    BY <1>3 DEF Escaped
  <2> QED
    BY <1>1, <1>3, <2>1
<1> QED
  BY <1>2, <1>3

\* Where an application is not left blindly, a path leads to where the shell thinks it does.
LEMMA AlongFits ==
    ASSUME Trusted, NEW s \in Places, NEW file \in tree, NEW target \in tree,
           NEW path, path = build_select_path_to(file, target), PlainAlong(s.files, s.at, path),
           Fits(s) \/ Found(s.files, s.at, Last(path[1])) # {} \/ Along(s, path).ok,
           \/ s.adf \notin Adf \ Fs
           \/ Last(target) \in Adf
           \/ s.at \in Adf \ Fs /\ \A o \in tree : Len(o) = 2 => Last(o) \notin Fs
    PROVE  Fits(Along(s, path).s)
<1> DEFINE r == Along(s, path).s
<1>0. TreeTyped /\ TreeSound /\ exists \subseteq File /\ s.at \in File /\ s.file \in tree
  BY DEF Trusted, Places
<1>1. Way(file, target, path) /\ Entered(file, path)
  BY <1>0, Paths
<1>2. path \in Seq(tree) /\ Len(path) > 0 /\ Len(path) \in Nat
  BY <1>1 DEF Way
<1>3. PICK n : Reached(s, path, n)
  BY <1>0, <1>2, AlongClean
<1>4. n \in 0..Len(path) /\ n \in Nat
  BY <1>2, <1>3 DEF Reached
<1>5. CASE n = 0
  <2>1. Found(s.files, Before(s.at, path, 1), Last(path[1])) = {} /\ ~Along(s, path).ok
    <3>1. n < Len(path) /\ n + 1 = 1
      BY <1>2, <1>5
    <3> QED
      BY <1>3, <3>1 DEF Reached
  <2>2. Fits(s)
    BY <2>1 DEF Before
  <2>3. r.at = s.at /\ r.file = s.file /\ r.adf = IF Last(r.file) \in Adf THEN Last(r.file) ELSE s.adf
    BY <1>3, <1>5 DEF Reached, Before
  <2>4. Last(s.file) \in Adf => s.at = Last(s.file)
    BY <2>2, RuntimeAssumption DEF Fits, AtRight
  <2> HIDE DEF r
  <2>5. Fits(r)
    BY <2>2, <2>3, <2>4 DEF Fits, Knows, AtRight
  <2> QED
    BY <2>5 DEF r
<1>6. CASE n # 0
  <2> DEFINE last == Last(path[n])
  <2>1. n \in 1..Len(path) /\ 1 \in 1..n /\ n + 1 # 1 /\ (n + 1) - 1 = n
    BY <1>2, <1>4, <1>6
  <2>2. r.at = last /\ r.file = path[n] /\ r.adf = IF last \in Adf THEN last ELSE s.adf
    BY <1>3, <1>6, <2>1 DEF Reached, Before
  <2>3. last \in Adf \/ s.adf \notin Adf \ Fs
    <3> SUFFICES ASSUME last \notin Adf, s.adf \in Adf \ Fs PROVE FALSE
      OBVIOUS
    <3>1. CASE Last(target) \in Adf
      <4>1. Len(path) = 1 /\ path[1] = target
        BY <3>1, ToApplication
      <4> QED
        BY <2>1, <3>1, <4>1
    <3>2. CASE s.at \in Adf \ Fs /\ \A o \in tree : Len(o) = 2 => Last(o) \notin Fs
      <4>1. Found(s.files, s.at, Last(path[1])) # {}
        BY <1>3, <2>1 DEF Reached, Before
      <4>2. InReach[s.at] = {}
        BY <1>0, <3>2, Reaches, RuntimeAssumption DEF Directory
      <4>3. Last(path[1]) \in Adf
        BY <4>1, <4>2 DEF Found, ByFid
      <4>4. n # 1 /\ 1 \in 1..(Len(path) - 1)
        BY <1>2, <2>1, <4>3
      <4>5. PICK o \in tree : Len(o) > 1 /\ path[1] = Front(o)
        BY <1>1, <4>4 DEF Way
      <4>6. Last(path[1]) \in Fs
        BY <1>0, <4>3, <4>5 DEF TreeSound, Sound, Above
      <4>7. path[1] \in tree /\ Len(path[1]) = 2
        <5>1. path[1] \in tree
          BY <1>2
        <5>2. path[1][1] = MF /\ MF \notin Adf /\ Len(path[1]) > 0 /\ Len(path[1]) \in Nat
          BY <1>0, <5>1, LastFile, RuntimeAssumption DEF TreeTyped
        <5>3. Len(path[1]) > 1
          BY <4>3, <5>2 DEF Last
        <5> QED
          BY <1>0, <4>3, <5>1, <5>3 DEF TreeSound, Sound
      <4> QED
        BY <3>2, <4>6, <4>7
    <3> QED
      BY <3>1, <3>2
  <2> HIDE DEF r
  <2>4. Fits(r)
    BY <2>2, <2>3 DEF Fits, AtRight, Knows
  <2> QED
    BY <2>4 DEF r
<1> QED
  BY <1>5, <1>6

LEMMA SelectFileFits ==
    ASSUME Trusted, NEW s \in Places, NEW target \in tree, Fits(s)
    PROVE  Fits(select_file(s, target).s)
<1> DEFINE t == Escaped(s, target)
           p == build_select_path_to(t.file, target)
<1>1. /\ t \in Places /\ Fits(t)
      /\ \/ t.adf \notin Adf \ Fs
         \/ Last(target) \in Adf
         \/ t = s /\ \A o \in tree : Len(o) = 2 => Last(o) \notin Fs
  BY EscapedFits
<1>2. select_file(s, target) = Along(t, p)
  BY DEF select_file
<1> HIDE DEF t
<1>3. t.file \in tree /\ t.at \in File
  BY <1>1 DEF Places
<1>4. PlainAlong(t.files, t.at, p)
  <2>1. CleanAlong(t.at, p) /\ p \in Seq(tree) /\ TreeTyped
    BY <1>1, <1>3, PathClean, Paths DEF Fits, Way, Trusted
  <2> QED
    BY <1>3, <2>1, CleanIsPlain
<1>5. \/ t.adf \notin Adf \ Fs
      \/ Last(target) \in Adf
      \/ t.at \in Adf \ Fs /\ \A o \in tree : Len(o) = 2 => Last(o) \notin Fs
  BY <1>1 DEF Fits, Knows
<1> QED
  BY <1>1, <1>2, <1>3, <1>4, <1>5, AlongFits

LEMMA SelectFits ==
    ASSUME Trusted, NEW s \in Places, NEW target \in tree, Fits(s)
    PROVE  Fits(select(s, target))
<1> DEFINE r == select_file(s, target)
<1>1. r.s \in Places /\ Fits(r.s) /\ s.file \in tree
  BY SelectFileTypes, SelectFileFits DEF Trusted, Places
<1> HIDE DEF r
<1>2. Fits(select_file(r.s, s.file).s)
  BY <1>1, SelectFileFits
<1> QED
  BY <1>1, <1>2 DEF select, r

\* Only an application without a file system, or a file that is not there, is in the way.
LEMMA SelectFileFinds ==
    ASSUME Trusted, NEW s \in Places, NEW target \in tree, Fits(s),
           ToSet(target) \cup ToSet(s.file) \subseteq exists,
           s.at \in Adf \ Fs => Last(target) \in Adf \/ exists \cap Fs # {}
    PROVE  select_file(s, target).ok /\ select_file(s, target).s.at = Last(target)
<1> DEFINE t == Escaped(s, target)
           p == build_select_path_to(t.file, target)
<1>1. /\ t \in Places /\ Fits(t)
      /\ \/ t.adf \notin Adf \ Fs
         \/ Last(target) \in Adf
         \/ t = s /\ \A o \in tree : Len(o) = 2 => Last(o) \notin Fs
      /\ t = s \/ (t.file \in tree /\ Len(t.file) = 2 /\ Last(t.file) \in exists)
  BY EscapedFits
<1>2. select_file(s, target) = Along(t, p)
  BY DEF select_file
<1> HIDE DEF t
<1>3. /\ t.file \in tree /\ t.at \in File /\ TreeTyped /\ TreeSound /\ exists \subseteq File /\ MF \in exists
      /\ \A f \in File \ {MF} : Parent[f] \notin Adf \ Fs
  BY <1>1, RuntimeAssumption DEF Places, Trusted
<1>4. CleanAlong(t.at, p)
  BY <1>1, <1>3, PathClean DEF Fits
<1>5. Way(t.file, target, p)
  BY <1>3, Paths
<1>6. Last(target) \in Adf => p[1] = target
  BY <1>3, ToApplication
<1> HIDE DEF p
<1>7. p \in Seq(tree) /\ Len(p) > 0 /\ Len(p) \in Nat
  BY <1>5 DEF Way
<1>8. PICK n : Reached(t, p, n)
  BY <1>1, <1>3, <1>4, <1>7, CleanIsPlain, AlongClean
<1>9. n \in 0..Len(p) /\ n \in Nat
  BY <1>7, <1>8 DEF Reached
<1>10. ToSet(t.file) \subseteq exists
  <2>1. CASE t = s
    BY <2>1
  <2>2. CASE Len(t.file) = 2 /\ Last(t.file) \in exists
    BY <1>3, <2>2, LastFile DEF ToSet, Last, TreeTyped
  <2> QED
    BY <1>1, <2>1, <2>2
<1>11. n = Len(p)
  <2> SUFFICES ASSUME n # Len(p) PROVE FALSE
    OBVIOUS
  <2> DEFINE k == n + 1
  <2> HIDE DEF k
  <2>1. n < Len(p) /\ k \in 1..Len(p) /\ k - 1 = n /\ (n # 0 => n \in 1..(Len(p) - 1) /\ k # 1)
    BY <1>7, <1>9 DEF k
  <2> DEFINE at == Before(t.at, p, k)
  <2>2. Found(t.files, at, Last(p[k])) = {}
    BY <1>8, <2>1 DEF Reached, k
  <2>3. Last(p[k]) \in exists /\ Last(p[k]) \in File /\ exists \subseteq t.files
    BY <1>1, <1>3, <1>5, <1>7, <1>10, <2>1, LastFile DEF Way, Within, Places
  <2>4. at \in File
    <3>1. CASE n = 0
      BY <1>3, <2>1, <3>1 DEF Before
    <3>2. CASE n # 0
      BY <1>3, <1>7, <2>1, <3>2, LastFile DEF Before
    <3> QED
      BY <3>1, <3>2
  <2>5. Clean(at, Last(p[k]))
    BY <1>4, <2>1 DEF CleanAlong
  <2> HIDE DEF at
  <2>6. Last(p[k]) \notin Adf /\ InReach[at] = {}
    <3> DEFINE files == t.files
               f == Last(p[k])
    <3>1. Found(files, at, f) = {} /\ f \in files /\ f \in File /\ Clean(at, f)
      BY <2>2, <2>3, <2>5
    <3> HIDE DEF files, f
    <3>2. f \notin Adf /\ InReach[at] = {}
      BY <2>4, <3>1, FoundIt
    <3> QED
      BY <3>2 DEF f
  <2>7. Directory(at) \in Adf \ Fs
    BY <2>4, <2>6, Reaches
  <2>8. CASE n = 0
    <3>1. k = 1 /\ at = t.at
      BY <2>8 DEF at, k, Before
    <3>2. t.at \in Adf \ Fs
      <4>1. MF \notin Ef
        BY RuntimeAssumption
      <4>2. t.at \in Ef => t.at \in File \ {MF}
        BY <1>3, <4>1
      <4> QED
        BY <1>3, <2>7, <3>1, <4>2 DEF Directory
    <3>3. Last(target) \notin Adf
      BY <1>6, <2>6, <3>1
    <3>4. t = s /\ \A o \in tree : Len(o) = 2 => Last(o) \notin Fs
      BY <1>1, <3>2, <3>3 DEF Fits, Knows
    <3>5. PICK u \in exists \cap Fs : <<MF, u>> \in tree
      BY <1>3, <3>2, <3>3, <3>4 DEF TreeSound
    <3>6. Len(<<MF, u>>) = 2 /\ Last(<<MF, u>>) = u
      BY DEF Last
    <3> QED
      BY <3>4, <3>5, <3>6
  <2>9. CASE n # 0
    <3>1. PICK o \in tree : Len(o) > 1 /\ p[n] = Front(o)
      BY <1>5, <2>1, <2>9 DEF Way
    <3>2. at = Above(o)
      BY <2>1, <2>9, <3>1 DEF at, Before, Above
    <3>3. at \notin Ef \cup (Adf \ Fs)
      BY <1>3, <3>1, <3>2 DEF TreeSound, Sound
    <3> QED
      BY <2>7, <3>3 DEF Directory
  <2> QED
    BY <2>8, <2>9
<1>12. Along(t, p).ok
  BY <1>8, <1>11 DEF Reached
<1>13. Along(t, p).s.at = Last(target)
  <2>1. n + 1 # 1 /\ (n + 1) - 1 = n /\ p[n] = target
    BY <1>5, <1>7, <1>9, <1>11 DEF Way
  <2> QED
    BY <1>8, <2>1 DEF Reached, Before
<1> QED
  BY <1>2, <1>12, <1>13 DEF p

\* What a directory's files reach, and what they are reached from.
LEMMA Neighbours ==
    ASSUME NEW at \in File, NEW d, d = Directory(at), NEW f \in InReach[at], f # MF, f # d
    PROVE  /\ d \in File \ Ef /\ d \notin Adf \ Fs /\ f \in File \ Adf
           /\ f \in InReach[d] /\ InReach[f] # {}
           /\ d \in Adf \/ d \in InReach[f]
           /\ f \in Ef => d = Parent[f]
<1>1. /\ MF \in File \ (Adf \cup Ef) /\ Adf \cap Ef = {}
      /\ \A g \in File \ {MF} : Parent[g] \notin Ef \cup (Adf \ Fs)
  BY RuntimeAssumption
<1>2. d \in File /\ d \notin Adf \ Fs /\ f \in File \ Adf
  BY Reaches
<1>3. d \notin Ef
  BY <1>1 DEF Directory
<1>4. InReach[d] = InReach[at]
  <2>1. Directory(d) = d
    BY <1>3 DEF Directory
  <2> QED
    BY <1>2, <2>1 DEF InReach
<1>5. InReach[f] # {}
  <2>1. Directory(f) \notin Adf \ Fs
    BY <1>1, <1>2 DEF Directory
  <2> QED
    BY <1>2, <2>1, Reaches
<1>6. CASE d # MF /\ d \notin Adf /\ f = Parent[d]
  <2>1. f \notin Ef /\ Directory(f) = f
    BY <1>1, <1>2, <1>6 DEF Directory
  <2>2. d \in InReach[f]
    BY <1>2, <1>5, <1>6, <2>1 DEF InReach
  <2> QED
    BY <1>2, <1>3, <1>4, <1>5, <2>1, <2>2
<1>7. CASE Parent[f] = d
  <2>1. CASE d \in Adf
    BY <1>2, <1>3, <1>4, <1>5, <1>7, <2>1
  <2>2. CASE d \notin Adf
    <3>1. CASE f \in Ef
      <4>1. Directory(f) = d
        BY <1>7, <3>1 DEF Directory
      <4> QED
        BY <1>2, <1>3, <1>4, <1>5, <1>7, <2>2, <4>1 DEF InReach
    <3>2. CASE f \notin Ef
      <4>1. Directory(f) = f
        BY <3>2 DEF Directory
      <4> QED
        BY <1>2, <1>3, <1>4, <1>5, <1>7, <2>2, <3>2, <4>1 DEF InReach
    <3> QED
      BY <3>1, <3>2
  <2> QED
    BY <2>1, <2>2
<1>8. CASE d # MF /\ d \notin Adf /\ f \notin Ef /\ Parent[f] = Parent[d]
  <2>1. Directory(f) = f
    BY <1>8 DEF Directory
  <2>2. d \in InReach[f]
    BY <1>2, <1>3, <1>5, <1>8, <2>1 DEF InReach
  <2> QED
    BY <1>2, <1>3, <1>4, <1>5, <1>8, <2>2
<1>9. \/ d # MF /\ d \notin Adf /\ f = Parent[d]
      \/ Parent[f] = d
      \/ d # MF /\ d \notin Adf /\ f \notin Ef /\ Parent[f] = Parent[d]
  BY <1>2 DEF InReach
<1> QED
  BY <1>6, <1>7, <1>8, <1>9

\* Where the card reads, writes, or is probed, it is not in an application without a file system.
LEMMA ReachKnown ==
    ASSUME NEW at \in File, InReach[at] # {}, NEW adf, Knows(at, adf)
    PROVE  adf \notin Adf \ Fs
<1>1. Directory(at) \notin Adf \ Fs /\ Adf \cap Ef = {}
  BY Reaches, RuntimeAssumption
<1> QED
  BY <1>1 DEF Directory, Knows

\* From another file of its directory, or the directory itself, the way to an EF is plain.
LEMMA BackClean ==
    ASSUME Trusted, NEW files, NEW file \in tree, NEW target \in tree, NEW at \in File,
           NEW path, path = build_select_path_to(file, target), Clean(at, Last(path[1]))
    PROVE  PlainAlong(files, at, path)
<1>1. Way(file, target, path) /\ TreeTyped
  BY Paths DEF Trusted
<1>2. path \in Seq(tree) /\ Len(path) > 0
  BY <1>1 DEF Way
<1>3. ASSUME NEW i \in 1..Len(path), i # 1 PROVE Clean(Last(path[i - 1]), Last(path[i]))
  <2>1. i \in 2..Len(path) /\ path[i - 1] \in tree /\ path[i] \in tree
    BY <1>2, <1>3
  <2> QED
    BY <1>1, <2>1, AdjacentClean DEF Way
<1>4. CleanAlong(at, path)
  BY <1>3 DEF CleanAlong, Before
<1> QED
  BY <1>1, <1>2, <1>4, CleanIsPlain

LEMMA DirectoryThere ==
    ASSUME \A f \in exists \ {MF} : Parent[f] \in exists, NEW f \in exists
    PROVE  Directory(f) \in exists
BY RuntimeAssumption DEF Directory

\* Where a probe leaves things.
ProbedWell(s, r) ==
    Fits(r.s) /\ \A o \in r.object : Len(o) > 1 => Sound(o)

LEMMA ProbeFits ==
    ASSUME Trusted, \A f \in exists \ {MF} : Parent[f] \in exists,
           NEW s \in Places, s.at \in exists, Fits(s), NEW fid,
           \A o \in Selectables(s.file) : Last(o) \in Adf \/ Fid[Last(o)] # fid
    PROVE  ProbedWell(s, probe_file(s, fid))
<1> DEFINE found == ByFid(s.files, s.at, fid)
           f == CHOOSE g \in found : TRUE
           there == [s EXCEPT !.at = f, !.moved = TRUE]
           object == Append(s.file, f)
<1>0. /\ s.at \in File /\ s.file \in tree /\ TreeTyped /\ TreeSound /\ exists \subseteq File /\ MF \in exists
      /\ AtRight(s.at, s.file) /\ Knows(s.at, s.adf) /\ <<MF>> \in tree
      /\ MF \in File \ (Adf \cup Ef) /\ Adf \cap Ef = {}
  BY RuntimeAssumption DEF Places, Trusted, Fits, TreeTyped
<1>1. s.file \in Seq(File) /\ Len(s.file) > 0 /\ Len(s.file) \in Nat /\ Last(s.file) \in File /\ s.file[1] = MF
  BY <1>0, LastFile DEF TreeTyped
<1>2. CASE found = {}
  <2>1. probe_file(s, fid) = [s |-> select_file(s, s.file).s, object |-> {}]
    BY <1>2 DEF probe_file
  <2>2. Fits(select_file(s, s.file).s)
    BY <1>0, SelectFileFits
  <2> QED
    BY <2>1, <2>2 DEF ProbedWell
<1>3. CASE found # {}
  <2>1. f \in s.files /\ f \in InReach[s.at] /\ Fid[f] = fid
    <3>1. f \in found
      BY <1>3
    <3> QED
      BY <3>1 DEF ByFid
  <2> HIDE DEF f
  <2>2. \A k \in 1..Len(s.file) : SubSeq(s.file, 1, k) \in Selectables(s.file)
    BY DEF Selectables
  <2>3. f \in File \ Adf
    BY <1>0, <2>1, Reaches
  <2>4. f # MF /\ f # Last(s.file) /\ (Len(s.file) > 1 => f # Above(s.file))
    <3>1. f # MF
      <4>1. SubSeq(s.file, 1, 1) \in Selectables(s.file) /\ Last(SubSeq(s.file, 1, 1)) = MF
        BY <1>1, <2>2, Prefixed
      <4> QED
        BY <1>0, <2>1, <4>1
    <3>2. f # Last(s.file)
      <4>1. SubSeq(s.file, 1, Len(s.file)) \in Selectables(s.file) /\ SubSeq(s.file, 1, Len(s.file)) = s.file
        BY <1>1, <2>2
      <4> QED
        BY <2>1, <2>3, <4>1
    <3>3. ASSUME Len(s.file) > 1 PROVE f # Above(s.file)
      <4>1. Len(s.file) - 1 \in 1..Len(s.file)
        BY <1>1, <3>3
      <4>2. Front(s.file) \in Selectables(s.file)
        BY <2>2, <4>1 DEF Front
      <4> QED
        BY <2>1, <2>3, <4>2 DEF Above
    <3> QED
      BY <3>1, <3>2, <3>3
  <2>5. s.adf \notin Adf \ Fs
    BY <1>0, <2>1, ReachKnown
  <2>6. there \in Places /\ there.at = f /\ there.files = s.files /\ there.file = s.file /\ there.adf = s.adf
    BY <2>3 DEF Places
  <2>7. CASE Last(s.file) \in Ef
    <3> DEFINE d == Above(s.file)
               p == build_select_path_to(s.file, s.file)
    <3>1. Len(s.file) > 1
      BY <1>0, <1>1, <2>7 DEF Last
    <3>2. Sound(s.file) /\ d \in File
      BY <1>0, <3>1, AboveFile DEF TreeSound
    <3>3. d = Directory(s.at) /\ d \notin Ef
      BY <1>0, <2>7, <3>1, <3>2 DEF AtRight, Sound, Directory
    <3>4. d \in Adf \/ d \in InReach[f]
      BY <1>0, <2>1, <2>4, <3>1, <3>3, Neighbours
    <3>5. InReach[f] # {}
      BY <1>0, <2>1, <2>4, <3>1, <3>3, Neighbours
    <3>6. d \in exists
      BY <3>3, DirectoryThere
    <3> HIDE DEF d
    <3>7. Way(s.file, s.file, p) /\ Entered(s.file, p)
      BY <1>0, Paths
    <3> HIDE DEF p
    <3>8. p \in Seq(tree) /\ Len(p) > 0 /\ p[1] \in tree
      BY <3>7 DEF Way
    <3>9. Last(p[1]) \in exists /\ Clean(f, Last(p[1]))
      <4>1. CASE Last(p[1]) \in Adf
        <5>1. p[1][1] = MF /\ Len(p[1]) > 0 /\ Len(p[1]) \in Nat
          BY <1>0, <3>8, LastFile DEF TreeTyped
        <5>2. Len(p[1]) > 1
          BY <1>0, <4>1, <5>1 DEF Last
        <5> QED
          BY <1>0, <3>8, <4>1, <5>2 DEF TreeSound, Sound, Clean
      <4>2. CASE p[1] = <<MF>>
        <5>1. Last(p[1]) = MF
          BY <4>2 DEF Last
        <5> QED
          BY <1>0, <2>3, <5>1, Reaches DEF Clean
      <4>3. CASE Adjacent(s.file, p[1])
        <5>1. ASSUME Len(p[1]) > 1, s.file = Front(p[1]) PROVE FALSE
          <6>1. Sound(p[1]) /\ Above(p[1]) = Last(s.file)
            BY <1>0, <3>8, <5>1 DEF TreeSound, Above
          <6> QED
            BY <2>7, <6>1 DEF Sound
        <5>2. Last(p[1]) = d
          BY <4>3, <5>1 DEF Adjacent, Above, d
        <5> QED
          BY <3>4, <3>6, <5>2 DEF Clean
      <4> QED
        BY <3>7, <4>1, <4>2, <4>3 DEF Entered
    <3>10. Found(s.files, f, Last(p[1])) # {}
      <4> DEFINE files == s.files
      <4>1. Last(p[1]) \in files /\ Last(p[1]) \in File
        BY <1>0, <3>8, <3>9, LastFile DEF Places
      <4> HIDE DEF files
      <4>2. Found(files, f, Last(p[1])) # {}
        BY <2>3, <3>5, <3>9, <4>1, FoundIt
      <4> QED
        BY <4>2 DEF files
    <3>11. PlainAlong(there.files, there.at, p)
      BY <1>0, <2>3, <2>6, <3>9, BackClean DEF p
    <3>12. Fits(Along(there, p).s)
      BY <1>0, <2>5, <2>6, <3>10, <3>11, AlongFits DEF p
    <3>13. select_file(there, s.file) = Along(there, p)
      BY <2>5, <2>6 DEF select_file, Escaped, p
    <3>14. probe_file(s, fid) = [s |-> select_file(there, s.file).s, object |-> {}]
      BY <1>3, <2>7 DEF probe_file, f
    <3> HIDE DEF there
    <3> QED
      BY <3>12, <3>13, <3>14 DEF ProbedWell
  <2>8. CASE Last(s.file) \notin Ef
    <3> DEFINE a == Last(s.file)
    <3>1. s.at = a /\ Directory(s.at) = a
      BY <1>0, <2>8 DEF AtRight, Directory
    <3>2. /\ a \in File \ Ef /\ a \notin Adf \ Fs /\ f \in InReach[a]
          /\ a \in Adf \/ a \in InReach[f]
          /\ f \in Ef => a = Parent[f]
      BY <1>0, <2>1, <2>4, <3>1, Neighbours
    <3>3. object \in Seq(File) /\ Last(object) = f /\ Above(object) = a
      <4>1. object \in Seq(File) /\ Len(object) = Len(s.file) + 1 /\ object[Len(s.file) + 1] = f
        BY <1>1, <2>3
      <4>2. Front(object) = s.file
        BY <1>1, <2>3, <4>1 DEF Front
      <4> QED
        BY <4>1, <4>2 DEF Last, Above
    <3> HIDE DEF object, a
    <3>4. Sound(object)
      BY <2>3, <2>4, <3>2, <3>3 DEF Sound
    <3>5. Registered(there, object) = [there EXCEPT !.file = object]
      <4>1. there = [there EXCEPT !.adf = there.adf]
        BY <2>6 DEF Places
      <4> QED
        BY <2>3, <3>3 DEF Registered, Places
    <3>6. Registered(there, object).at = f /\ Registered(there, object).file = object
          /\ Registered(there, object).adf = s.adf
      BY <2>6, <3>5 DEF Places
    <3>7. Fits(Registered(there, object))
      BY <2>3, <2>5, <3>3, <3>6 DEF Fits, AtRight, Knows
    <3>8. probe_file(s, fid) = [s |-> Registered(there, object), object |-> {object}]
      BY <1>3, <2>8 DEF probe_file, f, object
    <3> HIDE DEF there
    <3> QED
      BY <3>4, <3>7, <3>8 DEF ProbedWell
  <2> QED
    BY <2>7, <2>8
<1> QED
  BY <1>2, <1>3

\* What a probe leaves is in the picture, which may have grown by one file.
ProbedTyped(s, r) ==
    /\ r.object \subseteq Object
    /\ \A o \in r.object : o[1] = MF /\ Len(o) > 1 /\ Front(o) \in tree
    /\ r.s.file \in tree \cup r.object /\ r.s.adf \in Adf \cup {NoAdf}
    /\ r.s.at \in s.files \cup {s.at}

LEMMA ProbeTypes ==
    ASSUME TreeTyped, NEW s \in Places, NEW fid
    PROVE  ProbedTyped(s, probe_file(s, fid))
<1> DEFINE found == ByFid(s.files, s.at, fid)
           f == CHOOSE g \in found : TRUE
           there == [s EXCEPT !.at = f, !.moved = TRUE]
           object == Append(s.file, f)
<1>0. s.file \in tree /\ s.files \subseteq File /\ s.adf \in Adf \cup {NoAdf}
  BY DEF Places
<1>1. s.file \in Seq(File) /\ Len(s.file) > 0 /\ Len(s.file) \in Nat /\ s.file[1] = MF
  BY <1>0, LastFile DEF TreeTyped
<1>2. CASE found = {}
  <2>1. probe_file(s, fid) = [s |-> select_file(s, s.file).s, object |-> {}]
    BY <1>2 DEF probe_file
  <2>2. select_file(s, s.file).s \in Places /\ select_file(s, s.file).s.at \in s.files \cup {s.at}
    BY <1>0, SelectFileTypes
  <2> QED
    BY <2>1, <2>2 DEF ProbedTyped, Places
<1>3. CASE found # {}
  <2>1. f \in s.files /\ f \in File
    <3>1. f \in found
      BY <1>3
    <3> QED
      BY <1>0, <3>1 DEF ByFid
  <2> HIDE DEF f
  <2>2. there \in Places /\ there.at = f /\ there.files = s.files /\ there.file = s.file /\ there.adf = s.adf
    BY <2>1 DEF Places
  <2>3. CASE Last(s.file) \in Ef
    <3>1. probe_file(s, fid) = [s |-> select_file(there, s.file).s, object |-> {}]
      BY <1>3, <2>3 DEF probe_file, f
    <3> HIDE DEF there
    <3>2. select_file(there, s.file).s \in Places /\ select_file(there, s.file).s.at \in s.files \cup {f}
      BY <1>0, <2>2, SelectFileTypes
    <3> QED
      BY <2>1, <3>1, <3>2 DEF ProbedTyped, Places
  <2>4. CASE Last(s.file) \notin Ef
    <3>1. probe_file(s, fid) = [s |-> Registered(there, object), object |-> {object}]
      BY <1>3, <2>4 DEF probe_file, f
    <3>2. object \in Seq(File) /\ Len(object) > 1 /\ object[1] = MF /\ Front(object) = s.file
      <4>1. object \in Seq(File) /\ Len(object) = Len(s.file) + 1 /\ object[1] = MF
        BY <1>1, <2>1
      <4>2. Front(object) = s.file
        BY <1>1, <2>1, <4>1 DEF Front
      <4> QED
        BY <1>1, <4>1, <4>2
    <3> HIDE DEF object
    <3>3. /\ Registered(there, object).file = object /\ Registered(there, object).at = f
          /\ Registered(there, object).adf \in Adf \cup {NoAdf}
      BY <1>0, <2>2 DEF Registered, Places
    <3> HIDE DEF there
    <3> QED
      BY <1>0, <2>1, <3>1, <3>2, <3>3 DEF ProbedTyped, Object
  <2> QED
    BY <2>3, <2>4
<1> QED
  BY <1>2, <1>3

-----------------------------------------------------------------------------
\* A file's directory reaches what the file does.
LEMMA SameReach ==
    ASSUME NEW f \in File
    PROVE  InReach[f] = InReach[Directory(f)] /\ Directory(f) \in File \ Ef
<1>1. Directory(f) \in File
  BY Reaches
<1>2. Directory(f) \notin Ef
  BY RuntimeAssumption DEF Directory
<1>3. Directory(Directory(f)) = Directory(f)
  BY <1>2 DEF Directory
<1> QED
  BY <1>1, <1>2, <1>3 DEF InReach

\* Selecting the EF again by its identifier, the card finds that EF, or one of its directory.
LEMMA AccessFits ==
    ASSUME Trusted, NEW s \in Places, Fits(s), Last(s.file) \in Ef,
           NEW f \in ByFid(s.files, s.at, Fid[Last(s.file)])
    PROVE  f = Last(s.file) /\ s.adf \notin Adf \ Fs
<1> DEFINE l == Last(s.file)
           d == Above(s.file)
<1>0. /\ s.at \in File /\ s.file \in tree /\ TreeTyped /\ TreeSound /\ s.files \subseteq File
      /\ MF \notin Ef /\ Adf \cap Ef = {} /\ AtRight(s.at, s.file) /\ Knows(s.at, s.adf)
  BY RuntimeAssumption DEF Places, Trusted, Fits
<1>1. Len(s.file) > 1 /\ l \in File
  <2>1. s.file[1] = MF /\ Len(s.file) > 0 /\ Len(s.file) \in Nat /\ l \in File
    BY <1>0, LastFile DEF TreeTyped
  <2> QED
    BY <1>0, <2>1 DEF Last
<1>2. Sound(s.file) /\ d \in File
  BY <1>0, <1>1, AboveFile DEF TreeSound
<1>3. l \in InReach[d] /\ d = Directory(l)
  BY <1>0, <1>2 DEF Sound, Directory
<1>4. InReach[s.at] = InReach[d]
  <2>1. s.at = l \/ s.at = d
    BY <1>0 DEF AtRight
  <2> QED
    BY <1>1, <1>3, <2>1, SameReach
<1>5. f \in InReach[s.at] /\ Fid[f] = Fid[l]
  BY DEF ByFid
<1>6. f = l
  BY <1>0, <1>3, <1>4, <1>5, FileAssumption
<1>7. s.adf \notin Adf \ Fs
  BY <1>0, <1>5, ReachKnown
<1> QED
  BY <1>6, <1>7

\* The card stands in a file that was created, or resized, in the directory of at.
Administered(s, at, f) ==
    /\ s.at = f /\ f \in File \ (Adf \cup {MF}) /\ Parent[f] = Directory(at)
    /\ f \in Ef \/ \A g \in s.files \ {MF} : Parent[g] # f
    /\ at \in File /\ AtRight(at, s.file) /\ Knows(at, s.adf)

LEMMA FoundOnly ==
    ASSUME NEW files, NEW at \in File, NEW f \in File, Clean(at, f)
    PROVE  Found(files, at, f) \subseteq {f}
BY FoundIt

\* The way back begins in the directory above, and no SELECT finds anything else.
LEMMA PlainBack ==
    ASSUME Trusted, NEW s \in Places, NEW at, NEW f, Administered(s, at, f)
    PROVE  PlainAlong(s.files, f, build_select_path_to(s.file, s.file))
<1> DEFINE file == s.file
           p == build_select_path_to(file, file)
           l == Last(file)
           g == Above(file)
<1>0. /\ s.file \in tree /\ TreeTyped /\ TreeSound /\ s.files \subseteq File
      /\ MF \in File \ (Adf \cup Ef) /\ Adf \cap Ef = {}
      /\ f \in File \ (Adf \cup {MF}) /\ Parent[f] = Directory(at)
  BY RuntimeAssumption DEF Places, Trusted, Administered
<1>f. PICK files : files = s.files
  OBVIOUS
<1>1. Way(file, file, p) /\ Entered(file, p)
  BY <1>0, Paths
<1> HIDE DEF p
<1>2. p \in Seq(tree) /\ Len(p) > 0 /\ p[1] \in tree /\ Within(p[1], file, file)
  BY <1>1 DEF Way
<1>3. ASSUME NEW i \in 1..Len(p), i # 1
      PROVE  Found(files, Before(f, p, i), Last(p[i])) \subseteq {Last(p[i])}
  <2>1. i \in 2..Len(p) /\ p[i - 1] \in tree /\ p[i] \in tree
    BY <1>2, <1>3
  <2>2. Clean(Last(p[i - 1]), Last(p[i]))
    BY <1>1, <2>1, AdjacentClean DEF Way
  <2>3. Last(p[i - 1]) \in File /\ Last(p[i]) \in File
    BY <1>0, <2>1, LastFile
  <2>4. Found(files, Last(p[i - 1]), Last(p[i])) \subseteq {Last(p[i])}
    BY <2>2, <2>3, FoundOnly
  <2>5. Before(f, p, i) = Last(p[i - 1])
    BY <1>3 DEF Before
  <2> QED
    BY <2>4, <2>5
<1>4. Last(p[1]) \in File /\ Before(f, p, 1) = f
  BY <1>0, <1>2, LastFile DEF Before
<1> SUFFICES Found(files, f, Last(p[1])) \subseteq {Last(p[1])}
  <2> SUFFICES ASSUME NEW i \in 1..Len(p)
               PROVE  Found(files, Before(f, p, i), Last(p[i])) \subseteq {Last(p[i])}
    BY <1>f DEF PlainAlong, p
  <2> QED
    BY <1>3, <1>4
<1>5. CASE Clean(f, Last(p[1]))
  <2>1. f \in File /\ Last(p[1]) \in File
    BY <1>0, <1>4
  <2> QED
    BY <1>5, <2>1, FoundOnly
<1>6. CASE ~Clean(f, Last(p[1]))
  <2>1. Last(p[1]) \notin Adf /\ p[1] # <<MF>>
    <3>1. Clean(f, MF)
      BY <1>0, Reaches DEF Clean
    <3> QED
      BY <1>6, <3>1 DEF Clean, Last
  <2>2. Len(file) > 1 /\ Last(p[1]) = g
    <3>1. Adjacent(file, p[1])
      BY <1>1, <2>1 DEF Entered
    <3>2. ~(Len(p[1]) > 1 /\ file = Front(p[1]))
      <4>1. p[1] \in Seq(File) /\ Len(p[1]) \in Nat /\ Len(file) \in Nat /\ Len(p[1]) <= Len(file)
        BY <1>0, <1>2, LastFile DEF Within
      <4> QED
        BY <4>1 DEF Front
    <3> QED
      BY <3>1, <3>2 DEF Adjacent, Above
  <2>3. Sound(file) /\ l \in File /\ g \in File /\ g \notin Adf
    BY <1>0, <2>1, <2>2, LastFile, AboveFile DEF TreeSound
  <2>4. InReach[f] # {}
    BY <1>6 DEF Clean
  <2>5. l \notin Ef
    <3> SUFFICES ASSUME l \in Ef PROVE FALSE
      OBVIOUS
    <3>1. g = Parent[l] /\ g \notin Ef
      BY <2>3 DEF Sound
    <3>2. Directory(at) = g
      BY <3>1 DEF Administered, AtRight, Directory
    <3>3. g \in InReach[f]
      <4>1. CASE f \in Ef
        <5>1. Directory(f) = g
          BY <1>0, <3>2, <4>1 DEF Directory
        <5> QED
          BY <1>0, <2>3, <2>4, <5>1, Reaches
      <4>2. CASE f \notin Ef
        <5>1. Directory(f) = f
          BY <4>2 DEF Directory
        <5> QED
          BY <1>0, <2>3, <2>4, <3>2, <5>1 DEF InReach
      <4> QED
        BY <4>1, <4>2
    <3> QED
      BY <1>6, <2>2, <3>3 DEF Clean
  <2>6. l = at /\ Directory(at) = l /\ Parent[f] = l
    BY <1>0, <2>5 DEF Administered, AtRight, Directory
  <2>7. l \notin Adf \/ g = MF
    <3>1. file \in Seq(File) /\ file[1] = MF
      BY <1>0, LastFile DEF TreeTyped
    <3>2. Len(file) = 2 => g = MF
      BY <3>1 DEF Above, Front, Last
    <3> QED
      BY <2>3, <3>2 DEF Sound
  <2>8. l \notin Adf /\ g \in InReach[l]
    <3>1. g # MF
      BY <1>0, <1>6, <2>2, Reaches DEF Clean
    <3> QED
      BY <2>3, <2>7, <3>1 DEF Sound
  <2>9. f \notin Ef /\ Directory(f) = f
    <3>1. f \in Ef => InReach[f] = InReach[l]
      BY <1>0, <2>6, SameReach DEF Directory
    <3> QED
      BY <1>6, <2>2, <2>8, <3>1 DEF Clean, Directory
  <2>10. InReach[l] # {} /\ MF \in InReach[l] /\ l \in InReach[l]
    BY <2>3, <2>6, <2>8, Reaches
  <2>11. ASSUME NEW h \in files \cap InReach[f], h # MF PROVE h \in InReach[l]
    <3>1. \/ h = f \/ h = l
          \/ Parent[h] = f
          \/ h \notin Ef /\ Parent[h] = l
      BY <1>0, <1>f, <2>6, <2>9, <2>11 DEF InReach
    <3>2. Parent[h] # f
      BY <1>0, <1>f, <2>9, <2>11, Reaches DEF Administered
    <3>3. CASE h = l
      BY <2>10, <3>3
    <3>4. CASE Parent[h] = l
      BY <1>0, <1>f, <2>3, <2>6, <2>10, <2>11, <3>4, Reaches DEF InReach
    <3> QED
      BY <2>6, <3>1, <3>2, <3>3, <3>4
  <2>12. Found(files, f, g) \subseteq {g}
    <3> SUFFICES ASSUME NEW h \in Found(files, f, g) PROVE h = g
      OBVIOUS
    <3>1. h \in files \cap InReach[f] /\ Fid[h] = Fid[g]
      BY <2>3 DEF Found, ByFid
    <3>2. h \in InReach[l]
      BY <2>10, <2>11, <3>1
    <3> QED
      BY <2>3, <2>8, <3>1, <3>2, FileAssumption
  <2> QED
    BY <2>2, <2>12
<1> QED
  BY <1>5, <1>6

\* The file believed selected is selected again, if it is not refused.
LEMMA BackFits ==
    ASSUME Trusted, NEW s \in Places, NEW at, NEW f, Administered(s, at, f),
           NEW r, r = select_file(s, s.file), r.ok
    PROVE  Fits(r.s)
<1> DEFINE p == build_select_path_to(s.file, s.file)
<1>1. s.file \in tree /\ Directory(at) \notin Adf \ Fs /\ Adf \cap Ef = {} /\ Knows(at, s.adf) /\ s.at = f
  <2>1. \A g \in File \ {MF} : Parent[g] \notin Adf \ Fs
    BY RuntimeAssumption
  <2> QED
    BY <2>1, RuntimeAssumption DEF Administered, Places
<1>2. s.adf \notin Adf \ Fs
  BY <1>1 DEF Directory, Knows
<1>3. r = Along(s, p)
  BY <1>2 DEF select_file, Escaped
<1>4. PlainAlong(s.files, s.at, p)
  BY <1>1, PlainBack
<1> HIDE DEF p
<1> QED
  BY <1>1, <1>2, <1>3, <1>4, AlongFits DEF p

FilesOK ==
    /\ exists \subseteq File /\ MF \in exists /\ gone \subseteq File /\ channels \in Nat
    /\ \A f \in exists \ {MF} : Parent[f] \in exists
    /\ lost \in {"nothing", "reset", "equip"}

CurrentOK ==
    /\ DOMAIN current \subseteq Channel /\ 0 \in DOMAIN current
    /\ \A c \in DOMAIN current : current[c] \in exists

LchanOK ==
    /\ DOMAIN lchan \subseteq Channel /\ 0 \in DOMAIN lchan
    /\ \A c \in DOMAIN lchan : lchan[c].selected_file \in tree /\ lchan[c].selected_adf \in Adf \cup {NoAdf}

\* The file objects are right until something was probed for while the card may have stood elsewhere.
Picture == lost # "equip" => TreeSound

Together ==
    lost = "nothing" =>
      /\ DOMAIN lchan = DOMAIN current
      /\ \A c \in DOMAIN current : /\ AtRight(current[c], lchan[c].selected_file)
                                   /\ Knows(current[c], lchan[c].selected_adf)

SelInv == FilesOK /\ CurrentOK /\ TreeTyped /\ LchanOK /\ Picture /\ Together

-----------------------------------------------------------------------------
(* The picture of a card that was just equipped.                           *)

LEMMA Rooted == \A f \in File : Path[f][1] = MF
<1> DEFINE Wrong == {n \in Nat : \E f \in File : Path[f][1] # MF /\ n = Len(Path[f])}
<1>0. /\ \A f \in File : Len(Path[f]) > 0 /\ Path[f] \in Seq(File)
      /\ Path[MF] = <<MF>>
      /\ \A f \in File \ {MF} : Len(Path[f]) > 1 /\ Path[Parent[f]] = Front(Path[f])
  BY RuntimeAssumption
<1>1. SUFFICES ASSUME NEW f \in File, Path[f][1] # MF PROVE FALSE
  OBVIOUS
<1>2. Wrong \in SUBSET Nat /\ Wrong # {}
  BY <1>0, <1>1
<1>3. PICK n \in Wrong : \A j \in Wrong : n <= j
  <2> HIDE DEF Wrong
  <2> QED
    BY <1>2, LeastNumber
<1>4. PICK g \in File : Path[g][1] # MF /\ n = Len(Path[g])
  BY <1>3
<1>5. g # MF
  BY <1>0, <1>4
<1>6. Parent[g] \in File
  <2>1. Front(Path[g]) \in Seq(File) /\ Len(Front(Path[g])) > 0
    BY <1>0, <1>5 DEF Front
  <2> QED
    BY <1>5, <2>1 DEF Parent, Last
<1>7. Path[Parent[g]][1] # MF /\ Len(Path[Parent[g]]) \in Nat /\ ~(n <= Len(Path[Parent[g]]))
  BY <1>0, <1>4, <1>5 DEF Front
<1>8. Len(Path[Parent[g]]) \in Wrong
  BY <1>6, <1>7
<1> QED
  BY <1>3, <1>7, <1>8

\* What the files' paths say of the files.
LEMMA Tree ==
    ASSUME NEW f \in File \ {MF}
    PROVE  /\ Parent[f] \in File /\ Path[f] \in Seq(File) /\ Len(Path[f]) > 1
           /\ Last(Path[f]) = f /\ Above(Path[f]) = Parent[f] /\ Front(Path[f]) = Path[Parent[f]]
           /\ Path[f][1] = MF /\ Len(Path[Parent[f]]) = Len(Path[f]) - 1
           /\ f \in Adf => Path[f] = <<MF, f>>
<1>1. /\ Path[f] \in Seq(File) /\ Len(Path[f]) > 1 /\ Last(Path[f]) = f /\ Path[Parent[f]] = Front(Path[f])
      /\ Path[MF] = <<MF>> /\ (f \in Adf => Parent[f] = MF)
  BY RuntimeAssumption
<1>2. Front(Path[f]) \in Seq(File) /\ Len(Front(Path[f])) = Len(Path[f]) - 1 /\ Len(Front(Path[f])) > 0
  BY <1>1 DEF Front
<1>3. Parent[f] = Last(Front(Path[f])) /\ Parent[f] \in File
  BY <1>2 DEF Parent, Last
<1>4. ASSUME f \in Adf PROVE Path[f] = <<MF, f>>
  <2>1. Len(Path[f]) = 2
    <3>0. Len(<<MF>>) = 1 /\ Len(Path[f]) \in Nat
      BY <1>1
    <3>1. Len(Path[Parent[f]]) = 1
      BY <1>1, <1>4, <3>0
    <3>2. Len(Path[Parent[f]]) = Len(Path[f]) - 1
      BY <1>1, <1>2
    <3> DEFINE k == Len(Path[f])
    <3>3. k \in Nat /\ 1 = k - 1
      BY <3>0, <3>1, <3>2
    <3> HIDE DEF k
    <3>4. k = 2
      BY <3>3
    <3> QED
      BY <3>4 DEF k
  <2>2. Path[f][1] = MF /\ Path[f][2] = f
    BY <1>1, <2>1, Rooted DEF Last
  <2> QED
    BY <1>1, <2>1, <2>2
<1> QED
  BY <1>1, <1>2, <1>3, <1>4, Rooted DEF Above

Equipped == exists \subseteq File /\ MF \in exists /\ tree = Model(exists) => TreeTyped /\ TreeSound

LEMMA ModelGood == Equipped
<1> SUFFICES ASSUME exists \subseteq File, MF \in exists, tree = Model(exists)
             PROVE  TreeTyped /\ TreeSound
  BY DEF Equipped
<1>0. /\ MF \in File \ (Adf \cup Ef) /\ Adf \cap Ef = {} /\ Path[MF] = <<MF>> /\ Fs \subseteq Adf \cap Known
      /\ MF \in Known /\ Known \subseteq File /\ \A f \in Known \ {MF} : Parent[f] \in Known
      /\ \A f \in File \ {MF} : Parent[f] \notin Ef \cup (Adf \ Fs)
  BY RuntimeAssumption, FileAssumption
<1>1. tree = {Path[f] : f \in {g \in Known : ToSet(Path[g]) \cap Adf \subseteq exists}}
  BY DEF Model
<1>2. <<MF>> \in tree
  <2>1. ToSet(Path[MF]) = {MF}
    BY <1>0 DEF ToSet
  <2> QED
    BY <1>0, <1>1, <2>1
<1>3. ASSUME NEW o \in tree
      PROVE  /\ o \in Object /\ o[1] = MF
             /\ Len(o) > 1 => Front(o) \in tree /\ Sound(o)
  <2>1. PICK f \in Known : o = Path[f] /\ ToSet(Path[f]) \cap Adf \subseteq exists
    BY <1>1
  <2>2. CASE f = MF
    <3>1. <<MF>> \in Seq(File) /\ Len(<<MF>>) = 1 /\ <<MF>>[1] = MF
      BY <1>0
    <3>2. o = <<MF>>
      BY <1>0, <2>1, <2>2
    <3> QED
      BY <3>1, <3>2 DEF Object
  <2>3. CASE f # MF
    <3>1. f \in File \ {MF} /\ Parent[f] \in File
      BY <1>0, <2>3, Tree
    <3>2. /\ o \in Seq(File) /\ Len(o) > 1 /\ Last(o) = f /\ Above(o) = Parent[f] /\ Front(o) = Path[Parent[f]]
          /\ o[1] = MF /\ (f \in Adf => o = <<MF, f>>)
      BY <2>1, <3>1, Tree
    <3>3. Front(o) \in tree
      <4>1. ToSet(Front(o)) \subseteq ToSet(o)
        BY <3>2 DEF Front, ToSet
      <4> QED
        BY <1>0, <1>1, <2>1, <2>3, <3>2, <4>1
    <3>4. f \in Adf => Len(o) = 2 /\ f \in exists
      <4>1. f \in ToSet(o)
        BY <3>2 DEF ToSet, Last
      <4> QED
        BY <2>1, <3>2, <4>1
    <3>5. ASSUME f \notin Adf
          PROVE  f \in InReach[Parent[f]] /\ (Parent[f] \in Adf \/ Parent[f] \in InReach[f])
      <4>1. Directory(Parent[f]) = Parent[f] /\ Parent[f] \notin Adf \ Fs
        BY <1>0, <3>1 DEF Directory
      <4>2. f \in InReach[Parent[f]]
        BY <3>1, <3>5, <4>1 DEF InReach
      <4>3. CASE f \in Ef
        <5>1. Directory(f) = Parent[f]
          BY <4>3 DEF Directory
        <5> QED
          BY <3>1, <4>1, <4>2, <5>1 DEF InReach
      <4>4. CASE f \notin Ef
        <5>1. Directory(f) = f
          BY <4>4 DEF Directory
        <5> QED
          BY <3>1, <3>5, <4>2, <5>1 DEF InReach
      <4> QED
        BY <4>3, <4>4
    <3>6. Sound(o)
      BY <1>0, <3>1, <3>2, <3>4, <3>5 DEF Sound
    <3> QED
      BY <3>2, <3>3, <3>6 DEF Object
  <2> QED
    BY <2>2, <2>3
<1>4. ASSUME NEW u \in exists \cap Fs PROVE <<MF, u>> \in tree
  <2>1. u \in File \ {MF} /\ u \in Known /\ u \in Adf
    BY <1>0
  <2>2. Path[u] = <<MF, u>>
    BY <2>1, Tree
  <2>3. ToSet(Path[u]) = {MF, u}
    BY <2>2 DEF ToSet
  <2> QED
    BY <1>0, <1>1, <2>1, <2>2, <2>3
<1>5. TreeTyped
  BY <1>2, <1>3 DEF TreeTyped
<1>6. TreeSound
  BY <1>3, <1>4 DEF TreeSound
<1> QED
  BY <1>5, <1>6

LEMMA ModelGoodNext == Equipped'
BY ModelGood, PTL

LEMMA SelStarts ==
    ASSUME Init
    PROVE  SelInv
<1>1. PICK card \in Cards : exists = card.files /\ channels = card.channels
  BY DEF Init
<1>2. /\ gone = {} /\ lost = "nothing" /\ tree = Model(exists)
      /\ current = [c \in {0} |-> MF] /\ lchan = [c \in {0} |-> Fresh]
  BY DEF Init, Alone
<1>3. FilesOK
  BY <1>1, <1>2, RuntimeAssumption, FileAssumption DEF FilesOK
<1>4. TreeTyped /\ TreeSound
  BY <1>2, <1>3, ModelGood DEF FilesOK, Equipped
<1>5. 0 \in Channel /\ NoAdf \notin Adf /\ MF \notin Adf
  BY RuntimeAssumption
<1>6. CurrentOK /\ LchanOK
  BY <1>2, <1>3, <1>4, <1>5 DEF FilesOK, CurrentOK, LchanOK, Fresh, TreeTyped
<1>7. Together
  <2>1. AtRight(MF, <<MF>>) /\ Knows(MF, NoAdf)
    BY <1>5 DEF AtRight, Knows, Last
  <2> QED
    BY <1>2, <2>1 DEF Together, Fresh
<1> QED
  BY <1>3, <1>4, <1>6, <1>7 DEF SelInv, Picture

\* Where a channel stands.
LEMMA StandingIn ==
    ASSUME SelInv, NEW ch \in Open, NEW s, s = Standing(ch)
    PROVE  /\ s \in Places /\ s.files = exists /\ s.at = current[ch] /\ s.file = lchan[ch].selected_file
           /\ s.adf = lchan[ch].selected_adf /\ s.at \in exists /\ exists \subseteq File /\ ch \in Channel
           /\ TreeTyped
           /\ lost # "equip" => Trusted
           /\ lost = "nothing" => Trusted /\ Fits(s)
BY DEF SelInv, FilesOK, CurrentOK, LchanOK, Picture, Together, Open, Standing, Places, Trusted, Fits

\* The file objects stay right when the same applications are there.
LEMMA KeepsSound ==
    ASSUME TreeSound, tree' = tree, exists' \cap Adf = exists \cap Adf
    PROVE  TreeSound'
<1>1. Fs \subseteq Adf
  BY RuntimeAssumption
<1>2. ASSUME NEW o \in tree, Len(o) > 1 PROVE Sound(o)'
  <2>1. Sound(o)
    BY <1>2 DEF TreeSound
  <2> QED
    BY <2>1 DEF Sound
<1>3. ASSUME NEW u \in exists' \cap Fs PROVE <<MF, u>> \in tree
  BY <1>1, <1>3 DEF TreeSound
<1> QED
  BY <1>2, <1>3 DEF TreeSound

\* The file objects stay, and the applications.
LEMMA KeepsFiles ==
    ASSUME SelInv, tree' = tree, exists' \cap Adf = exists \cap Adf, lost' # "equip" => lost # "equip"
    PROVE  TreeTyped' /\ Picture'
<1>1. TreeTyped'
  BY DEF SelInv, TreeTyped
<1>2. Picture'
  BY KeepsSound DEF SelInv, Picture
<1> QED
  BY <1>1, <1>2

\* The card and the channel stand at s, in files and in a picture that are right.
LEMMA Stood ==
    ASSUME SelInv, NEW ch \in Open, NEW s, Stand(ch, s),
           FilesOK', TreeTyped', Picture', exists \subseteq exists', tree \subseteq tree', gone' = gone,
           s.at \in exists', s.file \in tree', s.adf \in Adf \cup {NoAdf},
           lost' = "nothing" => lost = "nothing" /\ Fits(s)
    PROVE  SelInv'
<1>1. /\ DOMAIN current' = DOMAIN current
      /\ \A c \in DOMAIN current : current'[c] = IF c = ch THEN s.at ELSE current[c]
  BY DEF Stand, Open
<1>2. /\ DOMAIN lchan' = DOMAIN lchan
      /\ \A c \in DOMAIN lchan :
            /\ lchan'[c].selected_file = IF c = ch THEN s.file ELSE lchan[c].selected_file
            /\ lchan'[c].selected_adf = IF c = ch THEN s.adf ELSE lchan[c].selected_adf
  BY DEF Stand, Open
<1>3. CurrentOK'
  BY <1>1 DEF SelInv, CurrentOK
<1>4. LchanOK'
  BY <1>2 DEF SelInv, LchanOK
<1>5. Together'
  <2> SUFFICES ASSUME lost' = "nothing"
               PROVE  /\ DOMAIN lchan' = DOMAIN current'
                      /\ \A c \in DOMAIN current' : /\ AtRight(current[c], lchan[c].selected_file)'
                                                    /\ Knows(current[c], lchan[c].selected_adf)'
    BY DEF Together
  <2>1. DOMAIN lchan = DOMAIN current /\ DOMAIN lchan' = DOMAIN current'
    BY <1>1, <1>2 DEF SelInv, Together
  <2>2. ASSUME NEW c \in DOMAIN current'
        PROVE  /\ AtRight(current[c], lchan[c].selected_file)'
               /\ Knows(current[c], lchan[c].selected_adf)'
    <3>1. CASE c = ch
      <4>1. current'[c] = s.at /\ lchan'[c].selected_file = s.file /\ lchan'[c].selected_adf = s.adf
        BY <1>1, <1>2, <2>1, <3>1
      <4> QED
        BY <4>1 DEF Fits, AtRight, Knows
    <3>2. CASE c # ch
      <4>1. /\ current'[c] = current[c] /\ lchan'[c].selected_file = lchan[c].selected_file
            /\ lchan'[c].selected_adf = lchan[c].selected_adf
        BY <1>1, <1>2, <2>1, <3>2
      <4>2. AtRight(current[c], lchan[c].selected_file) /\ Knows(current[c], lchan[c].selected_adf)
        BY <1>1 DEF SelInv, Together
      <4> QED
        BY <4>1, <4>2 DEF AtRight, Knows
    <3> QED
      BY <3>1, <3>2
  <2> QED
    BY <2>1, <2>2
<1> QED
  BY <1>3, <1>4, <1>5 DEF SelInv

\* The same, when the files and the picture are what they were.
LEMMA StoodThere ==
    ASSUME SelInv, NEW ch \in Open, NEW s \in Places, Stand(ch, s),
           UNCHANGED <<channels, exists, gone, tree>>, s.at \in exists,
           lost' \in {"nothing", "reset", "equip"}, lost' # "equip" => lost # "equip",
           lost' = "nothing" => lost = "nothing" /\ Fits(s)
    PROVE  SelInv'
<1>1. FilesOK'
  BY DEF SelInv, FilesOK
<1>2. TreeTyped' /\ Picture'
  BY KeepsFiles
<1>3. s.file \in tree' /\ s.adf \in Adf \cup {NoAdf}
  BY DEF Places
<1> QED
  BY <1>1, <1>2, <1>3, Stood

\* What a name can stand for is in the picture.
LEMMA SelectablesKnown ==
    ASSUME TreeTyped, NEW file \in tree
    PROVE  Selectables(file) \subseteq tree
BY AboveInTree DEF Selectables

-----------------------------------------------------------------------------
(* The steps.                                                              *)

LEMMA SelSelects ==
    ASSUME SelInv, NEW ch \in Open, NEW target \in Selectables(lchan[ch].selected_file), Select(ch, target)
    PROVE  SelInv'
<1> DEFINE s == Standing(ch)
           t == select(s, target)
<1>1. /\ s \in Places /\ s.files = exists /\ s.at \in exists /\ s.file = lchan[ch].selected_file
      /\ TreeTyped /\ exists \subseteq File
      /\ lost = "nothing" => Trusted /\ Fits(s)
  BY StandingIn
<1>2. target \in tree
  BY <1>1, SelectablesKnown DEF Places
<1>3. Stand(ch, t) /\ UNCHANGED <<channels, exists, gone, tree, lost>>
  BY DEF Select
<1> HIDE DEF s
<1>4. t \in Places /\ t.at \in s.files \cup {s.at}
  BY <1>1, <1>2, SelectTypes
<1>5. lost = "nothing" => Fits(t)
  BY <1>1, <1>2, SelectFits
<1> HIDE DEF t
<1>6. lost \in {"nothing", "reset", "equip"}
  BY DEF SelInv, FilesOK
<1> QED
  BY <1>1, <1>3, <1>4, <1>5, <1>6, StoodThere

LEMMA SelSelectsLost ==
    ASSUME SelInv, NEW ch \in Open, NEW target \in Selectables(lchan[ch].selected_file), SelectLost(ch, target)
    PROVE  SelInv'
<1> DEFINE s0 == Standing(ch)
           s == Escaped(s0, target)
           path == build_select_path_to(s.file, target)
           cut(n) == Along(s, SubSeq(path, 1, n)).s
           left(n) == [s EXCEPT !.at = cut(n).at, !.moved = cut(n).moved]
<1>1. /\ s0 \in Places /\ s0.files = exists /\ s0.at \in exists /\ s0.file = lchan[ch].selected_file
      /\ TreeTyped /\ exists \subseteq File
  BY StandingIn
<1>2. target \in tree /\ lchan[ch].selected_file \in tree
  BY <1>1, SelectablesKnown DEF Places
<1>3. PICK n \in 0..Len(path) :
         Stand(ch, left(n)) \/ Stand(ch, select_file(left(n), lchan[ch].selected_file).s)
  BY DEF SelectLost
<1>4. lost' = "reset" /\ lost = "nothing" /\ UNCHANGED <<channels, exists, gone, tree>>
  BY DEF SelectLost
<1> HIDE DEF s0
<1>5. s \in Places /\ s.at \in exists /\ s.files = exists
  BY <1>1, EscapedTypes
<1> HIDE DEF s
<1>6. path \in Seq(tree)
  BY <1>1, <1>2, <1>5, Paths DEF Way, Places
<1> HIDE DEF path
<1>7. SubSeq(path, 1, n) \in Seq(tree)
  BY <1>6
<1>8. cut(n) \in Places /\ cut(n).at \in exists
  BY <1>1, <1>5, <1>7, AlongTypes
<1> HIDE DEF cut
<1>9. left(n) \in Places /\ left(n).at \in exists /\ left(n).files = exists
  BY <1>5, <1>8 DEF Places
<1> HIDE DEF left
<1>10. /\ select_file(left(n), lchan[ch].selected_file).s \in Places
       /\ select_file(left(n), lchan[ch].selected_file).s.at \in exists
  BY <1>1, <1>2, <1>9, SelectFileTypes
<1>11. PICK t \in Places : t.at \in exists /\ Stand(ch, t)
  BY <1>3, <1>9, <1>10
<1> QED
  BY <1>4, <1>11, StoodThere

LEMMA SelProbes ==
    ASSUME SelInv, NEW ch \in Open, NEW fid, Probe(ch, fid)
    PROVE  SelInv'
<1> DEFINE s == Standing(ch)
           r == probe_file(s, fid)
<1>1. /\ s \in Places /\ s.files = exists /\ s.at \in exists /\ s.file = lchan[ch].selected_file
      /\ TreeTyped /\ exists \subseteq File
      /\ lost = "nothing" => Trusted /\ Fits(s)
  BY StandingIn
<1>2. /\ \A o \in Selectables(s.file) : Last(o) \in Adf \/ Fid[Last(o)] # fid
      /\ Stand(ch, r.s) /\ tree' = tree \cup r.object
      /\ lost' = IF lost = "reset" /\ r.object # {} THEN "equip" ELSE lost
      /\ UNCHANGED <<channels, exists, gone>>
  BY <1>1 DEF Probe
<1>3. FilesOK /\ Picture
  BY DEF SelInv
<1> HIDE DEF s
<1>4. ProbedTyped(s, r)
  BY <1>1, ProbeTypes
<1>5. lost = "nothing" => ProbedWell(s, r)
  BY <1>1, <1>2, <1>3, ProbeFits DEF FilesOK
<1> HIDE DEF r
<1>6. FilesOK'
  BY <1>2, <1>3 DEF FilesOK
<1>7. TreeTyped'
  BY <1>1, <1>2, <1>4 DEF TreeTyped, ProbedTyped
<1>8. Picture'
  <2> SUFFICES ASSUME lost' # "equip" PROVE TreeSound'
    BY DEF Picture
  <2>1. TreeSound
    BY <1>2, <1>3 DEF Picture
  <2>2. ASSUME NEW o \in tree', Len(o) > 1 PROVE Sound(o)'
    <3>1. Sound(o)
      <4>1. CASE o \in tree
        BY <2>1, <2>2, <4>1 DEF TreeSound
      <4>2. CASE o \in r.object
        BY <1>2, <1>3, <1>5, <2>2, <4>2 DEF ProbedWell, FilesOK
      <4> QED
        BY <1>2, <4>1, <4>2
    <3> QED
      BY <1>2, <3>1 DEF Sound
  <2> QED
    BY <1>2, <2>1, <2>2 DEF TreeSound
<1>9. lost' = "nothing" => lost = "nothing" /\ Fits(r.s)
  BY <1>2, <1>5 DEF ProbedWell
<1>10. r.s.at \in exists' /\ r.s.file \in tree' /\ r.s.adf \in Adf \cup {NoAdf}
  BY <1>1, <1>2, <1>4 DEF ProbedTyped
<1> QED
  BY <1>2, <1>6, <1>7, <1>8, <1>9, <1>10, Stood

LEMMA SelAccesses ==
    ASSUME SelInv, NEW ch \in Open, Access(ch)
    PROVE  SelInv'
<1> DEFINE s == Standing(ch)
           found == ByFid(s.files, s.at, Fid[Last(s.file)])
           f == CHOOSE g \in found : TRUE
           t == [s EXCEPT !.at = f, !.moved = TRUE]
<1>1. /\ s \in Places /\ s.files = exists /\ s.at \in exists /\ exists \subseteq File
      /\ lost = "nothing" => Trusted /\ Fits(s)
  BY StandingIn
<1>2. /\ Last(s.file) \in Ef /\ found # {} /\ Stand(ch, t)
      /\ UNCHANGED <<channels, exists, gone, tree, lost>>
  BY DEF Access
<1> HIDE DEF s
<1>3. f \in found
  BY <1>2
<1> HIDE DEF f
<1>4. f \in exists
  BY <1>1, <1>3 DEF ByFid
<1>5. t \in Places /\ t.at = f /\ t.file = s.file /\ t.adf = s.adf
  BY <1>1, <1>4 DEF Places
<1>6. lost = "nothing" => Fits(t)
  <2> SUFFICES ASSUME lost = "nothing" PROVE Fits(t)
    OBVIOUS
  <2>1. f = Last(s.file) /\ s.adf \notin Adf \ Fs
    BY <1>1, <1>2, <1>3, AccessFits
  <2> HIDE DEF t
  <2>2. f \notin Adf
    BY <1>2, <2>1, RuntimeAssumption
  <2> QED
    BY <1>5, <2>1, <2>2 DEF Fits, AtRight, Knows
<1> HIDE DEF t
<1>7. lost \in {"nothing", "reset", "equip"}
  BY DEF SelInv, FilesOK
<1> QED
  BY <1>2, <1>4, <1>5, <1>6, <1>7, StoodThere

LEMMA SelAdministers ==
    ASSUME SelInv, NEW ch \in Open, NEW f \in File \ (Adf \cup {MF}), Administer(ch, f)
    PROVE  SelInv'
<1> DEFINE s0 == Standing(ch)
           s == [s0 EXCEPT !.files = @ \cup {f}, !.at = f, !.moved = TRUE]
           r == select_file(s, s.file)
           at == current[ch]
<1>1. /\ s0 \in Places /\ s0.files = exists /\ s0.at = at /\ at \in exists /\ exists \subseteq File
      /\ TreeTyped
      /\ lost = "nothing" => Trusted /\ Fits(s0)
  BY StandingIn
<1>2. /\ f \in Creatable \ exists \/ f \in exists \cap Ef
      /\ Parent[f] = Directory(at)
      /\ exists' = exists \cup {f} /\ Stand(ch, r.s)
      /\ lost' = IF r.ok \/ lost # "nothing" THEN lost ELSE "reset"
      /\ UNCHANGED <<channels, gone, tree>>
  BY DEF Administer
<1>3. FilesOK
  BY DEF SelInv
<1> HIDE DEF s0
<1>4. s \in Places /\ s.files = exists \cup {f} /\ s.at = f /\ s.file = s0.file /\ s.adf = s0.adf
  BY <1>1 DEF Places
<1>5. Directory(at) \in exists
  BY <1>1, <1>3, DirectoryThere DEF FilesOK
<1> HIDE DEF s
<1>6. s.file \in tree
  BY <1>4 DEF Places
<1>7. r.s \in Places /\ r.s.at \in s.files \cup {s.at}
  BY <1>1, <1>4, <1>6, SelectFileTypes
<1>8. ASSUME lost' = "nothing" PROVE lost = "nothing" /\ Fits(r.s)
  <2>1. lost = "nothing" /\ r.ok
    BY <1>2, <1>8
  <2>2. Trusted /\ Fits(s0)
    BY <1>1, <2>1
  <2>3. ASSUME f \notin Ef, NEW g \in s.files \ {MF} PROVE Parent[g] # f
    <3>1. f \notin exists
      BY <1>2, <2>3
    <3>2. g \in exists => Parent[g] \in exists
      BY <1>3, <2>3 DEF FilesOK
    <3>3. g = f => Parent[g] \in exists
      BY <1>2, <1>5
    <3> QED
      BY <1>4, <2>3, <3>1, <3>2, <3>3
  <2>4. Administered(s, at, f)
    BY <1>1, <1>2, <1>4, <2>2, <2>3 DEF Administered, Fits
  <2>5. Fits(r.s)
    <3> HIDE DEF r
    <3> QED
      BY <1>4, <2>1, <2>2, <2>4, BackFits DEF r
  <2> QED
    BY <2>1, <2>5
<1> HIDE DEF r
<1>9. FilesOK'
  BY <1>1, <1>2, <1>3, <1>5 DEF FilesOK
<1>10. TreeTyped' /\ Picture'
  <2>1. exists' \cap Adf = exists \cap Adf
    BY <1>2
  <2>2. lost' # "equip" => lost # "equip"
    BY <1>2
  <2> QED
    BY <1>2, <2>1, <2>2, KeepsFiles
<1>11. r.s.at \in exists' /\ r.s.file \in tree' /\ r.s.adf \in Adf \cup {NoAdf}
  BY <1>2, <1>4, <1>7 DEF Places
<1> QED
  BY <1>2, <1>8, <1>9, <1>10, <1>11, Stood

\* What is below a file.
LEMMA BelowFile ==
    ASSUME NEW f \in File \ (Adf \cup {MF})
    PROVE  /\ MF \notin Below(f) /\ Parent[f] \notin Below(f)
           /\ Below(f) \cap Adf = {}
           /\ \A g \in File \ {MF} : Parent[g] \in Below(f) => g \in Below(f)
           /\ \A g \in File \ {MF} : Parent[g] = Parent[f] /\ g \in Below(f) => g = f
<1> DEFINE k == Len(Path[f])
<1>1. Path[f] \in Seq(File) /\ k \in Nat /\ k > 1 /\ Last(Path[f]) = f /\ Parent[f] \in File
      /\ Len(Path[Parent[f]]) = k - 1
  BY Tree
<1>2. ASSUME NEW g \in File
      PROVE  g \in Below(f) <=> k <= Len(Path[g]) /\ SubSeq(Path[f], 1, k) = SubSeq(Path[g], 1, k)
  BY DEF Below, IsPrefix
<1> HIDE DEF k
<1>3. \A g \in File : Path[g] \in Seq(File) /\ Len(Path[g]) \in Nat
  BY RuntimeAssumption
<1>4. ~(k <= k - 1) /\ ~(k <= 1)
  BY <1>1
<1>5. MF \notin Below(f)
  <2>1. MF \in File /\ Path[MF] = <<MF>> /\ Len(<<MF>>) = 1
    BY RuntimeAssumption
  <2> QED
    BY <1>2, <1>4, <2>1
<1>6. Parent[f] \notin Below(f)
  BY <1>1, <1>2, <1>4
<1>7. ASSUME NEW g \in Below(f), Len(Path[g]) = k PROVE g = f
  <2>1. g \in File
    BY DEF Below
  <2>2. SubSeq(Path[f], 1, k) = Path[f]
    BY <1>1 DEF k
  <2>3. SubSeq(Path[g], 1, k) = Path[g]
    BY <1>3, <1>7, <2>1
  <2>4. Path[g] = Path[f] /\ Last(Path[g]) = g
    BY <1>2, <2>1, <2>2, <2>3, RuntimeAssumption
  <2> QED
    BY <1>1, <2>4
<1>8. ASSUME NEW g \in Below(f) \cap Adf PROVE FALSE
  <2>1. g \in File \ {MF}
    BY <1>5 DEF Below
  <2>2. Len(Path[g]) = 2
    <3>1. Path[g] = <<MF, g>> /\ Len(<<MF, g>>) = 2
      BY <1>8, <2>1, Tree
    <3> QED
      BY <3>1
  <2>3. k <= 2
    BY <1>2, <2>1, <2>2
  <2>4. Len(Path[g]) = k
    BY <1>1, <2>2, <2>3
  <2> QED
    BY <1>7, <1>8, <2>4
<1>9. ASSUME NEW g \in File \ {MF}, Parent[g] \in Below(f) PROVE g \in Below(f)
  <2> DEFINE m == Len(Path[g])
  <2>1. Path[g] \in Seq(File) /\ m \in Nat /\ Front(Path[g]) = Path[Parent[g]] /\ Len(Path[Parent[g]]) = m - 1
        /\ Parent[g] \in File
    BY Tree
  <2>2. k <= m - 1 /\ SubSeq(Path[f], 1, k) = SubSeq(Path[Parent[g]], 1, k)
    BY <1>2, <1>9, <2>1
  <2>3. Path[Parent[g]] = SubSeq(Path[g], 1, m - 1)
    BY <2>1 DEF Front
  <2> HIDE DEF m
  <2>4. SubSeq(SubSeq(Path[g], 1, m - 1), 1, k) = SubSeq(Path[g], 1, k)
    BY <1>1, <2>1, <2>2 DEF m
  <2>5. k <= m
    BY <1>1, <2>1, <2>2
  <2> QED
    BY <1>2, <2>2, <2>3, <2>4, <2>5 DEF m
<1>10. ASSUME NEW g \in File \ {MF}, Parent[g] = Parent[f], g \in Below(f) PROVE g = f
  <2>1. Len(Path[Parent[g]]) = Len(Path[g]) - 1
    BY Tree
  <2> DEFINE m == Len(Path[g])
  <2>2. m \in Nat /\ m - 1 = k - 1
    BY <1>1, <1>3, <1>10, <2>1
  <2> HIDE DEF m
  <2>3. m = k
    BY <1>1, <2>2
  <2> QED
    BY <1>7, <1>10, <2>3 DEF m
<1> QED
  BY <1>5, <1>6, <1>8, <1>9, <1>10

LEMMA SelDeletes ==
    ASSUME SelInv, NEW ch \in Open, NEW f \in File \ (Adf \cup {MF}), Delete(ch, f)
    PROVE  SelInv'
<1> DEFINE at == current[ch]
<1>1. FilesOK /\ CurrentOK /\ TreeTyped /\ LchanOK /\ Picture /\ Together
  BY DEF SelInv
<1>2. /\ f \in exists \ {MF} /\ Parent[f] = Directory(at)
      /\ \A other \in DOMAIN current \ {ch} : current[other] \notin Below(f)
      /\ exists' = exists \ Below(f) /\ gone' = gone \cup {f}
      /\ current' = [current EXCEPT ![ch] = IF @ = f THEN Parent[f] ELSE @]
      /\ UNCHANGED <<channels, tree, lchan, lost>>
  BY DEF Delete
<1>3. ch \in DOMAIN current /\ at \in exists /\ at \in File /\ Parent[f] \in exists
  BY <1>1, <1>2, DirectoryThere DEF Open, CurrentOK, FilesOK
<1>4. at \in Below(f) => at = f
  <2>1. CASE at \in Ef
    <3>1. at \in File \ {MF} /\ Parent[at] = Parent[f]
      BY <1>2, <1>3, <2>1, RuntimeAssumption DEF Directory
    <3> QED
      BY <3>1, BelowFile
  <2>2. CASE at \notin Ef
    BY <1>2, <2>2, BelowFile DEF Directory
  <2> QED
    BY <2>1, <2>2
<1>5. FilesOK'
  BY <1>1, <1>2, BelowFile DEF FilesOK
<1>6. CurrentOK'
  <2>1. Parent[f] \in exists' /\ (at # f => at \in exists')
    BY <1>2, <1>3, <1>4, BelowFile
  <2> QED
    BY <1>1, <1>2, <1>3, <2>1 DEF CurrentOK
<1>7. TreeTyped' /\ Picture'
  <2>1. exists' \cap Adf = exists \cap Adf
    BY <1>2, BelowFile
  <2> QED
    BY <1>2, <2>1, KeepsFiles
<1>8. LchanOK'
  BY <1>1, <1>2 DEF LchanOK
<1>9. Together'
  <2> SUFFICES ASSUME lost = "nothing"
               PROVE  /\ DOMAIN lchan' = DOMAIN current'
                      /\ \A c \in DOMAIN current' : /\ AtRight(current[c], lchan[c].selected_file)'
                                                    /\ Knows(current[c], lchan[c].selected_adf)'
    BY <1>2 DEF Together
  <2>1. DOMAIN lchan = DOMAIN current /\ DOMAIN lchan' = DOMAIN current'
    BY <1>1, <1>2 DEF Together
  <2>2. ASSUME NEW c \in DOMAIN current'
        PROVE  /\ AtRight(current[c], lchan[c].selected_file)'
               /\ Knows(current[c], lchan[c].selected_adf)'
    <3> DEFINE file == lchan[c].selected_file
    <3>1. c \in DOMAIN current /\ c \in DOMAIN lchan /\ lchan' = lchan
      BY <1>2, <2>1
    <3>2. AtRight(current[c], file) /\ Knows(current[c], lchan[c].selected_adf)
      BY <1>1, <3>1 DEF Together
    <3>3. CASE current'[c] = current[c]
      BY <1>2, <3>2, <3>3 DEF AtRight, Knows
    <3>4. CASE current'[c] # current[c]
      <4>1. c = ch /\ at = f /\ current'[c] = Parent[f]
        BY <1>2, <1>3, <3>1, <3>4
      <4>2. f \in Ef
        <5>1. Parent[f] # f
          BY <1>3, <3>4, <4>1
        <5> QED
          BY <1>2, <4>1, <5>1 DEF Directory
      <4>3. file \in tree /\ TreeSound
        BY <1>1, <3>1 DEF LchanOK, Picture
      <4>4. f = Last(file)
        <5>1. ASSUME Len(file) > 1, f = Above(file) PROVE FALSE
          BY <4>2, <4>3, <5>1 DEF TreeSound, Sound
        <5> QED
          BY <3>2, <4>1, <5>1 DEF AtRight
      <4>5. Len(file) > 1
        <5>1. file[1] = MF /\ Len(file) > 0 /\ Len(file) \in Nat
          BY <1>1, <4>3, LastFile DEF TreeTyped
        <5> QED
          BY <4>4, <5>1 DEF Last
      <4>6. Above(file) = Parent[f] /\ Parent[f] \notin Adf \ Fs
        BY <4>2, <4>3, <4>4, <4>5 DEF TreeSound, Sound
      <4>7. AtRight(current[c], lchan[c].selected_file)'
        BY <1>2, <3>1, <4>1, <4>2, <4>4, <4>5, <4>6 DEF AtRight, Above
      <4>8. Knows(current[c], lchan[c].selected_adf)'
        BY <3>1, <3>2, <4>1, <4>6 DEF Knows
      <4> QED
        BY <4>7, <4>8
    <3> QED
      BY <3>3, <3>4
  <2> QED
    BY <2>1, <2>2
<1> QED
  BY <1>5, <1>6, <1>7, <1>8, <1>9 DEF SelInv

\* The directory of a file that fits is the file object a new channel inherits.
LEMMA InheritedFits ==
    ASSUME SelInv, NEW ch \in Open, NEW nr, NEW at, at = IF ch = 0 THEN MF ELSE Directory(current[ch]),
           NEW new, new = Inherited(ch, nr)
    PROVE  /\ at \in exists /\ new.selected_file \in tree /\ new.selected_adf \in Adf \cup {NoAdf}
           /\ lost = "nothing" => AtRight(at, new.selected_file) /\ Knows(at, new.selected_adf)
<1> DEFINE file == lchan[ch].selected_file
           adf == lchan[ch].selected_adf
           was == current[ch]
<1>1. FilesOK /\ CurrentOK /\ TreeTyped /\ LchanOK /\ Picture /\ Together
      /\ MF \in File \ (Adf \cup Ef) /\ NoAdf \notin Adf /\ Adf \cap Ef = {}
  BY RuntimeAssumption DEF SelInv
<1>2. CASE ch = 0
  <2>1. new = Fresh /\ at = MF
    BY <1>2 DEF Inherited
  <2>2. new.selected_file = <<MF>> /\ new.selected_adf = NoAdf
    BY <2>1 DEF Fresh
  <2>3. AtRight(MF, <<MF>>) /\ Knows(MF, NoAdf)
    BY <1>1 DEF AtRight, Knows, Last
  <2> QED
    BY <1>1, <2>1, <2>2, <2>3 DEF FilesOK, TreeTyped
<1>3. CASE ch # 0
  <2>1. new.selected_file = (IF Last(file) \in Ef THEN Front(file) ELSE file) /\ new.selected_adf = adf
    BY <1>3 DEF Inherited, Fresh
  <2>2. at = Directory(was) /\ was \in exists /\ was \in File /\ file \in tree /\ adf \in Adf \cup {NoAdf}
    BY <1>1, <1>3 DEF Open, FilesOK, CurrentOK, LchanOK
  <2>3. at \in exists
    BY <1>1, <2>2, DirectoryThere DEF FilesOK
  <2>4. file[1] = MF /\ Len(file) > 0 /\ Len(file) \in Nat
    BY <1>1, <2>2, LastFile DEF TreeTyped
  <2>5. Last(file) \in Ef => Len(file) > 1
    BY <1>1, <2>4 DEF Last
  <2>6. new.selected_file \in tree
    BY <1>1, <2>1, <2>2, <2>5 DEF TreeTyped
  <2>7. ASSUME lost = "nothing" PROVE AtRight(at, new.selected_file) /\ Knows(at, new.selected_adf)
    <3>1. AtRight(was, file) /\ Knows(was, adf) /\ TreeSound
      BY <1>1, <2>7 DEF Together, Picture, Open
    <3>2. CASE Last(file) \in Ef
      <4>1. /\ Above(file) = Parent[Last(file)] /\ Above(file) \notin Ef \cup (Adf \ Fs)
        BY <2>2, <2>5, <3>1, <3>2 DEF TreeSound, Sound
      <4>2. at = Above(file)
        BY <2>2, <3>1, <3>2, <4>1 DEF AtRight, Directory
      <4>3. AtRight(at, Front(file))
        BY <4>2 DEF AtRight, Above
      <4>4. was \notin Adf \ Fs
        BY <1>1, <3>1, <3>2, <4>1 DEF AtRight
      <4> QED
        BY <2>1, <3>1, <3>2, <4>1, <4>2, <4>3, <4>4 DEF Knows
    <3>3. CASE Last(file) \notin Ef
      <4>1. was = Last(file) /\ at = was
        BY <2>2, <3>1, <3>3 DEF AtRight, Directory
      <4> QED
        BY <2>1, <3>1, <3>3, <4>1 DEF AtRight, Knows
    <3> QED
      BY <3>2, <3>3
  <2> QED
    BY <2>1, <2>2, <2>3, <2>6, <2>7
<1> QED
  BY <1>2, <1>3

LEMMA SelOpens ==
    ASSUME SelInv, NEW ch \in Open, NEW nr \in Channel, NEW answered \in BOOLEAN, OpenChannel(ch, nr, answered)
    PROVE  SelInv'
<1> DEFINE at == IF ch = 0 THEN MF ELSE Directory(current[ch])
           new == Inherited(ch, nr)
<1>1. FilesOK /\ CurrentOK /\ TreeTyped /\ LchanOK /\ Picture /\ Together
  BY DEF SelInv
<1>2. /\ nr \notin DOMAIN current /\ Unlost(answered) /\ lost' = After(answered)
      /\ current' = Joined(current, nr, at)
      /\ lchan' = IF answered /\ nr \notin DOMAIN lchan THEN Joined(lchan, nr, new) ELSE lchan
      /\ UNCHANGED <<channels, exists, gone, tree>>
  BY DEF OpenChannel
<1>3. /\ at \in exists /\ new.selected_file \in tree /\ new.selected_adf \in Adf \cup {NoAdf}
      /\ lost = "nothing" => AtRight(at, new.selected_file) /\ Knows(at, new.selected_adf)
  BY InheritedFits
<1> HIDE DEF at, new
<1>4. lost' \in {"nothing", "reset", "equip"} /\ (lost' # "equip" => lost # "equip")
      /\ (lost' = "nothing" => lost = "nothing" /\ answered)
  BY <1>1, <1>2 DEF Unlost, After, FilesOK
<1>5. FilesOK'
  BY <1>1, <1>2, <1>4 DEF FilesOK
<1>6. TreeTyped' /\ Picture'
  BY <1>2, <1>4, KeepsFiles
<1>7. DOMAIN current' = DOMAIN current \cup {nr}
      /\ \A c \in DOMAIN current' : current'[c] = IF c = nr THEN at ELSE current[c]
  BY <1>2 DEF Joined
<1>8. CurrentOK'
  BY <1>1, <1>2, <1>3, <1>7 DEF CurrentOK
<1>9. LchanOK'
  <2>1. CASE lchan' = lchan
    BY <1>1, <1>2, <2>1 DEF LchanOK
  <2>2. CASE lchan' = Joined(lchan, nr, new)
    <3>1. DOMAIN lchan' = DOMAIN lchan \cup {nr} /\ \A c \in DOMAIN lchan' : lchan'[c] = IF c = nr THEN new ELSE lchan[c]
      BY <2>2 DEF Joined
    <3> QED
      BY <1>1, <1>2, <1>3, <3>1 DEF LchanOK
  <2> QED
    BY <1>2, <2>1, <2>2
<1>10. Together'
  <2> SUFFICES ASSUME lost' = "nothing"
               PROVE  /\ DOMAIN lchan' = DOMAIN current'
                      /\ \A c \in DOMAIN current' : /\ AtRight(current[c], lchan[c].selected_file)'
                                                    /\ Knows(current[c], lchan[c].selected_adf)'
    BY DEF Together
  <2>1. /\ lost = "nothing" /\ answered /\ DOMAIN lchan = DOMAIN current
        /\ \A c \in DOMAIN current : /\ AtRight(current[c], lchan[c].selected_file)
                                     /\ Knows(current[c], lchan[c].selected_adf)
    BY <1>1, <1>4 DEF Together
  <2>2. lchan' = Joined(lchan, nr, new)
    BY <1>2, <2>1
  <2>3. DOMAIN lchan' = DOMAIN lchan \cup {nr} /\ \A c \in DOMAIN lchan' : lchan'[c] = IF c = nr THEN new ELSE lchan[c]
    BY <2>2 DEF Joined
  <2>4. ASSUME NEW c \in DOMAIN current'
        PROVE  /\ AtRight(current[c], lchan[c].selected_file)'
               /\ Knows(current[c], lchan[c].selected_adf)'
    <3>1. CASE c = nr
      <4>1. current'[c] = at /\ lchan'[c] = new
        BY <1>7, <2>1, <2>3, <3>1
      <4> QED
        BY <1>2, <1>3, <2>1, <4>1 DEF AtRight, Knows
    <3>2. CASE c # nr
      <4>1. current'[c] = current[c] /\ lchan'[c] = lchan[c] /\ c \in DOMAIN current
        BY <1>7, <2>1, <2>3, <3>2
      <4> QED
        BY <1>2, <2>1, <4>1 DEF AtRight, Knows
    <3> QED
      BY <3>1, <3>2
  <2> QED
    BY <1>7, <2>1, <2>3, <2>4
<1> QED
  BY <1>5, <1>6, <1>8, <1>9, <1>10 DEF SelInv

LEMMA SelCloses ==
    ASSUME SelInv, NEW nr \in Open, NEW answered \in BOOLEAN, CloseChannel(nr, answered)
    PROVE  SelInv'
<1>1. FilesOK /\ CurrentOK /\ TreeTyped /\ LchanOK /\ Picture /\ Together
  BY DEF SelInv
<1>2. /\ nr # 0 /\ Unlost(answered) /\ lost' = After(answered)
      /\ DOMAIN current' = DOMAIN current \ {nr} /\ \A c \in DOMAIN current' : current'[c] = current[c]
      /\ \/ answered /\ DOMAIN lchan' = DOMAIN lchan \ {nr} /\ \A c \in DOMAIN lchan' : lchan'[c] = lchan[c]
         \/ ~answered /\ lchan' = lchan
      /\ UNCHANGED <<channels, exists, gone, tree>>
  BY DEF CloseChannel, Restrict
<1>3. lost' \in {"nothing", "reset", "equip"} /\ (lost' # "equip" => lost # "equip")
      /\ (lost' = "nothing" => lost = "nothing" /\ answered)
  BY <1>1, <1>2 DEF Unlost, After, FilesOK
<1>4. FilesOK'
  BY <1>1, <1>2, <1>3 DEF FilesOK
<1>5. TreeTyped' /\ Picture'
  BY <1>2, <1>3, KeepsFiles
<1>6. CurrentOK' /\ LchanOK'
  BY <1>1, <1>2 DEF CurrentOK, LchanOK
<1>7. Together'
  <2> SUFFICES ASSUME lost' = "nothing"
               PROVE  /\ DOMAIN lchan' = DOMAIN current'
                      /\ \A c \in DOMAIN current' : /\ AtRight(current[c], lchan[c].selected_file)'
                                                    /\ Knows(current[c], lchan[c].selected_adf)'
    BY DEF Together
  <2>1. /\ DOMAIN lchan = DOMAIN current /\ answered
        /\ \A c \in DOMAIN current : /\ AtRight(current[c], lchan[c].selected_file)
                                     /\ Knows(current[c], lchan[c].selected_adf)
    BY <1>1, <1>3 DEF Together
  <2>2. DOMAIN lchan' = DOMAIN current'
    BY <1>2, <2>1
  <2>3. ASSUME NEW c \in DOMAIN current'
        PROVE  /\ AtRight(current[c], lchan[c].selected_file)'
               /\ Knows(current[c], lchan[c].selected_adf)'
    <3>1. c \in DOMAIN current /\ current'[c] = current[c] /\ lchan'[c] = lchan[c]
      BY <1>2, <2>1, <2>2
    <3> QED
      BY <1>2, <2>1, <3>1 DEF AtRight, Knows
  <2> QED
    BY <2>2, <2>3
<1> QED
  BY <1>4, <1>5, <1>6, <1>7 DEF SelInv

-----------------------------------------------------------------------------
\* From the MF the MF is always selected, if need be out of an application with a file system.
LEMMA MFSelected ==
    ASSUME Trusted, NEW s \in Places, s.at = MF
    PROVE  select(s, <<MF>>).file = <<MF>>
<1> DEFINE target == <<MF>>
           ways == {o \in tree : Len(o) = 2 /\ Last(o) \in Fs}
           way == CHOOSE o \in ways : TRUE
           t == Escaped(s, target)
           p == build_select_path_to(t.file, target)
<1>0. /\ TreeTyped /\ TreeSound /\ exists \subseteq File /\ MF \in exists /\ target \in tree
      /\ MF \in File \ (Adf \cup Ef) /\ Last(target) = MF /\ exists \subseteq s.files /\ Fs \subseteq Adf /\ Adf \cap Ef = {}
  BY RuntimeAssumption DEF Trusted, TreeTyped, Last, Places
<1>1. t \in Places /\ t.files = s.files
  BY <1>0, EscapedTypes
<1>2. t.at \in Fs \cup {MF}
  <2>1. CASE s.adf \in Adf \ Fs /\ Last(target) \notin Adf /\ ways # {}
    <3>1. way \in tree /\ Len(way) = 2 /\ Last(way) \in Fs
      BY <2>1
    <3>2. t = Along(s, build_select_path_to(s.file, way)).s
      BY <2>1 DEF Escaped
    <3> HIDE DEF way, t
    <3>3. t.at = Last(way)
      BY <1>0, <3>1, <3>2, ApplicationSelected
    <3> QED
      BY <3>1, <3>3
  <2>2. CASE ~(s.adf \in Adf \ Fs /\ Last(target) \notin Adf /\ ways # {})
    <3>1. t = s
      BY <2>2 DEF Escaped
    <3> QED
      BY <3>1
  <2> QED
    BY <2>1, <2>2
<1> HIDE DEF t
<1>3. p = <<target>>
  BY DEF build_select_path_to
<1>4. p \in Seq(tree) /\ Len(p) = 1 /\ p[1] = target
  <2> HIDE DEF target, p
  <2>1. <<target>> \in Seq(tree) /\ Len(<<target>>) = 1 /\ <<target>>[1] = target
    BY <1>0
  <2> QED
    BY <1>3, <2>1
<1>5. t.at \in File /\ MF \in t.files
  BY <1>0, <1>1 DEF Places
<1>6. Found(t.files, t.at, MF) = {MF}
  <2>1. InReach[t.at] # {}
    <3>1. Directory(t.at) \notin Adf \ Fs
      BY <1>0, <1>2 DEF Directory
    <3> QED
      BY <1>5, <3>1, Reaches
  <2>2. Clean(t.at, MF)
    BY <1>5, Reaches DEF Clean
  <2> DEFINE files == t.files
             at == t.at
  <2>3. MF \in files /\ MF \in File /\ at \in File /\ InReach[at] # {} /\ Clean(at, MF)
    BY <1>0, <1>5, <2>1, <2>2
  <2> HIDE DEF files, at
  <2>4. Found(files, at, MF) = {MF}
    BY <2>3, FoundIt
  <2> QED
    BY <2>4 DEF files, at
<1> HIDE DEF p
<1>7. PlainAlong(t.files, t.at, p)
  <2>1. ASSUME NEW i \in 1..Len(p)
        PROVE  Found(t.files, Before(t.at, p, i), Last(p[i])) \subseteq {Last(p[i])}
    <3>1. i = 1
      BY <1>4
    <3>2. Before(t.at, p, i) = t.at /\ Last(p[i]) = MF
      BY <1>0, <1>4, <3>1 DEF Before
    <3> QED
      BY <1>6, <3>2
  <2> QED
    BY <2>1 DEF PlainAlong
<1>8. PICK n : Reached(t, p, n)
  BY <1>0, <1>1, <1>4, <1>7, AlongClean
<1>9. n = 1
  <2>1. n # 0
    <3>1. n = 0 => Found(t.files, Before(t.at, p, 0 + 1), Last(p[0 + 1])) = {}
      BY <1>4, <1>8 DEF Reached
    <3>2. Before(t.at, p, 0 + 1) = t.at /\ Last(p[0 + 1]) = MF
      BY <1>0, <1>4 DEF Before
    <3> QED
      BY <1>6, <3>1, <3>2
  <2> QED
    BY <1>4, <1>8, <2>1 DEF Reached
<1>10. Along(t, p).ok /\ Along(t, p).s.file = target
  BY <1>4, <1>8, <1>9 DEF Reached
<1>11. select_file(s, target) = Along(t, p)
  BY DEF select_file, t, p
<1> HIDE DEF target
<1> QED
  BY <1>10, <1>11 DEF select, target

LEMMA SelResets ==
    ASSUME SelInv, Reset
    PROVE  SelInv'
<1> DEFINE s == [Standing(0) EXCEPT !.at = MF]
           file == select(s, <<MF>>).file
<1>1. /\ FilesOK /\ CurrentOK /\ TreeTyped /\ LchanOK /\ Picture /\ Together
      /\ MF \notin Adf /\ NoAdf \notin Adf /\ 0 \in Channel /\ <<MF>> \in tree
  BY RuntimeAssumption DEF SelInv, TreeTyped
<1>2. /\ current' = [c \in {0} |-> MF] /\ lchan' = [c \in {0} |-> ResetChannel]
      /\ lost' = IF lost = "reset" THEN "nothing" ELSE lost
      /\ UNCHANGED <<channels, exists, gone, tree>>
  BY DEF Reset, Alone
<1>3. ResetChannel.selected_file = file /\ ResetChannel.selected_adf = NoAdf
  BY DEF ResetChannel, Fresh
<1>4. s \in Places /\ s.at = MF
  <2>1. 0 \in Open
    BY <1>1 DEF Open, CurrentOK, LchanOK
  <2>2. Standing(0) \in Places
    BY <2>1, StandingIn
  <2> QED
    BY <1>1, <2>2 DEF Places, FilesOK
<1> HIDE DEF s
<1>5. file \in tree
  BY <1>1, <1>4, SelectTypes DEF Places
<1>6. lost # "equip" => file = <<MF>>
  <2>1. lost # "equip" => Trusted
    BY <1>1 DEF Trusted, Picture, FilesOK
  <2> QED
    BY <1>4, <2>1, MFSelected
<1> HIDE DEF file
<1>7. lost' \in {"nothing", "reset", "equip"} /\ (lost' # "equip" => lost # "equip")
  BY <1>1, <1>2 DEF FilesOK
<1>8. FilesOK'
  BY <1>1, <1>2, <1>7 DEF FilesOK
<1>9. TreeTyped' /\ Picture'
  BY <1>2, <1>7, KeepsFiles
<1>10. CurrentOK' /\ LchanOK'
  BY <1>1, <1>2, <1>3, <1>5 DEF CurrentOK, LchanOK, FilesOK
<1>11. Together'
  <2>1. AtRight(MF, <<MF>>) /\ Knows(MF, NoAdf)
    BY <1>1 DEF AtRight, Knows, Last
  <2>2. lost' = "nothing" => lchan'[0].selected_file = <<MF>> /\ lchan'[0].selected_adf = NoAdf
    BY <1>2, <1>3, <1>6, <1>7
  <2> QED
    BY <1>2, <2>1, <2>2 DEF Together, AtRight, Knows
<1> QED
  BY <1>8, <1>9, <1>10, <1>11 DEF SelInv

LEMMA SelResetsLost ==
    ASSUME SelInv, ResetLost
    PROVE  SelInv'
<1>1. FilesOK /\ CurrentOK /\ TreeTyped /\ LchanOK /\ Picture /\ 0 \in Channel
  BY RuntimeAssumption DEF SelInv
<1>2. /\ lost = "nothing" /\ lost' = "reset" /\ UNCHANGED <<channels, exists, gone, tree>>
      /\ DOMAIN lchan' = {0} /\ lchan'[0].selected_file = lchan[0].selected_file
      /\ lchan'[0].selected_adf = lchan[0].selected_adf
      /\ current' = [c \in {0} |-> MF] \/ current' = current
  BY DEF ResetLost, Alone, Fresh
<1>3. FilesOK'
  BY <1>1, <1>2 DEF FilesOK
<1>4. TreeTyped' /\ Picture'
  BY <1>2, KeepsFiles
<1>5. CurrentOK'
  BY <1>1, <1>2 DEF CurrentOK, FilesOK
<1>6. LchanOK'
  BY <1>1, <1>2 DEF LchanOK
<1>7. Together'
  BY <1>2 DEF Together
<1> QED
  BY <1>3, <1>4, <1>5, <1>6, <1>7 DEF SelInv

LEMMA SelEquips ==
    ASSUME SelInv, Equip
    PROVE  SelInv'
<1>1. FilesOK /\ MF \notin Adf /\ NoAdf \notin Adf /\ 0 \in Channel
  BY RuntimeAssumption DEF SelInv
<1>2. /\ tree' = Model(exists) /\ lost' = "nothing" /\ UNCHANGED <<channels, exists, gone>>
      /\ current' = [c \in {0} |-> MF] /\ lchan' = [c \in {0} |-> Fresh]
  BY DEF Equip, Alone
<1>3. FilesOK'
  BY <1>1, <1>2 DEF FilesOK
<1>4. TreeTyped' /\ TreeSound'
  <2>1. Model(exists)' = Model(exists)
    BY <1>2 DEF Model
  <2> QED
    BY <1>2, <1>3, <2>1, ModelGoodNext DEF Equipped, FilesOK
<1>5. CurrentOK' /\ LchanOK'
  BY <1>1, <1>2, <1>3, <1>4 DEF FilesOK, CurrentOK, LchanOK, Fresh, TreeTyped
<1>6. Together'
  <2>1. AtRight(MF, <<MF>>)' /\ Knows(MF, NoAdf)
    BY <1>1 DEF AtRight, Knows, Last
  <2>2. DOMAIN lchan' = {0} /\ lchan'[0].selected_file = <<MF>> /\ lchan'[0].selected_adf = NoAdf
    BY <1>2 DEF Fresh
  <2> QED
    BY <1>2, <2>1, <2>2 DEF Together, AtRight, Knows
<1> QED
  BY <1>3, <1>4, <1>5, <1>6 DEF SelInv, Picture

\* A step of the secure channels alone.
LEMMA SelSecures ==
    ASSUME SelInv, UNCHANGED <<channels, exists, gone, current, tree>>,
           DOMAIN lchan' = DOMAIN lchan,
           \A c \in DOMAIN lchan : /\ lchan'[c].selected_file = lchan[c].selected_file
                                   /\ lchan'[c].selected_adf = lchan[c].selected_adf,
           lost' = lost \/ (lost = "nothing" /\ lost' = "reset")
    PROVE  SelInv'
<1>1. FilesOK /\ CurrentOK /\ TreeTyped /\ LchanOK /\ Picture /\ Together
  BY DEF SelInv
<1>2. FilesOK' /\ CurrentOK' /\ LchanOK'
  BY <1>1 DEF FilesOK, CurrentOK, LchanOK
<1>3. TreeTyped' /\ Picture'
  BY KeepsFiles
<1>4. Together'
  BY <1>1 DEF Together, AtRight, Knows
<1> QED
  BY <1>2, <1>3, <1>4 DEF SelInv

LEMMA SelSteps ==
    ASSUME SelInv, [Next]_vars
    PROVE  SelInv'
<1>1. ASSUME NEW ch \in Open, NEW kind \in Kinds, NEW answer \in {"answered", "refused", "lost"},
             Establish(ch, kind, answer)
      PROVE  SelInv'
  <2>1. UNCHANGED <<channels, exists, gone, current, tree>> /\ (lost' = lost \/ (lost = "nothing" /\ lost' = "reset"))
    BY <1>1 DEF Establish, Unlost, After
  <2>2. /\ DOMAIN lchan' = DOMAIN lchan
        /\ \A c \in DOMAIN lchan : /\ lchan'[c].selected_file = lchan[c].selected_file
                                   /\ lchan'[c].selected_adf = lchan[c].selected_adf
    BY <1>1 DEF Establish, Secured, Open
  <2> QED
    BY <2>1, <2>2, SelSecures
<1>2. ASSUME NEW ch \in Open, Release(ch)
      PROVE  SelInv'
  <2>1. UNCHANGED <<channels, exists, gone, current, tree>> /\ lost' = lost
    BY <1>2 DEF Release
  <2>2. /\ DOMAIN lchan' = DOMAIN lchan
        /\ \A c \in DOMAIN lchan : /\ lchan'[c].selected_file = lchan[c].selected_file
                                   /\ lchan'[c].selected_adf = lchan[c].selected_adf
    BY <1>2 DEF Release, Secured, Open
  <2> QED
    BY <2>1, <2>2, SelSecures
<1>3. ASSUME NEW ch \in Open, NEW lc, Command(ch, lc)
      PROVE  SelInv'
  <2>1. UNCHANGED <<channels, exists, gone, current, tree>> /\ (lost' = lost \/ (lost = "nothing" /\ lost' = "reset"))
    BY <1>3 DEF Command, Unlost, After
  <2>2. /\ DOMAIN lchan' = DOMAIN lchan
        /\ \A c \in DOMAIN lchan : /\ lchan'[c].selected_file = lchan[c].selected_file
                                   /\ lchan'[c].selected_adf = lchan[c].selected_adf
    BY <1>3 DEF Command, Secured, Open
  <2> QED
    BY <2>1, <2>2, SelSecures
<1>4. CASE UNCHANGED vars
  <2>1. UNCHANGED <<channels, exists, gone, current, tree, lchan, lost>>
    BY <1>4 DEF vars
  <2> QED
    BY <2>1, SelSecures
<1> QED
  BY <1>1, <1>2, <1>3, <1>4, SelSelects, SelSelectsLost, SelProbes, SelAdministers, SelDeletes, SelOpens,
     SelAccesses, SelCloses, SelResets, SelResetsLost, SelEquips DEF Next

-----------------------------------------------------------------------------
(* What the invariant says of the picture.                                 *)

LEMMA CoherentThen ==
    ASSUME SelInv
    PROVE  Coherent /\ ApplicationKnown
<1>1. ASSUME lost = "nothing", NEW c \in DOMAIN current
      PROVE  /\ ToSet(lchan[c].selected_file) \cap gone = {} => current[c] = Last(lchan[c].selected_file)
             /\ current[c] \in Adf \ Fs <=> lchan[c].selected_adf \in Adf \ Fs
  <2>1. /\ AtRight(current[c], lchan[c].selected_file) /\ Knows(current[c], lchan[c].selected_adf)
        /\ lchan[c].selected_file \in tree /\ TreeTyped
    BY <1>1 DEF SelInv, Together, LchanOK
  <2>2. Last(lchan[c].selected_file) \in ToSet(lchan[c].selected_file)
    BY <2>1, LastFile
  <2> QED
    BY <2>1, <2>2 DEF AtRight, Knows
<1>2. lost = "nothing" => DOMAIN lchan = DOMAIN current
  BY DEF SelInv, Together
<1> QED
  BY <1>1, <1>2 DEF Coherent, ApplicationKnown

LEMMA SelectableThen ==
    ASSUME SelInv
    PROVE  EveryFileSelectable
<1> SUFFICES ASSUME lost = "nothing", NEW c \in DOMAIN current, NEW o \in tree,
                    ToSet(o) \cup ToSet(Standing(c).file) \subseteq exists,
                    current[c] \in Adf \ Fs => Last(o) \in Adf \/ exists \cap Fs # {}
             PROVE  select_file(Standing(c), o).ok /\ select_file(Standing(c), o).s.at = Last(o)
  BY DEF EveryFileSelectable
<1> DEFINE s == Standing(c)
<1>1. c \in Open
  BY DEF SelInv, Together, Open
<1>2. s \in Places /\ s.at = current[c] /\ Trusted /\ Fits(s)
  BY <1>1, StandingIn
<1> HIDE DEF s
<1>3. ToSet(o) \cup ToSet(s.file) \subseteq exists
  BY DEF s
<1> QED
  BY <1>2, <1>3, SelectFileFinds DEF s

-----------------------------------------------------------------------------
\* Every state of the shell and the card is of its type: every channel of either end stands in a
\* file that is there, or in the picture, and every session is of a kind that is in use.
THEOREM RuntimeTypeCorrect == Spec => []TypeOK
<1>1. Init => IInv /\ SelInv
  BY Starts, SelStarts, RuntimeAssumption
<1>2. IInv /\ SelInv /\ [Next]_vars => (IInv /\ SelInv)'
  BY Steps, SelSteps, RuntimeAssumption
<1>3. IInv /\ SelInv => TypeOK
  BY DEF IInv, EndsOK, KindsOK, SelInv, FilesOK, CurrentOK, TreeTyped, LchanOK, TypeOK
<1> QED
  BY <1>1, <1>2, <1>3, PTL DEF Spec

\* As long as no exchange failed, nor the way back from a file that was created, the card
\* stands where the shell says it does, on every channel,
\* however files were selected, probed for, created, resized and deleted (RuntimeLchan.select,
\* probe_file, and the commands of ts_102_222.py that select again).
THEOREM PictureCoherent == Spec => []Coherent
<1>1. Init => SelInv
  BY SelStarts
<1>2. SelInv /\ [Next]_vars => SelInv'
  BY SelSteps
<1>3. SelInv => Coherent
  BY CoherentThen
<1> QED
  BY <1>1, <1>2, <1>3, PTL DEF Spec

\* As long as no exchange failed the shell knows when it stands in an application where SELECT by
\* identifier does not work, which select_file decides by (runtime.py).
THEOREM ApplicationAlwaysKnown == Spec => []ApplicationKnown
<1>1. Init => SelInv
  BY SelStarts
<1>2. SelInv /\ [Next]_vars => SelInv'
  BY SelSteps
<1>3. SelInv => ApplicationKnown
  BY CoherentThen
<1> QED
  BY <1>1, <1>2, <1>3, PTL DEF Spec

\* From wherever a channel stands, select_file comes to every file of the picture that is there,
\* by the path of build_select_path_to, also to what was probed for.
THEOREM EveryFileAlwaysSelectable == Spec => []EveryFileSelectable
<1>1. Init => SelInv
  BY SelStarts
<1>2. SelInv /\ [Next]_vars => SelInv'
  BY SelSteps
<1>3. SelInv => EveryFileSelectable
  BY SelectableThen
<1> QED
  BY <1>1, <1>2, <1>3, PTL DEF Spec

\* After the creation of an EF, or of a directory in the MF or in an application, the file shown
\* can be selected again, if it is there and so are the directories above it.
Returns(at, f) == f \in Ef \/ Directory(at) \in Adf \cup {MF}

\* The first SELECT of the way back finds what it is meant to.
LEMMA BackEnters ==
    ASSUME Trusted, NEW s \in Places, NEW at, NEW f, Administered(s, at, f), Returns(at, f)
    PROVE  Clean(f, Last(build_select_path_to(s.file, s.file)[1])) /\ InReach[f] # {}
<1> DEFINE file == s.file
           p == build_select_path_to(file, file)
           l == Last(file)
           g == Above(file)
           d == Directory(at)
<1>0. /\ file \in tree /\ TreeTyped /\ TreeSound
      /\ MF \in File \ (Adf \cup Ef) /\ Adf \cap Ef = {}
      /\ f \in File \ (Adf \cup {MF}) /\ Parent[f] = d /\ d \notin Adf \ Fs
      /\ at \in File /\ AtRight(at, file)
  BY RuntimeAssumption DEF Places, Trusted, Administered
<1>1. Way(file, file, p) /\ Entered(file, p) /\ CleanAlong(at, p)
  BY <1>0, Paths, PathClean
<1> HIDE DEF p, file
<1>2. p \in Seq(tree) /\ Len(p) > 0 /\ p[1] \in tree /\ Within(p[1], file, file)
  BY <1>1 DEF Way
<1>3. InReach[f] # {}
  <2>1. Directory(f) \notin Adf \ Fs
    BY <1>0 DEF Directory
  <2> QED
    BY <1>0, <2>1, Reaches
<1>4. CASE f \in Ef
  <2>1. Directory(f) = d
    BY <1>0, <1>4 DEF Directory
  <2>2. InReach[f] = InReach[at]
    BY <1>0, <2>1, SameReach
  <2>3. 1 \in 1..Len(p)
    BY <1>2
  <2>4. Clean(at, Last(p[1]))
    BY <1>1, <2>3 DEF CleanAlong, Before
  <2> QED
    BY <1>3, <2>2, <2>4 DEF Clean, p, file
<1>5. CASE d \in Adf \cup {MF}
  <2>1. Last(p[1]) \in Adf \cup {MF}
    <3> SUFFICES ASSUME Last(p[1]) \notin Adf, p[1] # <<MF>> PROVE Last(p[1]) \in Adf \cup {MF}
      BY DEF Last
    <3>1. Adjacent(file, p[1])
      BY <1>1 DEF Entered
    <3>2. ~(Len(p[1]) > 1 /\ file = Front(p[1]))
      <4>1. p[1] \in Seq(File) /\ Len(p[1]) \in Nat /\ Len(file) \in Nat /\ Len(p[1]) <= Len(file)
        BY <1>0, <1>2, LastFile DEF Within
      <4> QED
        BY <4>1 DEF Front
    <3>3. Len(file) > 1 /\ Last(p[1]) = g
      BY <3>1, <3>2 DEF Adjacent, Above
    <3>4. Sound(file) /\ l \in File
      BY <1>0, <3>3, LastFile DEF TreeSound
    <3>5. CASE l \in Ef
      <4>1. g = Parent[l] /\ g \notin Ef
        BY <3>4, <3>5 DEF Sound
      <4>2. d = g
        BY <1>0, <3>5, <4>1 DEF AtRight, Directory
      <4> QED
        BY <1>5, <3>3, <4>2
    <3>6. CASE l \notin Ef
      <4>1. l = d
        BY <1>0, <3>6 DEF AtRight, Directory
      <4>2. Len(file) = 2 /\ file \in Seq(File) /\ file[1] = MF
        BY <1>0, <1>5, <3>4, <4>1, LastFile DEF Sound, TreeTyped
      <4>3. g = MF
        BY <4>2 DEF Above, Front, Last
      <4> QED
        BY <3>3, <4>3
    <3> QED
      BY <3>5, <3>6
  <2>2. MF \in InReach[f]
    BY <1>0, <1>3, Reaches
  <2> QED
    BY <1>3, <2>1, <2>2 DEF Clean, p, file
<1> QED
  BY <1>4, <1>5 DEF Returns

\* And so do the others, up to the file shown.
LEMMA BackWhole ==
    ASSUME Trusted, NEW s \in Places, NEW at, NEW f, Administered(s, at, f), Returns(at, f),
           ToSet(s.file) \subseteq exists,
           NEW r, r = select_file(s, s.file)
    PROVE  r.ok /\ r.s.at = Last(s.file) /\ r.s.file = s.file
<1> DEFINE file == s.file
           p == build_select_path_to(file, file)
<1>1. /\ file \in tree /\ TreeTyped /\ exists \subseteq s.files /\ s.at = f /\ f \in File
      /\ Directory(at) \notin Adf \ Fs /\ Adf \cap Ef = {} /\ Knows(at, s.adf)
  <2>1. \A g \in File \ {MF} : Parent[g] \notin Adf \ Fs
    BY RuntimeAssumption
  <2> QED
    BY <2>1, RuntimeAssumption DEF Administered, Places, Trusted
<1>2. r = Along(s, p)
  <2>1. s.adf \notin Adf \ Fs
    BY <1>1 DEF Directory, Knows
  <2> QED
    BY <2>1 DEF select_file, Escaped
<1>3. Clean(f, Last(p[1])) /\ InReach[f] # {}
  BY BackEnters
<1>4. Way(file, file, p) /\ PlainAlong(s.files, f, p)
  BY <1>1, <1>3, Paths, BackClean
<1> HIDE DEF p, file
<1>5. p \in Seq(tree) /\ Len(p) > 0 /\ Len(p) \in Nat
  BY <1>4 DEF Way
<1>6. PICK n : Reached(s, p, n)
  BY <1>1, <1>4, <1>5, AlongClean
<1>7. n \in 0..Len(p) /\ n \in Nat
  BY <1>5, <1>6 DEF Reached
<1>8. ASSUME NEW k \in 1..Len(p) PROVE Found(s.files, Before(f, p, k), Last(p[k])) # {}
  <2> DEFINE b == Before(f, p, k)
             t == Last(p[k])
  <2>1. p[k] \in tree /\ Within(p[k], file, file)
    BY <1>4, <1>5 DEF Way
  <2>2. t \in File /\ t \in s.files
    BY <1>1, <2>1, LastFile DEF Within, file
  <2>3. b \in File /\ Clean(b, t) /\ InReach[b] # {}
    <3>1. CASE k = 1
      BY <1>1, <1>3, <3>1 DEF Before
    <3>2. CASE k # 1
      <4> DEFINE j == k - 1
      <4>1. j \in 1..(Len(p) - 1) /\ k \in 2..Len(p) /\ p[j] \in tree /\ b = Last(p[j])
        BY <1>5, <3>2 DEF Before
      <4>2. Adjacent(p[j], p[k])
        BY <1>4, <4>1 DEF Way
      <4>3. Clean(b, t) /\ b \in File
        BY <1>1, <2>1, <4>1, <4>2, AdjacentClean, LastFile
      <4> HIDE DEF j
      <4>4. PICK o \in tree : Len(o) > 1 /\ p[j] = Front(o)
        BY <1>4, <4>1 DEF Way
      <4>5. b \notin Ef \cup (Adf \ Fs)
        BY <4>1, <4>4 DEF Trusted, TreeSound, Sound, Above
      <4>6. InReach[b] # {}
        BY <4>3, <4>5, Reaches DEF Directory
      <4> QED
        BY <4>3, <4>6
    <3> QED
      BY <3>1, <3>2
  <2> HIDE DEF b, t
  <2>4. Found(s.files, b, t) = {t}
    <3> DEFINE files == s.files
    <3>1. b \in File /\ t \in File /\ t \in files /\ Clean(b, t) /\ InReach[b] # {}
      BY <2>2, <2>3
    <3> HIDE DEF files
    <3>2. Found(files, b, t) = {t}
      BY <3>1, FoundIt
    <3> QED
      BY <3>2 DEF files
  <2> QED
    BY <2>4 DEF b, t
<1>9. n = Len(p)
  <2> SUFFICES ASSUME n # Len(p) PROVE FALSE
    OBVIOUS
  <2>1. n < Len(p) /\ n + 1 \in 1..Len(p)
    BY <1>5, <1>7
  <2> QED
    BY <1>1, <1>6, <1>8, <2>1 DEF Reached
<1>10. n # 0 /\ n + 1 # 1 /\ (n + 1) - 1 = n /\ p[n] = file
  BY <1>4, <1>5, <1>7, <1>9 DEF Way
<1>11. Along(s, p).ok /\ Along(s, p).s.at = Last(file) /\ Along(s, p).s.file = file
  BY <1>6, <1>9, <1>10 DEF Reached, Before
<1> QED
  BY <1>2, <1>11 DEF file

\* While nothing is lost, the way back from an EF that was created or resized, or from a directory
\* created in the MF or in an application, is refused only when a file of the path shown was
\* deleted: otherwise the card stands again where the shell shows (the commands of ts_102_222.py
\* select the file shown again). From a directory created in another directory it may be refused.
THEOREM CreatedAlwaysLeft ==
    Spec => [][\A ch \in Open, f \in File \ (Adf \cup {MF}) :
                 /\ Administer(ch, f) /\ lost = "nothing" /\ Returns(current[ch], f)
                 /\ ToSet(lchan[ch].selected_file) \subseteq exists
                 => /\ lost' = "nothing"
                    /\ current'[ch] = Last(lchan[ch].selected_file)
                    /\ lchan'[ch].selected_file = lchan[ch].selected_file]_vars
<1> DEFINE Left(ch) == /\ lost' = "nothing"
                       /\ current'[ch] = Last(lchan[ch].selected_file)
                       /\ lchan'[ch].selected_file = lchan[ch].selected_file
<1>1. Init => SelInv
  BY SelStarts
<1>2. SelInv /\ [Next]_vars => SelInv'
  BY SelSteps
<1>3. ASSUME SelInv, NEW ch \in Open, NEW f \in File \ (Adf \cup {MF}), Administer(ch, f),
             lost = "nothing", Returns(current[ch], f), ToSet(lchan[ch].selected_file) \subseteq exists
      PROVE  Left(ch)
  <2> DEFINE s0 == Standing(ch)
             s == [s0 EXCEPT !.files = @ \cup {f}, !.at = f, !.moved = TRUE]
             r == select_file(s, s.file)
             at == current[ch]
  <2>1. /\ s0 \in Places /\ s0.files = exists /\ s0.at = at /\ at \in exists /\ exists \subseteq File
        /\ s0.file = lchan[ch].selected_file
        /\ Trusted /\ Fits(s0)
    BY <1>3, StandingIn
  <2>2. /\ f \in Creatable \ exists \/ f \in exists \cap Ef
        /\ Parent[f] = Directory(at) /\ Stand(ch, r.s)
        /\ lost' = IF r.ok \/ lost # "nothing" THEN lost ELSE "reset"
    BY <1>3 DEF Administer
  <2>3. \A g \in exists \ {MF} : Parent[g] \in exists
    BY <1>3 DEF SelInv, FilesOK
  <2> HIDE DEF s0
  <2>4. s \in Places /\ s.files = exists \cup {f} /\ s.at = f /\ s.file = s0.file /\ s.adf = s0.adf
    BY <1>3, <2>1 DEF Places
  <2>5. Directory(at) \in exists
    BY <2>1, <2>3, DirectoryThere
  <2> HIDE DEF s
  <2>6. ASSUME f \notin Ef, NEW g \in s.files \ {MF} PROVE Parent[g] # f
    <3>1. f \notin exists
      BY <2>2, <2>6
    <3>2. g \in exists => Parent[g] \in exists
      BY <2>3, <2>6
    <3>3. g = f => Parent[g] \in exists
      BY <2>2, <2>5
    <3> QED
      BY <2>4, <2>6, <3>1, <3>2, <3>3
  <2>7. Administered(s, at, f)
    BY <1>3, <2>1, <2>2, <2>4, <2>6 DEF Administered, Fits
  <2>8. ToSet(s.file) \subseteq exists
    BY <1>3, <2>1, <2>4
  <2>9. r.ok /\ r.s.at = Last(s.file) /\ r.s.file = s.file
    <3> HIDE DEF r
    <3> QED
      BY <1>3, <2>1, <2>4, <2>7, <2>8, BackWhole DEF r
  <2> HIDE DEF r
  <2>10. ch \in DOMAIN current /\ ch \in DOMAIN lchan
    BY DEF Open
  <2>11. current'[ch] = r.s.at /\ lchan'[ch].selected_file = r.s.file
    BY <2>2, <2>10 DEF Stand
  <2> QED
    BY <1>3, <2>1, <2>2, <2>4, <2>9, <2>11
<1> HIDE DEF Left
<1>4. SelInv => \A ch \in Open, f \in File \ (Adf \cup {MF}) :
                 /\ Administer(ch, f) /\ lost = "nothing" /\ Returns(current[ch], f)
                 /\ ToSet(lchan[ch].selected_file) \subseteq exists
                 => Left(ch)
  BY <1>3
<1> QED
  BY <1>1, <1>2, <1>4, PTL DEF Spec, Left
=============================================================================
