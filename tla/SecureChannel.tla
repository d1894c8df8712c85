---------------------------- MODULE SecureChannel ----------------------------
(***************************************************************************)
(* The secure channel between the shell and a security domain of the card: *)
(* SCP02 and SCP03 of pySim/global_platform/scp.py, with C-MAC and, in     *)
(* some sessions, C-ENC.                                                   *)
(*                                                                         *)
(* One record stands for a session at either end: how many MACs went into  *)
(* its chain, and the encryption counter.  A MAC verifies when the two     *)
(* ends have the same session and as many MACs; a ciphertext is what was   *)
(* meant when they have the same counter.  Commands are their length.      *)
(***************************************************************************)
EXTENDS Naturals

\* What a session was established as; s_mode is the length of a MAC.
Kind == {[protocol |-> "SCP02", s_mode |-> 8, do_cenc |-> c] : c \in BOOLEAN}
        \cup {[protocol |-> "SCP03", s_mode |-> m, do_cenc |-> c] : m \in {8, 16}, c \in BOOLEAN}

Scp(Id) == [kind : Kind, id : Id, macs : Nat, block_nr : Nat]

\* After EXTERNAL AUTHENTICATE, the first command of the chain, which is not encrypted.
Established(kind, id) == [kind |-> kind, id |-> id, macs |-> 1, block_nr |-> 0]

\* pad80
Padded(n, blocksize) == (n \div blocksize + 1) * blocksize

Chained(scp) == [scp EXCEPT !.macs = @ + 1]

\* _get_icv, and without data the increment alone.
Counted(scp) == IF scp.kind.do_cenc /\ scp.kind.protocol = "SCP03"
                THEN [scp EXCEPT !.block_nr = @ + 1] ELSE scp

\* An exception: nothing is sent, and the session is what it was made up to there.
Raised(scp) == [scp |-> scp, sent |-> FALSE]
Sent(scp) == [scp |-> scp, sent |-> TRUE]

\* SCP02: the channel must be the one of the session, which is 0.
wrap_scp02(scp, lchan_nr, lc) ==
    LET encrypted == IF scp.kind.do_cenc THEN Padded(lc, 8) ELSE lc
    IN  CASE lchan_nr # 0 \/ lc + 8 > 255 -> Raised(scp)
          [] lchan_nr = 0 /\ lc + 8 <= 255 /\ encrypted + 8 > 255 -> Raised(Chained(scp))
          [] lchan_nr = 0 /\ encrypted + 8 <= 255 -> Sent(Chained(scp))

\* Mutant: a command without data is not counted.
wrap_scp03_uncounted(scp, lc) ==
    LET encrypted == IF scp.kind.do_cenc /\ lc > 0 THEN Padded(lc, 16) ELSE lc
        counted == IF lc = 0 THEN scp ELSE Counted(scp)
    IN  CASE encrypted > 255 -> Raised(scp)
          [] encrypted <= 255 /\ encrypted + scp.kind.s_mode > 255 -> Raised(counted)
          [] encrypted + scp.kind.s_mode <= 255 -> Sent(Chained(counted))

wrap_scp03(scp, lc) ==
    LET encrypted == IF scp.kind.do_cenc /\ lc > 0 THEN Padded(lc, 16) ELSE lc
    IN  CASE encrypted > 255 -> Raised(scp)
          [] encrypted <= 255 /\ encrypted + scp.kind.s_mode > 255 -> Raised(Counted(scp))
          [] encrypted + scp.kind.s_mode <= 255 -> Sent(Chained(Counted(scp)))

wrap_cmd_apdu(scp, lchan_nr, lc) ==
    IF scp.kind.protocol = "SCP02" THEN wrap_scp02(scp, lchan_nr, lc) ELSE wrap_scp03(scp, lc)

\* SimCardCommands.max_cmd_len: overhead is the length of the MAC, without the padding of C-ENC.
max_cmd_len(scp) == 255 - scp.kind.s_mode

\* External: the card verifies the MAC of a command wrapped in this session, ...
Verifies(card, scp) == card.id = scp.id /\ card.macs = scp.macs

\* ... counts, and finds what was meant.
Taken(card) == Chained(Counted(card))
AsMeant(card, wrapped) == Counted(card).block_nr = wrapped.block_nr
=============================================================================
