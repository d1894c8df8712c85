---------------------------- MODULE BoundProfile -----------------------------
(***************************************************************************)
(* The protection of a Profile package on its way to the eUICC:            *)
(* pySim/esim/bsp.py (BspInstance: segmentation, ICV counter, chained MAC) *)
(* and BoundProfilePackage.encode and decode of pySim/esim/es8p.py.        *)
(*                                                                         *)
(* A plaintext is its name and its length in bytes; a segment carries a    *)
(* piece of it.  A ciphertext names the key and the block counter it was   *)
(* made with, and a MAC the key and all that went through its chain: two   *)
(* are equal when these are.                                               *)
(***************************************************************************)
EXTENDS Naturals, Sequences

MAX_SEGMENT_SIZE == 1020
TAG_LEN == 1
blocksize == 16
l_mac == 8

\* External: bertlv_encode_len, for what fits two bytes.
LengthOfLength(n) == IF n < 128 THEN 1 ELSE IF n < 256 THEN 2 ELSE 3

max_payload_size == MAX_SEGMENT_SIZE - TAG_LEN - LengthOfLength(MAX_SEGMENT_SIZE) - l_mac

\* 80, and zeros up to a multiple of the block.
Padded(n) == (n \div blocksize + 1) * blocksize

Least(m, n) == IF m < n THEN m ELSE n

\* The pieces that encrypt_and_mac and mac_only cut a plaintext into.
Pieces(data) ==
    [i \in 1..(data.length + max_payload_size - 1) \div max_payload_size |->
       [of |-> data, from |-> (i - 1) * max_payload_size,
        to |-> Least(i * max_payload_size, data.length)]]

\* b''.join of the pieces of one plaintext, when they are all of it in order.
Joined(pieces, data) == pieces = Pieces(data)

-----------------------------------------------------------------------------
(* BspInstance.                                                            *)

BspInstance(key) == [key |-> key, block_nr |-> 1, mac_chain |-> <<>>]

Mac(bsp, items, i) == [key |-> bsp.key, over |-> bsp.mac_chain \o SubSeq(items, 1, i)]

\* The segments of items, and the instance after them.
Authenticated(bsp, items) ==
    [segments |-> [i \in 1..Len(items) |-> [item |-> items[i], mac |-> Mac(bsp, items, i)]],
     bsp |-> [key |-> bsp.key,
              block_nr |-> bsp.block_nr + Len(items),
              mac_chain |-> bsp.mac_chain \o items]]

Encrypt(bsp, tag, pieces) ==
    [i \in 1..Len(pieces) |->
       [tag |-> tag, key |-> bsp.key, block_nr |-> bsp.block_nr + i - 1, piece |-> pieces[i]]]

encrypt_and_mac(bsp, tag, data) == Authenticated(bsp, Encrypt(bsp, tag, Pieces(data)))

\* Mutant: the block counter does not count segments with a MAC only.
mac_only_uncounted(bsp, tag, data) ==
    LET done == Authenticated(bsp, [i \in 1..Len(Pieces(data)) |->
                                      [tag |-> tag, piece |-> Pieces(data)[i]]])
    IN  [done EXCEPT !.bsp.block_nr = bsp.block_nr]

mac_only(bsp, tag, data) ==
    Authenticated(bsp, [i \in 1..Len(Pieces(data)) |->
                          [tag |-> tag, piece |-> Pieces(data)[i]]])

Items(segments) == [i \in 1..Len(segments) |-> segments[i].item]

\* verify of every segment in turn, along the chain; the first failure raises.
verify(bsp, segments) ==
    \A i \in 1..Len(segments) : segments[i].mac = Mac(bsp, Items(segments), i)

Advanced(bsp, segments) == Authenticated(bsp, Items(segments)).bsp

\* Decryption with another key or counter yields bytes that are no plaintext.
decrypt(bsp, segments) ==
    IF \A i \in 1..Len(segments) :
         /\ segments[i].item.key = bsp.key
         /\ segments[i].item.block_nr = bsp.block_nr + i - 1
    THEN [i \in 1..Len(segments) |-> segments[i].item.piece]
    ELSE <<>>

demac_and_decrypt(bsp, segments, data) ==
    verify(bsp, segments) /\ Joined(decrypt(bsp, segments), data)

demac_only(bsp, segments, data) ==
    verify(bsp, segments) /\ Joined([i \in 1..Len(segments) |-> segments[i].item.piece], data)

-----------------------------------------------------------------------------
(* BoundProfilePackage.                                                    *)

\* The lengths of the two requests that do not depend on the Profile.
configureISDP == [name |-> "ConfigureISDPRequest", length |-> 3]
replaceSessionKeys == [name |-> "ReplaceSessionKeysRequest", length |-> 57]
storeMetadata(profile) == [name |-> profile.name, length |-> profile.metadata]
Upp(profile) == [name |-> profile.name, length |-> profile.length]

\* The fixed keys of ProtectedProfilePackage.from_upp in osmo-smdpp.py.
ppk == "ppk"

\* What the eUICC and the SM-DP+ derive from their one-time keys.
SharedKey(euicc_otpk, smdp_otpk) == <<euicc_otpk, smdp_otpk>>

encode(euicc_otpk, smdp_otpk, profile) ==
    LET ppp == encrypt_and_mac(BspInstance(ppk), 134, Upp(profile))
        bsp == BspInstance(SharedKey(euicc_otpk, smdp_otpk))
        firstSeqOf87 == encrypt_and_mac(bsp, 135, configureISDP)
        seqOf88 == mac_only(firstSeqOf87.bsp, 136, storeMetadata(profile))
        secondSeqOf87 == encrypt_and_mac(seqOf88.bsp, 135, replaceSessionKeys)
    IN  [smdpOtpk |-> smdp_otpk,
         firstSeqOf87 |-> firstSeqOf87.segments,
         seqOf88 |-> seqOf88.segments,
         secondSeqOf87 |-> secondSeqOf87.segments,
         seqOf86 |-> ppp.segments]

\* decode on an eUICC with the one-time key euicc_ot yields this profile.
Decodes(euicc_ot, bpp, profile) ==
    LET bsp == BspInstance(SharedKey(euicc_ot, bpp.smdpOtpk))
        after87 == Advanced(bsp, bpp.firstSeqOf87)
        after88 == Advanced(after87, bpp.seqOf88)
    IN  /\ demac_and_decrypt(bsp, bpp.firstSeqOf87, configureISDP)
        /\ demac_only(after87, bpp.seqOf88, storeMetadata(profile))
        /\ demac_and_decrypt(after88, bpp.secondSeqOf87, replaceSessionKeys)
        /\ demac_and_decrypt(BspInstance(ppk), bpp.seqOf86, Upp(profile))

-----------------------------------------------------------------------------
(* Sizes on the wire.                                                      *)

PieceLength(piece) == piece.to - piece.from

\* tag, length, content and MAC of a segment
Size(content) == TAG_LEN + LengthOfLength(content + l_mac) + content + l_mac
EncryptedSize(segment) == Size(Padded(PieceLength(segment.item.piece)))
MacOnlySize(segment) == Size(PieceLength(segment.item.piece))
=============================================================================
