---------------------------- MODULE SmdppProofs -----------------------------
(***************************************************************************)
(* Proofs about BoundProfile, for every Profile, every pair of keys and    *)
(* every length, and about Smdpp, for any sets of eUICCs, transactions,    *)
(* Profiles and nonces, any queue and any number of restarts.              *)
(*                                                                         *)
(* A package opens because three things agree: what the client asked for,  *)
(* what its post carries, and what the session has kept of it.  Posts      *)
(* outlive their clients, so the invariant speaks of every post under way: *)
(* if some client still has its transaction, it is the one that sent it,   *)
(* and it waits for just this answer.                                      *)
(***************************************************************************)
EXTENDS Smdpp, Integers, SequenceTheorems, FiniteSetTheorems, TLAPS

-----------------------------------------------------------------------------
(* Sizes.                                                                  *)

(* The payload of a segment is a whole number of blocks. *)
LEMMA PayloadIs1008 == max_payload_size = 1008
  BY DEF max_payload_size, MAX_SEGMENT_SIZE, TAG_LEN, LengthOfLength, l_mac

(* An encrypted piece is longer than a segment may be (bsp.py:22-23) exactly when it
   fills its segment: the 80 of the padding then takes a block of its own
   (BspAlgoCryptAES128._get_padding, encrypt_and_mac). *)
THEOREM OnlyFullPiecesOverflow ==
    \A n \in 1..max_payload_size :
      Size(Padded(n)) > MAX_SEGMENT_SIZE <=> n = max_payload_size
<1> SUFFICES ASSUME NEW n \in 1..1008
             PROVE  Size(Padded(n)) > 1020 <=> n = 1008
  BY PayloadIs1008 DEF MAX_SEGMENT_SIZE
<1>1. CASE n = 1008
  <2>1. Padded(n) = 1024
    BY <1>1 DEF Padded, blocksize
  <2>2. QED
    BY <1>1, <2>1 DEF Size, TAG_LEN, LengthOfLength, l_mac
<1>2. CASE n # 1008
  <2> DEFINE b == n \div 16
  <2>1. b \in Nat /\ b <= 62
    BY <1>2
  <2>2. Padded(n) = (b + 1) * 16
    BY DEF Padded, blocksize
  <2>3. Padded(n) \in Nat /\ Padded(n) <= 1008
    BY <2>1, <2>2
  <2>4. QED
    BY <1>2, <2>3 DEF Size, TAG_LEN, LengthOfLength, l_mac
<1>3. QED
  BY <1>1, <1>2

(* A segment with a MAC only is never too long (mac_only). *)
THEOREM MacOnlyFits ==
    \A n \in 1..max_payload_size : Size(n) <= MAX_SEGMENT_SIZE
  BY PayloadIs1008 DEF Size, TAG_LEN, LengthOfLength, l_mac, MAX_SEGMENT_SIZE

-----------------------------------------------------------------------------
(* The instances of the two ends.                                          *)

(* Items reads off what Authenticated has put in. *)
LEMMA ItemsOfAuthenticated ==
    ASSUME NEW bsp, NEW S, NEW items \in Seq(S)
    PROVE  /\ Items(Authenticated(bsp, items).segments) = items
           /\ Len(Authenticated(bsp, items).segments) = Len(items)
<1> DEFINE segs == Authenticated(bsp, items).segments
<1>1. segs = [i \in 1..Len(items) |-> [item |-> items[i], mac |-> Mac(bsp, items, i)]]
  BY DEF Authenticated
<1>2. Len(items) \in Nat /\ DOMAIN items = 1..Len(items)
  OBVIOUS
<1>3. Len(segs) = Len(items) /\ \A i \in 1..Len(items) : segs[i].item = items[i]
  BY <1>1, <1>2
<1>4. Items(segs) = [i \in 1..Len(items) |-> items[i]]
  BY <1>3 DEF Items
<1>5. items = [i \in 1..Len(items) |-> items[i]]
  BY <1>2
<1>6. QED
  BY <1>3, <1>4, <1>5

(* Whoever starts where the sender did verifies every segment, and ends where the sender
   does: block counter and MAC chain agree. *)
LEMMA SegmentsVerify ==
    ASSUME NEW bsp, NEW S, NEW items \in Seq(S)
    PROVE  LET done == Authenticated(bsp, items)
           IN  verify(bsp, done.segments) /\ Advanced(bsp, done.segments) = done.bsp
<1> DEFINE done == Authenticated(bsp, items)
<1>1. Items(done.segments) = items /\ Len(done.segments) = Len(items)
  BY ItemsOfAuthenticated
<1>2. \A i \in 1..Len(items) : done.segments[i].mac = Mac(bsp, items, i)
  BY DEF Authenticated
<1>3. verify(bsp, done.segments)
  BY <1>1, <1>2 DEF verify
<1>4. Advanced(bsp, done.segments) = done.bsp
  BY <1>1 DEF Advanced
<1>5. QED
  BY <1>3, <1>4

(* The pieces of a plaintext are a sequence. *)
LEMMA PiecesAreSequence ==
    ASSUME NEW data, data.length \in Nat
    PROVE  \E S : Pieces(data) \in Seq(S)
<1> DEFINE n == (data.length + max_payload_size - 1) \div max_payload_size
           S == {Pieces(data)[i] : i \in 1..n}
<1>1. n \in Nat
  BY PayloadIs1008
<1>2. Pieces(data) = [i \in 1..n |-> Pieces(data)[i]]
  BY DEF Pieces
<1>3. Pieces(data) \in [1..n -> S]
  <2> HIDE DEF n
  <2>1. \A i \in 1..n : Pieces(data)[i] \in S
    OBVIOUS
  <2>2. QED
    BY <1>2, <2>1
<1>4. [1..n -> S] \subseteq Seq(S)
  <2> HIDE DEF n, S
  <2>1. QED
    BY <1>1
<1>5. QED
  BY <1>3, <1>4

(* What encrypt_and_mac makes of a plaintext opens again, where the counters and chains
   of the ends agree. *)
LEMMA EncryptedOpens ==
    ASSUME NEW bsp, NEW tag, NEW data, data.length \in Nat
    PROVE  LET done == encrypt_and_mac(bsp, tag, data)
           IN  /\ demac_and_decrypt(bsp, done.segments, data)
               /\ Advanced(bsp, done.segments) = done.bsp
<1> DEFINE items == Encrypt(bsp, tag, Pieces(data))
           segs == Authenticated(bsp, items).segments
           n == Len(Pieces(data))
           T == {items[i] : i \in 1..n}
<1>1. PICK S : Pieces(data) \in Seq(S)
  BY PiecesAreSequence
<1>2. n \in Nat /\ Pieces(data) = [i \in 1..n |-> Pieces(data)[i]]
  BY <1>1
<1>3. items = [i \in 1..n |-> [tag |-> tag, key |-> bsp.key,
                               block_nr |-> bsp.block_nr + i - 1, piece |-> Pieces(data)[i]]]
  BY DEF Encrypt
<1>4. items \in Seq(T) /\ Len(items) = n
  <2>1. items \in [1..n -> T]
    BY <1>3
  <2>2. QED
    <3> HIDE DEF T, n
    <3>1. QED
      BY <1>2, <2>1
<1>5. /\ Items(segs) = items
      /\ Len(segs) = n
      /\ verify(bsp, segs)
      /\ Advanced(bsp, segs) = Authenticated(bsp, items).bsp
  <2> HIDE DEF T, items
  <2>1. QED
    BY <1>4, ItemsOfAuthenticated, SegmentsVerify
<1>6. \A i \in 1..n : segs[i].item = items[i]
  <2> HIDE DEF T, n, items
  <2>1. QED
    BY <1>4 DEF Authenticated
<1>7. /\ \A i \in 1..Len(segs) : /\ segs[i].item.key = bsp.key
                                 /\ segs[i].item.block_nr = bsp.block_nr + i - 1
      /\ \A i \in 1..Len(segs) : segs[i].item.piece = Pieces(data)[i]
  <2>1. \A i \in 1..n : /\ items[i].key = bsp.key
                        /\ items[i].block_nr = bsp.block_nr + i - 1
                        /\ items[i].piece = Pieces(data)[i]
    BY <1>3
  <2>2. QED
    <3> HIDE DEF items, n, segs
    <3>1. QED
      BY <1>5, <1>6, <2>1
<1>8. decrypt(bsp, segs) = [i \in 1..n |-> Pieces(data)[i]]
  <2> HIDE DEF items, n, segs
  <2>1. QED
    BY <1>5, <1>7 DEF decrypt
<1>9. Joined(decrypt(bsp, segs), data)
  <2> HIDE DEF items, n, segs
  <2>1. QED
    BY <1>2, <1>8 DEF Joined
<1>10. QED
  BY <1>5, <1>9 DEF encrypt_and_mac, demac_and_decrypt

(* ... and so does what mac_only makes of one. *)
LEMMA AuthenticatedOpens ==
    ASSUME NEW bsp, NEW tag, NEW data, data.length \in Nat
    PROVE  LET done == mac_only(bsp, tag, data)
           IN  /\ demac_only(bsp, done.segments, data)
               /\ Advanced(bsp, done.segments) = done.bsp
<1> DEFINE items == [i \in 1..Len(Pieces(data)) |-> [tag |-> tag, piece |-> Pieces(data)[i]]]
           segs == Authenticated(bsp, items).segments
           n == Len(Pieces(data))
           T == {items[i] : i \in 1..n}
<1>1. PICK S : Pieces(data) \in Seq(S)
  BY PiecesAreSequence
<1>2. n \in Nat /\ Pieces(data) = [i \in 1..n |-> Pieces(data)[i]]
  BY <1>1
<1>4. items \in Seq(T) /\ Len(items) = n
  <2>1. items \in [1..n -> T]
    OBVIOUS
  <2>2. QED
    <3> HIDE DEF T, n, items
    <3>1. QED
      BY <1>2, <2>1
<1>5. /\ Len(segs) = n
      /\ verify(bsp, segs)
      /\ Advanced(bsp, segs) = Authenticated(bsp, items).bsp
  <2> HIDE DEF T, items
  <2>1. QED
    BY <1>4, ItemsOfAuthenticated, SegmentsVerify
<1>6. \A i \in 1..n : segs[i].item = items[i]
  <2> HIDE DEF T, n, items
  <2>1. QED
    BY <1>4 DEF Authenticated
<1>7. [i \in 1..Len(segs) |-> segs[i].item.piece] = [i \in 1..n |-> Pieces(data)[i]]
  <2>1. \A i \in 1..n : items[i].piece = Pieces(data)[i]
    OBVIOUS
  <2>2. QED
    <3> HIDE DEF items, n, segs
    <3>1. QED
      BY <1>5, <1>6, <2>1
<1>8. demac_only(bsp, segs, data)
  <2> HIDE DEF items, n, segs
  <2>1. QED
    BY <1>2, <1>5, <1>7 DEF demac_only, Joined
<1>9. QED
  BY <1>5, <1>8 DEF mac_only

(* The package that encode binds to an eUICC's one-time key opens on that eUICC, for every
   Profile, of any length, and all keys (es8p.py:185-306). *)
THEOREM PackageRoundTrip ==
    ASSUME NEW device_key, NEW server_key, NEW profile,
           profile.length \in Nat, profile.metadata \in Nat
    PROVE  Decodes(device_key, encode(device_key, server_key, profile), profile)
<1> DEFINE bpp == encode(device_key, server_key, profile)
           bsp == BspInstance(SharedKey(device_key, server_key))
           first == encrypt_and_mac(bsp, 135, configureISDP)
           metadata == mac_only(first.bsp, 136, storeMetadata(profile))
           second == encrypt_and_mac(metadata.bsp, 135, replaceSessionKeys)
           ppp == encrypt_and_mac(BspInstance(ppk), 134, Upp(profile))
<1>1. /\ bpp.smdpOtpk = server_key
      /\ bpp.firstSeqOf87 = first.segments
      /\ bpp.seqOf88 = metadata.segments
      /\ bpp.secondSeqOf87 = second.segments
      /\ bpp.seqOf86 = ppp.segments
  BY DEF encode
<1>2. /\ configureISDP.length \in Nat
      /\ replaceSessionKeys.length \in Nat
      /\ storeMetadata(profile).length \in Nat
      /\ Upp(profile).length \in Nat
  BY DEF configureISDP, replaceSessionKeys, storeMetadata, Upp
<1>3. /\ demac_and_decrypt(bsp, first.segments, configureISDP)
      /\ Advanced(bsp, first.segments) = first.bsp
  BY <1>2, EncryptedOpens
<1>4. /\ demac_only(first.bsp, metadata.segments, storeMetadata(profile))
      /\ Advanced(first.bsp, metadata.segments) = metadata.bsp
  BY <1>2, AuthenticatedOpens
<1>5. demac_and_decrypt(metadata.bsp, second.segments, replaceSessionKeys)
  BY <1>2, EncryptedOpens
<1>6. demac_and_decrypt(BspInstance(ppk), ppp.segments, Upp(profile))
  BY <1>2, EncryptedOpens
<1>7. QED
  BY <1>1, <1>3, <1>4, <1>5, <1>6 DEF Decodes

-----------------------------------------------------------------------------
(* Segments of one instance, dropped, repeated or in another order, verify only where
   they are the first ones, in their order: the MACs of a chain name all that went
   before (BspAlgoMac.verify). *)
THEOREM OnlyPrefixVerifies ==
    ASSUME NEW bsp, NEW S, NEW items \in Seq(S), bsp.mac_chain \in Seq(S),
           NEW received \in Seq(Range(Authenticated(bsp, items).segments)),
           verify(bsp, received)
    PROVE  /\ Len(received) <= Len(items)
           /\ received = SubSeq(Authenticated(bsp, items).segments, 1, Len(received))
<1> DEFINE sent == Authenticated(bsp, items).segments
           n == Len(items)
           own == Items(received)
<1>1. /\ n \in Nat
      /\ sent = [i \in 1..n |-> [item |-> items[i], mac |-> Mac(bsp, items, i)]]
      /\ Len(sent) = n
  BY DEF Authenticated
<1>2. received \in [1..Len(received) -> Range(sent)] /\ Len(received) \in Nat
  OBVIOUS
<1>3. \A i \in 1..Len(received) : \E j \in 1..n : received[i] = sent[j]
  <2> SUFFICES ASSUME NEW i \in 1..Len(received)
               PROVE  \E j \in 1..n : received[i] = sent[j]
    OBVIOUS
  <2>1. received[i] \in Range(sent)
    BY <1>2
  <2>2. DOMAIN sent = 1..n
    BY <1>1
  <2>3. QED
    BY <2>1, <2>2 DEF Range
<1>4. own \in Seq(S) /\ Len(own) = Len(received)
  <2>1. own = [i \in 1..Len(received) |-> received[i].item]
    BY DEF Items
  <2>2. \A i \in 1..Len(received) : received[i].item \in S
    <3> SUFFICES ASSUME NEW i \in 1..Len(received)
                 PROVE  received[i].item \in S
      OBVIOUS
    <3>1. PICK j \in 1..n : received[i] = sent[j]
      BY <1>3
    <3>2. sent[j].item = items[j]
      BY <1>1
    <3>3. QED
      BY <3>1, <3>2
  <2>3. QED
    <3> HIDE DEF own
    <3>1. own \in [1..Len(received) -> S]
      BY <2>1, <2>2
    <3>2. QED
      BY <1>2, <3>1
<1>5. ASSUME NEW i \in 1..Len(received), NEW j \in 1..n, received[i] = sent[j]
      PROVE  i = j
  <2>1. received[i].mac = Mac(bsp, own, i)
    BY DEF verify
  <2>2. sent[j].mac = Mac(bsp, items, j)
    BY <1>1
  <2>3. bsp.mac_chain \o SubSeq(own, 1, i) = bsp.mac_chain \o SubSeq(items, 1, j)
    <3>1. Mac(bsp, own, i) = Mac(bsp, items, j)
      <4> HIDE DEF own, sent, n
      <4>1. QED
        BY <1>5, <2>1, <2>2
    <3>2. Mac(bsp, own, i).over = Mac(bsp, items, j).over
      <4> HIDE DEF own, sent, n
      <4>1. QED
        BY <3>1
    <3>3. QED
      <4> HIDE DEF own, sent, n
      <4>1. QED
        BY <3>2 DEF Mac
  <2>4. /\ SubSeq(own, 1, i) \in Seq(S) /\ Len(SubSeq(own, 1, i)) = i
        /\ SubSeq(items, 1, j) \in Seq(S) /\ Len(SubSeq(items, 1, j)) = j
    <3> HIDE DEF own
    <3>1. QED
      BY <1>1, <1>2, <1>4, SubSeqProperties
  <2>5. QED
    <3> HIDE DEF own
    <3>1. QED
      BY <1>1, <1>2, <2>3, <2>4
<1>6. \A i \in 1..Len(received) : i \in 1..n /\ received[i] = sent[i]
  BY <1>3, <1>5
<1>7. Len(received) <= n
  <2>1. CASE Len(received) = 0
    BY <1>1, <2>1
  <2>2. CASE Len(received) # 0
    <3>1. Len(received) \in 1..Len(received)
      BY <1>2, <2>2
    <3>2. Len(received) \in 1..n
      <4> HIDE DEF n, sent, own
      <4>1. QED
        BY <1>6, <3>1
    <3>3. QED
      <4> HIDE DEF n, sent, own
      <4>1. QED
        BY <1>1, <3>2
  <2>3. QED
    BY <2>1, <2>2
<1>8. received = SubSeq(sent, 1, Len(received))
  <2>1. SubSeq(sent, 1, Len(received)) = [i \in 1..Len(received) |-> sent[i]]
    <3>1. sent \in Seq(Range(sent))
      <4>1. sent \in [1..n -> Range(sent)]
        BY <1>1 DEF Range
      <4>2. QED
        <5> HIDE DEF sent, n
        <5>1. QED
          BY <1>1, <4>1
    <3>2. QED
      <4> HIDE DEF sent, n
      <4>1. QED
        BY <1>1, <1>2, <1>7, <3>1, SubSeqProperties
  <2>2. QED
    BY <1>2, <1>6, <2>1
<1>9. QED
  BY <1>7, <1>8
-----------------------------------------------------------------------------
(* Who waits for which post.                                             *)


\* The posts of a download, and the step of the client that waits for each.
StepOf == [authenticateClient |-> "authenticate", getBoundProfilePackage |-> "package"]
OfDownload(post) == post.call \in {"authenticateClient", "getBoundProfilePackage"}

\* A client that has a transaction was answered; no other client has it.
ClientsApart ==
    /\ \A e \in Euicc :
         /\ lpa[e].step \in {"idle", "initiate"} => lpa[e].tx = NoTransaction
         /\ lpa[e].tx # NoTransaction => lpa[e].tx \in opened /\ lpa[e].profile \in Profile
         /\ lpa[e].step \in {"authenticate", "package", "install"} => lpa[e].tx \in Transaction
         /\ lpa[e].step = "initiate" => lpa[e].profile \in Profile
    /\ \A e, f \in Euicc : lpa[e].tx = lpa[f].tx /\ lpa[e].tx # NoTransaction => e = f

\* A post under way is waited for by its own client, or by none.
AwaitedBy(post, e) ==
    lpa[e].tx = post.tx =>
      /\ e = post.euicc
      /\ lpa[e].posted
      /\ lpa[e].step = StepOf[post.call]
      /\ lpa[e].profile = post.profile

PostsAwaited ==
    \A post \in wire :
      OfDownload(post) => post.tx \in opened /\ \A e \in Euicc : AwaitedBy(post, e)

\* What is remembered of the nonces: those taken since the last overflow, that one included.
NoncesRemembered ==
    /\ IsFiniteSet(nonces)
    /\ Cardinality(nonces) <= Len(taken)
    /\ \A k \in overflows : Cardinality(nonces) <= (Len(taken) - k) + 1
    /\ \A i \in 1..Len(taken) : taken[i] \in nonces \/ \E k \in overflows : i < k

IInv ==
    /\ TypeOK
    /\ ClientsApart
    /\ PostsAwaited
    /\ AnsweredCanGoOn
    /\ PackageOpens
    /\ NoncesRemembered
    /\ RepeatNeedsOverflow

-----------------------------------------------------------------------------
LEMMA InitIInv == Init => IInv
<1> SUFFICES ASSUME Init PROVE IInv
  OBVIOUS
<1> USE DEF Init
<1>1. <<>> \in Seq(Nonce) /\ Len(<<>>) = 0
  OBVIOUS
<1>2. DOMAIN rss = {}
  OBVIOUS
<1>3. TypeOK
  BY <1>1, <1>2, SmdppAssumption DEF TypeOK, Client, Step, Stopped
<1>4. ClientsApart
  <2>1. \A e \in Euicc : lpa[e].tx = NoTransaction /\ lpa[e].step = "idle"
    BY DEF Stopped
  <2>2. QED
    BY <2>1 DEF ClientsApart
<1>5. PostsAwaited /\ AnsweredCanGoOn /\ PackageOpens
  BY DEF PostsAwaited, AnsweredCanGoOn, PackageOpens, Stopped
<1>6. NoncesRemembered
  BY <1>1, FS_EmptySet DEF NoncesRemembered
<1>7. RepeatNeedsOverflow
  BY <1>1 DEF RepeatNeedsOverflow
<1>8. QED
  BY <1>3, <1>4, <1>5, <1>6, <1>7 DEF IInv

\* A key is known by its transaction, and the two cases are two keys.
LEMMA Keyed ==
    ASSUME NEW s \in Transaction, NEW t \in Transaction
    PROVE  /\ Outer(s) \in Key /\ b2h(s) \in Key
           /\ Outer(s) # b2h(t)
           /\ Outer(s) = Outer(t) <=> s = t
           /\ Outer(s).tx = s /\ b2h(s).tx = s
<1>1. "upper" # "lower"
  OBVIOUS
<1>2. Outer(s).case = "upper" /\ b2h(t).case = "lower" /\ Outer(s).tx = s /\ Outer(t).tx = t
      /\ b2h(s).tx = s
  BY DEF Outer, b2h
<1>3. QED
  BY <1>1, <1>2 DEF Key, Outer, b2h

LEMMA Storing ==
    ASSUME NEW key, NEW ss, rss' = Stored(key, ss)
    PROVE  /\ DOMAIN rss' = DOMAIN rss \cup {key}
           /\ \A other \in DOMAIN rss \cup {key} :
                rss'[other] = IF other = key THEN ss ELSE rss[other]
  BY DEF Stored

LEMMA Deleting ==
    ASSUME NEW key, rss' = Deleted(key)
    PROVE  /\ DOMAIN rss' = DOMAIN rss \ {key}
           /\ \A other \in DOMAIN rss \ {key} : rss'[other] = rss[other]
  BY DEF Deleted

\* Steps that forget sessions, posts or clients, and no more, disturb no download.
LEMMA Forgetting ==
    ASSUME IInv, UNCHANGED opened,
           wire' \subseteq wire \/
             \A post \in wire' \ wire : ~OfDownload(post),
           \A e \in Euicc : lpa'[e] = lpa[e] \/ lpa'[e] = Stopped,
           DOMAIN rss' \subseteq DOMAIN rss,
           \A key \in DOMAIN rss' : rss'[key] = rss[key]
    PROVE  ClientsApart' /\ PostsAwaited' /\ AnsweredCanGoOn' /\ PackageOpens'
<1> USE DEF IInv
<1>1. \A e \in Euicc : lpa'[e] = Stopped =>
        /\ lpa'[e].tx = NoTransaction
        /\ lpa'[e].step = "idle"
  BY DEF Stopped
<1>2. ClientsApart'
  BY <1>1 DEF ClientsApart
<1>3. PostsAwaited'
  <2>1. \A post \in wire' : OfDownload(post) => post \in wire
    OBVIOUS
  <2>2. ASSUME NEW post \in wire', OfDownload(post), NEW e \in Euicc
        PROVE  AwaitedBy(post, e)'
    <3>1. post \in wire
      BY <2>1, <2>2
    <3>2. AwaitedBy(post, e) /\ post.tx \in Transaction
      BY <2>2, <3>1 DEF PostsAwaited, TypeOK
    <3>3. QED
      BY <1>1, <3>2, SmdppAssumption DEF AwaitedBy
  <2>3. QED
    BY <2>1, <2>2 DEF PostsAwaited, OfDownload
<1>4. AnsweredCanGoOn'
  BY <1>1 DEF AnsweredCanGoOn, Known, SessionOf
<1>5. PackageOpens'
  BY <1>1 DEF PackageOpens
<1>6. QED
  BY <1>2, <1>3, <1>4, <1>5

LEMMA NoncesKept ==
    ASSUME IInv, UNCHANGED <<nonces, taken, overflows>>
    PROVE  NoncesRemembered' /\ RepeatNeedsOverflow'
  BY DEF IInv, NoncesRemembered, RepeatNeedsOverflow

LEMMA DownloadStep ==
    ASSUME IInv, NEW e \in Euicc, NEW p \in Profile, Download(e, p)
    PROVE  IInv'
<1> DEFINE next == [Stopped EXCEPT !.step = "initiate", !.profile = p]
<1>1. next \in Client /\ next.step = "initiate" /\ next.tx = NoTransaction /\ next.profile = p
  BY DEF Stopped, Client, Step
<1>2. lpa' = [lpa EXCEPT ![e] = next]
  BY DEF Download
<1> HIDE DEF next
<1>3. UNCHANGED <<rsp_mode, rss, opened, wire, restarts, nonces, taken, overflows>>
  BY DEF Download, relayed
<1>4. lpa'[e] = next /\ \A f \in Euicc \ {e} : lpa'[f] = lpa[f]
  BY <1>2 DEF IInv, TypeOK
<1>5. TypeOK'
  BY <1>1, <1>2, <1>3 DEF IInv, TypeOK
<1>6. ClientsApart'
  <2>1. ASSUME NEW f \in Euicc
        PROVE  /\ lpa'[f].step \in {"idle", "initiate"} => lpa'[f].tx = NoTransaction
               /\ lpa'[f].tx # NoTransaction =>
                    lpa'[f].tx \in opened' /\ lpa'[f].profile \in Profile
               /\ lpa'[f].step \in {"authenticate", "package", "install"} =>
                    lpa'[f].tx \in Transaction
               /\ lpa'[f].step = "initiate" => lpa'[f].profile \in Profile
    BY <1>1, <1>3, <1>4 DEF IInv, ClientsApart
  <2>2. ASSUME NEW f \in Euicc, NEW g \in Euicc,
               lpa'[f].tx = lpa'[g].tx, lpa'[f].tx # NoTransaction
        PROVE  f = g
    BY <1>1, <1>4, <2>2 DEF IInv, ClientsApart
  <2>3. QED
    BY <2>1, <2>2 DEF ClientsApart
<1>7. PostsAwaited'
  <2>1. \A post \in wire : post.tx # NoTransaction
    BY SmdppAssumption DEF IInv, TypeOK, Post
  <2>2. ASSUME NEW post \in wire, OfDownload(post), NEW f \in Euicc
        PROVE  AwaitedBy(post, f)'
    <3>1. AwaitedBy(post, f)
      BY <2>2 DEF IInv, PostsAwaited
    <3>2. lpa'[f] = lpa[f] \/ lpa'[f].tx = NoTransaction
      BY <1>1, <1>4
    <3>3. QED
      BY <2>1, <3>1, <3>2 DEF AwaitedBy
  <2>3. QED
    BY <1>3, <2>2 DEF IInv, PostsAwaited, OfDownload
<1>8. AnsweredCanGoOn' /\ PackageOpens'
  <2>1. \A f \in Euicc : lpa'[f] = lpa[f] \/ lpa'[f].step = "initiate"
    BY <1>1, <1>4
  <2>2. AnsweredCanGoOn'
    BY <1>3, <2>1 DEF IInv, AnsweredCanGoOn, Known, SessionOf
  <2>3. PackageOpens'
    BY <2>1 DEF IInv, PackageOpens
  <2>4. QED
    BY <2>2, <2>3
<1>9. NoncesRemembered' /\ RepeatNeedsOverflow'
  BY <1>3, NoncesKept
<1>10. QED
  BY <1>5, <1>6, <1>7, <1>8, <1>9 DEF IInv

LEMMA InitiateAuthenticationStep ==
    ASSUME IInv, NEW e \in Euicc, NEW tx \in Transaction, InitiateAuthentication(e, tx)
    PROVE  IInv'
<1> DEFINE ss == [euicc_cert |-> NoEuicc, profile |-> NoProfile]
           key == Outer(tx)
<1>1. /\ lpa[e].step = "initiate"
      /\ tx \notin opened /\ opened' = opened \cup {tx}
      /\ rss' = Stored(key, ss)
      /\ UNCHANGED <<rsp_mode, wire, restarts, nonces, taken, overflows>>
  BY DEF InitiateAuthentication, relayed
<1>2. PICK next \in Client :
        /\ lpa' = [lpa EXCEPT ![e] = next]
        /\ \/ /\ next.step = "authenticate" /\ next.tx = tx
              /\ next.profile = lpa[e].profile
           \/ /\ next.step = "idle" /\ next.tx = NoTransaction
  <2>1. CASE lpa' = [lpa EXCEPT ![e] = Stopped]
    <3>1. Stopped \in Client /\ Stopped.step = "idle" /\ Stopped.tx = NoTransaction
      BY DEF Stopped, Client, Step
    <3>2. QED
      BY <2>1, <3>1
  <2>2. CASE lpa' = [lpa EXCEPT ![e] = [lpa[e] EXCEPT !.step = "authenticate", !.tx = tx]]
    <3> DEFINE next == [lpa[e] EXCEPT !.step = "authenticate", !.tx = tx]
    <3>1. lpa[e] \in Client
      BY DEF IInv, TypeOK
    <3>2. /\ next \in Client /\ next.step = "authenticate" /\ next.tx = tx
          /\ next.profile = lpa[e].profile
      BY <3>1 DEF Client, Step
    <3>3. QED
      BY <2>2, <3>2
  <2>3. QED
    BY <2>1, <2>2 DEF InitiateAuthentication
<1>3. lpa'[e] = next /\ \A f \in Euicc \ {e} : lpa'[f] = lpa[f]
  BY <1>2 DEF IInv, TypeOK
<1>4. lpa[e].profile \in Profile
  BY <1>1 DEF IInv, ClientsApart
<1>5. ss \in Session
  BY DEF Session
<1> HIDE DEF ss, key
<1>6. key \in Key
  BY Keyed DEF key
<1>14. /\ DOMAIN rss' = DOMAIN rss \cup {key}
       /\ \A other \in DOMAIN rss \cup {key} :
            rss'[other] = IF other = key THEN ss ELSE rss[other]
  <2>1. rss' = Stored(key, ss)
    BY <1>1
  <2>2. QED
    BY <2>1, Storing
<1>7. TypeOK'
  <2>1. DOMAIN rss' \subseteq Key
    BY <1>6, <1>14 DEF IInv, TypeOK
  <2>2. \A k \in DOMAIN rss' : rss'[k] \in Session
    BY <1>5, <1>14 DEF IInv, TypeOK
  <2>3. lpa' \in [Euicc -> Client]
    BY <1>2 DEF IInv, TypeOK
  <2>4. QED
    BY <1>1, <2>1, <2>2, <2>3 DEF IInv, TypeOK
<1>8. \A f \in Euicc \ {e} : lpa[f].tx # tx
  BY <1>1, SmdppAssumption DEF IInv, ClientsApart
<1>9. ClientsApart'
  <2>1. ASSUME NEW f \in Euicc
        PROVE  /\ lpa'[f].step \in {"idle", "initiate"} => lpa'[f].tx = NoTransaction
               /\ lpa'[f].tx # NoTransaction =>
                    lpa'[f].tx \in opened' /\ lpa'[f].profile \in Profile
               /\ lpa'[f].step \in {"authenticate", "package", "install"} =>
                    lpa'[f].tx \in Transaction
               /\ lpa'[f].step = "initiate" => lpa'[f].profile \in Profile
    BY <1>1, <1>2, <1>3, <1>4 DEF IInv, ClientsApart
  <2>2. ASSUME NEW f \in Euicc, NEW g \in Euicc,
               lpa'[f].tx = lpa'[g].tx, lpa'[f].tx # NoTransaction
        PROVE  f = g
    BY <1>2, <1>3, <1>8, <2>2 DEF IInv, ClientsApart
  <2>3. QED
    BY <2>1, <2>2 DEF ClientsApart
<1>10. PostsAwaited'
  <2>1. \A post \in wire : post.tx # NoTransaction
    BY SmdppAssumption DEF IInv, TypeOK, Post
  <2>2. ASSUME NEW post \in wire, OfDownload(post), NEW f \in Euicc
        PROVE  AwaitedBy(post, f)'
    <3>1. AwaitedBy(post, f) /\ post.tx # tx
      BY <1>1, <2>2 DEF IInv, PostsAwaited
    <3>2. lpa'[f] = lpa[f] \/ lpa'[f].tx = NoTransaction \/ lpa'[f].tx = tx
      BY <1>2, <1>3
    <3>3. QED
      BY <2>1, <3>1, <3>2 DEF AwaitedBy
  <2>3. QED
    BY <1>1, <2>2 DEF IInv, PostsAwaited, OfDownload
<1>11. AnsweredCanGoOn' /\ PackageOpens'
  <2>1. \A f \in Euicc : lpa'[f] = lpa[f] \/ lpa'[f].step \in {"authenticate", "idle"}
    BY <1>2, <1>3
  <2>2. ASSUME NEW f \in Euicc, lpa'[f].step = "package", Outer(lpa'[f].tx) \in DOMAIN rss'
        PROVE  rss'[Outer(lpa'[f].tx)] = [euicc_cert |-> f, profile |-> lpa'[f].profile]
    <3>1. lpa'[f] = lpa[f] /\ lpa[f].tx \in Transaction /\ lpa[f].tx # tx
      BY <1>1, <2>1, <2>2, SmdppAssumption DEF IInv, ClientsApart
    <3>2. Outer(lpa[f].tx) # key
      BY <3>1, Keyed DEF key
    <3>3. Known(lpa[f].tx) /\ rss'[Outer(lpa[f].tx)] = rss[Outer(lpa[f].tx)]
      BY <1>14, <2>2, <3>1, <3>2 DEF Known
    <3>4. QED
      BY <2>2, <3>1, <3>3 DEF IInv, AnsweredCanGoOn, SessionOf
  <2>3. PackageOpens'
    BY <2>1 DEF IInv, PackageOpens
  <2>4. QED
    BY <2>2, <2>3 DEF AnsweredCanGoOn, Known, SessionOf
<1>12. NoncesRemembered' /\ RepeatNeedsOverflow'
  BY <1>1, NoncesKept
<1>13. QED
  BY <1>7, <1>9, <1>10, <1>11, <1>12 DEF IInv

LEMMA PostNextStep ==
    ASSUME IInv, NEW e \in Euicc, PostNext(e)
    PROVE  IInv'
<1> DEFINE next == [lpa[e] EXCEPT !.posted = TRUE]
           sent == [call |-> IF lpa[e].step = "package" THEN "getBoundProfilePackage"
                             ELSE "authenticateClient",
                    euicc |-> e, tx |-> lpa[e].tx, profile |-> lpa[e].profile]
<1>1. /\ lpa[e].step \in {"authenticate", "package"}
      /\ ~lpa[e].posted
      /\ lpa' = [lpa EXCEPT ![e] = next]
      /\ wire' = wire \cup {sent}
      /\ UNCHANGED <<rsp_mode, rss, opened, restarts, nonces, taken, overflows>>
  BY DEF PostNext, Send, relayed
<1>2. lpa[e] \in Client
  BY DEF IInv, TypeOK
<1>3. /\ next \in Client /\ next.posted = TRUE /\ next.step = lpa[e].step
      /\ next.tx = lpa[e].tx /\ next.profile = lpa[e].profile
  BY <1>2 DEF Client
<1>4. lpa[e].tx \in Transaction /\ lpa[e].tx # NoTransaction /\ lpa[e].tx \in opened
      /\ lpa[e].profile \in Profile
  BY <1>1, SmdppAssumption DEF IInv, ClientsApart
<1>5. sent \in Post /\ sent.euicc = e /\ sent.tx = lpa[e].tx /\ sent.profile = lpa[e].profile
  BY <1>4 DEF Post, Call
<1>6. StepOf[sent.call] = lpa[e].step
  BY <1>1 DEF StepOf
<1>7. lpa'[e] = next /\ \A f \in Euicc \ {e} : lpa'[f] = lpa[f]
  BY <1>1 DEF IInv, TypeOK
<1> HIDE DEF next, sent
<1>8. TypeOK'
  BY <1>1, <1>3, <1>5 DEF IInv, TypeOK
<1>9. \A f \in Euicc : /\ lpa'[f].step = lpa[f].step /\ lpa'[f].tx = lpa[f].tx
                       /\ lpa'[f].profile = lpa[f].profile
                       /\ lpa[f].posted => lpa'[f].posted
  BY <1>1, <1>3, <1>7
<1>10. ClientsApart'
  BY <1>1, <1>9 DEF IInv, ClientsApart
<1>11. PostsAwaited'
  <2>1. ASSUME NEW post \in wire', OfDownload(post), NEW f \in Euicc
        PROVE  post.tx \in opened' /\ AwaitedBy(post, f)'
    <3>1. CASE post \in wire
      BY <1>1, <1>9, <2>1, <3>1 DEF IInv, PostsAwaited, AwaitedBy
    <3>2. CASE post = sent
      <4>1. lpa[f].tx = sent.tx => f = e
        BY <1>4, <1>5 DEF IInv, ClientsApart
      <4>2. QED
        BY <1>1, <1>3, <1>4, <1>5, <1>6, <1>7, <1>9, <3>2, <4>1 DEF AwaitedBy
    <3>3. QED
      BY <1>1, <3>1, <3>2
  <2>2. QED
    BY <2>1 DEF PostsAwaited, OfDownload
<1>12. AnsweredCanGoOn'
  BY <1>1, <1>9 DEF IInv, AnsweredCanGoOn, Known, SessionOf
<1>13. PackageOpens'
  <2>1. \A f \in Euicc : lpa'[f].step = "install" => lpa'[f] = lpa[f]
    BY <1>1, <1>7, <1>9
  <2>2. QED
    BY <1>9, <2>1 DEF IInv, PackageOpens
<1>14. NoncesRemembered' /\ RepeatNeedsOverflow'
  BY <1>1, NoncesKept
<1>15. QED
  BY <1>8, <1>10, <1>11, <1>12, <1>13, <1>14 DEF IInv

\* What a client is told when the answer to its post arrives, or nothing.
LEMMA Answering ==
    ASSUME IInv, NEW post \in wire, OfDownload(post), NEW next \in Client,
           next.tx = lpa[post.euicc].tx,
           next.profile = lpa[post.euicc].profile,
           next.step \in {"package", "install"},
           next.step # lpa[post.euicc].step \/ lpa[post.euicc].tx # post.tx,
           Answer(post, next), UNCHANGED opened
    PROVE  /\ lpa' \in [Euicc -> Client]
           /\ wire' = wire \ {post}
           /\ ClientsApart' /\ PostsAwaited'
           /\ \/ /\ lpa[post.euicc].tx = post.tx
                 /\ lpa[post.euicc].step = StepOf[post.call]
                 /\ lpa[post.euicc].profile = post.profile
                 /\ lpa'[post.euicc] = next
                 /\ \A f \in Euicc \ {post.euicc} : lpa'[f] = lpa[f]
              \/ UNCHANGED lpa
<1> DEFINE e == post.euicc
<1>1. e \in Euicc /\ post.tx \in Transaction /\ post.tx # NoTransaction /\ post.tx \in opened
  BY SmdppAssumption DEF IInv, TypeOK, Post, PostsAwaited
<1>2. wire' = wire \ {post}
  BY DEF Answer
<1>3. CASE UNCHANGED lpa
  <2>1. ClientsApart'
    BY <1>3 DEF IInv, ClientsApart
  <2>2. PostsAwaited'
    BY <1>2, <1>3 DEF IInv, PostsAwaited, OfDownload, AwaitedBy
  <2>3. QED
    BY <1>2, <1>3, <2>1, <2>2 DEF IInv, TypeOK
<1>4. CASE /\ lpa[e].tx = post.tx
           /\ lpa[e].posted
           /\ lpa' = [lpa EXCEPT ![e] = next]
  <2>1. lpa' \in [Euicc -> Client] /\ lpa'[e] = next
        /\ \A f \in Euicc \ {e} : lpa'[f] = lpa[f]
    BY <1>1, <1>4 DEF IInv, TypeOK
  <2>2. AwaitedBy(post, e)
    BY <1>1 DEF IInv, PostsAwaited
  <2>3. lpa[e].step = StepOf[post.call] /\ lpa[e].profile = post.profile
    BY <1>4, <2>2 DEF AwaitedBy
  <2>4. \A f \in Euicc : lpa'[f].tx = lpa[f].tx /\ lpa'[f].profile = lpa[f].profile
    BY <2>1
  <2>5. ClientsApart'
    <3>1. ASSUME NEW f \in Euicc
          PROVE  /\ lpa'[f].step \in {"idle", "initiate"} => lpa'[f].tx = NoTransaction
                 /\ lpa'[f].tx # NoTransaction =>
                      lpa'[f].tx \in opened' /\ lpa'[f].profile \in Profile
                 /\ lpa'[f].step \in {"authenticate", "package", "install"} =>
                      lpa'[f].tx \in Transaction
                 /\ lpa'[f].step = "initiate" => lpa'[f].profile \in Profile
      BY <1>1, <1>4, <2>1, <2>4 DEF IInv, ClientsApart
    <3>2. QED
      BY <2>4, <3>1 DEF IInv, ClientsApart
  <2>6. ASSUME NEW other \in wire', OfDownload(other), NEW f \in Euicc
        PROVE  other.tx \in opened' /\ AwaitedBy(other, f)'
    <3>1. other \in wire /\ other # post
      BY <1>2
    <3>2. other.tx \in opened /\ AwaitedBy(other, f)
      BY <2>6, <3>1 DEF IInv, PostsAwaited
    <3>3. CASE f # e
      BY <2>1, <3>2, <3>3 DEF AwaitedBy
    <3>4. CASE f = e
      <4>1. lpa[e].tx # other.tx
        <5> SUFFICES ASSUME lpa[e].tx = other.tx PROVE FALSE
          OBVIOUS
        <5>1. /\ other.euicc = e /\ other.tx = post.tx
              /\ lpa[e].step = StepOf[other.call] /\ lpa[e].profile = other.profile
          BY <1>4, <3>2, <3>4 DEF AwaitedBy
        <5>2. other.call = post.call
          <6>1. "authenticate" # "package"
            OBVIOUS
          <6>2. QED
            BY <2>3, <2>6, <5>1, <6>1 DEF OfDownload, StepOf
        <5>3. other \in Post /\ post \in Post
          BY <3>1 DEF IInv, TypeOK
        <5>4. other.euicc = post.euicc /\ other.profile = post.profile
          BY <2>3, <5>1
        <5>5. other = post
          BY <5>1, <5>2, <5>3, <5>4 DEF Post
        <5>6. QED
          BY <3>1, <5>5
      <4>2. QED
        BY <2>4, <3>2, <3>4, <4>1 DEF AwaitedBy
    <3>5. QED
      BY <3>2, <3>3, <3>4
  <2>7. PostsAwaited'
    BY <1>1, <2>6 DEF PostsAwaited, OfDownload
  <2>8. QED
    BY <1>2, <1>4, <2>1, <2>3, <2>5, <2>7
<1>5. QED
  BY <1>3, <1>4 DEF Answer

LEMMA AuthenticateClientStep ==
    ASSUME IInv, NEW post \in wire, AuthenticateClient(post)
    PROVE  IInv'
<1> DEFINE e == post.euicc
           next == [lpa[e] EXCEPT !.step = "package", !.posted = FALSE]
           key == Outer(post.tx)
           ss == [euicc_cert |-> e, profile |-> post.profile]
<1>1. /\ post.call = "authenticateClient"
      /\ key \in DOMAIN rss
      /\ rss' = Stored(key, ss)
      /\ Answer(post, next)
      /\ UNCHANGED <<rsp_mode, opened, restarts, nonces, taken, overflows>>
  BY DEF AuthenticateClient, relayed, Known
<1>2. /\ e \in Euicc /\ post.tx \in Transaction /\ OfDownload(post)
      /\ post.profile \in Profile \cup {NoProfile}
      /\ StepOf[post.call] = "authenticate"
  BY <1>1 DEF IInv, TypeOK, Post, OfDownload, StepOf
<1>3. lpa[e] \in Client
  BY <1>2 DEF IInv, TypeOK
<1>4. /\ next \in Client /\ next.step = "package"
      /\ next.tx = lpa[e].tx /\ next.profile = lpa[e].profile
  BY <1>3 DEF Client, Step
<1>5. ss \in Session
  BY <1>2 DEF Session
<1> HIDE DEF next, ss, key
<1>6. lpa[e].tx = post.tx => lpa[e].step = "authenticate"
  BY <1>2 DEF IInv, PostsAwaited, AwaitedBy
<1>7. /\ lpa' \in [Euicc -> Client]
      /\ wire' = wire \ {post}
      /\ ClientsApart' /\ PostsAwaited'
      /\ \/ /\ lpa[e].tx = post.tx
            /\ lpa[e].profile = post.profile
            /\ lpa'[e] = next
            /\ \A f \in Euicc \ {e} : lpa'[f] = lpa[f]
         \/ UNCHANGED lpa
  <2>1. next.step # lpa[e].step \/ lpa[e].tx # post.tx
    BY <1>4, <1>6
  <2>2. QED
    BY <1>1, <1>2, <1>4, <2>1, Answering
<1>8. /\ DOMAIN rss' = DOMAIN rss \cup {key}
      /\ \A other \in DOMAIN rss \cup {key} :
           rss'[other] = IF other = key THEN ss ELSE rss[other]
  BY <1>1, Storing
<1>9. TypeOK'
  <2>1. DOMAIN rss' \subseteq Key /\ \A k \in DOMAIN rss' : rss'[k] \in Session
    BY <1>1, <1>5, <1>8 DEF IInv, TypeOK
  <2>2. QED
    BY <1>1, <1>7, <2>1 DEF IInv, TypeOK
<1>10. ASSUME NEW f \in Euicc, lpa'[f].step = "package", Outer(lpa'[f].tx) \in DOMAIN rss'
       PROVE  rss'[Outer(lpa'[f].tx)] = [euicc_cert |-> f, profile |-> lpa'[f].profile]
  <2>1. CASE lpa'[f] = lpa[f]
    <3>1. lpa[f].tx \in Transaction
      BY <1>10, <2>1 DEF IInv, ClientsApart
    <3>2. lpa[f].tx # post.tx
      <4>1. lpa[f].tx = post.tx => f = e /\ lpa[f].step = "authenticate"
        BY <1>2 DEF IInv, PostsAwaited, AwaitedBy
      <4>2. QED
        BY <1>10, <2>1, <4>1
    <3>3. Outer(lpa[f].tx) # key
      BY <1>2, <3>1, <3>2, Keyed DEF key
    <3>4. Known(lpa[f].tx) /\ rss'[Outer(lpa[f].tx)] = rss[Outer(lpa[f].tx)]
      BY <1>8, <1>10, <2>1, <3>3 DEF Known
    <3>5. QED
      BY <1>10, <2>1, <3>4 DEF IInv, AnsweredCanGoOn, SessionOf
  <2>2. CASE lpa'[f] # lpa[f]
    <3>1. f = e /\ lpa'[f].tx = post.tx /\ lpa'[f].profile = post.profile
      BY <1>4, <1>7, <2>2
    <3>2. rss'[key] = ss
      BY <1>8
    <3>3. QED
      BY <3>1, <3>2 DEF key, ss
  <2>3. QED
    BY <2>1, <2>2
<1>11. AnsweredCanGoOn'
  BY <1>10 DEF AnsweredCanGoOn, Known, SessionOf
<1>12. PackageOpens'
  <2>1. \A f \in Euicc : lpa'[f] = lpa[f] \/ lpa'[f].step = "package"
    BY <1>4, <1>7
  <2>2. QED
    BY <2>1 DEF IInv, PackageOpens
<1>13. NoncesRemembered' /\ RepeatNeedsOverflow'
  BY <1>1, NoncesKept
<1>14. QED
  BY <1>7, <1>9, <1>11, <1>12, <1>13 DEF IInv

LEMMA GetBoundProfilePackageStep ==
    ASSUME IInv, NEW post \in wire, GetBoundProfilePackage(post)
    PROVE  IInv'
<1> DEFINE e == post.euicc
           package == encode(euicc_otpk(post.tx), smdp_otpk(post.tx),
                             SessionOf(post.tx).profile)
           next == [lpa[e] EXCEPT !.step = "install", !.package = package]
<1>1. /\ post.call = "getBoundProfilePackage"
      /\ Known(post.tx)
      /\ Answer(post, next)
      /\ UNCHANGED <<rsp_mode, rss, opened, restarts, nonces, taken, overflows>>
  BY DEF GetBoundProfilePackage, relayed
<1>2. /\ e \in Euicc /\ post.tx \in Transaction /\ post.tx # NoTransaction
      /\ OfDownload(post) /\ StepOf[post.call] = "package"
  BY <1>1, SmdppAssumption DEF IInv, TypeOK, Post, OfDownload, StepOf
<1>3. lpa[e] \in Client
  BY <1>2 DEF IInv, TypeOK
<1>4. CASE lpa[e].tx = post.tx
  <2>1. lpa[e].step = "package" /\ lpa[e].profile \in Profile
    <3>1. AwaitedBy(post, e)
      BY <1>2 DEF IInv, PostsAwaited
    <3>2. lpa[e].step = "package"
      BY <1>2, <1>4, <3>1 DEF AwaitedBy
    <3>3. lpa[e].profile \in Profile
      BY <1>2, <1>4 DEF IInv, ClientsApart
    <3>4. QED
      BY <3>2, <3>3
  <2>2. SessionOf(post.tx).profile = lpa[e].profile
    <3>1. SessionOf(post.tx) = [euicc_cert |-> e, profile |-> lpa[e].profile]
      BY <1>1, <1>2, <1>4, <2>1 DEF IInv, AnsweredCanGoOn
    <3>2. QED
      BY <3>1
  <2>3. package \in Package
    BY <1>2, <2>1, <2>2 DEF Package
  <2>4. Decodes(euicc_otpk(post.tx), package, lpa[e].profile)
    BY <2>1, <2>2, SmdppAssumption, PackageRoundTrip
  <2> HIDE DEF package
  <2>5. /\ next \in Client /\ next.step = "install" /\ next.package = package
        /\ next.tx = lpa[e].tx /\ next.profile = lpa[e].profile
    BY <1>3, <2>3 DEF Client, Step
  <2> HIDE DEF next
  <2>6. /\ lpa' \in [Euicc -> Client]
        /\ wire' = wire \ {post}
        /\ ClientsApart' /\ PostsAwaited'
        /\ \/ /\ lpa'[e] = next
              /\ \A f \in Euicc \ {e} : lpa'[f] = lpa[f]
           \/ UNCHANGED lpa
    BY <1>1, <1>2, <2>1, <2>5, Answering
  <2>7. TypeOK'
    <3>1. lpa' \in [Euicc -> Client] /\ wire' \subseteq wire
      BY <2>6
    <3>2. QED
      BY <1>1, <3>1 DEF IInv, TypeOK
  <2>8. \A f \in Euicc : lpa'[f] = lpa[f] \/ (f = e /\ lpa'[f] = next)
    BY <2>6
  <2>9. AnsweredCanGoOn'
    BY <1>1, <2>5, <2>8 DEF IInv, AnsweredCanGoOn, Known, SessionOf
  <2>10. PackageOpens'
    BY <1>4, <2>4, <2>5, <2>8 DEF IInv, PackageOpens
  <2>11. QED
    BY <1>1, <2>6, <2>7, <2>9, <2>10, NoncesKept DEF IInv
<1>5. CASE lpa[e].tx # post.tx
  <2>1. UNCHANGED lpa /\ wire' = wire \ {post}
    BY <1>1, <1>5 DEF Answer
  <2>2. TypeOK'
    BY <1>1, <2>1 DEF IInv, TypeOK
  <2>3. QED
    BY <1>1, <2>1, <2>2, Forgetting, NoncesKept DEF IInv
<1>6. QED
  BY <1>4, <1>5

LEMMA PostAloneStep ==
    ASSUME IInv, NEW call \in {"handleNotification", "cancelSession"}, NEW e \in Euicc,
           NEW tx \in opened, PostAlone(call, e, tx)
    PROVE  IInv'
<1> DEFINE sent == [call |-> call, euicc |-> e, tx |-> tx, profile |-> NoProfile]
<1>1. /\ wire' = wire \cup {sent}
      /\ UNCHANGED <<rsp_mode, rss, opened, lpa, restarts, nonces, taken, overflows>>
  BY DEF PostAlone, Send, relayed
<1>2. sent \in Post
  BY DEF Post, Call, IInv, TypeOK
<1>3. ~OfDownload(sent)
  BY DEF OfDownload
<1> HIDE DEF sent
<1>4. TypeOK'
  BY <1>1, <1>2 DEF IInv, TypeOK
<1>5. \A post \in wire' \ wire : ~OfDownload(post)
  BY <1>1, <1>3
<1>6. ClientsApart' /\ PostsAwaited' /\ AnsweredCanGoOn' /\ PackageOpens'
  BY <1>1, <1>5, Forgetting
<1>7. QED
  BY <1>1, <1>4, <1>6, NoncesKept DEF IInv

LEMMA StopStep ==
    ASSUME IInv, NEW e \in Euicc, Stop(e)
    PROVE  IInv'
<1>1. /\ lpa' = [lpa EXCEPT ![e] = Stopped]
      /\ UNCHANGED <<rsp_mode, rss, opened, wire, restarts, nonces, taken, overflows>>
  BY DEF Stop, relayed
<1>2. Stopped \in Client
  BY DEF Stopped, Client, Step
<1>3. TypeOK'
  BY <1>1, <1>2 DEF IInv, TypeOK
<1>4. \A f \in Euicc : lpa'[f] = lpa[f] \/ lpa'[f] = Stopped
  BY <1>1 DEF IInv, TypeOK
<1>5. ClientsApart' /\ PostsAwaited' /\ AnsweredCanGoOn' /\ PackageOpens'
  BY <1>1, <1>4, Forgetting
<1>6. QED
  BY <1>1, <1>3, <1>5, NoncesKept DEF IInv

LEMMA HandleNotificationStep ==
    ASSUME IInv, NEW post \in wire, HandleNotification(post)
    PROVE  IInv'
<1>1. /\ wire' = wire \ {post}
      /\ UNCHANGED <<rsp_mode, opened, lpa, restarts, nonces, taken, overflows>>
      /\ rss' = Deleted(b2h(post.tx)) \/ rss' = rss
  BY DEF HandleNotification, relayed
<1>2. post.tx \in Transaction
  BY DEF IInv, TypeOK, Post
<1>3. DOMAIN rss' \subseteq DOMAIN rss /\ \A key \in DOMAIN rss' : rss'[key] = rss[key]
  BY <1>1, Deleting
<1>4. TypeOK'
  BY <1>1, <1>2, <1>3 DEF IInv, TypeOK
<1>5. ClientsApart' /\ PostsAwaited' /\ AnsweredCanGoOn' /\ PackageOpens'
  BY <1>1, <1>3, Forgetting
<1>6. QED
  BY <1>1, <1>4, <1>5, NoncesKept DEF IInv

LEMMA CancelSessionStep ==
    ASSUME IInv, NEW post \in wire, CancelSession(post)
    PROVE  IInv'
<1>1. /\ wire' = wire \ {post}
      /\ UNCHANGED <<rsp_mode, opened, lpa, restarts, nonces, taken, overflows>>
      /\ rss' = Deleted(Outer(post.tx))
  BY DEF CancelSession, relayed
<1>2. DOMAIN rss' \subseteq DOMAIN rss /\ \A key \in DOMAIN rss' : rss'[key] = rss[key]
  BY <1>1, Deleting
<1>3. TypeOK'
  BY <1>1, <1>2 DEF IInv, TypeOK
<1>4. ClientsApart' /\ PostsAwaited' /\ AnsweredCanGoOn' /\ PackageOpens'
  BY <1>1, <1>2, Forgetting
<1>5. QED
  BY <1>1, <1>3, <1>4, NoncesKept DEF IInv

LEMMA RefuseStep ==
    ASSUME IInv, NEW post \in wire, Refuse(post)
    PROVE  IInv'
<1>1. /\ wire' = wire \ {post}
      /\ UNCHANGED <<rsp_mode, rss, opened, lpa, restarts, nonces, taken, overflows>>
  BY DEF Refuse, relayed
<1>2. TypeOK'
  BY <1>1 DEF IInv, TypeOK
<1>3. ClientsApart' /\ PostsAwaited' /\ AnsweredCanGoOn' /\ PackageOpens'
  BY <1>1, Forgetting
<1>4. QED
  BY <1>1, <1>2, <1>3, NoncesKept DEF IInv

LEMMA RestartStep ==
    ASSUME IInv, Restart
    PROVE  IInv'
<1>1. /\ restarts < MaxRestarts /\ restarts' = restarts + 1
      /\ rss' = rss \/ rss' = <<>>
      /\ wire' = {} /\ nonces' = {} /\ taken' = <<>> /\ overflows' = {}
      /\ UNCHANGED <<rsp_mode, opened, lpa>>
  BY DEF Restart
<1>2. DOMAIN <<>> = {} /\ <<>> \in Seq(Nonce) /\ Len(<<>>) = 0
  OBVIOUS
<1>3. DOMAIN rss' \subseteq DOMAIN rss /\ \A key \in DOMAIN rss' : rss'[key] = rss[key]
  BY <1>1, <1>2
<1>4. TypeOK'
  <2>1. restarts' \in 0..MaxRestarts
    BY <1>1, SmdppAssumption DEF IInv, TypeOK
  <2>2. QED
    BY <1>1, <1>2, <1>3, <2>1 DEF IInv, TypeOK
<1>5. ClientsApart' /\ PostsAwaited' /\ AnsweredCanGoOn' /\ PackageOpens'
  BY <1>1, <1>3, Forgetting
<1>6. NoncesRemembered'
  BY <1>1, <1>2, FS_EmptySet DEF NoncesRemembered
<1>7. RepeatNeedsOverflow'
  BY <1>1, <1>2 DEF RepeatNeedsOverflow
<1>8. QED
  BY <1>4, <1>5, <1>6, <1>7 DEF IInv

LEMMA TakeRelayedStep ==
    ASSUME IInv, NEW n \in Nonce, TakeRelayed(n)
    PROVE  IInv'
<1> DEFINE last == Len(taken) + 1
<1>1. /\ n \notin nonces
      /\ nonces' = Remembered(n) /\ taken' = Append(taken, n)
      /\ overflows' = IF Overflowing(n) THEN overflows \cup {Len(taken')} ELSE overflows
      /\ UNCHANGED <<rsp_mode, rss, opened, lpa, wire, restarts>>
  BY DEF TakeRelayed
<1>2. /\ taken \in Seq(Nonce) /\ taken' \in Seq(Nonce) /\ Len(taken) \in Nat
      /\ Len(taken') = last
      /\ taken'[last] = n
      /\ \A i \in 1..Len(taken) : taken'[i] = taken[i]
  <2>1. taken \in Seq(Nonce)
    BY DEF IInv, TypeOK
  <2>2. QED
    BY <1>1, <2>1, AppendProperties
<1>3. /\ IsFiniteSet(nonces) /\ Cardinality(nonces) \in Nat
      /\ Cardinality(nonces) <= Len(taken)
      /\ \A k \in overflows : Cardinality(nonces) <= (Len(taken) - k) + 1
  BY FS_CardinalityType DEF IInv, NoncesRemembered
<1>4. IsFiniteSet(nonces \cup {n}) /\ Cardinality(nonces \cup {n}) = Cardinality(nonces) + 1
  BY <1>1, <1>3, FS_AddElement
<1>5. IsFiniteSet({n}) /\ Cardinality({n}) = 1
  BY FS_Singleton
<1>6. NonceLimit \in Nat /\ overflows \subseteq 1..Len(taken)
  BY SmdppAssumption DEF IInv, TypeOK
<1>7. n \in nonces' /\ nonces' \subseteq nonces \cup {n}
  BY <1>1 DEF Remembered
<1>8. overflows \subseteq overflows' /\ overflows' \subseteq overflows \cup {last}
  BY <1>1, <1>2
<1>9. TypeOK'
  <2>1. overflows' \subseteq 1..Len(taken')
    BY <1>2, <1>6, <1>8
  <2>2. QED
    BY <1>1, <1>2, <1>7, <2>1 DEF IInv, TypeOK
<1>10. NoncesRemembered'
  <2>1. CASE Overflowing(n)
    <3>1. nonces' = {n} /\ last \in overflows'
      BY <1>1, <1>2, <2>1 DEF Remembered
    <3>2. Cardinality(nonces') = 1 /\ Cardinality(nonces') <= Len(taken')
      BY <1>2, <1>5, <3>1
    <3>3. \A k \in overflows' : Cardinality(nonces') <= (Len(taken') - k) + 1
      BY <1>2, <1>6, <1>8, <3>2
    <3>4. \A i \in 1..Len(taken') : taken'[i] \in nonces' \/ \E k \in overflows' : i < k
      BY <1>2, <3>1
    <3>5. QED
      BY <1>5, <3>1, <3>2, <3>3, <3>4 DEF NoncesRemembered
  <2>2. CASE ~Overflowing(n)
    <3>1. nonces' = nonces \cup {n} /\ overflows' = overflows
      BY <1>1, <2>2 DEF Remembered
    <3>2. Cardinality(nonces') = Cardinality(nonces) + 1
      BY <1>4, <3>1
    <3>3. \A k \in overflows' : Cardinality(nonces') <= (Len(taken') - k) + 1
      BY <1>2, <1>3, <1>6, <3>1, <3>2
    <3>4. \A i \in 1..Len(taken') : taken'[i] \in nonces' \/ \E k \in overflows' : i < k
      BY <1>2, <3>1 DEF IInv, NoncesRemembered
    <3>5. IsFiniteSet(nonces')
      BY <1>4, <3>1
    <3>6. Cardinality(nonces') <= Len(taken')
      BY <1>2, <1>3, <3>2
    <3>7. QED
      BY <3>3, <3>4, <3>5, <3>6 DEF NoncesRemembered
  <2>3. QED
    BY <2>1, <2>2
<1>11. ASSUME NEW i \in 1..Len(taken'), NEW j \in 1..Len(taken'), i < j, taken'[i] = taken'[j]
       PROVE  \E k \in overflows' : i < k /\ k < j
  <2>1. CASE j # last
    <3>1. /\ i \in 1..Len(taken) /\ j \in 1..Len(taken) /\ taken[i] = taken[j]
      BY <1>2, <1>11, <2>1
    <3>2. QED
      BY <1>8, <1>11, <3>1 DEF IInv, RepeatNeedsOverflow
  <2>2. CASE j = last
    <3>1. i \in 1..Len(taken) /\ taken[i] = n
      BY <1>2, <1>11, <2>2
    <3>2. PICK k \in overflows : i < k
      BY <1>1, <3>1 DEF IInv, NoncesRemembered
    <3>3. k < j
      BY <1>2, <1>6, <2>2
    <3>4. QED
      BY <1>8, <3>2, <3>3
  <2>3. QED
    BY <2>1, <2>2
<1>12. ASSUME last \in overflows', last \notin overflows
       PROVE  last > NonceLimit /\ \A k \in overflows : last - k >= NonceLimit
  <2>1. Cardinality(nonces) + 1 > NonceLimit
    BY <1>1, <1>4, <1>12 DEF Overflowing
  <2>2. QED
    BY <1>2, <1>3, <1>6, <2>1
<1>13. RepeatNeedsOverflow'
  <2>1. \A k \in overflows' : k > NonceLimit
    BY <1>8, <1>12 DEF IInv, RepeatNeedsOverflow
  <2>2. ASSUME NEW k \in overflows', NEW l \in overflows', k < l PROVE l - k >= NonceLimit
    <3>1. k \in overflows
      BY <1>2, <1>6, <1>8, <2>2
    <3>2. CASE l \in overflows
      BY <2>2, <3>1, <3>2 DEF IInv, RepeatNeedsOverflow
    <3>3. CASE l \notin overflows
      BY <1>8, <1>12, <3>1, <3>3
    <3>4. QED
      BY <3>2, <3>3
  <2>3. QED
    BY <1>11, <2>1, <2>2 DEF RepeatNeedsOverflow
<1>14. ClientsApart' /\ PostsAwaited' /\ AnsweredCanGoOn' /\ PackageOpens'
  BY <1>1, Forgetting
<1>15. QED
  BY <1>9, <1>10, <1>13, <1>14 DEF IInv

LEMMA Inductive == Spec => []IInv
<1>1. IInv /\ [Next]_vars => IInv'
  <2> SUFFICES ASSUME IInv, [Next]_vars PROVE IInv'
    OBVIOUS
  <2>1. ASSUME NEW e \in Euicc, NEW p \in Profile, Download(e, p) PROVE IInv'
    BY <2>1, DownloadStep
  <2>2. ASSUME NEW e \in Euicc, NEW tx \in Transaction, InitiateAuthentication(e, tx)
        PROVE  IInv'
    BY <2>2, InitiateAuthenticationStep
  <2>3. ASSUME NEW e \in Euicc, PostNext(e) PROVE IInv'
    BY <2>3, PostNextStep
  <2>4. ASSUME NEW call \in {"handleNotification", "cancelSession"}, NEW e \in Euicc,
               NEW tx \in opened, PostAlone(call, e, tx)
        PROVE  IInv'
    BY <2>4, PostAloneStep
  <2>5. ASSUME NEW e \in Euicc, Stop(e) PROVE IInv'
    BY <2>5, StopStep
  <2>6. ASSUME NEW post \in wire, AuthenticateClient(post) PROVE IInv'
    BY <2>6, AuthenticateClientStep
  <2>7. ASSUME NEW post \in wire, GetBoundProfilePackage(post) PROVE IInv'
    BY <2>7, GetBoundProfilePackageStep
  <2>8. ASSUME NEW post \in wire, HandleNotification(post) PROVE IInv'
    BY <2>8, HandleNotificationStep
  <2>9. ASSUME NEW post \in wire, CancelSession(post) PROVE IInv'
    BY <2>9, CancelSessionStep
  <2>10. ASSUME NEW post \in wire, Refuse(post) PROVE IInv'
    BY <2>10, RefuseStep
  <2>11. ASSUME NEW n \in Nonce, TakeRelayed(n) PROVE IInv'
    BY <2>11, TakeRelayedStep
  <2>12. CASE Restart
    BY <2>12, RestartStep
  <2>13. CASE UNCHANGED vars
    <3>1. UNCHANGED <<rsp_mode, rss, opened, lpa, wire, restarts, nonces, taken, overflows>>
      BY <2>13 DEF vars, relayed
    <3>2. TypeOK'
      BY <3>1 DEF IInv, TypeOK
    <3>3. QED
      BY <3>1, <3>2, Forgetting, NoncesKept DEF IInv
  <2>14. QED
    BY <2>1, <2>2, <2>3, <2>4, <2>5, <2>6, <2>7, <2>8, <2>9, <2>10, <2>11, <2>12, <2>13
       DEF Next
<1>2. QED
  BY InitIInv, <1>1, PTL DEF Spec

-----------------------------------------------------------------------------
(* Sessions, clients and posts are of their types; a client's package is one that encode
   makes (rsp.py, osmo-smdpp.py). *)
THEOREM SmdppTypeCorrect == Spec => []TypeOK
<1>1. IInv => TypeOK
  BY DEF IInv
<1>2. QED
  BY Inductive, <1>1, PTL

(* A package that is sent opens on the eUICC that asked for it, and is the Profile it
   asked for, for Profiles of any length (es8p.py:185-306, osmo-smdpp.py:753-830). *)
THEOREM EveryPackageOpens == Spec => []PackageOpens
<1>1. IInv => PackageOpens
  BY DEF IInv
<1>2. QED
  BY Inductive, <1>1, PTL

(* The session of a client that was answered holds what that client sent, for as long as
   the session is there (osmo-smdpp.py:744). *)
THEOREM AnsweredGoesOn == Spec => []AnsweredCanGoOn
<1>1. IInv => AnsweredCanGoOn
  BY DEF IInv
<1>2. QED
  BY Inductive, <1>1, PTL

(* A request of the relay is taken again only after the set of nonces overflowed with
   another request since, and from one overflow to the next it takes NonceLimit requests,
   whatever the limit (osmo-smdpp.py:482, 508-511). *)
THEOREM RepeatOnlyAfterOverflow == Spec => []RepeatNeedsOverflow
<1>1. IInv => RepeatNeedsOverflow
  BY DEF IInv
<1>2. QED
  BY Inductive, <1>1, PTL

(* With its sessions in a file, the server removes one only for a post signed by the eUICC
   of that session, which names its transaction (osmo-smdpp.py:847-859, 1066-1098). *)
THEOREM RemovedBySigner ==
    ASSUME Persistent = TRUE
    PROVE  Spec => RemovedByItsEuicc
<1> DEFINE Signed == \A key \in DOMAIN rss \ DOMAIN rss' :
                       \E post \in wire : post.tx = key.tx /\ post.euicc = rss[key].euicc_cert
<1>1. IInv /\ [Next]_vars => [Signed]_rss
  <2> SUFFICES ASSUME IInv, Next, rss' # rss PROVE Signed
    BY DEF vars
  <2>1. ASSUME NEW e \in Euicc, NEW tx \in Transaction, InitiateAuthentication(e, tx)
        PROVE  Signed
    <3>1. DOMAIN rss \subseteq DOMAIN rss'
      BY <2>1, Storing DEF InitiateAuthentication
    <3>2. QED
      BY <3>1
  <2>2. ASSUME NEW post \in wire, AuthenticateClient(post) PROVE Signed
    <3>1. DOMAIN rss \subseteq DOMAIN rss'
      BY <2>2, Storing DEF AuthenticateClient
    <3>2. QED
      BY <3>1
  <2>3. ASSUME NEW post \in wire, HandleNotification(post) PROVE Signed
    <3>1. /\ rss' = Deleted(b2h(post.tx))
          /\ rss[b2h(post.tx)].euicc_cert = post.euicc
      BY <2>3 DEF HandleNotification
    <3>2. post.tx = b2h(post.tx).tx
      BY DEF b2h
    <3>3. DOMAIN rss \ DOMAIN rss' \subseteq {b2h(post.tx)}
      BY <3>1, Deleting
    <3>4. QED
      BY <3>1, <3>2, <3>3
  <2>4. ASSUME NEW post \in wire, CancelSession(post) PROVE Signed
    <3>1. /\ rss' = Deleted(Outer(post.tx))
          /\ rss[Outer(post.tx)].euicc_cert = post.euicc
      BY <2>4 DEF CancelSession, SignedBySession, SessionOf
    <3>2. post.tx = Outer(post.tx).tx
      BY DEF Outer
    <3>3. DOMAIN rss \ DOMAIN rss' \subseteq {Outer(post.tx)}
      BY <3>1, Deleting
    <3>4. QED
      BY <3>1, <3>2, <3>3
  <2>5. QED
    BY <2>1, <2>2, <2>3, <2>4 DEF Next, Download, PostNext, PostAlone, Stop,
       GetBoundProfilePackage, Refuse, TakeRelayed, Restart
<1> HIDE DEF Signed
<1>2. Spec => [][Signed]_rss
  BY Inductive, <1>1, PTL DEF Spec
<1>3. QED
  BY <1>2 DEF RemovedByItsEuicc, Signed
=============================================================================
