-------------------------------- MODULE Smdpp --------------------------------
(***************************************************************************)
(* The HTTP front end osmo-smdpp.py, in the mode it was started in, with   *)
(* the ES9+ sessions of pySim/esim/rsp.py and their clients.               *)
(*                                                                         *)
(* standard: an eUICC's client (contrib/es9p_client.py) opens a session,   *)
(* authenticates, fetches a bound Profile package and opens it, and a      *)
(* command of its own hands in the notification; the client may end        *)
(* between any two posts, and a post may be handled after its client is    *)
(* gone (call gives up after 10 s).                                        *)
(* aura: a request of the relay is taken once, by its nonce; what it asks  *)
(* for is AuraService's.                                                   *)
(*                                                                         *)
(* The reactor runs one handler at a time, so a handler is one step.       *)
(* RspSessionStore holds copies: a session changes when it is stored       *)
(* again, and only then.  Certificates are valid; a signature names its    *)
(* eUICC.  Time, and anything an LPA repeats, is left out.                 *)
(***************************************************************************)
EXTENDS Naturals, Sequences, FiniteSets, BoundProfile

CONSTANTS
    Transaction,    \* what uuid4 yields (bound on the sessions)
    Euicc,
    Profile,        \* records [name, length, metadata]; a matchingId stands for one
    Nonce,          \* what the relay draws
    NonceLimit,     \* 10000 in the code
    Persistent,     \* whether the sessions are kept in a file
    MaxQueue,       \* bound on the posts under way
    MaxRestarts,    \* bound
    MaxTaken,       \* bound on the requests of the relay that the server takes
    NoTransaction, NoEuicc, NoProfile, NoPackage

ASSUME SmdppAssumption ==
    /\ NoTransaction \notin Transaction
    /\ NoEuicc \notin Euicc
    /\ NoProfile \notin Profile
    /\ \A p \in Profile : p.length \in Nat /\ p.metadata \in Nat
    /\ Persistent \in BOOLEAN
    /\ {NonceLimit, MaxQueue, MaxRestarts, MaxTaken} \subseteq Nat

VARIABLES
    rsp_mode,
    rss,        \* RspSessionStore: transactionId -> session
    opened,     \* the transactions drawn so far
    lpa,        \* the client of each eUICC
    wire,       \* posts not handled yet
    restarts,
    nonces,     \* _aura_pr_nonces
    taken,      \* nonces of the requests taken since the start, in order
    overflows   \* history: the positions in taken at which the set overflowed

relayed == <<nonces, taken, overflows>>
vars == <<rsp_mode, rss, opened, lpa, wire, restarts, relayed>>

-----------------------------------------------------------------------------
\* A transactionId is a string of hex digits: uuid4().hex.upper() here, ...
Key == [tx : Transaction, case : {"upper", "lower"}]
Outer(tx) == [tx |-> tx, case |-> "upper"]

\* ... and in lower case after osmocom's b2h (external).
b2h(tx) == [tx |-> tx, case |-> "lower"]

\* What authenticateClient puts into RspSessionState.
Session == [euicc_cert : Euicc \cup {NoEuicc}, profile : Profile \cup {NoProfile}]

Call == {"authenticateClient", "getBoundProfilePackage", "handleNotification",
         "cancelSession"}
Post == [call : Call, euicc : Euicc, tx : Transaction, profile : Profile \cup {NoProfile}]

Step == {"idle", "initiate", "authenticate", "package", "install"}

\* The one-time key pairs of a session.
Keys == {"euicc", "smdp"} \X Transaction
euicc_otpk(tx) == <<"euicc", tx>>
smdp_otpk(tx) == <<"smdp", tx>>

\* _require_standard
Standard == rsp_mode = "standard"

Known(tx) == Outer(tx) \in DOMAIN rss
SessionOf(tx) == rss[Outer(tx)]

\* self.rss[transactionId] = ss
Stored(key, ss) == [k \in DOMAIN rss \cup {key} |-> IF k = key THEN ss ELSE rss[k]]

\* del self.rss[transactionId]
Deleted(key) == [k \in DOMAIN rss \ {key} |-> rss[k]]

-----------------------------------------------------------------------------
(* The clients.                                                            *)

Stopped == [step |-> "idle", tx |-> NoTransaction, profile |-> NoProfile,
            posted |-> FALSE, package |-> NoPackage]

\* A command of es9p_client begins a download.
Download(e, p) ==
    /\ lpa[e].step = "idle"
    /\ lpa' = [lpa EXCEPT ![e] = [Stopped EXCEPT !.step = "initiate", !.profile = p]]
    /\ UNCHANGED <<rsp_mode, rss, opened, wire, restarts, relayed>>

Send(post) ==
    /\ Cardinality(wire) < MaxQueue
    /\ wire' = wire \cup {post}

PostNext(e) ==
    /\ lpa[e].step \in {"authenticate", "package"}
    /\ ~lpa[e].posted
    /\ lpa' = [lpa EXCEPT ![e] = [lpa[e] EXCEPT !.posted = TRUE]]
    /\ Send([call |-> IF lpa[e].step = "package" THEN "getBoundProfilePackage"
                      ELSE "authenticateClient",
             euicc |-> e, tx |-> lpa[e].tx, profile |-> lpa[e].profile])
    /\ UNCHANGED <<rsp_mode, rss, opened, restarts, relayed>>

\* notification-install takes the transaction from its command line; cancelSession is
\* what an LPA sends (external).
PostAlone(call, e, tx) ==
    /\ Send([call |-> call, euicc |-> e, tx |-> tx, profile |-> NoProfile])
    /\ UNCHANGED <<rsp_mode, rss, opened, lpa, restarts, relayed>>

\* BoundProfilePackage.decode, install_profile; it ends there, or by any failure.
Stop(e) ==
    /\ lpa[e].step # "idle"
    /\ lpa' = [lpa EXCEPT ![e] = Stopped]
    /\ UNCHANGED <<rsp_mode, rss, opened, wire, restarts, relayed>>

-----------------------------------------------------------------------------
(* The handlers of ES9+.                                                   *)

\* The client that waits for the answer to this post goes on; if it is gone, or the
\* answer is lost, it does not.
Answer(post, next) ==
    /\ wire' = wire \ {post}
    /\ \/ /\ lpa[post.euicc].tx = post.tx
          /\ lpa[post.euicc].posted
          /\ lpa' = [lpa EXCEPT ![post.euicc] = next]
       \/ UNCHANGED lpa

InitiateAuthentication(e, tx) ==
    /\ Standard
    /\ lpa[e].step = "initiate"
    /\ tx \notin opened
    /\ opened' = opened \cup {tx}
    /\ rss' = Stored(Outer(tx), [euicc_cert |-> NoEuicc, profile |-> NoProfile])
    /\ \/ lpa' = [lpa EXCEPT ![e] = [lpa[e] EXCEPT !.step = "authenticate", !.tx = tx]]
       \/ lpa' = [lpa EXCEPT ![e] = Stopped]
    /\ UNCHANGED <<rsp_mode, wire, restarts, relayed>>

\* Mutant: the session is changed and not stored again.
AuthenticateClientUnsaved(post) ==
    /\ Standard
    /\ post.call = "authenticateClient"
    /\ Known(post.tx)
    /\ Answer(post, [lpa[post.euicc] EXCEPT !.step = "package", !.posted = FALSE])
    /\ UNCHANGED <<rsp_mode, rss, opened, restarts, relayed>>

AuthenticateClient(post) ==
    /\ Standard
    /\ post.call = "authenticateClient"
    /\ Known(post.tx)
    /\ rss' = Stored(Outer(post.tx), [euicc_cert |-> post.euicc, profile |-> post.profile])
    /\ Answer(post, [lpa[post.euicc] EXCEPT !.step = "package", !.posted = FALSE])
    /\ UNCHANGED <<rsp_mode, opened, restarts, relayed>>

SignedBySession(post) == SessionOf(post.tx).euicc_cert = post.euicc

\* The keys it stores with the session are used within the call.
GetBoundProfilePackage(post) ==
    /\ Standard
    /\ post.call = "getBoundProfilePackage"
    /\ Known(post.tx)
    /\ SignedBySession(post)
    /\ Answer(post, [lpa[post.euicc] EXCEPT
                       !.step = "install",
                       !.package = encode(euicc_otpk(post.tx), smdp_otpk(post.tx),
                                          SessionOf(post.tx).profile)])
    /\ UNCHANGED <<rsp_mode, rss, opened, restarts, relayed>>

\* The signature is checked with the session's certificate, when the session is found.
HandleNotification(post) ==
    /\ Standard
    /\ post.call = "handleNotification"
    /\ IF b2h(post.tx) \in DOMAIN rss
       THEN /\ rss[b2h(post.tx)].euicc_cert = post.euicc
            /\ rss' = Deleted(b2h(post.tx))
       ELSE UNCHANGED rss
    /\ wire' = wire \ {post}
    /\ UNCHANGED <<rsp_mode, opened, lpa, restarts, relayed>>

\* Mutant: the signature on the cancellation is not checked.
CancelSessionUnsigned(post) ==
    /\ Standard
    /\ post.call = "cancelSession"
    /\ Known(post.tx)
    /\ rss' = Deleted(Outer(post.tx))
    /\ wire' = wire \ {post}
    /\ UNCHANGED <<rsp_mode, opened, lpa, restarts, relayed>>

CancelSession(post) ==
    /\ Standard
    /\ post.call = "cancelSession"
    /\ Known(post.tx)
    /\ SignedBySession(post)
    /\ rss' = Deleted(Outer(post.tx))
    /\ wire' = wire \ {post}
    /\ UNCHANGED <<rsp_mode, opened, lpa, restarts, relayed>>

\* Any ApiError or exception, a notification of another kind and a post that does not
\* arrive change nothing.
Refuse(post) ==
    /\ wire' = wire \ {post}
    /\ UNCHANGED <<rsp_mode, rss, opened, lpa, restarts, relayed>>

-----------------------------------------------------------------------------
(* Requests of the relay.                                                  *)

Overflowing(n) == Cardinality(nonces \cup {n}) > NonceLimit

\* Mutant: the nonce just taken is dropped with the others.
RememberedUnlessFull(n) == IF Overflowing(n) THEN {} ELSE nonces \cup {n}

Remembered(n) == IF Overflowing(n) THEN {n} ELSE nonces \cup {n}

\* _aura_pr_identity; the network may deliver a request twice (external).
TakeRelayed(n) ==
    /\ rsp_mode = "aura"
    /\ Len(taken) < MaxTaken
    /\ n \notin nonces
    /\ nonces' = Remembered(n)
    /\ taken' = Append(taken, n)
    /\ overflows' = IF Overflowing(n) THEN overflows \cup {Len(taken')} ELSE overflows
    /\ UNCHANGED <<rsp_mode, rss, opened, lpa, wire, restarts>>

\* A session put into a file store is taken to be in the file at once, though the server
\* never calls RspSessionStore.sync.  The seen nonces are in memory only.
Restart ==
    /\ restarts < MaxRestarts
    /\ restarts' = restarts + 1
    /\ rss' = IF Persistent THEN rss ELSE <<>>
    /\ wire' = {}
    /\ nonces' = {}
    /\ taken' = <<>>
    /\ overflows' = {}
    /\ UNCHANGED <<rsp_mode, opened, lpa>>

-----------------------------------------------------------------------------
Init ==
    /\ rsp_mode \in {"standard", "aura"}
    /\ rss = <<>>
    /\ opened = {}
    /\ lpa = [e \in Euicc |-> Stopped]
    /\ wire = {}
    /\ restarts = 0
    /\ nonces = {}
    /\ taken = <<>>
    /\ overflows = {}

Next ==
    \/ \E e \in Euicc, p \in Profile : Download(e, p)
    \/ \E e \in Euicc, tx \in Transaction : InitiateAuthentication(e, tx)
    \/ \E e \in Euicc : PostNext(e)
    \/ \E call \in {"handleNotification", "cancelSession"}, e \in Euicc, tx \in opened :
         PostAlone(call, e, tx)
    \/ \E e \in Euicc : Stop(e)
    \/ \E post \in wire : AuthenticateClient(post)
    \/ \E post \in wire : GetBoundProfilePackage(post)
    \/ \E post \in wire : HandleNotification(post)
    \/ \E post \in wire : CancelSession(post)
    \/ \E post \in wire : Refuse(post)
    \/ \E n \in Nonce : TakeRelayed(n)
    \/ Restart

Spec == Init /\ [][Next]_vars

-----------------------------------------------------------------------------
Package == {encode(euicc_otpk(tx), smdp_otpk(tx), p) : tx \in Transaction, p \in Profile}

Client == [step : Step, tx : Transaction \cup {NoTransaction},
           profile : Profile \cup {NoProfile}, posted : BOOLEAN,
           package : Package \cup {NoPackage}]

TypeOK ==
    /\ rsp_mode \in {"standard", "aura"}
    /\ DOMAIN rss \subseteq Key
    /\ \A key \in DOMAIN rss : rss[key] \in Session
    /\ opened \subseteq Transaction
    /\ lpa \in [Euicc -> Client]
    /\ wire \subseteq Post
    /\ restarts \in 0..MaxRestarts
    /\ nonces \subseteq Nonce
    /\ taken \in Seq(Nonce)
    /\ overflows \subseteq 1..Len(taken)

(* A package that getBoundProfilePackage sends opens on the eUICC that asked for it, and
   is the Profile it asked for: the two ends agree on keys, block counters and MAC chains
   over encrypted and MAC-only segments, and the session holds what its own eUICC stored
   there (es8p.py:185-306, osmo-smdpp.py:753-830). *)
PackageOpens ==
    \A e \in Euicc :
      lpa[e].step = "install" =>
        Decodes(euicc_otpk(lpa[e].tx), lpa[e].package, lpa[e].profile)

(* A client that has the answer to authenticateClient gets its package for as long as the
   session is there, restarts of the server or not (osmo-smdpp.py:744). *)
AnsweredCanGoOn ==
    \A e \in Euicc :
      lpa[e].step = "package" /\ Known(lpa[e].tx) =>
        SessionOf(lpa[e].tx) = [euicc_cert |-> e, profile |-> lpa[e].profile]

(* A session is removed only by a post signed by its own eUICC (osmo-smdpp.py:847-859,
   1066-1098), whatever transaction the posts of others name. *)
RemovedByItsEuicc ==
    [][\A key \in DOMAIN rss \ DOMAIN rss' :
         \E post \in wire : post.tx = key.tx /\ post.euicc = rss[key].euicc_cert]_rss

(* A request of the relay is taken a second time only after the set of nonces overflowed
   since, with another request, and that is NonceLimit requests after the start or the
   overflow before it (osmo-smdpp.py:482, 508-511). *)
RepeatNeedsOverflow ==
    /\ \A i, j \in 1..Len(taken) :
         i < j /\ taken[i] = taken[j] => \E k \in overflows : i < k /\ k < j
    /\ \A k \in overflows : k > NonceLimit
    /\ \A k, l \in overflows : k < l => l - k >= NonceLimit
=============================================================================
