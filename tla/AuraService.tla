----------------------------- MODULE AuraService -----------------------------
(***************************************************************************)
(* AuraService of pySim/esim/aura/service.py with its AuraStore: the       *)
(* server side of an AURA session, from initiateAuthentication to the      *)
(* receipt that closes its operation.                                      *)
(*                                                                         *)
(* The server is single-threaded: a handler runs to its end before the     *)
(* next begins.  But a handler makes several writes, each made durable on  *)
(* its own, in the store and in lifecycle.sqlite, and the process may end  *)
(* between any two of them; and the response may be lost.  A handler is    *)
(* therefore one action that checks and decides, and then one action per   *)
(* write, in the order of the code.                                        *)
(*                                                                         *)
(* Abstractions.  The lifecycle repository is its promise, LifecyclePromise, *)
(* with what its callers can tell beyond that: the head of a chain is      *)
(* answered again, and a pending_deletes row is never removed.  A session  *)
(* is its transactionId.  The client draws a fresh opid per session and    *)
(* logs its request, so a session has one authentication request and one   *)
(* receipt, and every retry is exact.  Requests that fail a signature, a   *)
(* proof or an encoding check change nothing.                              *)
(***************************************************************************)
EXTENDS Naturals, Sequences

CONSTANTS
    Ticket,         \* operation tickets, each with its nullifier and its order
    Session,        \* transactionIds
    Lph,            \* Profile pseudonyms
    Persistent,     \* the store is a file; otherwise it is lost at a restart
    MaxCrashes,     \* bound on the number of restarts
    NoOrder, NoTicket, NoSession, NoReceipt, Idle

VARIABLES
    orderOf,        \* orderOf[t]: the operation and the Profile t was issued for
    ordersFile,     \* orders.json: the newest ticket
    expired,        \* the tickets whose exp has passed
    orders,         \* namespace order of the store
    ticketOf,       \* ticketOf[s]: the ticket session s was opened with
    status,         \* namespace session: status[s]
    nullifier,      \* namespace nullifier: the session ticket t was spent by
    profileState,   \* namespace profile-state: the session whose receipt it holds
    history,        \* lifecycle.sqlite, as LifecyclePromise sees it
    handling,       \* the writes left to the handler that runs
    holds,          \* holds[s]: what the client got from the responses of session s
    receipt,        \* receipt[s]: the chain the client signed its receipt on
    crashes

store == <<orders, status, nullifier, profileState>>
client == <<holds, receipt>>
tickets == <<orderOf, ordersFile, expired>>
vars == <<tickets, store, ticketOf, history, handling, client, crashes>>

Repository == INSTANCE LifecyclePromise WITH Tx <- Session

-----------------------------------------------------------------------------
OrderOp == {"download", "enable", "disable", "delete", "reinstall"}
Order == [op : OrderOp, lph : Lph]

Status == {"unknown", "initiated", "authenticated", "downloaded",
           "reinstall-downloaded", "lifecycle-prepared", "lifecycle-complete",
           "pending-delete", "tombstone", "installed"}

Response == {"Bind_t", "K_mac", "R_prep"}   \* what a client needs from responses

Write == [store : {"nullifier"}]
         \cup [store : {"session"}, status : Status]
         \cup [store : {"profile-state"}]
         \cup [store : {"lifecycle"}, op : Repository!Op]

Handling == [session : Session, writes : Seq(Write), response : SUBSET Response]

\* The values that stand for None, and for no handler, are none of the real ones.
ASSUME ServiceAssumption ==
    /\ NoOrder \notin Order
    /\ NoTicket \notin Ticket
    /\ NoSession \notin Session
    /\ Idle \notin Handling
    /\ Persistent \in BOOLEAN
    /\ MaxCrashes \in Nat

Op(s) == orderOf[ticketOf[s]].op
LphOf(s) == orderOf[ticketOf[s]].lph
Chain(s) == history[LphOf(s)]
StateOf(s) == Repository!StateAfter(Chain(s))

\* The last operation of the Profile is op, by session s.
IsHead(s, op) == Chain(s) # <<>> /\ Chain(s)[Len(Chain(s))] = [op |-> op, tx |-> s]

Opened(s) == ticketOf[s] # NoTicket
Spent(s) == Opened(s) /\ nullifier[ticketOf[s]] = s

-----------------------------------------------------------------------------
(* Handlers and their writes.                                              *)

\* The handler for session s has passed its checks.
Handle(s, writes, response) ==
    /\ handling' = [session |-> s, writes |-> writes, response |-> response]
    /\ UNCHANGED <<tickets, store, ticketOf, history, client, crashes>>

\* The handler has made its next write; after the last one it responds, and the
\* response arrives or is lost.
Advance ==
    IF Len(handling.writes) > 1
      THEN /\ handling' = [handling EXCEPT !.writes = Tail(@)]
           /\ UNCHANGED holds
      ELSE /\ handling' = Idle
           /\ \/ UNCHANGED holds
              \/ holds' = [holds EXCEPT ![handling.session] = @ \cup handling.response]

Writing(name) == handling # Idle /\ Head(handling.writes).store = name

\* AuraStore.put_nullifier
PutNullifier ==
    /\ Writing("nullifier")
    /\ nullifier' = [nullifier EXCEPT ![ticketOf[handling.session]] = handling.session]
    /\ Advance
    /\ UNCHANGED <<tickets, orders, status, profileState, ticketOf, history, receipt, crashes>>

\* AuraStore.put_session
PutSession ==
    /\ Writing("session")
    /\ status' = [status EXCEPT ![handling.session] = Head(handling.writes).status]
    /\ Advance
    /\ UNCHANGED <<tickets, orders, nullifier, profileState, ticketOf, history, receipt,
                   crashes>>

\* AuraStore.put_profile_state
PutProfileState ==
    /\ Writing("profile-state")
    /\ profileState' = [profileState EXCEPT ![LphOf(handling.session)] = handling.session]
    /\ Advance
    /\ UNCHANGED <<tickets, orders, status, nullifier, ticketOf, history, receipt, crashes>>

\* The call of the repository commits.
CommitLifecycle ==
    /\ Writing("lifecycle")
    /\ Repository!Accept(LphOf(handling.session),
         [op |-> Head(handling.writes).op, tx |-> handling.session])
    /\ Advance
    /\ UNCHANGED <<tickets, store, ticketOf, receipt, crashes>>

SessionWrite(st) == [store |-> "session", status |-> st]
NullifierWrite == [store |-> "nullifier"]
ProfileStateWrite == [store |-> "profile-state"]
LifecycleWrite(op) == [store |-> "lifecycle", op |-> op]

-----------------------------------------------------------------------------
(* Tickets, orders and sessions.                                           *)

\* issue_ticket: orders.json is written anew, with this order alone.
Issue(t, op, l) ==
    /\ orderOf[t] = NoOrder
    /\ orderOf' = [orderOf EXCEPT ![t] = [op |-> op, lph |-> l]]
    /\ ordersFile' = t
    /\ UNCHANGED <<expired, store, ticketOf, history, handling, client, crashes>>

Expire(t) ==
    /\ orderOf[t] # NoOrder
    /\ expired' = expired \cup {t}
    /\ UNCHANGED <<orderOf, ordersFile, store, ticketOf, history, handling, client, crashes>>

KnowsOrder(t) == t \in orders \/ t = ordersFile

\* initiate stores an order it finds in orders.json before it checks it, so the
\* order stays when the call goes no further.
ImportOrder(t) ==
    /\ handling = Idle
    /\ KnowsOrder(t)
    /\ orders' = orders \cup {t}
    /\ UNCHANGED <<tickets, status, nullifier, profileState, ticketOf, history, handling,
                   client, crashes>>

\* initiate
Initiate(s, t) ==
    /\ handling = Idle
    /\ ~Opened(s)
    /\ KnowsOrder(t)
    /\ t \notin expired
    /\ orders' = orders \cup {t}
    /\ ticketOf' = [ticketOf EXCEPT ![s] = t]
    /\ status' = [status EXCEPT ![s] = "initiated"]
    /\ UNCHANGED <<tickets, nullifier, profileState, history, handling, client, crashes>>

-----------------------------------------------------------------------------
(* authenticate                                                            *)

\* The states op may start from, at the server and in the device's _target_state.
AllowedPredecessor(op, state) ==
    \/ op = "download"
    \/ op = "enable" /\ state \in {Repository!Installed, Repository!Disabled}
    \/ op = "disable" /\ state = Repository!Enabled
    \/ /\ op = "delete"
       /\ state \in {Repository!Installed, Repository!Enabled, Repository!Disabled}
    \/ op = "reinstall" /\ state = Repository!Tombstone

\* The request of s passes every check up to the nullifier.
Authentic(s) ==
    /\ handling = Idle
    /\ Opened(s)
    /\ status[s] \in {"initiated", "authenticated"}
    /\ ticketOf[s] \notin expired
    /\ AllowedPredecessor(Op(s), StateOf(s))

\* Mutant: the session is stored before its nullifier.
SessionFirst == <<SessionWrite("authenticated"), NullifierWrite>>

AuthenticateWrites == <<NullifierWrite, SessionWrite("authenticated")>>

Authenticate(s) ==
    /\ Authentic(s)
    /\ nullifier[ticketOf[s]] = NoSession
    /\ Handle(s, AuthenticateWrites, {"Bind_t"})

\* The nullifier record holds the response to this very request: the cached
\* response is returned, and nothing is written.
ReplayAuthentication(s) ==
    /\ Authentic(s)
    /\ Spent(s)
    /\ holds' = [holds EXCEPT ![s] = @ \cup {"Bind_t"}]
    /\ UNCHANGED <<tickets, store, ticketOf, history, handling, receipt, crashes>>

-----------------------------------------------------------------------------
(* Key agreement.                                                          *)

\* Mutant: the session must only have been authenticated at some time.
MayPrepareKeysAgain(s) ==
    /\ handling = Idle
    /\ "Bind_t" \in holds[s]
    /\ status[s] \notin {"unknown", "initiated"}

\* _prepare_keys
MayPrepareKeys(s) ==
    /\ handling = Idle
    /\ "Bind_t" \in holds[s]
    /\ status[s] = "authenticated"

\* get_profile
GetProfile(s) ==
    /\ MayPrepareKeys(s)
    /\ Op(s) \in {"download", "reinstall"}
    /\ Handle(s, <<SessionWrite(IF Op(s) = "download" THEN "downloaded"
                                ELSE "reinstall-downloaded")>>, {"K_mac"})

\* prepare_lifecycle
PrepareLifecycle(s) ==
    /\ MayPrepareKeys(s)
    /\ Op(s) \in {"enable", "disable", "delete"}
    /\ Handle(s, <<SessionWrite("lifecycle-prepared")>>, {"K_mac"})

\* The client signs its receipt on the row it knows of the Profile, if its operation
\* is legal there: the row may have moved on, before or after it signs.
SignReceipt(s, known) ==
    /\ "K_mac" \in holds[s]
    /\ receipt[s] = NoReceipt
    /\ AllowedPredecessor(Op(s), Repository!StateAfter(known))
    /\ receipt' = [receipt EXCEPT ![s] = IF Op(s) = "download" THEN <<>> ELSE known]
    /\ UNCHANGED <<tickets, store, ticketOf, history, handling, holds, crashes>>

\* What a client knows of a chain is some beginning of it.
SignsOnKnown(s) ==
    /\ Opened(s)
    /\ \E n \in 0..Len(Chain(s)) : SignReceipt(s, SubSeq(Chain(s), 1, n))

-----------------------------------------------------------------------------
(* What LifecycleRepository answers to the receipts of session s.          *)

\* The receipt is the head of the chain, or for install its first link: the call
\* answers from what is stored.
Replays(s, op) ==
    IF op = "install" THEN Chain(s) # <<>> /\ Chain(s)[1].tx = s ELSE IsHead(s, op)

\* pending_deletes has no row for the Profile.
NeverDeleted(s) == \A i \in 1..Len(Chain(s)) : Chain(s)[i].op # "delete"

Applies(s, op) ==
    IF op = "commit-delete" THEN IsHead(s, "delete")
    ELSE /\ receipt[s] = Chain(s)
         /\ <<StateOf(s), Repository!Target[op]>> \in Repository!LegalTransitions[op]
         /\ op = "delete" => NeverDeleted(s)

Takes(s, op) == Replays(s, op) \/ Applies(s, op)

RepositoryWrites(s, op) == IF Replays(s, op) THEN <<>> ELSE <<LifecycleWrite(op)>>

-----------------------------------------------------------------------------
(* The receipts.                                                           *)

MayNotify(s) ==
    /\ handling = Idle
    /\ receipt[s] # NoReceipt
    /\ Op(s) = "download"

InstallWrites == <<ProfileStateWrite, SessionWrite("installed")>>

NotificationTaken(s) == MayNotify(s) /\ status[s] = "downloaded" /\ Takes(s, "install")

\* notification, of a session that is downloaded.
Notification(s) ==
    /\ NotificationTaken(s)
    /\ Handle(s, RepositoryWrites(s, "install") \o InstallWrites, {})

NotificationKnown(s) ==
    MayNotify(s) /\ status[s] = "installed" /\ profileState[LphOf(s)] = s

\* notification, of a session that is installed: answered without a write.
NotificationAgain(s) == NotificationKnown(s) /\ UNCHANGED vars

\* Mutant: a session that is pending-delete does not take its receipt again.
PreparedOnly == {"lifecycle-prepared", "lifecycle-complete"}

\* The statuses in which lifecycle_receipt takes a receipt.
ReceiptStatus == {"lifecycle-prepared", "lifecycle-complete", "pending-delete"}

MayHandReceipt(s) ==
    /\ handling = Idle
    /\ receipt[s] # NoReceipt
    /\ status[s] \in ReceiptStatus
    /\ Op(s) \in {"enable", "disable", "delete"}

ReceiptTaken(s) == MayHandReceipt(s) /\ Takes(s, Op(s))

\* Mutant: a deletion ends the session as the other operations do.
LifecycleReceiptCompletes(s) ==
    /\ ReceiptTaken(s)
    /\ Handle(s, RepositoryWrites(s, Op(s)) \o <<SessionWrite("lifecycle-complete")>>,
              IF Op(s) = "delete" THEN {"R_prep"} ELSE {})

\* lifecycle_receipt
LifecycleReceipt(s) ==
    /\ ReceiptTaken(s)
    /\ IF Op(s) = "delete"
         THEN Handle(s, RepositoryWrites(s, "delete") \o <<SessionWrite("pending-delete")>>,
                     {"R_prep"})
         ELSE Handle(s, RepositoryWrites(s, Op(s)) \o <<SessionWrite("lifecycle-complete")>>,
                     {})

\* Mutant: the ticket must not have expired.
MayCommitUnexpired(s) ==
    /\ handling = Idle
    /\ "R_prep" \in holds[s]
    /\ status[s] \in {"pending-delete", "tombstone"}
    /\ ticketOf[s] \notin expired

MayCommit(s) ==
    /\ handling = Idle
    /\ "R_prep" \in holds[s]
    /\ status[s] \in {"pending-delete", "tombstone"}

\* Mutant: the session is stored before the repository commits.
TombstoneFirst(s) ==
    <<SessionWrite("tombstone")>> \o RepositoryWrites(s, "commit-delete")

CommitDeleteWrites(s) ==
    RepositoryWrites(s, "commit-delete") \o <<SessionWrite("tombstone")>>

CommitTaken(s) == MayCommit(s) /\ Takes(s, "commit-delete")

\* commit_delete
CommitDelete(s) ==
    /\ CommitTaken(s)
    /\ Handle(s, CommitDeleteWrites(s), {})

MayReinstall(s) ==
    /\ handling = Idle
    /\ receipt[s] # NoReceipt
    /\ Op(s) = "reinstall"
    /\ status[s] \in {"reinstall-downloaded", "installed"}

ReinstallTaken(s) == MayReinstall(s) /\ Takes(s, "reinstall")

\* reinstall_receipt
ReinstallReceipt(s) ==
    /\ ReinstallTaken(s)
    /\ Handle(s, RepositoryWrites(s, "reinstall") \o <<SessionWrite("installed")>>, {})

-----------------------------------------------------------------------------
\* seed_store
Seeded == {ordersFile} \ {NoTicket}

\* The process ends, in a handler or between two, and starts again.  seed_store
\* reads orders.json; lifecycle.sqlite and a store that is a file are as they were.
Restart ==
    /\ crashes < MaxCrashes
    /\ crashes' = crashes + 1
    /\ handling' = Idle
    /\ IF Persistent
         THEN /\ orders' = orders \cup Seeded
              /\ UNCHANGED <<status, nullifier, profileState>>
         ELSE /\ orders' = Seeded
              /\ status' = [s \in Session |-> "unknown"]
              /\ nullifier' = [t \in Ticket |-> NoSession]
              /\ profileState' = [l \in Lph |-> NoSession]
    /\ UNCHANGED <<tickets, ticketOf, history, client>>

Init ==
    /\ orderOf = [t \in Ticket |-> NoOrder]
    /\ ordersFile = NoTicket
    /\ expired = {}
    /\ orders = {}
    /\ ticketOf = [s \in Session |-> NoTicket]
    /\ status = [s \in Session |-> "unknown"]
    /\ nullifier = [t \in Ticket |-> NoSession]
    /\ profileState = [l \in Lph |-> NoSession]
    /\ Repository!Init
    /\ handling = Idle
    /\ holds = [s \in Session |-> {}]
    /\ receipt = [s \in Session |-> NoReceipt]
    /\ crashes = 0

ServerStep == PutNullifier \/ PutSession \/ PutProfileState \/ CommitLifecycle

\* getLifecycleState, and every request that is refused.
Read == handling = Idle /\ UNCHANGED vars

Next ==
    \/ ServerStep
    \/ \E t \in Ticket, op \in OrderOp, l \in Lph : Issue(t, op, l)
    \/ \E t \in Ticket : Expire(t)
    \/ \E t \in Ticket : ImportOrder(t)
    \/ \E s \in Session, t \in Ticket : Initiate(s, t)
    \/ \E s \in Session : Authenticate(s)
    \/ \E s \in Session : ReplayAuthentication(s)
    \/ \E s \in Session : GetProfile(s)
    \/ \E s \in Session : PrepareLifecycle(s)
    \/ \E s \in Session : SignsOnKnown(s)
    \/ \E s \in Session : Notification(s)
    \/ \E s \in Session : NotificationAgain(s)
    \/ \E s \in Session : LifecycleReceipt(s)
    \/ \E s \in Session : CommitDelete(s)
    \/ \E s \in Session : ReinstallReceipt(s)
    \/ Restart
    \/ Read

Spec == Init /\ [][Next]_vars

-----------------------------------------------------------------------------
TypeOK ==
    /\ orderOf \in [Ticket -> Order \cup {NoOrder}]
    /\ ordersFile \in Ticket \cup {NoTicket}
    /\ expired \subseteq Ticket
    /\ orders \subseteq Ticket
    /\ ticketOf \in [Session -> Ticket \cup {NoTicket}]
    /\ status \in [Session -> Status]
    /\ nullifier \in [Ticket -> Session \cup {NoSession}]
    /\ profileState \in [Lph -> Session \cup {NoSession}]
    /\ history \in [Lph -> Seq(Repository!Entry)]
    /\ handling \in Handling \cup {Idle}
    /\ holds \in [Session -> SUBSET Response]
    /\ receipt \in [Session -> Seq(Repository!Entry) \cup {NoReceipt}]
    /\ crashes \in 0..MaxCrashes

InHistory(s, op) == \E i \in 1..Len(Chain(s)) : Chain(s)[i] = [op |-> op, tx |-> s]

(* A ticket pays for what one session does: a session that is authenticated or
   has moved its Profile is the one its ticket's nullifier names, whatever
   restarts between put_nullifier and put_session (service.py:386-397). *)
TicketSpentByOneSession ==
    \A s \in Session :
      Opened(s) /\ (\/ status[s] \notin {"unknown", "initiated"}
                    \/ \E i \in 1..Len(Chain(s)) : Chain(s)[i].tx = s)
        => Spent(s)

(* The store and lifecycle.sqlite are two files written one after the other: a
   status that a session has in the one is backed by what its operation did in
   the other (service.py:601-619, 652-676, 697-707, 738-749). *)
StatusIsBacked ==
    \A s \in Session :
      Opened(s) =>
        /\ status[s] = "installed" =>
             InHistory(s, IF Op(s) = "download" THEN "install" ELSE "reinstall")
        /\ status[s] = "lifecycle-complete" => InHistory(s, Op(s))
        /\ status[s] = "pending-delete" => InHistory(s, "delete")
        /\ status[s] = "tombstone" => InHistory(s, "commit-delete")

(* "Identical notification retry is idempotent" (docs/aura_protocol_mapping.md:56):
   a session that installed its Profile gets its InstallReceipt answered again,
   however many of the three writes of notification were made (service.py:566-619). *)
InstallRetryAnswered ==
    handling = Idle =>
      \A s \in Session :
        Opened(s) /\ InHistory(s, "install") => NotificationTaken(s) \/ NotificationKnown(s)

(* "lost R_prep", "lost commit acknowledgement" (docs/aura_protocol_mapping.md:108-109):
   the receipt whose effect is the head of its chain is answered again, in
   whatever status a restart left its session. *)
RetryAnswered ==
    handling = Idle =>
      \A s \in Session :
        Opened(s) =>
          /\ \A op \in {"enable", "disable", "delete"} : IsHead(s, op) => ReceiptTaken(s)
          /\ IsHead(s, "reinstall") => ReinstallTaken(s)
          /\ IsHead(s, "commit-delete") => CommitTaken(s)

(* "expired ticket after prepare-delete: valid stored pending-delete can still
   commit" (docs/aura_protocol_mapping.md:111): a client that holds R_prep can
   finish its deletion, after any restart and with an expired ticket. *)
DeleteResumable ==
    handling = Idle =>
      \A s \in Session :
        Opened(s) /\ IsHead(s, "delete") /\ "R_prep" \in holds[s] => CommitTaken(s)

Rank(st) ==
    CASE st = "unknown" -> 0
      [] st = "initiated" -> 1
      [] st = "authenticated" -> 2
      [] st \in {"downloaded", "reinstall-downloaded", "lifecycle-prepared"} -> 3
      [] st \in {"installed", "lifecycle-complete", "pending-delete"} -> 4
      [] st = "tombstone" -> 5

(* No call, retry or restart takes a session of a stored server back to an
   earlier status: its K_mac, once a receipt may have been signed under it, is
   not replaced (service.py:404-411). *)
StatusOnlyAdvances ==
    [][\A s \in Session : Rank(status'[s]) >= Rank(status[s])]_status

(* "Exact replay is idempotent" (../docs/EXPERIMENT_INDEX.md:8): a client that has
   Bind_t, be it from a replay, has a session that can agree on keys. *)
BoundSessionIsAuthenticated ==
    handling = Idle =>
      \A s \in Session : "Bind_t" \in holds[s] => status[s] # "initiated"
=============================================================================
