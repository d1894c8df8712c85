--------------------------- MODULE AuraDeviceProofs ---------------------------
(***************************************************************************)
(* Proofs about AuraDevice, the device and the server together, for any    *)
(* sets of tickets, sessions and Profiles, any queue and any number of     *)
(* restarts, with the store of the server in a file.                       *)
(*                                                                         *)
(* The row of the device must be a beginning of the chain of the server,   *)
(* and the two move at different times: the server appends when a handler  *)
(* commits, the device when it has had the answer, which may be lost, late *)
(* or repeated.  DeviceInv therefore says what each answer that the        *)
(* command has had, and each request that a handler serves, tell of the    *)
(* chain (ToldRight, ServingRight), and that no receipt was ever signed on *)
(* more than the row (NoneAhead): a receipt is the only thing that makes   *)
(* the chain grow, so what is beyond the row was signed on the row itself, *)
(* and after a deletion on the row only its commit can be.                 *)
(*                                                                         *)
(* What the server does by itself is proved in AuraServiceProofs.  Every   *)
(* step here is one of the server or leaves it alone (StepOfServer).       *)
(***************************************************************************)
EXTENDS AuraDevice, SequenceTheorems, TLAPS

Server == INSTANCE AuraServiceProofs

DeviceTypes ==
    /\ disk \in Disk
    /\ file \in BOOLEAN
    /\ cmd \in Command
    /\ pc \in Step
    /\ session \in Session \cup {NoSession}
    /\ waiting \in Call \cup {NoCall}
    /\ inbox \subseteq Request
    /\ serving \in Request \cup {NoRequest}

-----------------------------------------------------------------------------
(* The command that runs.                                                  *)

Opening == {"idle", "orders", "initiate"}
Asking == {"authenticate", "keys", "install", "sign", "save", "mark"}
Deleting == {"record", "unlink", "absent", "commit", "tombstone"}

\* The call that the command waits for at its step.
Awaited ==
    CASE pc = "authenticate" -> "authenticateClient"
      [] pc = "keys" -> IF FetchesProfile THEN "getBoundProfilePackage"
                        ELSE "prepareLifecycleOperation"
      [] pc = "sign" -> ReceiptCall
      [] pc = "commit" -> "commitDelete"

Deletes == cmd = "operation" /\ disk.op = "delete"

Control ==
    /\ pc = "idle" <=> cmd = "none"
    /\ pc \in Opening => session = NoSession
    /\ pc \notin Opening => session # NoSession
    /\ waiting # NoCall => pc \in {"authenticate", "keys", "sign", "commit"} /\ waiting = Awaited
    /\ pc = "orders" => cmd \in {"issue", "operation"}
    /\ pc = "initiate" => cmd \in {"run", "operation"}
    /\ pc \in Asking => cmd \in {"run", "operation"}
    /\ pc \in {"mark", "record", "unlink", "absent"} => Deletes
    /\ pc \in {"commit", "tombstone", "forget"} => Deletes \/ cmd = "resume"
    /\ cmd \in {"issue", "run", "operation"} => disk.ticket # NoTicket
    /\ cmd = "operation" => disk.op # "download"
    /\ cmd = "run" /\ (pc = "save" \/ (pc = "sign" /\ waiting # NoCall)) => disk.op = "download"

-----------------------------------------------------------------------------
(* What the command, device.json and the server know of the session.       *)

\* The order of the ticket is the one in device.json, once orders.json has it.
TicketAgrees ==
    disk.ticket # NoTicket /\ orderOf[disk.ticket] # NoOrder =>
      orderOf[disk.ticket] = [op |-> disk.op, lph |-> disk.lph]

SessionAgrees ==
    session # NoSession =>
      /\ Server!Opened(session)
      /\ Server!LphOf(session) = disk.lph
      /\ cmd \in {"run", "operation"} => Server!Op(session) = disk.op
      /\ cmd = "resume" => session = disk.pending

InRow(op, s) == \E i \in 1..Len(disk.row) : disk.row[i] = [op |-> op, tx |-> s]

EndsIn(op, s) == disk.row # <<>> /\ disk.row[Len(disk.row)] = [op |-> op, tx |-> s]

PendingAgrees ==
    disk.pending # NoSession =>
      /\ Server!Opened(disk.pending)
      /\ Server!LphOf(disk.pending) = disk.lph
      /\ "R_prep" \in holds[disk.pending]
      /\ InRow("delete", disk.pending)

-----------------------------------------------------------------------------
(* The row of the device and the chain of the server.                      *)

RowBegins == Server!Begins(disk.row, history[disk.lph])

\* No receipt was signed on more than the row.
NoneAhead ==
    \A s \in Session :
      receipt[s] # NoReceipt /\ Server!LphOf(s) = disk.lph => Len(receipt[s]) <= Len(disk.row)

\* The receipt of the session is signed on the row, which does not have it yet.
SignedOnRow ==
    pc \in Asking =>
      /\ \A i \in 1..Len(disk.row) : disk.row[i].tx # session
      /\ receipt[session] # NoReceipt =>
           receipt[session] = IF disk.op = "download" THEN <<>> ELSE disk.row

\* The operation that the receipt of the command is for.
Wanted == IF cmd = "run" THEN "install" ELSE disk.op

\* What the answers the command had say of the server.
ToldRight ==
    /\ pc \in {"save", "mark"} => Server!InHistory(session, Wanted)
    /\ pc \in {"mark", "record"} => "R_prep" \in holds[session]
    /\ pc = "tombstone" => Server!InHistory(session, "commit-delete")
    /\ pc \in Deleting => EndsIn("delete", session)

-----------------------------------------------------------------------------
(* The handler that runs.                                                  *)

\* The operation that a call hands in.
Hands(call, s) ==
    CASE call = "handleNotification" -> "install"
      [] call = "handleReinstallReceipt" -> "reinstall"
      [] call = "handleLifecycleReceipt" -> Server!Op(s)
      [] call = "commitDelete" -> "commit-delete"

ReceiptCalls ==
    {"handleNotification", "handleReinstallReceipt", "handleLifecycleReceipt", "commitDelete"}

\* The operation is done, or is the write that comes next, and not the last one.
WillTell(op) ==
    \/ Server!InHistory(handling.session, op)
    \/ /\ Len(handling.writes) > 1
       /\ Head(handling.writes) = Server!LifecycleWrite(op)

ServingRight ==
    handling # Idle =>
      /\ serving # NoRequest
      /\ serving.session = handling.session
      /\ serving.call \in ReceiptCalls => WillTell(Hands(serving.call, serving.session))
      /\ serving.call = "handleLifecycleReceipt" /\ Server!Op(serving.session) = "delete" =>
           "R_prep" \in handling.response

-----------------------------------------------------------------------------
(* The Profile on the device.                                              *)

\* Session s may still make the Profile live.
MayInstall(s) ==
    \/ Server!Op(s) = "reinstall"
    \/ Server!Op(s) = "download" /\ history[disk.lph] = <<>>

\* Whoever has signed for the Profile, and may make it live, has installed it.
ReceiptFile ==
    \A s \in Session :
      receipt[s] # NoReceipt /\ Server!LphOf(s) = disk.lph /\ MayInstall(s) => file

SignFile == At("sign") /\ FetchesProfile => file

ServerLive == Repository!StateAfter(history[disk.lph]) \in Live => file

\* The row may be behind the chain of the server, and goes live only with a Profile that
\* the command has just installed, or from a row that was live.
RowFile ==
    /\ RowState \in Live => file
    /\ FetchesProfile /\ pc \in {"sign", "save"} => file

Agreement == TicketAgrees /\ SessionAgrees /\ PendingAgrees
Rows == RowBegins /\ NoneAhead /\ SignedOnRow /\ ToldRight

DeviceInv ==
    /\ Server!SignedInv
    /\ DeviceTypes
    /\ Control
    /\ Agreement
    /\ Rows
    /\ ServingRight
    /\ ReceiptFile
    /\ ServerLive
    /\ SignFile
-----------------------------------------------------------------------------
(* One server.                                                             *)

\* Service, of AuraDevice, and Server, which brings the proofs, are two instances of one
\* module: unfolded, they are the same.
LEMMA OneServer ==
    /\ Service!ServiceAssumption => Server!ServiceAssumption
    /\ Service!vars = Server!vars
    /\ Service!Next <=> Server!Next
    /\ Service!Init => Server!Init
    /\ Service!TypeOK <=> Server!TypeOK
    /\ \A t, op, l : Service!Issue(t, op, l) => Server!Issue(t, op, l)
    /\ \A t : Service!Expire(t) => Server!Expire(t)
    /\ \A t : Service!ImportOrder(t) => Server!ImportOrder(t)
    /\ \A s, t : Service!Initiate(s, t) => Server!Initiate(s, t)
    /\ \A s : Service!Authenticate(s) => Server!Authenticate(s)
    /\ \A s : Service!ReplayAuthentication(s) => Server!ReplayAuthentication(s)
    /\ \A s : Service!GetProfile(s) => Server!GetProfile(s)
    /\ \A s : Service!PrepareLifecycle(s) => Server!PrepareLifecycle(s)
    /\ \A s, h : Service!SignReceipt(s, h) => Server!SignReceipt(s, h)
    /\ \A s : Service!Notification(s) => Server!Notification(s)
    /\ \A s : Service!NotificationAgain(s) => Server!NotificationAgain(s)
    /\ \A s : Service!LifecycleReceipt(s) => Server!LifecycleReceipt(s)
    /\ \A s : Service!CommitDelete(s) => Server!CommitDelete(s)
    /\ \A s : Service!ReinstallReceipt(s) => Server!ReinstallReceipt(s)
    /\ Service!ServerStep => Server!ServerStep
    /\ Service!Restart => Server!Restart
    /\ Service!Read => Server!Read
    /\ \A s : Server!CommitTaken(s) => Service!CommitTaken(s)
BY ZenonT(60) DEF
    Service!store, Service!client, Service!tickets, Service!vars,
    Service!OrderOp, Service!Order, Service!Status, Service!Response, Service!Write,
    Service!Handling, Service!Op, Service!LphOf, Service!Chain, Service!StateOf,
    Service!IsHead, Service!Opened, Service!Spent, Service!Handle, Service!Advance,
    Service!Writing, Service!PutNullifier, Service!PutSession, Service!PutProfileState,
    Service!CommitLifecycle, Service!SessionWrite, Service!NullifierWrite,
    Service!ProfileStateWrite, Service!LifecycleWrite, Service!Issue, Service!Expire,
    Service!KnowsOrder, Service!ImportOrder, Service!Initiate,
    Service!AllowedPredecessor, Service!Authentic, Service!AuthenticateWrites,
    Service!Authenticate, Service!ReplayAuthentication, Service!MayPrepareKeys,
    Service!GetProfile, Service!PrepareLifecycle, Service!SignReceipt,
    Service!SignsOnKnown, Service!Replays, Service!NeverDeleted, Service!Applies,
    Service!Takes, Service!RepositoryWrites, Service!MayNotify, Service!InstallWrites,
    Service!NotificationTaken, Service!Notification, Service!NotificationKnown,
    Service!NotificationAgain, Service!ReceiptStatus, Service!MayHandReceipt,
    Service!ReceiptTaken, Service!LifecycleReceipt, Service!MayCommit,
    Service!CommitDeleteWrites, Service!CommitTaken, Service!CommitDelete,
    Service!MayReinstall, Service!ReinstallTaken, Service!ReinstallReceipt,
    Service!Seeded, Service!Restart, Service!Init, Service!ServerStep, Service!Read,
    Service!Next, Service!TypeOK, Service!ServiceAssumption, Service!Repository!State,
    Service!Repository!NotInstalled, Service!Repository!Installed,
    Service!Repository!Enabled, Service!Repository!Disabled,
    Service!Repository!PendingDelete, Service!Repository!Tombstone,
    Service!Repository!Op, Service!Repository!LegalTransitions,
    Service!Repository!Target, Service!Repository!Entry, Service!Repository!StateAfter,
    Service!Repository!Init, Service!Repository!Accept, Server!store, Server!client,
    Server!tickets, Server!vars, Server!OrderOp, Server!Order, Server!Status,
    Server!Response, Server!Write, Server!Handling, Server!Op, Server!LphOf,
    Server!Chain, Server!StateOf, Server!IsHead, Server!Opened, Server!Spent,
    Server!Handle, Server!Advance, Server!Writing, Server!PutNullifier,
    Server!PutSession, Server!PutProfileState, Server!CommitLifecycle,
    Server!SessionWrite, Server!NullifierWrite, Server!ProfileStateWrite,
    Server!LifecycleWrite, Server!Issue, Server!Expire, Server!KnowsOrder,
    Server!ImportOrder, Server!Initiate, Server!AllowedPredecessor, Server!Authentic,
    Server!AuthenticateWrites, Server!Authenticate, Server!ReplayAuthentication,
    Server!MayPrepareKeys, Server!GetProfile, Server!PrepareLifecycle,
    Server!SignReceipt, Server!SignsOnKnown, Server!Replays, Server!NeverDeleted,
    Server!Applies, Server!Takes, Server!RepositoryWrites, Server!MayNotify,
    Server!InstallWrites, Server!NotificationTaken, Server!Notification,
    Server!NotificationKnown, Server!NotificationAgain, Server!ReceiptStatus,
    Server!MayHandReceipt, Server!ReceiptTaken, Server!LifecycleReceipt,
    Server!MayCommit, Server!CommitDeleteWrites, Server!CommitTaken,
    Server!CommitDelete, Server!MayReinstall, Server!ReinstallTaken,
    Server!ReinstallReceipt, Server!Seeded, Server!Restart, Server!Init,
    Server!ServerStep, Server!Read, Server!Next, Server!TypeOK,
    Server!ServiceAssumption, Server!Repository!State, Server!Repository!NotInstalled,
    Server!Repository!Installed, Server!Repository!Enabled, Server!Repository!Disabled,
    Server!Repository!PendingDelete, Server!Repository!Tombstone, Server!Repository!Op,
    Server!Repository!LegalTransitions, Server!Repository!Target,
    Server!Repository!Entry, Server!Repository!StateAfter, Server!Repository!Init,
    Server!Repository!Accept

LEMMA OneRepository ==
    /\ Repository!Entry = Server!Repository!Entry
    /\ Repository!Op = Server!Repository!Op
    /\ \A h : Repository!StateAfter(h) = Server!Repository!StateAfter(h)
    /\ Service!OrderOp = Server!OrderOp
    /\ \A op, state : Service!AllowedPredecessor(op, state)
                        <=> Server!AllowedPredecessor(op, state)
BY DEF Repository!Entry, Server!Repository!Entry, Repository!Op, Server!Repository!Op,
   Repository!StateAfter, Server!Repository!StateAfter, Repository!Target,
   Server!Repository!Target, Repository!NotInstalled, Repository!Installed,
   Repository!Enabled, Repository!Disabled, Repository!PendingDelete, Repository!Tombstone,
   Server!Repository!NotInstalled, Server!Repository!Installed, Server!Repository!Enabled,
   Server!Repository!Disabled, Server!Repository!PendingDelete, Server!Repository!Tombstone,
   Service!OrderOp, Server!OrderOp, Service!AllowedPredecessor, Server!AllowedPredecessor,
   Service!Repository!Installed, Service!Repository!Enabled, Service!Repository!Disabled,
   Service!Repository!Tombstone

LEMMA ServerAssumed == Server!ServiceAssumption
BY DeviceAssumption, OneServer

\* The server's own invariant, and what each step of it leaves of an opened session.
LEMMA ServerKnows ==
    ASSUME Server!SignedInv
    PROVE  Server!RetryInv /\ Server!IInv /\ Server!TypeOK /\ Server!Known
BY DEF Server!SignedInv, Server!RetryInv, Server!IInv

LEMMA ServerGoes ==
    ASSUME Persistent = TRUE, Server!SignedInv, [Server!Next]_(Server!vars)
    PROVE  /\ Server!SignedInv'
           /\ \A s \in Session : Server!Opened(s) => Server!Keeps(s)
           /\ \A l \in Lph : Server!Begins(history[l], history'[l])
BY ServerKnows, ServerAssumed, Server!StepSigned, Server!StepKeeps, Server!HistoryGrows

-----------------------------------------------------------------------------
(* Every step of the composition is one of the server, or none of it.      *)

LEMMA ServiceQuiet ==
    ASSUME UNCHANGED service
    PROVE  UNCHANGED Server!vars
BY DEF service, Server!vars, Server!tickets, Server!store, Server!client

LEMMA RowKnown ==
    ASSUME DeviceInv
    PROVE  /\ disk.lph \in Lph /\ disk.row \in Seq(Server!Repository!Entry)
           /\ history[disk.lph] \in Seq(Server!Repository!Entry)
           /\ Len(disk.row) \in 0..Len(history[disk.lph])
           /\ disk.row = SubSeq(history[disk.lph], 1, Len(disk.row))
<1>1. disk.lph \in Lph /\ disk.row \in Seq(Server!Repository!Entry)
  BY OneRepository DEF DeviceInv, DeviceTypes, Disk
<1>2. history[disk.lph] \in Seq(Server!Repository!Entry)
  BY <1>1, ServerKnows DEF DeviceInv, Server!TypeOK
<1>3. /\ Len(disk.row) \in 0..Len(history[disk.lph])
      /\ \A i \in 1..Len(disk.row) : disk.row[i] = history[disk.lph][i]
  BY <1>1, <1>2, LenProperties DEF DeviceInv, Rows, RowBegins, Server!Begins
<1> DEFINE known == SubSeq(history[disk.lph], 1, Len(disk.row))
<1>4. /\ known \in Seq(Server!Repository!Entry) /\ Len(known) = Len(disk.row)
      /\ \A i \in 1..Len(disk.row) : known[i] = history[disk.lph][i]
  BY <1>2, <1>3
<1>5. disk.row = known
  BY <1>1, <1>3, <1>4, SeqEqual
<1> QED BY <1>1, <1>2, <1>3, <1>5

\* The session of the command, for the row of the device.
LEMMA SessionKnown ==
    ASSUME DeviceInv, pc \notin Opening
    PROVE  /\ session \in Session /\ Server!Opened(session)
           /\ Server!LphOf(session) = disk.lph
           /\ Server!Chain(session) = history[disk.lph]
BY DEF DeviceInv, DeviceTypes, Control, Agreement, SessionAgrees, Server!Chain

LEMMA SignsKnown ==
    ASSUME DeviceInv, SignAndPost
    PROVE  Server!SignsOnKnown(session) /\ session \in Session
<1>1. pc \notin Opening /\ Service!SignReceipt(session, disk.row)
  BY DEF SignAndPost, At, Opening
<1>2. Server!SignReceipt(session, disk.row)
  BY <1>1, OneServer
<1> QED BY <1>1, <1>2, RowKnown, SessionKnown DEF Server!SignsOnKnown

LEMMA DrawnSession ==
    ASSUME UnopenedSession # {}
    PROVE  Fresh(UnopenedSession) \in Session /\ ~Server!Opened(Fresh(UnopenedSession))
BY DEF Fresh, UnopenedSession, Server!Opened

LEMMA StepOfServer ==
    ASSUME DeviceInv, [Next]_vars
    PROVE  [Server!Next]_(Server!vars)
<1>1. CASE UNCHANGED service
  BY <1>1, ServiceQuiet
<1>2. CASE SaveOrders
  <2>1. disk.ticket \in Ticket /\ disk.op \in Server!OrderOp /\ disk.lph \in Lph
    BY <1>2, OneRepository
       DEF SaveOrders, At, DeviceInv, DeviceTypes, Disk, Control, Command
  <2>2. Server!Issue(disk.ticket, disk.op, disk.lph)
    BY <1>2, OneServer DEF SaveOrders
  <2> QED BY <2>1, <2>2 DEF Server!Next
<1>3. CASE Initiate \/ InitiateRefused
  <2>1. disk.ticket \in Ticket
    BY <1>3 DEF Initiate, InitiateRefused, At, DeviceInv, DeviceTypes, Disk, Control
  <2>2. CASE Initiate
    <3>1. Server!Initiate(Fresh(UnopenedSession), disk.ticket)
      BY <2>2, OneServer DEF Initiate
    <3> QED BY <2>1, <2>2, <3>1, DrawnSession DEF Initiate, Server!Next
  <2>3. CASE InitiateRefused
    BY <2>1, <2>3, OneServer DEF InitiateRefused, Server!Next
  <2> QED BY <1>3, <2>2, <2>3
<1>4. CASE SignAndPost
  BY <1>4, SignsKnown DEF Server!Next
<1>5. ASSUME NEW m \in inbox, Serve(m) \/ ServeAgain(m)
      PROVE  Server!Next
  <2>1. m.session \in Session
    BY DEF DeviceInv, DeviceTypes, Request
  <2>2. \/ Server!Authenticate(m.session) \/ Server!ReplayAuthentication(m.session)
        \/ Server!GetProfile(m.session) \/ Server!PrepareLifecycle(m.session)
        \/ Server!Notification(m.session) \/ Server!NotificationAgain(m.session)
        \/ Server!LifecycleReceipt(m.session) \/ Server!CommitDelete(m.session)
        \/ Server!ReinstallReceipt(m.session)
    BY <1>5, OneServer DEF Serve, Begin, ServeAgain
  <2> QED BY <2>1, <2>2 DEF Server!Next
<1>6. CASE Work \/ Respond \/ RespondLost \/ ServerRestart \/ Read
  BY <1>6, OneServer DEF Work, Respond, RespondLost, ServerRestart, Read, Server!Next
<1>7. CASE \E t \in Ticket : Expire(t)
  BY <1>7, OneServer DEF Expire, Server!Next
<1> QED BY <1>1, <1>2, <1>3, <1>4, <1>5, <1>6, <1>7
        DEF Next, vars, IssueTicket, IssueFreshTicket, SaveTicket, Run, RunOperation,
            PostAuthenticate, PostKeys, Install, SaveRow, Mark, Record, Unlink, SaveAbsent,
            Commits, PostCommit, SaveTombstone, ForgetPending, ResumePendingDelete, PostAgain,
            Stop, Lose

-----------------------------------------------------------------------------
(* What a step of the server leaves of the invariant.                      *)

\* What a step of the server leaves of a session, in terms of what it reads.
LEMMA KeepsReads ==
    ASSUME Persistent = TRUE, Server!SignedInv, [Server!Next]_(Server!vars),
           NEW s \in Session, Server!Opened(s)
    PROVE  /\ Server!Opened(s)' /\ Server!Op(s)' = Server!Op(s)
           /\ Server!LphOf(s)' = Server!LphOf(s)
           /\ \A op : Server!InHistory(s, op) => Server!InHistory(s, op)'
           /\ holds[s] \subseteq holds'[s]
           /\ receipt[s] # NoReceipt => receipt'[s] = receipt[s]
BY ServerGoes DEF Server!Keeps

\* A session that has signed was opened.
LEMMA SignedOpened ==
    ASSUME Server!SignedInv, NEW s \in Session, receipt[s] # NoReceipt
    PROVE  Server!Opened(s)
BY ServerKnows DEF Server!Known

LEMMA FrameKept ==
    ASSUME Persistent = TRUE, DeviceInv, [Server!Next]_(Server!vars), UNCHANGED disk
    PROVE  /\ Server!SignedInv'
           /\ PendingAgrees'
           /\ RowBegins'
           /\ UNCHANGED orderOf => TicketAgrees'
           /\ UNCHANGED receipt => NoneAhead'
           /\ UNCHANGED <<receipt, file>> => ReceiptFile'
<1>1. Server!SignedInv /\ Server!SignedInv'
  BY ServerGoes DEF DeviceInv
<1>2. PendingAgrees'
  <2> SUFFICES ASSUME disk.pending # NoSession PROVE PendingAgrees'
    BY DEF PendingAgrees
  <2>1. PICK s \in Session : s = disk.pending
    BY DEF DeviceInv, DeviceTypes, Disk
  <2>2. /\ Server!Opened(s) /\ Server!LphOf(s) = disk.lph /\ "R_prep" \in holds[s]
        /\ InRow("delete", s)
    BY <2>1 DEF DeviceInv, Agreement, PendingAgrees
  <2>3. Server!Opened(s)' /\ Server!LphOf(s)' = disk.lph /\ "R_prep" \in holds'[s]
    BY <1>1, <2>2, KeepsReads
  <2> QED BY <2>1, <2>2, <2>3 DEF PendingAgrees, InRow, Server!Opened, Server!LphOf
<1>3. RowBegins'
  <2>1. Server!Begins(disk.row, history[disk.lph])
    BY DEF DeviceInv, Rows, RowBegins
  <2>2. Server!Begins(history[disk.lph], history'[disk.lph])
    BY <1>1, RowKnown, ServerGoes
  <2>3. Len(history[disk.lph]) \in Nat /\ Len(disk.row) \in Nat
    BY RowKnown, LenProperties
  <2>4. Len(history'[disk.lph]) \in Nat
    BY <1>1, RowKnown, LenProperties
       DEF Server!SignedInv, Server!RetryInv, Server!IInv, Server!TypeOK
  <2> QED BY <2>1, <2>2, <2>3, <2>4 DEF RowBegins, Server!Begins
<1>4. ASSUME UNCHANGED orderOf PROVE TicketAgrees'
  BY <1>4 DEF DeviceInv, Agreement, TicketAgrees
<1>5. ASSUME NEW s \in Session, receipt[s] # NoReceipt
      PROVE  /\ Server!LphOf(s)' = Server!LphOf(s) /\ Server!Op(s)' = Server!Op(s)
  BY <1>1, <1>5, SignedOpened, KeepsReads
<1>6. ASSUME UNCHANGED receipt PROVE NoneAhead'
  BY <1>5, <1>6 DEF DeviceInv, Rows, NoneAhead
<1>7. ASSUME UNCHANGED <<receipt, file>> PROVE ReceiptFile'
  <2>1. history'[disk.lph] = <<>> => history[disk.lph] = <<>>
    BY <1>1, RowKnown, ServerGoes, EmptySeq, LenProperties DEF Server!Begins
  <2>2. \A s \in Session : receipt[s] # NoReceipt /\ MayInstall(s)' => MayInstall(s)
    BY <1>5, <2>1 DEF MayInstall
  <2>3. ReceiptFile
    BY DEF DeviceInv
  <2> QED BY <1>5, <1>7, <2>2, <2>3 DEF ReceiptFile
<1> QED BY <1>1, <1>2, <1>3, <1>4, <1>6, <1>7

\* The Profile goes live only by a receipt that was signed after it was installed.
LEMMA LiveKept ==
    ASSUME DeviceInv, [Server!Next]_(Server!vars), UNCHANGED <<disk, file>>
    PROVE  ServerLive'
<1> USE DEF Repository!NotInstalled, Repository!Installed, Repository!Enabled,
        Repository!Disabled, Repository!PendingDelete, Repository!Tombstone
<1> DEFINE l == disk.lph
<1>1. /\ l \in Lph /\ history[l] \in Seq(Server!Repository!Entry) /\ Server!RetryInv
      /\ ServerLive /\ ReceiptFile
  BY RowKnown, ServerKnows DEF DeviceInv
<1>2. CASE history'[l] = history[l]
  BY <1>1, <1>2 DEF ServerLive, Live
<1>3. CASE history'[l] # history[l]
  <2> DEFINE s == handling.session
  <2>1. /\ s \in Session /\ Server!LphOf(s) = l
        /\ \E op \in Server!Repository!Op :
             /\ <<Server!Repository!StateAfter(history[l]), Server!Repository!Target[op]>>
                  \in Server!Repository!LegalTransitions[op]
             /\ Server!Acts(s, op)
             /\ history'[l] = Append(history[l], [op |-> op, tx |-> s])
             /\ op = "install" => history[l] = <<>>
    BY <1>1, <1>3, ServerAssumed, Server!OneMore
  <2>2. PICK op \in Server!Repository!Op :
          /\ <<Repository!StateAfter(history[l]), Server!Repository!Target[op]>>
               \in Server!Repository!LegalTransitions[op]
          /\ Server!Acts(s, op)
          /\ history'[l] = Append(history[l], [op |-> op, tx |-> s])
          /\ op = "install" => history[l] = <<>>
    BY <2>1, OneRepository
  <2>3. Repository!StateAfter(history'[l]) = Server!Repository!Target[op]
    <3>1. [op |-> op, tx |-> s] \in Server!Repository!Entry
      BY <2>1 DEF Server!Repository!Entry
    <3>2. history'[l] # <<>> /\ history'[l][Len(history'[l])] = [op |-> op, tx |-> s]
      BY <1>1, <2>2, <3>1, AppendProperties, EmptySeq, LenProperties
    <3>3. history'[l][Len(history'[l])].op = op
      BY <3>2
    <3>4. Server!Repository!StateAfter(history'[l]) = Server!Repository!Target[op]
      BY <3>2, <3>3 DEF Server!Repository!StateAfter
    <3> QED BY <3>4, OneRepository
  <2>4. CASE op \in {"install", "reinstall"}
    <3>1. MayInstall(s) /\ receipt[s] # NoReceipt
      BY <2>2, <2>4 DEF Server!Acts, Server!PaidBy, MayInstall
    <3>2. file
      BY <1>1, <2>1, <3>1 DEF ReceiptFile
    <3> QED BY <3>2 DEF ServerLive, Live
  <2>5. CASE op \in {"enable", "disable"}
    <3>1. Repository!StateAfter(history[l]) \in {1, 2, 3}
      BY <2>2, <2>5 DEF Server!Repository!LegalTransitions, Server!Repository!Op,
         Server!Repository!Installed, Server!Repository!Enabled, Server!Repository!Disabled,
         Server!Repository!Target
    <3>2. file
      BY <1>1, <3>1 DEF ServerLive, Live
    <3> QED BY <3>2 DEF ServerLive, Live
  <2>6. CASE op \in {"delete", "commit-delete"}
    <3>1. Repository!StateAfter(history'[l]) \in {4, 5}
      BY <2>3, <2>6 DEF Server!Repository!Target, Server!Repository!Op,
         Server!Repository!PendingDelete, Server!Repository!Tombstone
    <3> QED BY <3>1 DEF ServerLive, Live
  <2> QED BY <2>4, <2>5, <2>6 DEF Server!Repository!Op
<1> QED BY <1>2, <1>3

LEMMA HandlerKnown ==
    ASSUME DeviceInv, handling # Idle
    PROVE  handling \in Server!Handling /\ handling.session \in Session
           /\ Server!Opened(handling.session)
BY ServerKnows, ServerAssumed, Server!RunningPlan DEF DeviceInv

LEMMA ServingKept ==
    ASSUME Persistent = TRUE, DeviceInv, [Server!Next]_(Server!vars),
           UNCHANGED <<handling, serving>> \/ handling' = Idle
    PROVE  ServingRight'
<1> SUFFICES ASSUME handling # Idle, UNCHANGED <<handling, serving>> PROVE ServingRight'
  BY DEF ServingRight
<1>1. PICK s \in Session : s = handling.session
  BY HandlerKnown
<1>2. /\ serving # NoRequest /\ serving.session = s
      /\ serving.call \in ReceiptCalls => WillTell(Hands(serving.call, s))
      /\ serving.call = "handleLifecycleReceipt" /\ Server!Op(s) = "delete" =>
           "R_prep" \in handling.response
  BY <1>1 DEF DeviceInv, ServingRight
<1>3. /\ Server!Op(s)' = Server!Op(s)
      /\ \A op : Server!InHistory(s, op) => Server!InHistory(s, op)'
  BY <1>1, HandlerKnown, KeepsReads DEF DeviceInv
<1>4. Hands(serving.call, s)' = Hands(serving.call, s)
  BY <1>3 DEF Hands
<1>5. \A op : WillTell(op) => WillTell(op)'
  BY <1>1, <1>3 DEF WillTell, Server!InHistory, Server!Chain, Server!LphOf, Server!LifecycleWrite
<1> QED BY <1>1, <1>2, <1>3, <1>4, <1>5 DEF ServingRight, Hands, Server!Op

-----------------------------------------------------------------------------
(* What it leaves of the command that runs.                                *)

LEMMA SessionKept ==
    ASSUME Persistent = TRUE, DeviceInv, [Server!Next]_(Server!vars),
           UNCHANGED <<disk, session, cmd>>
    PROVE  SessionAgrees'
<1> SUFFICES ASSUME session # NoSession PROVE SessionAgrees'
  BY DEF SessionAgrees
<1>1. PICK s \in Session : s = session
  BY DEF DeviceInv, DeviceTypes
<1>2. /\ Server!Opened(s) /\ Server!LphOf(s) = disk.lph
      /\ cmd \in {"run", "operation"} => Server!Op(s) = disk.op
      /\ cmd = "resume" => s = disk.pending
  BY <1>1 DEF DeviceInv, Agreement, SessionAgrees
<1>3. Server!Opened(s)' /\ Server!Op(s)' = Server!Op(s) /\ Server!LphOf(s)' = Server!LphOf(s)
  BY <1>2, KeepsReads DEF DeviceInv
<1> QED BY <1>1, <1>2, <1>3 DEF SessionAgrees, Server!Opened, Server!Op, Server!LphOf

LEMMA ToldKept ==
    ASSUME Persistent = TRUE, DeviceInv, [Server!Next]_(Server!vars),
           UNCHANGED <<disk, session, cmd>>,
           pc' \in {"save", "mark", "record", "tombstone"} => pc' = pc,
           pc' \in Deleting => pc \in Deleting
    PROVE  ToldRight'
<1>1. CASE pc \in Opening
  BY <1>1 DEF ToldRight, Opening, Deleting
<1>2. CASE pc \notin Opening
  <2>1. PICK s \in Session : s = session /\ Server!Opened(s)
    BY <1>2, SessionKnown
  <2>2. /\ pc \in {"save", "mark"} => Server!InHistory(s, Wanted)
        /\ pc \in {"mark", "record"} => "R_prep" \in holds[s]
        /\ pc = "tombstone" => Server!InHistory(s, "commit-delete")
        /\ pc \in Deleting => EndsIn("delete", s)
    BY <2>1 DEF DeviceInv, Rows, ToldRight
  <2>3. /\ \A op : Server!InHistory(s, op) => Server!InHistory(s, op)'
        /\ holds[s] \subseteq holds'[s]
    BY <2>1, KeepsReads DEF DeviceInv
  <2>4. Wanted' = Wanted /\ EndsIn("delete", s)' = EndsIn("delete", s)
    BY DEF Wanted, EndsIn
  <2> QED BY <2>1, <2>2, <2>3, <2>4
          DEF ToldRight, Server!InHistory, Server!Chain, Server!LphOf, EndsIn
<1> QED BY <1>1, <1>2

LEMMA SignedKept ==
    ASSUME DeviceInv, UNCHANGED <<disk, session, receipt>>, pc' \in Asking => pc \in Asking
    PROVE  SignedOnRow'
BY DEF DeviceInv, Rows, SignedOnRow

\* A command that has ended leaves nothing to agree with.
LEMMA StoppedKept ==
    ASSUME Stopped
    PROVE  Control' /\ SessionAgrees' /\ SignedOnRow' /\ ToldRight' /\ SignFile'
<1>1. cmd' = "none" /\ pc' = "idle" /\ session' = NoSession /\ waiting' = NoCall
  BY DEF Stopped
<1>2. Control'
  BY <1>1 DEF Control, Opening, Asking
<1>3. SessionAgrees'
  BY <1>1 DEF SessionAgrees
<1>4. SignedOnRow' /\ ToldRight' /\ SignFile'
  BY <1>1 DEF SignedOnRow, ToldRight, SignFile, At, Asking, Deleting
<1> QED BY <1>2, <1>3, <1>4

\* A step that leaves device.json, the Profile, the tickets and the receipts.
LEMMA QuietKept ==
    ASSUME Persistent = TRUE, DeviceInv, [Server!Next]_(Server!vars),
           UNCHANGED <<disk, file, orderOf, receipt>>,
           DeviceTypes', Control', SessionAgrees', SignedOnRow', ToldRight', SignFile',
           ServingRight'
    PROVE  DeviceInv'
BY FrameKept, LiveKept DEF DeviceInv, Agreement, Rows

\* A step of the server and the network alone.
LEMMA ServerKept ==
    ASSUME Persistent = TRUE, DeviceInv, [Server!Next]_(Server!vars), UNCHANGED device,
           UNCHANGED <<orderOf, receipt>>,
           inbox' \subseteq Request, serving' \in Request \cup {NoRequest}, ServingRight'
    PROVE  DeviceInv'
<1>1. UNCHANGED <<disk, file, cmd, pc, session, waiting>>
  BY DEF device, client
<1>2. DeviceTypes'
  BY <1>1 DEF DeviceInv, DeviceTypes
<1>3. Control' /\ SignFile'
  BY <1>1 DEF DeviceInv, Control, Awaited, ReceiptCall, FetchesProfile, Deletes, SignFile, At
<1>4. SessionAgrees' /\ SignedOnRow' /\ ToldRight'
  BY <1>1, SessionKept, ToldKept, SignedKept
<1> QED BY <1>1, <1>2, <1>3, <1>4, QuietKept

-----------------------------------------------------------------------------
(* The steps of the server and the network.                                *)

\* What the steps of a handler and its restart leave.
LEMMA HandlerLeaves ==
    ASSUME Server!ServerStep \/ Server!Restart \/ Server!Read
    PROVE  UNCHANGED <<orderOf, ticketOf, receipt>>
BY DEF Server!ServerStep, Server!PutNullifier, Server!PutSession, Server!PutProfileState,
   Server!CommitLifecycle, Server!Restart, Server!Read, Server!vars, Server!tickets,
   Server!store, Server!client

LEMMA RestartAndReadKept ==
    ASSUME Persistent = TRUE, DeviceInv,
           ServerRestart \/ Read \/ RespondLost \/ \E t \in Ticket : Expire(t)
    PROVE  DeviceInv'
<1>1. [Server!Next]_(Server!vars)
  BY StepOfServer DEF Next
<1>2. CASE ServerRestart
  <2>1. Server!Restart /\ inbox' = {} /\ serving' = NoRequest /\ UNCHANGED device
    BY <1>2, OneServer DEF ServerRestart
  <2>2. handling' = Idle
    BY <2>1 DEF Server!Restart
  <2> QED BY <1>1, <2>1, <2>2, HandlerLeaves, ServingKept, ServerKept
<1>3. CASE Read
  <2>1. Server!Read /\ UNCHANGED <<device, network>>
    BY <1>3, OneServer DEF Read
  <2>2. UNCHANGED <<handling, inbox, serving>>
    BY <2>1 DEF Server!Read, Server!vars, network
  <2> QED BY <1>1, <2>1, <2>2, HandlerLeaves, ServingKept, ServerKept
          DEF DeviceInv, DeviceTypes
<1>4. CASE RespondLost
  <2>1. Server!ServerStep /\ handling' = Idle /\ serving' = NoRequest
        /\ UNCHANGED <<device, inbox>>
    BY <1>4, OneServer DEF RespondLost
  <2> QED BY <1>1, <2>1, HandlerLeaves, ServingKept, ServerKept DEF DeviceInv, DeviceTypes
<1>5. CASE \E t \in Ticket : Expire(t)
  <2>1. (\E t \in Ticket : Server!Expire(t)) /\ UNCHANGED <<device, network>>
    BY <1>5, OneServer DEF Expire
  <2>2. UNCHANGED <<orderOf, receipt, handling, inbox, serving>>
    BY <2>1 DEF Server!Expire, Server!client, network
  <2> QED BY <1>1, <2>1, <2>2, ServingKept, ServerKept DEF DeviceInv, DeviceTypes
<1> QED BY <1>2, <1>3, <1>4, <1>5

LEMMA LoseKept ==
    ASSUME Persistent = TRUE, DeviceInv, NEW m \in inbox, Lose(m)
    PROVE  DeviceInv'
<1>1. UNCHANGED <<service, device, serving>> /\ inbox' = inbox \ {m}
  BY DEF Lose
<1>2. [Server!Next]_(Server!vars) /\ UNCHANGED <<orderOf, receipt, handling>>
  BY <1>1, ServiceQuiet DEF service
<1> QED BY <1>1, <1>2, ServingKept, ServerKept DEF DeviceInv, DeviceTypes

\* While a handler has more than its last write to make, the operation that its call
\* hands in is done, or comes next.
LEMMA WorkKept ==
    ASSUME Persistent = TRUE, DeviceInv, Work
    PROVE  DeviceInv'
<1>1. /\ Server!ServerStep /\ handling' # Idle /\ UNCHANGED <<device, network>>
      /\ [Server!Next]_(Server!vars)
  BY OneServer, StepOfServer DEF Work, Next
<1>2. UNCHANGED <<inbox, serving>>
  BY <1>1 DEF network
<1>3. handling # Idle /\ Server!Advance
  BY <1>1 DEF Server!ServerStep, Server!PutNullifier, Server!PutSession,
     Server!PutProfileState, Server!CommitLifecycle, Server!Writing
<1>4. PICK s \in Session : s = handling.session /\ Server!Opened(s)
  BY <1>3, HandlerKnown
<1>5. Len(handling.writes) > 1
  BY <1>1, <1>3 DEF Server!Advance
<1>6. handling'.session = s /\ handling'.response = handling.response
  BY <1>3, <1>4, <1>5, ServerKnows, ServerAssumed, Server!MoreToWrite DEF DeviceInv
<1>7. /\ Server!Op(s)' = Server!Op(s)
      /\ \A op : Server!InHistory(s, op) => Server!InHistory(s, op)'
  BY <1>1, <1>4, KeepsReads DEF DeviceInv
<1>8. ASSUME NEW op, WillTell(op) PROVE WillTell(op)'
  <2>1. CASE Server!InHistory(s, op)
    <3>1. Server!InHistory(s, op)'
      BY <1>7, <2>1
    <3> QED BY <1>6, <3>1 DEF WillTell, Server!InHistory, Server!Chain, Server!LphOf
  <2>2. CASE Head(handling.writes) = Server!LifecycleWrite(op)
    <3>1. Server!CommitLifecycle
      BY <1>1, <2>2 DEF Server!ServerStep, Server!PutNullifier, Server!PutSession,
         Server!PutProfileState, Server!Writing, Server!LifecycleWrite
    <3>2. Server!InHistory(s, op)'
      <4>1. Server!Repository!Accept(Server!LphOf(s), [op |-> op, tx |-> s])
        BY <1>4, <2>2, <3>1 DEF Server!CommitLifecycle, Server!LifecycleWrite
      <4>2. /\ Server!LphOf(s) \in Lph /\ op \in Server!Repository!Op
            /\ history \in [Lph -> Seq(Server!Repository!Entry)]
        <5>1. Server!LphOf(s) \in Lph /\ history \in [Lph -> Seq(Server!Repository!Entry)]
          BY <1>4, ServerKnows, ServerAssumed, Server!OpenedOrder
             DEF DeviceInv, Server!TypeOK
        <5>2. Head(handling.writes) \in Server!Write
          BY <1>3, ServerKnows, ServerAssumed, Server!FirstWrite DEF DeviceInv
        <5>3. op \in Server!Repository!Op
          BY <2>2, <5>2 DEF Server!Write, Server!LifecycleWrite
        <5> QED BY <5>1, <5>3
      <4> DEFINE l == Server!LphOf(s)
                 e == [op |-> op, tx |-> s]
      <4>3. e \in Server!Repository!Entry
        BY <4>2 DEF Server!Repository!Entry
      <4>4. history'[l] = Append(history[l], e) /\ history[l] \in Seq(Server!Repository!Entry)
        BY <4>1, <4>2 DEF Server!Repository!Accept
      <4>5. Len(history'[l]) \in 1..Len(history'[l]) /\ history'[l][Len(history'[l])] = e
        BY <4>3, <4>4, AppendProperties, LenProperties
      <4>6. Server!LphOf(s)' = l
        BY <1>1, <1>4, KeepsReads DEF DeviceInv
      <4> QED BY <4>5, <4>6 DEF Server!InHistory, Server!Chain
    <3> QED BY <1>6, <3>2 DEF WillTell, Server!InHistory, Server!Chain, Server!LphOf
  <2> QED BY <1>4, <1>8, <2>1, <2>2 DEF WillTell
<1>9. ServingRight'
  <2>1. /\ serving # NoRequest /\ serving.session = s
        /\ serving.call \in ReceiptCalls => WillTell(Hands(serving.call, s))
        /\ serving.call = "handleLifecycleReceipt" /\ Server!Op(s) = "delete" =>
             "R_prep" \in handling.response
    BY <1>3, <1>4 DEF DeviceInv, ServingRight
  <2>2. Hands(serving.call, s)' = Hands(serving.call, s)
    BY <1>2, <1>7 DEF Hands
  <2> QED BY <1>2, <1>6, <1>7, <1>8, <2>1, <2>2 DEF ServingRight, Hands, Server!Op
<1> QED BY <1>1, <1>2, <1>9, HandlerLeaves, ServerKept DEF DeviceInv, DeviceTypes


\* What a handler that begins leaves.
LEMMA BeginLeaves ==
    ASSUME NEW m, Begin(m)
    PROVE  /\ UNCHANGED <<orderOf, ticketOf, history, receipt>>
           /\ handling'.session = m.session
<1> PICK w, r : Server!Handle(m.session, w, r)
  <2>1. \/ Server!Authenticate(m.session) \/ Server!GetProfile(m.session)
        \/ Server!PrepareLifecycle(m.session) \/ Server!Notification(m.session)
        \/ Server!ReinstallReceipt(m.session) \/ Server!LifecycleReceipt(m.session)
        \/ Server!CommitDelete(m.session)
    BY OneServer DEF Begin
  <2> QED BY <2>1 DEF Server!Authenticate, Server!GetProfile, Server!PrepareLifecycle,
          Server!Notification, Server!ReinstallReceipt, Server!LifecycleReceipt,
          Server!CommitDelete
<1> QED BY DEF Server!Handle, Server!tickets, Server!client

LEMMA ServeKept ==
    ASSUME Persistent = TRUE, DeviceInv, NEW m \in inbox, Serve(m)
    PROVE  DeviceInv'
<1>1. /\ Begin(m) /\ inbox' = inbox \ {m} /\ serving' = m /\ UNCHANGED device
      /\ [Server!Next]_(Server!vars)
  BY StepOfServer DEF Serve, Next
<1>2. UNCHANGED <<orderOf, ticketOf, history, receipt>> /\ handling'.session = m.session
  BY <1>1, BeginLeaves
<1>3. m \in Request /\ m.session \in Session
  BY DEF DeviceInv, DeviceTypes, Request
<1>4. PICK s \in Session : s = m.session
  BY <1>3
<1>5. ASSUME NEW op, Server!Begun(s, op) PROVE WillTell(op)'
  BY <1>2, <1>4, <1>5 DEF WillTell, Server!Begun, Server!InHistory, Server!Chain, Server!LphOf,
     Server!LifecycleWrite
<1>6. /\ m.call \in ReceiptCalls => Server!Begun(s, Hands(m.call, s))
      /\ m.call = "handleLifecycleReceipt" /\ Server!Op(s) = "delete" =>
           "R_prep" \in handling'.response
  <2>1. /\ m.call = "handleNotification" => Server!Notification(s)
        /\ m.call = "handleReinstallReceipt" => Server!ReinstallReceipt(s)
        /\ m.call = "handleLifecycleReceipt" => Server!LifecycleReceipt(s)
        /\ m.call = "commitDelete" => Server!CommitDelete(s)
    BY <1>1, <1>4, OneServer DEF Begin
  <2> QED BY <2>1, ServerKnows, ServerAssumed, Server!NotificationBegun, Server!ReceiptBegun
          DEF DeviceInv, ReceiptCalls, Hands
<1>7. Hands(m.call, s)' = Hands(m.call, s) /\ Server!Op(s)' = Server!Op(s)
  BY <1>2 DEF Hands, Server!Op
<1>8. m # NoRequest
  BY <1>3, DeviceAssumption
<1>9. ServingRight'
  BY <1>1, <1>2, <1>4, <1>5, <1>6, <1>7, <1>8 DEF ServingRight, Hands, Server!Op
<1> QED BY <1>1, <1>2, <1>3, <1>9, ServerKept DEF DeviceInv, DeviceTypes

\* The answer to the call that the command waits for.
LEMMA AnsweredKept ==
    ASSUME Persistent = TRUE, DeviceInv, NEW m \in Request, Answered(m),
           [Server!Next]_(Server!vars), UNCHANGED <<orderOf, receipt>>,
           inbox' \subseteq Request, serving' \in Request \cup {NoRequest}, ServingRight',
           m.call \in ReceiptCalls => Server!InHistory(m.session, Hands(m.call, m.session))',
           m.call = "handleLifecycleReceipt" /\ Server!Op(m.session) = "delete" =>
             "R_prep" \in holds'[m.session]
    PROVE  DeviceInv'
<1>1. /\ waiting = m.call /\ session = m.session /\ waiting' = NoCall /\ pc' = Following
      /\ UNCHANGED <<disk, file, cmd, session>>
  BY DEF Answered
<1>2. m.call # NoCall /\ m.session \in Session
  BY DeviceAssumption DEF Request
<1>3. pc \in {"authenticate", "keys", "sign", "commit"} /\ m.call = Awaited
  BY <1>1, <1>2 DEF DeviceInv, Control
<1>4. PICK s \in Session : s = session /\ s = m.session /\ Server!Opened(s)
  BY <1>1, <1>3, SessionKnown DEF Opening
<1>5. /\ cmd \in {"run", "operation"} => Server!Op(s) = disk.op
      /\ pc \in Asking => cmd \in {"run", "operation"}
  BY <1>3, <1>4 DEF DeviceInv, Agreement, SessionAgrees, Control, Opening
<1>6. pc' \in {"keys", "install", "sign", "mark", "save", "tombstone"}
  BY <1>1, <1>3 DEF Following
<1>7. DeviceTypes'
  BY <1>1, <1>6 DEF DeviceInv, DeviceTypes, Step
<1>8. Control'
  <2> USE DEF Opening, Asking, Deletes
  <2>1. Control /\ waiting # NoCall
    BY <1>1, <1>2 DEF DeviceInv
  <2>2. CASE pc = "authenticate"
    <3>1. pc' = "keys"
      BY <1>1, <2>2 DEF Following
    <3> QED BY <1>1, <2>1, <2>2, <3>1 DEF Control
  <2>3. CASE pc = "keys"
    <3>1. pc' \in {"install", "sign"}
      BY <1>1, <2>3 DEF Following
    <3> QED BY <1>1, <2>1, <2>3, <3>1 DEF Control
  <2>4. CASE pc = "sign"
    <3>1. pc' \in {"mark", "save"} /\ (pc' = "mark" => Deletes)
      BY <1>1, <2>4 DEF Following
    <3> QED BY <1>1, <2>1, <2>4, <3>1 DEF Control
  <2>5. CASE pc = "commit"
    <3>1. pc' = "tombstone"
      BY <1>1, <2>5 DEF Following
    <3> QED BY <1>1, <2>1, <2>5, <3>1 DEF Control
  <2> QED BY <1>3, <2>2, <2>3, <2>4, <2>5
<1>9. SessionAgrees'
  BY <1>1, SessionKept
<1>10. SignedOnRow'
  BY <1>1, <1>3, SignedKept DEF Following, Asking
<1>11. SignFile'
  BY <1>1, <1>3, <1>5 DEF DeviceInv, SignFile, At, Following, FetchesProfile
<1>12. ToldRight'
  <2>1. Server!Op(s)' = Server!Op(s)
    BY <1>4, KeepsReads DEF DeviceInv
  <2>2. ASSUME pc' \in {"save", "mark"} PROVE Server!InHistory(s, Wanted)'
    <3>1. pc = "sign" /\ m.call = ReceiptCall
      BY <1>1, <1>3, <2>2 DEF Following, Awaited
    <3>2. m.call \in ReceiptCalls /\ (Hands(m.call, s) = Wanted)'
      <4>1. cmd \in {"run", "operation"} /\ (cmd = "operation" => Server!Op(s)' = disk.op)
        BY <1>5, <2>1, <3>1 DEF Asking
      <4> QED BY <1>1, <3>1, <4>1 DEF ReceiptCall, ReceiptCalls, Hands, Wanted
    <3> QED BY <1>1, <1>4, <3>2
            DEF Server!InHistory, Server!Chain, Server!LphOf, Wanted, Hands, Server!Op
  <2>3. ASSUME pc' = "mark" PROVE "R_prep" \in holds'[s]
    <3>1. pc = "sign" /\ m.call = ReceiptCall /\ cmd = "operation" /\ disk.op = "delete"
      BY <1>1, <1>3, <2>3 DEF Following, Awaited, FetchesProfile
    <3>2. m.call = "handleLifecycleReceipt" /\ Server!Op(s) = "delete"
      BY <1>5, <3>1 DEF ReceiptCall
    <3> QED BY <1>4, <3>2
  <2>4. ASSUME pc' = "tombstone" PROVE Server!InHistory(s, "commit-delete")'
    <3>1. m.call = "commitDelete"
      BY <1>1, <1>3, <2>4 DEF Following, Awaited, FetchesProfile
    <3>2. m.call \in ReceiptCalls /\ Hands(m.call, s)' = "commit-delete"
      BY <3>1 DEF ReceiptCalls, Hands
    <3> QED BY <1>4, <3>2 DEF Server!InHistory, Server!Chain, Server!LphOf, Hands, Server!Op
  <2>5. pc' \in Deleting => pc \in Deleting
    BY <1>1, <1>3 DEF Following, Deleting
  <2>6. pc' \in Deleting => EndsIn("delete", s)'
    BY <1>1, <1>4, <2>5 DEF DeviceInv, Rows, ToldRight, EndsIn
  <2> QED
    BY <1>1, <1>4, <1>6, <2>2, <2>3, <2>4, <2>6
       DEF ToldRight, Wanted, EndsIn, Server!InHistory, Server!Chain, Server!LphOf
<1> QED BY <1>1, <1>7, <1>8, <1>9, <1>10, <1>11, <1>12, QuietKept

\* The last write of a handler, and its response.
LEMMA RespondKept ==
    ASSUME Persistent = TRUE, DeviceInv, Respond
    PROVE  DeviceInv'
<1>1. /\ Server!ServerStep /\ handling' = Idle /\ serving' = NoRequest
      /\ handling.response \subseteq holds'[handling.session]
      /\ Answered(serving) /\ UNCHANGED inbox
      /\ [Server!Next]_(Server!vars)
  BY OneServer, StepOfServer DEF Respond, Next
<1>2. handling # Idle /\ Server!Advance
  BY <1>1 DEF Server!ServerStep, Server!PutNullifier, Server!PutSession,
     Server!PutProfileState, Server!CommitLifecycle, Server!Writing
<1>3. PICK s \in Session : s = handling.session /\ Server!Opened(s)
  BY <1>2, HandlerKnown
<1>4. ~(Len(handling.writes) > 1)
  <2>1. Len(handling.writes) > 1 => handling' \in Server!Handling
    BY <1>2, HandlerKnown, ServerKnows, ServerAssumed, Server!MoreToWrite
       DEF DeviceInv, Server!Advance, Server!Handling
  <2> QED BY <1>1, <2>1, ServerAssumed DEF Server!ServiceAssumption
<1>5. /\ serving \in Request /\ serving.session = s
      /\ serving.call \in ReceiptCalls => Server!InHistory(s, Hands(serving.call, s))
      /\ serving.call = "handleLifecycleReceipt" /\ Server!Op(s) = "delete" =>
           "R_prep" \in handling.response
  BY <1>2, <1>3, <1>4 DEF DeviceInv, DeviceTypes, ServingRight, WillTell
<1>6. /\ Server!Op(s)' = Server!Op(s)
      /\ \A op : Server!InHistory(s, op) => Server!InHistory(s, op)'
  BY <1>1, <1>3, KeepsReads DEF DeviceInv
<1>7. PICK m \in Request : m = serving
  BY <1>5
<1>8. m.call \in ReceiptCalls => Server!InHistory(m.session, Hands(m.call, m.session))'
  <2>1. Hands(m.call, s)' = Hands(m.call, s)
    BY <1>6 DEF Hands
  <2>2. m.session = s
    BY <1>5, <1>7
  <2>3. m.call \in ReceiptCalls => Server!InHistory(s, Hands(m.call, s))'
    BY <1>5, <1>6, <1>7, <2>1
       DEF Server!InHistory, Server!Chain, Server!LphOf, Hands, Server!Op
  <2> QED BY <2>2, <2>3
<1>9. m.call = "handleLifecycleReceipt" /\ Server!Op(m.session) = "delete" =>
        "R_prep" \in holds'[m.session]
  BY <1>1, <1>3, <1>5, <1>7
<1> QED BY <1>1, <1>7, <1>8, <1>9, HandlerLeaves, ServingKept, AnsweredKept
        DEF DeviceInv, DeviceTypes

\* A request that is answered from what is stored.
LEMMA ServeAgainKept ==
    ASSUME Persistent = TRUE, DeviceInv, NEW m \in inbox, ServeAgain(m)
    PROVE  DeviceInv'
<1>1. /\ inbox' = inbox \ {m} /\ Answered(m) /\ UNCHANGED serving
      /\ \/ m.call = "authenticateClient" /\ Server!ReplayAuthentication(m.session)
         \/ m.call = "handleNotification" /\ Server!NotificationAgain(m.session)
      /\ [Server!Next]_(Server!vars)
  BY OneServer, StepOfServer DEF ServeAgain, Next
<1>2. UNCHANGED <<orderOf, ticketOf, history, receipt, handling>>
  BY <1>1 DEF Server!ReplayAuthentication, Server!NotificationAgain, Server!vars,
     Server!tickets, Server!client
<1>3. m \in Request /\ m.session \in Session
  BY DEF DeviceInv, DeviceTypes, Request
<1>4. PICK s \in Session : s = m.session
  BY <1>3
<1>5. m.call \in ReceiptCalls =>
        m.call = "handleNotification" /\ Server!InHistory(s, "install")
  <2>1. ASSUME m.call # "authenticateClient" PROVE Server!InHistory(s, "install")
    <3>1. Server!NotificationKnown(s)
      BY <1>1, <1>4, <2>1 DEF Server!NotificationAgain
    <3>2. status[s] = "installed" /\ Server!Op(s) = "download"
      BY <3>1 DEF Server!NotificationKnown, Server!MayNotify
    <3>3. Server!Earned(s, status[s])
      BY <3>2, ServerKnows, ServerAssumed, Server!OpenedByStatus DEF DeviceInv
    <3> QED BY <3>2, <3>3 DEF Server!Earned
  <2> QED BY <1>1, <2>1 DEF ReceiptCalls
<1>6. m.call \in ReceiptCalls => Server!InHistory(s, Hands(m.call, s))'
  BY <1>2, <1>5 DEF Hands, Server!InHistory, Server!Chain, Server!LphOf
<1>7. m.call # "handleLifecycleReceipt"
  BY <1>5 DEF ReceiptCalls
<1>8. UNCHANGED <<orderOf, receipt>> /\ inbox' \subseteq Request
      /\ serving' \in Request \cup {NoRequest}
  BY <1>1, <1>2 DEF DeviceInv, DeviceTypes
<1>9. ServingRight'
  BY <1>1, <1>2, ServingKept
<1> QED BY <1>1, <1>3, <1>4, <1>6, <1>7, <1>8, <1>9, AnsweredKept

-----------------------------------------------------------------------------
(* The steps of the device alone.                                          *)

\* A step of the command that leaves device.json, the Profile and the server.
LEMMA CommandKept ==
    ASSUME Persistent = TRUE, DeviceInv, UNCHANGED <<service, disk, file, serving>>,
           DeviceTypes', Control', SessionAgrees', SignedOnRow', ToldRight', SignFile'
    PROVE  DeviceInv'
<1>1. [Server!Next]_(Server!vars) /\ UNCHANGED <<orderOf, receipt, handling>>
  BY ServiceQuiet DEF service
<1> QED BY <1>1, ServingKept, QuietKept

\* A post, from a step that the session and the answers so far allow.
LEMMA PostKept ==
    ASSUME Persistent = TRUE, DeviceInv, UNCHANGED <<service, file>>, NEW call \in Call,
           Post(call), session \in Session, pc' \in Step, Control',
           pc' \in Asking => pc \in Asking, pc' \in Deleting => pc \in Deleting,
           pc' \notin {"save", "mark", "record", "tombstone"}
    PROVE  DeviceInv'
<1>1. /\ waiting' = call /\ inbox' = inbox \cup {[call |-> call, session |-> session]}
      /\ UNCHANGED <<disk, cmd, session, serving>>
  BY DEF Post
<1>2. [Server!Next]_(Server!vars) /\ UNCHANGED receipt
  BY ServiceQuiet DEF service
<1>3. DeviceTypes'
  BY <1>1 DEF DeviceInv, DeviceTypes, Request
<1>4. SignFile'
  BY <1>1, DeviceAssumption DEF SignFile, At
<1>5. SessionAgrees' /\ SignedOnRow' /\ ToldRight'
  BY <1>1, <1>2, SessionKept, SignedKept, ToldKept
<1> QED BY <1>1, <1>3, <1>4, <1>5, CommandKept

LEMMA PostsKept ==
    ASSUME Persistent = TRUE, DeviceInv, PostAuthenticate \/ PostKeys \/ PostCommit
    PROVE  DeviceInv'
<1> USE DEF Opening, Asking, Deleting
<1>1. pc \notin Opening /\ waiting = NoCall /\ UNCHANGED <<service, file, pc>>
  BY DEF PostAuthenticate, PostKeys, PostCommit, At
<1>2. session \in Session /\ Control
  BY <1>1, SessionKnown DEF DeviceInv
<1>3. pc' \in Step /\ pc' \notin {"save", "mark", "record", "tombstone"}
  BY <1>1 DEF PostAuthenticate, PostKeys, PostCommit, At, Step
<1>4. CASE PostAuthenticate
  <2>1. pc = "authenticate" /\ Post("authenticateClient")
    BY <1>4 DEF PostAuthenticate, At
  <2>2. Control'
    BY <1>1, <1>2, <2>1 DEF Control, Post, Awaited, Deletes
  <2> QED BY <1>1, <1>2, <1>3, <2>1, <2>2, PostKept DEF Call
<1>5. CASE PostKeys
  <2>1. /\ pc = "keys"
        /\ Post(IF FetchesProfile THEN "getBoundProfilePackage" ELSE "prepareLifecycleOperation")
    BY <1>5 DEF PostKeys, At
  <2>2. Control'
    BY <1>1, <1>2, <2>1 DEF Control, Post, Awaited, Deletes, FetchesProfile
  <2> QED BY <1>1, <1>2, <1>3, <2>1, <2>2, PostKept DEF Call
<1>6. CASE PostCommit
  <2>1. pc = "commit" /\ Post("commitDelete")
    BY <1>6 DEF PostCommit, At
  <2>2. Control'
    BY <1>1, <1>2, <2>1 DEF Control, Post, Awaited, Deletes
  <2> QED BY <1>1, <1>2, <1>3, <2>1, <2>2, PostKept DEF Call
<1> QED BY <1>4, <1>5, <1>6

LEMMA PostAgainKept ==
    ASSUME Persistent = TRUE, DeviceInv, PostAgain
    PROVE  DeviceInv'
<1> USE DEF Opening, Asking, Deleting
<1>1. PICK step \in {[from |-> "keys", to |-> "authenticate", call |-> "authenticateClient"],
                     [from |-> "mark", to |-> "sign", call |-> "handleLifecycleReceipt"],
                     [from |-> "save", to |-> "sign", call |-> ReceiptCall],
                     [from |-> "tombstone", to |-> "commit", call |-> "commitDelete"]} :
        /\ At(step.from)
        /\ (step.from = "keys") = (cmd = "run")
        /\ pc' = step.to
        /\ Post(step.call)
  BY DEF PostAgain
<1>2. UNCHANGED <<service, file>>
  BY DEF PostAgain
<1>3. /\ pc = step.from /\ step.to \in Step /\ step.call \in Call /\ pc \notin Opening
      /\ step.to \in {"authenticate", "sign", "commit"}
      /\ step.to \in Asking => pc \in Asking
      /\ step.to \in Deleting => pc \in Deleting
  BY <1>1 DEF At, Step, Call, ReceiptCall
<1>4. session \in Session /\ Control
  BY <1>3, SessionKnown DEF DeviceInv
<1>5. waiting' = step.call /\ UNCHANGED <<disk, cmd, session>>
  BY <1>1 DEF Post
<1>6. Control'
  <2>1. CASE step.from = "keys"
    <3>1. pc = "keys" /\ pc' = "authenticate" /\ waiting' = "authenticateClient"
      BY <1>1, <1>3, <1>5, <2>1
    <3> QED BY <1>4, <1>5, <3>1 DEF Control, Awaited, Deletes
  <2>2. CASE step.from = "mark"
    <3>1. pc = "mark" /\ pc' = "sign" /\ waiting' = "handleLifecycleReceipt"
      BY <1>1, <1>3, <1>5, <2>2
    <3> QED BY <1>4, <1>5, <3>1 DEF Control, Awaited, Deletes, ReceiptCall
  <2>3. CASE step.from = "save"
    <3>1. pc = "save" /\ pc' = "sign" /\ waiting' = ReceiptCall /\ cmd # "run"
      BY <1>1, <1>3, <1>5, <2>3
    <3> QED BY <1>4, <1>5, <3>1 DEF Control, Awaited, Deletes, ReceiptCall
  <2>4. CASE step.from = "tombstone"
    <3>1. pc = "tombstone" /\ pc' = "commit" /\ waiting' = "commitDelete"
      BY <1>1, <1>3, <1>5, <2>4
    <3> QED BY <1>4, <1>5, <3>1 DEF Control, Awaited, Deletes
  <2> QED BY <1>1, <2>1, <2>2, <2>3, <2>4
<1> QED BY <1>1, <1>2, <1>3, <1>4, <1>6, PostKept

LEMMA RunAndStopKept ==
    ASSUME Persistent = TRUE, DeviceInv, Run \/ Stop
    PROVE  DeviceInv'
<1> USE DEF Opening, Asking, Deleting
<1>1. UNCHANGED <<service, disk, file, serving>> /\ UNCHANGED inbox
  BY DEF Run, Stop, network
<1>2. CASE Stop
  <2>1. Stopped
    BY <1>2 DEF Stop
  <2>2. DeviceTypes'
    BY <1>1, <2>1 DEF DeviceInv, DeviceTypes, Stopped, Command, Step
  <2> QED BY <1>1, <2>1, <2>2, StoppedKept, CommandKept
<1>3. CASE Run
  <2>1. /\ pc = "idle" /\ waiting = NoCall /\ disk.ticket # NoTicket
        /\ cmd' = "run" /\ pc' = "initiate" /\ UNCHANGED <<session, waiting>>
    BY <1>3 DEF Run, At
  <2>2. session = NoSession
    BY <2>1 DEF DeviceInv, Control
  <2>3. DeviceTypes'
    BY <1>1, <2>1 DEF DeviceInv, DeviceTypes, Command, Step
  <2>4. Control'
    BY <1>1, <2>1, <2>2 DEF Control
  <2>5. SessionAgrees' /\ SignedOnRow' /\ ToldRight' /\ SignFile'
    BY <2>1, <2>2 DEF SessionAgrees, SignedOnRow, ToldRight, SignFile, At
  <2> QED BY <1>1, <2>3, <2>4, <2>5, CommandKept
<1> QED BY <1>2, <1>3

\* A deletion on the row is the only one of the chain of the server.
LEMMA OneDelete ==
    ASSUME DeviceInv, NEW i \in 1..Len(disk.row), NEW j \in 1..Len(history[disk.lph]),
           disk.row[i].op = "delete", history[disk.lph][j].op = "delete"
    PROVE  i = j
<1>1. PICK k \in 1..Len(history[disk.lph]) : k = i /\ history[disk.lph][k].op = "delete"
  BY RowKnown DEF DeviceInv, Rows, RowBegins, Server!Begins
<1>2. Server!ChainShape
  BY ServerKnows DEF DeviceInv, Server!RetryInv, Server!Backed
<1>3. k = j
  BY <1>1, <1>2, RowKnown DEF Server!ChainShape
<1> QED BY <1>1, <1>3

\* The deletion that resume_pending_delete takes up is the last operation of the row.
LEMMA PendingIsLast ==
    ASSUME DeviceInv, Resumable
    PROVE  EndsIn("delete", disk.pending)
<1>1. PICK i \in 1..Len(disk.row) : disk.row[i] = [op |-> "delete", tx |-> disk.pending]
  BY DEF Resumable, DeviceInv, Agreement, PendingAgrees, InRow
<1>2. disk.row # <<>> /\ disk.row[Len(disk.row)].op = "delete"
  <2>1. Repository!StateAfter(disk.row) = Repository!PendingDelete
    BY DEF Resumable, RowState
  <2>2. disk.row # <<>>
    BY <2>1 DEF Repository!StateAfter, Repository!PendingDelete, Repository!NotInstalled
  <2>3. Len(disk.row) \in 1..Len(disk.row)
    BY <2>2, RowKnown, EmptySeq, LenProperties
  <2>4. disk.row[Len(disk.row)].op \in Repository!Op
    <3>1. disk.row[Len(disk.row)] \in Server!Repository!Entry
      BY <2>3, RowKnown
    <3> QED BY <3>1, OneRepository DEF Server!Repository!Entry
  <2> QED BY <2>1, <2>2, <2>4 DEF Repository!StateAfter, Repository!PendingDelete,
          Repository!Target, Repository!Op, Repository!Installed, Repository!Enabled,
          Repository!Disabled, Repository!Tombstone
<1>3. Len(disk.row) \in 1..Len(disk.row) /\ Len(disk.row) \in 1..Len(history[disk.lph])
  BY <1>2, RowKnown, EmptySeq, LenProperties
<1>4. history[disk.lph][Len(disk.row)] = disk.row[Len(disk.row)]
  BY <1>3 DEF DeviceInv, Rows, RowBegins, Server!Begins
<1>5. i = Len(disk.row)
  BY <1>1, <1>2, <1>3, <1>4, OneDelete
<1> QED BY <1>1, <1>2, <1>5 DEF EndsIn

LEMMA ResumeKept ==
    ASSUME Persistent = TRUE, DeviceInv, ResumePendingDelete
    PROVE  DeviceInv'
<1> USE DEF Opening, Asking, Deleting
<1>1. /\ pc = "idle" /\ waiting = NoCall /\ Resumable
      /\ cmd' = "resume" /\ pc' = "commit" /\ session' = disk.pending
      /\ UNCHANGED <<service, disk, file, waiting, inbox, serving>>
  BY DEF ResumePendingDelete, At, network
<1>2. PICK s \in Session : s = disk.pending /\ s # NoSession
  BY <1>1 DEF Resumable, DeviceInv, DeviceTypes, Disk
<1>3. Server!Opened(s) /\ Server!LphOf(s) = disk.lph /\ InRow("delete", s)
  BY <1>2 DEF DeviceInv, Agreement, PendingAgrees
<1>4. EndsIn("delete", s)
  BY <1>1, <1>2, PendingIsLast
<1>5. DeviceTypes'
  BY <1>1, <1>2 DEF DeviceInv, DeviceTypes, Command, Step
<1>6. Control'
  BY <1>1, <1>2 DEF Control
<1>7. UNCHANGED <<orderOf, ticketOf>>
  BY <1>1 DEF service
<1>8. SessionAgrees'
  BY <1>1, <1>2, <1>3, <1>7 DEF SessionAgrees, Server!Opened, Server!LphOf
<1>9. SignedOnRow' /\ SignFile'
  BY <1>1 DEF SignedOnRow, SignFile, At
<1>10. ToldRight'
  BY <1>1, <1>2, <1>4 DEF ToldRight, EndsIn
<1> QED BY <1>1, <1>5, <1>6, <1>8, <1>9, <1>10, CommandKept

LEMMA InstallKept ==
    ASSUME Persistent = TRUE, DeviceInv, Install
    PROVE  DeviceInv'
<1> USE DEF Opening, Asking, Deleting
<1>1. /\ pc = "install" /\ waiting = NoCall /\ file' = TRUE /\ pc' = "sign"
      /\ UNCHANGED <<service, disk, cmd, session, waiting, inbox, serving>>
  BY DEF Install, At, network
<1>2. [Server!Next]_(Server!vars) /\ UNCHANGED <<orderOf, receipt, handling>>
  BY <1>1, ServiceQuiet DEF service
<1>3. DeviceTypes' /\ Control'
  BY <1>1 DEF DeviceInv, DeviceTypes, Step, Control, Deletes
<1>4. SessionAgrees' /\ SignedOnRow' /\ ToldRight' /\ ServingRight'
  BY <1>1, <1>2, SessionKept, SignedKept, ToldKept, ServingKept
<1>5. ReceiptFile' /\ ServerLive' /\ SignFile'
  BY <1>1 DEF ReceiptFile, ServerLive, Live, SignFile
<1> QED BY <1>1, <1>2, <1>3, <1>4, <1>5, FrameKept DEF DeviceInv, Agreement, Rows

-----------------------------------------------------------------------------
(* Tickets and sessions.                                                   *)

\* A ticket that is saved is new to the server; a command begins.
LEMMA SaveTicketKept ==
    ASSUME Persistent = TRUE, DeviceInv, NEW d \in Disk, NEW op \in Service!OrderOp,
           NEW command \in {"issue", "operation"}, SaveTicket(d, op, command),
           command = "operation" => op # "download",
           d.pending = disk.pending,
           \/ d.lph = disk.lph /\ d.row = disk.row
           \/ /\ d.row = <<>> /\ d.lph \in Lph /\ d.pending = NoSession
              /\ \A t \in Ticket : orderOf[t] # NoOrder => orderOf[t].lph # d.lph
    PROVE  DeviceInv'
<1> USE DEF Opening, Asking, Deleting
<1>1. /\ pc = "idle" /\ waiting = NoCall /\ UnissuedTicket # {}
      /\ disk' = [d EXCEPT !.ticket = Fresh(UnissuedTicket), !.op = op]
      /\ cmd' = command /\ pc' = "orders"
      /\ UNCHANGED <<service, file, session, waiting, inbox, serving>>
  BY DEF SaveTicket, At, network
<1>2. PICK t \in Ticket : t = Fresh(UnissuedTicket) /\ orderOf[t] = NoOrder
  BY <1>1 DEF Fresh, UnissuedTicket
<1>3. t # NoTicket
  BY <1>2, ServerAssumed DEF Server!ServiceAssumption
<1>4. /\ disk'.ticket = t /\ disk'.op = op /\ disk'.lph = d.lph /\ disk'.row = d.row
      /\ disk'.pending = d.pending /\ disk' \in Disk
  BY <1>1, <1>2 DEF Disk
<1>5. session = NoSession
  BY <1>1 DEF DeviceInv, Control
<1>6. [Server!Next]_(Server!vars)
      /\ UNCHANGED <<orderOf, ticketOf, history, receipt, holds, handling>>
  BY <1>1, ServiceQuiet DEF service
<1>7. Server!SignedInv' /\ Server!SignedInv
  BY <1>6, ServerGoes DEF DeviceInv
<1>8. DeviceTypes'
  BY <1>1, <1>4 DEF DeviceInv, DeviceTypes, Command, Step
<1>9. Control'
  BY <1>1, <1>3, <1>4, <1>5 DEF Control, Deletes
<1>10. TicketAgrees'
  BY <1>2, <1>4, <1>6 DEF TicketAgrees
<1>11. SessionAgrees' /\ SignedOnRow' /\ ToldRight' /\ SignFile'
  BY <1>1, <1>5 DEF SessionAgrees, SignedOnRow, ToldRight, SignFile, At
<1>12. ServingRight'
  BY <1>1, <1>6, ServingKept
<1>13. CASE d.lph = disk.lph /\ d.row = disk.row
  <2>1. disk'.lph = disk.lph /\ disk'.row = disk.row /\ disk'.pending = disk.pending
    BY <1>4, <1>13
  <2>2. PendingAgrees'
    BY <1>6, <2>1 DEF DeviceInv, Agreement, PendingAgrees, InRow, Server!Opened, Server!LphOf
  <2>3. RowBegins' /\ NoneAhead'
    BY <1>6, <2>1 DEF DeviceInv, Rows, RowBegins, NoneAhead, Server!Begins, Server!LphOf
  <2>4. ReceiptFile' /\ ServerLive'
    BY <1>1, <1>6, <2>1
       DEF DeviceInv, ReceiptFile, MayInstall, ServerLive, Live, Server!Op, Server!LphOf
  <2> QED BY <1>7, <1>8, <1>9, <1>10, <1>11, <1>12, <2>2, <2>3, <2>4
          DEF DeviceInv, Agreement, Rows
<1>14. CASE /\ d.row = <<>> /\ d.lph \in Lph /\ d.pending = NoSession
            /\ \A u \in Ticket : orderOf[u] # NoOrder => orderOf[u].lph # d.lph
  <2>1. \A s \in Session : Server!Opened(s) => Server!LphOf(s) # d.lph
    <3> SUFFICES ASSUME NEW s \in Session, Server!Opened(s) PROVE Server!LphOf(s) # d.lph
      OBVIOUS
    <3>1. ticketOf[s] \in Ticket /\ orderOf[ticketOf[s]] \in Server!Order
      BY <1>7, ServerKnows, ServerAssumed, Server!OpenedOrder
    <3>2. orderOf[ticketOf[s]] # NoOrder
      BY <3>1, ServerAssumed DEF Server!ServiceAssumption
    <3> QED BY <1>14, <3>1, <3>2 DEF Server!LphOf
  <2>2. history[d.lph] = <<>>
    <3>1. history[d.lph] \in Seq(Server!Repository!Entry)
      BY <1>7, <1>14, ServerKnows DEF Server!TypeOK
    <3>2. ASSUME history[d.lph] # <<>> PROVE FALSE
      <4>1. 1 \in 1..Len(history[d.lph])
        BY <3>1, <3>2, EmptySeq, LenProperties
      <4>2. PICK s \in Session : Server!Opened(s) /\ Server!LphOf(s) = d.lph
        BY <1>7, <1>14, <4>1, ServerAssumed, Server!SignedEntry
      <4> QED BY <2>1, <4>2
    <3> QED BY <3>2
  <2>3. \A s \in Session : receipt[s] # NoReceipt => Server!LphOf(s) # d.lph
    BY <1>7, <2>1, SignedOpened
  <2>4. PendingAgrees'
    BY <1>4, <1>14 DEF PendingAgrees
  <2>5. RowBegins'
    BY <1>4, <1>6, <1>14, <2>2, EmptySeq DEF RowBegins, Server!Begins
  <2>6. NoneAhead' /\ ReceiptFile'
    BY <1>4, <1>6, <2>3 DEF NoneAhead, ReceiptFile, Server!LphOf
  <2>7. ServerLive'
    BY <1>4, <1>6, <2>2 DEF ServerLive, Live, Repository!StateAfter,
       Repository!NotInstalled, Repository!Installed, Repository!Enabled, Repository!Disabled
  <2> QED BY <1>7, <1>8, <1>9, <1>10, <1>11, <1>12, <2>4, <2>5, <2>6, <2>7
          DEF DeviceInv, Agreement, Rows
<1> QED BY <1>13, <1>14

LEMMA TicketsKept ==
    ASSUME Persistent = TRUE, DeviceInv,
           \/ \E op \in Ops : IssueTicket(op) \/ RunOperation(op)
           \/ IssueFreshTicket
    PROVE  DeviceInv'
<1>1. disk \in Disk
  BY DEF DeviceInv, DeviceTypes
<1>2. CASE \E op \in Ops : IssueTicket(op) \/ RunOperation(op)
  <2>1. PICK op \in Service!OrderOp : IssueTicket(op) \/ RunOperation(op)
    BY <1>2, DeviceAssumption
  <2> QED BY <1>1, <2>1, SaveTicketKept DEF IssueTicket, RunOperation
<1>3. CASE IssueFreshTicket
  <2> DEFINE d == [disk EXCEPT !.lph = Fresh(UndrawnLph), !.row = <<>>, !.present = FALSE]
  <2>1. /\ disk.pending # NoSession => disk.row = <<>>
        /\ UndrawnLph # {} /\ SaveTicket(d, "download", "issue")
    BY <1>3 DEF IssueFreshTicket
  <2>2. /\ Fresh(UndrawnLph) \in Lph
        /\ \A t \in Ticket : orderOf[t] # NoOrder => orderOf[t].lph # Fresh(UndrawnLph)
    BY <2>1 DEF Fresh, UndrawnLph
  <2>3. <<>> \in Seq(Repository!Entry)
    BY EmptySeq
  <2>4. /\ d \in Disk /\ d.lph = Fresh(UndrawnLph) /\ d.row = <<>>
        /\ d.pending = disk.pending
    BY <1>1, <2>2, <2>3 DEF Disk
  <2>5. disk.pending = NoSession
    <3>1. disk.row = <<>> => ~InRow("delete", disk.pending)
      BY EmptySeq DEF InRow
    <3> QED BY <2>1, <3>1 DEF DeviceInv, Agreement, PendingAgrees
  <2> HIDE DEF d
  <2> QED BY <2>1, <2>2, <2>4, <2>5, SaveTicketKept DEF Service!OrderOp
<1> QED BY <1>2, <1>3

\* orders.json gets the order that device.json has.
LEMMA SaveOrdersKept ==
    ASSUME Persistent = TRUE, DeviceInv, SaveOrders
    PROVE  DeviceInv'
<1> USE DEF Opening, Asking, Deleting
<1>1. /\ pc = "orders" /\ waiting = NoCall /\ UNCHANGED <<disk, file, inbox, serving>>
      /\ Server!Issue(disk.ticket, disk.op, disk.lph) /\ [Server!Next]_(Server!vars)
  BY OneServer, StepOfServer DEF SaveOrders, At, network, Next
<1>2. \/ Stopped
      \/ cmd # "issue" /\ pc' = "initiate" /\ UNCHANGED <<cmd, session, waiting>>
  BY DEF SaveOrders
<1>3. UNCHANGED <<receipt, handling>>
  BY <1>1 DEF Server!Issue, Server!client
<1>4. session = NoSession /\ disk.ticket # NoTicket /\ cmd \in {"issue", "operation"}
  BY <1>1 DEF DeviceInv, Control
<1>5. TicketAgrees'
  <2>1. disk.ticket \in Ticket /\ orderOf \in [Ticket -> Server!Order \cup {NoOrder}]
    BY <1>4, ServerKnows DEF DeviceInv, DeviceTypes, Disk, Server!TypeOK
  <2> QED BY <1>1, <2>1 DEF TicketAgrees, Server!Issue
<1>6. ServingRight'
  BY <1>1, <1>3, ServingKept
<1>7. DeviceTypes'
  BY <1>1, <1>2 DEF DeviceInv, DeviceTypes, Stopped, Command, Step
<1>8. Control' /\ SessionAgrees' /\ SignedOnRow' /\ ToldRight' /\ SignFile'
  <2>1. CASE Stopped
    BY <2>1, StoppedKept
  <2>2. CASE cmd # "issue" /\ pc' = "initiate" /\ UNCHANGED <<cmd, session, waiting>>
    <3>1. Control'
      BY <1>1, <1>4, <2>2 DEF DeviceInv, Control
    <3> QED BY <1>4, <2>2, <3>1 DEF SessionAgrees, SignedOnRow, ToldRight, SignFile, At
  <2> QED BY <1>2, <2>1, <2>2
<1> QED BY <1>1, <1>3, <1>5, <1>6, <1>7, <1>8, FrameKept, LiveKept DEF DeviceInv, Agreement, Rows

\* A session that opens is for the Profile of the row, which does not have it.
LEMMA InitiateKept ==
    ASSUME Persistent = TRUE, DeviceInv, Initiate
    PROVE  DeviceInv'
<1> USE DEF Opening, Asking, Deleting
<1>1. /\ pc = "initiate" /\ waiting = NoCall /\ UNCHANGED <<disk, file, inbox, serving>>
      /\ UnopenedSession # {} /\ [Server!Next]_(Server!vars)
      /\ Server!Initiate(Fresh(UnopenedSession), disk.ticket)
  BY OneServer, StepOfServer DEF Initiate, At, network, Next
<1>2. PICK s \in Session : s = Fresh(UnopenedSession) /\ ~Server!Opened(s)
  BY <1>1, DrawnSession
<1>3. \/ Stopped
      \/ pc' = "authenticate" /\ session' = s /\ UNCHANGED <<cmd, waiting>>
  BY <1>2 DEF Initiate
<1>4. UNCHANGED <<orderOf, history, receipt, handling>>
  BY <1>1 DEF Server!Initiate, Server!tickets, Server!client
<1>5. cmd \in {"run", "operation"} /\ disk.ticket \in Ticket /\ disk.ticket # NoTicket
  BY <1>1 DEF DeviceInv, Control, DeviceTypes, Disk
<1>6. Server!SignedInv /\ Server!SignedInv'
  BY <1>1, ServerGoes DEF DeviceInv
<1>7. ticketOf'[s] = disk.ticket
  BY <1>1, <1>2, <1>6, ServerKnows DEF Server!Initiate, Server!TypeOK
<1>8. orderOf[disk.ticket] = [op |-> disk.op, lph |-> disk.lph]
  <2>1. orderOf[disk.ticket] # NoOrder
    BY <1>1, <1>5, <1>6, ServerKnows, ServerAssumed
       DEF Server!Initiate, Server!KnowsOrder, Server!Known, Server!Issued,
           Server!ServiceAssumption
  <2> QED BY <1>5, <2>1 DEF DeviceInv, Agreement, TicketAgrees
<1>9. DeviceTypes'
  BY <1>1, <1>2, <1>3 DEF DeviceInv, DeviceTypes, Stopped, Command, Step
<1>10. Control' /\ SessionAgrees' /\ SignedOnRow' /\ ToldRight' /\ SignFile'
  <2>1. CASE Stopped
    BY <2>1, StoppedKept
  <2>2. CASE pc' = "authenticate" /\ session' = s /\ UNCHANGED <<cmd, waiting>>
    <3>1. s # NoSession
      BY <1>2, ServerAssumed DEF Server!ServiceAssumption
    <3>2. Control'
      BY <1>1, <1>5, <2>2, <3>1 DEF DeviceInv, Control
    <3>3. SessionAgrees'
      BY <1>1, <1>4, <1>5, <1>7, <1>8, <2>2
         DEF SessionAgrees, Server!Opened, Server!LphOf, Server!Op
    <3>4. receipt[s] = NoReceipt
      BY <1>2, <1>6, SignedOpened
    <3>5. ASSUME NEW i \in 1..Len(disk.row) PROVE disk.row[i].tx # s
      <4>1. i \in 1..Len(history[disk.lph]) /\ history[disk.lph][i] = disk.row[i]
        BY RowKnown DEF DeviceInv, Rows, RowBegins, Server!Begins
      <4>2. Server!Opened(history[disk.lph][i].tx)
        BY <1>6, <4>1, RowKnown, ServerAssumed, Server!SignedEntry
      <4> QED BY <1>2, <4>1, <4>2
    <3>6. SignedOnRow'
      BY <1>1, <1>4, <2>2, <3>4, <3>5 DEF SignedOnRow
    <3>7. ToldRight' /\ SignFile'
      BY <2>2 DEF ToldRight, SignFile, At
    <3> QED BY <3>2, <3>3, <3>6, <3>7
  <2> QED BY <1>3, <2>1, <2>2
<1>11. ServingRight'
  BY <1>1, <1>4, ServingKept
<1> QED BY <1>1, <1>4, <1>9, <1>10, <1>11, QuietKept

LEMMA InitiateRefusedKept ==
    ASSUME Persistent = TRUE, DeviceInv, InitiateRefused
    PROVE  DeviceInv'
<1>1. /\ UNCHANGED <<disk, file, inbox, serving>> /\ Stopped
      /\ Server!ImportOrder(disk.ticket) /\ [Server!Next]_(Server!vars)
  BY OneServer, StepOfServer DEF InitiateRefused, network, Next
<1>2. UNCHANGED <<orderOf, receipt, handling>>
  BY <1>1 DEF Server!ImportOrder, Server!tickets, Server!client
<1>3. DeviceTypes'
  BY <1>1 DEF DeviceInv, DeviceTypes, Stopped, Command, Step
<1>4. ServingRight'
  BY <1>1, <1>2, ServingKept
<1> QED BY <1>1, <1>2, <1>3, <1>4, StoppedKept, QuietKept

-----------------------------------------------------------------------------
(* What is signed, and what is saved.                                      *)

LEMMA SignAndPostKept ==
    ASSUME Persistent = TRUE, DeviceInv, SignAndPost
    PROVE  DeviceInv'
<1> USE DEF Opening, Asking, Deleting
<1>1. /\ pc = "sign" /\ waiting = NoCall /\ (cmd = "run" => disk.op = "download")
      /\ Server!SignReceipt(session, disk.row) /\ Post(ReceiptCall)
      /\ UNCHANGED <<file, pc>> /\ [Server!Next]_(Server!vars)
  BY OneServer, StepOfServer DEF SignAndPost, At, Next
<1>2. /\ waiting' = ReceiptCall /\ UNCHANGED <<disk, cmd, session, serving>>
      /\ inbox' = inbox \cup {[call |-> ReceiptCall, session |-> session]}
  BY <1>1 DEF Post
<1>3. PICK s \in Session : s = session /\ Server!Opened(s) /\ Server!LphOf(s) = disk.lph
  BY <1>1, SessionKnown
<1>4. cmd \in {"run", "operation"} /\ Server!Op(s) = disk.op
  BY <1>1, <1>3 DEF DeviceInv, Agreement, SessionAgrees, Control
<1>5. Server!SignedInv
  BY DEF DeviceInv
<1>6. /\ receipt' = [receipt EXCEPT ![s] = IF disk.op = "download" THEN <<>> ELSE disk.row]
      /\ UNCHANGED <<orderOf, ticketOf, history, handling>>
  BY <1>1, <1>3, <1>4 DEF Server!SignReceipt, Server!tickets
<1>7. /\ receipt'[s] = IF disk.op = "download" THEN <<>> ELSE disk.row
      /\ \A u \in Session \ {s} : receipt'[u] = receipt[u]
  BY <1>5, <1>6, ServerKnows DEF Server!TypeOK
<1>8. NoneAhead'
  <2>1. Len(receipt'[s]) <= Len(disk.row)
    BY <1>7, RowKnown, EmptySeq, LenProperties
  <2> QED BY <1>2, <1>6, <1>7, <2>1 DEF DeviceInv, Rows, NoneAhead, Server!LphOf
<1>9. ReceiptFile'
  <2>1. ASSUME MayInstall(s)' PROVE file
    <3>1. disk.op \in {"reinstall", "download"}
      BY <1>2, <1>4, <1>6, <2>1 DEF MayInstall, Server!Op
    <3>2. FetchesProfile
      BY <1>4, <3>1 DEF FetchesProfile, DeviceInv, Control
    <3> QED BY <1>1, <3>2 DEF DeviceInv, SignFile, At
  <2>2. \A u \in Session : MayInstall(u)' <=> MayInstall(u)
    BY <1>2, <1>6 DEF MayInstall, Server!Op
  <2> QED BY <1>1, <1>2, <1>3, <1>6, <1>7, <2>1, <2>2
          DEF DeviceInv, ReceiptFile, Server!LphOf
<1>10. SignedOnRow'
  BY <1>1, <1>2, <1>3, <1>7 DEF DeviceInv, Rows, SignedOnRow
<1>11. ReceiptCall \in Call
  BY DEF ReceiptCall, Call
<1>12. DeviceTypes'
  BY <1>1, <1>2, <1>3, <1>11 DEF DeviceInv, DeviceTypes, Request
<1>13. Control'
  BY <1>1, <1>2 DEF DeviceInv, Control, Awaited, Deletes, ReceiptCall
<1>14. SessionAgrees' /\ ToldRight' /\ ServingRight' /\ ServerLive'
  BY <1>1, <1>2, <1>6, SessionKept, ToldKept, ServingKept, LiveKept
<1>15. SignFile'
  BY <1>2, <1>11, DeviceAssumption DEF SignFile, At
<1> QED BY <1>1, <1>2, <1>6, <1>8, <1>9, <1>10, <1>12, <1>13, <1>14, <1>15, FrameKept
        DEF DeviceInv, Agreement, Rows

\* A save of device.json that lets the row follow the chain, or leaves it.
LEMMA SaveKept ==
    ASSUME Persistent = TRUE, DeviceInv, UNCHANGED <<service, file, serving>>,
           disk'.ticket = disk.ticket, disk'.op = disk.op, disk'.lph = disk.lph,
           \/ disk'.row = disk.row
           \/ \E e \in Server!Repository!Entry : disk'.row = Append(disk.row, e),
           DeviceTypes', Control', SessionAgrees', PendingAgrees', RowBegins', SignedOnRow',
           ToldRight', SignFile'
    PROVE  DeviceInv'
<1>1. [Server!Next]_(Server!vars) /\ UNCHANGED <<orderOf, ticketOf, history, receipt, handling>>
  BY ServiceQuiet DEF service
<1>2. Server!SignedInv' /\ Server!SignedInv
  BY <1>1, ServerGoes DEF DeviceInv
<1>3. TicketAgrees'
  BY <1>1 DEF DeviceInv, Agreement, TicketAgrees
<1>4. NoneAhead'
  <2>1. Len(disk'.row) \in Nat /\ Len(disk.row) \in Nat /\ Len(disk.row) <= Len(disk'.row)
    BY RowKnown, AppendProperties, LenProperties
  <2>2. \A s \in Session : receipt[s] # NoReceipt => Len(receipt[s]) \in Nat
    BY <1>2, ServerKnows, LenProperties DEF Server!TypeOK
  <2> QED BY <1>1, <2>1, <2>2 DEF DeviceInv, Rows, NoneAhead, Server!LphOf
<1>5. ReceiptFile' /\ ServerLive'
  BY <1>1 DEF DeviceInv, ReceiptFile, MayInstall, ServerLive, Live, Server!Op, Server!LphOf
<1>6. ServingRight'
  BY <1>1, ServingKept
<1> QED BY <1>2, <1>3, <1>4, <1>5, <1>6 DEF DeviceInv, Agreement, Rows

\* Longer rows still have what is pending.
LEMMA PendingKept ==
    ASSUME DeviceInv, UNCHANGED <<orderOf, ticketOf, holds>>, disk'.lph = disk.lph,
           disk'.pending = disk.pending,
           \/ disk'.row = disk.row
           \/ \E e \in Server!Repository!Entry : disk'.row = Append(disk.row, e)
    PROVE  PendingAgrees'
<1>1. ASSUME NEW i \in 1..Len(disk.row)
      PROVE  i \in 1..Len(disk'.row) /\ disk'.row[i] = disk.row[i]
  <2>1. disk.row \in Seq(Server!Repository!Entry) /\ Len(disk.row) \in Nat
    BY RowKnown, LenProperties
  <2>2. CASE disk'.row = disk.row
    BY <2>2
  <2>3. CASE \E e \in Server!Repository!Entry : disk'.row = Append(disk.row, e)
    BY <2>1, <2>3, AppendProperties
  <2> QED BY <2>2, <2>3
<1>2. \A s : InRow("delete", s) => InRow("delete", s)'
  BY <1>1 DEF InRow
<1> QED BY <1>2 DEF DeviceInv, Agreement, PendingAgrees, Server!Opened, Server!LphOf, InRow

\* What the answer to a receipt makes of the row: the operation was the next of the chain.
LEMMA RowFollows ==
    ASSUME DeviceInv, pc \in {"save", "mark"}
    PROVE  /\ session \in Session /\ receipt[session] = disk.row /\ receipt[session] # NoReceipt
           /\ [op |-> Wanted, tx |-> session] \in Server!Repository!Entry
           /\ Server!Begins(Append(disk.row, [op |-> Wanted, tx |-> session]), history[disk.lph])
<1> DEFINE l == disk.lph
           e == [op |-> Wanted, tx |-> session]
<1>1. PICK s \in Session : s = session /\ Server!Opened(s) /\ Server!Chain(s) = history[l]
  BY SessionKnown DEF Opening
<1>2. Server!InHistory(s, Wanted)
  BY <1>1 DEF DeviceInv, Rows, ToldRight
<1>3. PICK i \in 1..Len(history[l]) : history[l][i] = [op |-> Wanted, tx |-> s]
  BY <1>1, <1>2 DEF Server!InHistory
<1>4. /\ cmd \in {"run", "operation"} /\ (cmd = "operation" => disk.op # "download")
      /\ cmd = "run" /\ pc = "save" => disk.op = "download"
      /\ pc = "mark" => cmd = "operation"
  BY DEF DeviceInv, Control, Asking, Deletes
<1>5. Wanted # "commit-delete" /\ (cmd = "run" => Wanted = "install")
  BY <1>4, OneRepository DEF Wanted, DeviceInv, DeviceTypes, Disk, Server!OrderOp
<1>6. receipt[s] # NoReceipt /\ Len(receipt[s]) = i - 1
  <2>1. history[l][i].tx = s /\ history[l][i].op # "commit-delete"
    BY <1>3, <1>5
  <2>2. receipt[s] # NoReceipt
    BY <2>1, RowKnown, ServerAssumed, Server!SignedEntry DEF DeviceInv
  <2> QED BY <2>1, <2>2, RowKnown DEF DeviceInv, Server!SignedInv, Server!HistorySigned
<1>7. /\ \A j \in 1..Len(disk.row) : disk.row[j].tx # s
      /\ receipt[s] = IF disk.op = "download" THEN <<>> ELSE disk.row
  BY <1>1, <1>6 DEF DeviceInv, Rows, SignedOnRow, Asking
<1>8. /\ Len(disk.row) \in Nat /\ \A j \in 1..Len(disk.row) : disk.row[j] = history[l][j]
  BY RowKnown, LenProperties DEF DeviceInv, Rows, RowBegins, Server!Begins
<1>9. receipt[s] = disk.row
  <2>1. CASE disk.op = "download"
    <3>1. Len(receipt[s]) = 0 /\ receipt[s] = <<>>
      BY <1>7, <2>1, EmptySeq
    <3>2. i = 1
      BY <1>6, <3>1
    <3>3. Len(disk.row) = 0
      <4>1. ASSUME Len(disk.row) >= 1 PROVE FALSE
        <5>1. 1 \in 1..Len(disk.row) /\ disk.row[1].tx = s
          BY <1>3, <1>8, <3>2, <4>1
        <5> QED BY <1>7, <5>1
      <4> QED BY <1>8, <4>1
    <3> QED BY <3>1, <3>3, RowKnown, EmptySeq
  <2>2. CASE disk.op # "download"
    BY <1>7, <2>2
  <2> QED BY <2>1, <2>2
<1>10. e \in Server!Repository!Entry
  BY <1>1, <1>3, RowKnown
<1>11. Server!Begins(Append(disk.row, e), history[l])
  <2>1. /\ Len(Append(disk.row, e)) = Len(disk.row) + 1 /\ i = Len(disk.row) + 1
        /\ Append(disk.row, e)[i] = e
        /\ \A j \in 1..Len(disk.row) : Append(disk.row, e)[j] = disk.row[j]
    BY <1>6, <1>8, <1>9, <1>10, RowKnown, AppendProperties
  <2>2. history[l][i] = e
    BY <1>1, <1>3
  <2>3. \A j \in 1..i : Append(disk.row, e)[j] = history[l][j]
    BY <1>8, <2>1, <2>2
  <2> HIDE DEF e
  <2> QED BY <2>1, <2>3 DEF Server!Begins
<1> QED BY <1>1, <1>6, <1>9, <1>10, <1>11

LEMMA SaveRowKept ==
    ASSUME Persistent = TRUE, DeviceInv, SaveRow
    PROVE  DeviceInv'
<1> DEFINE e == [op |-> Wanted, tx |-> session]
<1>1. /\ pc = "save" /\ disk' = Save_local_state(Wanted) /\ Stopped
      /\ UNCHANGED <<service, file, inbox, serving>>
  BY DEF SaveRow, At, network, Wanted
<1>2. /\ session \in Session /\ e \in Server!Repository!Entry
      /\ receipt[session] = disk.row /\ Server!Begins(Append(disk.row, e), history[disk.lph])
  BY <1>1, RowFollows
<1>3. /\ disk'.row = Append(disk.row, e) /\ disk'.ticket = disk.ticket /\ disk'.op = disk.op
      /\ disk'.lph = disk.lph /\ disk'.pending = disk.pending /\ disk' \in Disk
  <2>1. Append(disk.row, e) \in Seq(Repository!Entry)
    BY <1>2, RowKnown, OneRepository, AppendProperties
  <2> HIDE DEF e
  <2>2. disk' = [disk EXCEPT !.row = Append(disk.row, e),
                             !.present = @ \/ Wanted \in {"install", "reinstall"}]
    BY <1>1, <1>2 DEF Save_local_state, e
  <2> QED BY <2>1, <2>2 DEF DeviceInv, DeviceTypes, Disk
<1>4. UNCHANGED <<orderOf, ticketOf, holds, history>>
  BY <1>1 DEF service
<1>5. DeviceTypes'
  BY <1>1, <1>3 DEF DeviceInv, DeviceTypes, Stopped, Command, Step
<1>6. PendingAgrees'
  BY <1>2, <1>3, <1>4, PendingKept
<1>7. RowBegins'
  BY <1>2, <1>3, <1>4 DEF RowBegins, Server!Begins
<1> QED BY <1>1, <1>2, <1>3, <1>5, <1>6, <1>7, StoppedKept, SaveKept

LEMMA MarkKept ==
    ASSUME Persistent = TRUE, DeviceInv, Mark
    PROVE  DeviceInv'
<1> USE DEF Opening, Asking, Deleting
<1> DEFINE e == [op |-> "delete", tx |-> session]
<1>1. /\ pc = "mark" /\ waiting = NoCall /\ disk' = Save_local_state("delete")
      /\ pc' = "record" /\ UNCHANGED <<service, file, cmd, session, waiting, inbox, serving>>
  BY DEF Mark, At, Save, network
<1>2. Wanted = "delete" /\ Deletes /\ "R_prep" \in holds[session]
  BY <1>1 DEF DeviceInv, Control, Deletes, Wanted, Rows, ToldRight
<1>3. /\ session \in Session /\ e \in Server!Repository!Entry
      /\ receipt[session] = disk.row /\ Server!Begins(Append(disk.row, e), history[disk.lph])
  BY <1>1, <1>2, RowFollows
<1>4. /\ disk'.row = Append(disk.row, e) /\ disk'.ticket = disk.ticket /\ disk'.op = disk.op
      /\ disk'.lph = disk.lph /\ disk'.pending = disk.pending /\ disk' \in Disk
  <2>1. Append(disk.row, e) \in Seq(Repository!Entry)
    BY <1>3, RowKnown, OneRepository, AppendProperties
  <2> HIDE DEF e
  <2>2. disk' = [disk EXCEPT !.row = Append(disk.row, e),
                             !.present = @ \/ "delete" \in {"install", "reinstall"}]
    BY <1>1, <1>3 DEF Save_local_state, e
  <2> QED BY <2>1, <2>2 DEF DeviceInv, DeviceTypes, Disk
<1>5. UNCHANGED <<orderOf, ticketOf, holds, history>>
  BY <1>1 DEF service
<1>6. DeviceTypes'
  BY <1>1, <1>4 DEF DeviceInv, DeviceTypes, Step
<1>7. Control'
  BY <1>1, <1>2, <1>4 DEF DeviceInv, Control, Deletes
<1>8. SessionAgrees'
  BY <1>1, <1>4, <1>5
     DEF DeviceInv, Agreement, SessionAgrees, Server!Opened, Server!LphOf, Server!Op
<1>9. PendingAgrees' /\ RowBegins'
  BY <1>3, <1>4, <1>5, PendingKept DEF RowBegins, Server!Begins
<1>10. SignedOnRow' /\ SignFile'
  BY <1>1 DEF SignedOnRow, SignFile, At
<1>11. ToldRight'
  <2>1. EndsIn("delete", session)'
    <3>1. Append(disk.row, e) # <<>> /\ Append(disk.row, e)[Len(Append(disk.row, e))] = e
      BY <1>3, RowKnown, AppendProperties, EmptySeq, LenProperties
    <3> QED BY <1>1, <1>4, <3>1 DEF EndsIn
  <2> QED BY <1>1, <1>2, <1>5, <2>1 DEF ToldRight, EndsIn
<1> QED BY <1>1, <1>3, <1>4, <1>6, <1>7, <1>8, <1>9, <1>10, <1>11, SaveKept

\* A save that leaves the row and the session.
LEMMA SameRowKept ==
    ASSUME Persistent = TRUE, DeviceInv, UNCHANGED <<service, file, serving>>,
           disk'.ticket = disk.ticket, disk'.op = disk.op, disk'.lph = disk.lph,
           disk'.row = disk.row, DeviceTypes', Control', SessionAgrees', PendingAgrees',
           SignedOnRow', ToldRight', SignFile'
    PROVE  DeviceInv'
<1>1. UNCHANGED history
  BY DEF service
<1>2. RowBegins'
  BY <1>1 DEF DeviceInv, Rows, RowBegins, Server!Begins
<1> QED BY <1>2, SaveKept

LEMMA RecordAndAbsentKept ==
    ASSUME Persistent = TRUE, DeviceInv, Record \/ SaveAbsent
    PROVE  DeviceInv'
<1> USE DEF Opening, Asking, Deleting
<1>1. /\ pc \in {"record", "absent"} /\ waiting = NoCall
      /\ UNCHANGED <<service, file, cmd, session, waiting, inbox, serving>>
  BY DEF Record, SaveAbsent, At, Save, network
<1>2. /\ session \in Session /\ Server!Opened(session) /\ Server!LphOf(session) = disk.lph
      /\ Deletes /\ EndsIn("delete", session) /\ disk \in Disk
  BY <1>1, SessionKnown DEF DeviceInv, DeviceTypes, Control, Rows, ToldRight
<1>3. UNCHANGED <<orderOf, ticketOf, holds, history>>
  BY <1>1 DEF service
<1>4. /\ disk'.row = disk.row /\ disk'.ticket = disk.ticket /\ disk'.op = disk.op
      /\ disk'.lph = disk.lph /\ disk' \in Disk
      /\ pc = "record" => pc' = "unlink" /\ disk'.pending = session
      /\ pc = "absent" => pc' = "commit" /\ disk'.pending = disk.pending
  BY <1>2 DEF Record, SaveAbsent, At, Save, Disk
<1>5. DeviceTypes' /\ Control'
  BY <1>1, <1>2, <1>4 DEF DeviceInv, DeviceTypes, Step, Control, Deletes
<1>6. SessionAgrees'
  BY <1>1, <1>2, <1>3, <1>4
     DEF DeviceInv, Agreement, SessionAgrees, Server!Opened, Server!LphOf, Server!Op, Deletes
<1>7. PendingAgrees'
  <2>1. CASE pc = "record"
    <3>1. "R_prep" \in holds[session]
      BY <2>1 DEF DeviceInv, Rows, ToldRight
    <3>2. InRow("delete", session)
      <4>1. Len(disk.row) \in 1..Len(disk.row)
        BY <1>2, RowKnown, EmptySeq, LenProperties DEF EndsIn
      <4> QED BY <1>2, <4>1 DEF EndsIn, InRow
    <3> QED BY <1>1, <1>2, <1>3, <1>4, <2>1, <3>1, <3>2
            DEF PendingAgrees, InRow, Server!Opened, Server!LphOf
  <2>2. CASE pc = "absent"
    BY <1>3, <1>4, <2>2, PendingKept
  <2> QED BY <1>1, <2>1, <2>2
<1>8. SignedOnRow' /\ SignFile'
  BY <1>1, <1>4 DEF SignedOnRow, SignFile, At
<1>9. ToldRight'
  BY <1>1, <1>2, <1>4 DEF ToldRight, EndsIn
<1> QED BY <1>1, <1>4, <1>5, <1>6, <1>7, <1>8, <1>9, SameRowKept

\* What the server can have beyond a row that ends in a deletion.
LEMMA BeyondRow ==
    ASSUME DeviceInv, disk.row # <<>>, disk.row[Len(disk.row)].op = "delete"
    PROVE  /\ Len(disk.row) \in 1..Len(history[disk.lph])
           /\ history[disk.lph][Len(disk.row)] = disk.row[Len(disk.row)]
           /\ \/ Len(history[disk.lph]) = Len(disk.row)
              \/ /\ Len(history[disk.lph]) = Len(disk.row) + 1
                 /\ history[disk.lph][Len(disk.row) + 1]
                      = [op |-> "commit-delete", tx |-> disk.row[Len(disk.row)].tx]
<1>1. Server!SignedInv /\ Server!Begins(disk.row, history[disk.lph]) /\ NoneAhead
  BY DEF DeviceInv, Rows, RowBegins
<1>2. Len(disk.row) \in 1..Len(disk.row)
  BY RowKnown, EmptySeq, LenProperties
<1>3. Len(disk.row) \in 1..Len(history[disk.lph])
  BY <1>2, RowKnown
<1>4. history[disk.lph][Len(disk.row)] = disk.row[Len(disk.row)]
  BY <1>1, <1>2 DEF Server!Begins
<1>5. \/ Len(history[disk.lph]) = Len(disk.row)
      \/ /\ Len(history[disk.lph]) = Len(disk.row) + 1
         /\ history[disk.lph][Len(disk.row) + 1]
              = [op |-> "commit-delete", tx |-> disk.row[Len(disk.row)].tx]
  BY <1>1, RowKnown, ServerAssumed, Server!BeyondDelete DEF NoneAhead
<1> QED BY <1>3, <1>4, <1>5

\* With the deletion on the row, nobody can make the Profile live again before it is
\* committed.
LEMMA UnlinkKept ==
    ASSUME Persistent = TRUE, DeviceInv, Unlink
    PROVE  DeviceInv'
<1> USE DEF Opening, Asking, Deleting
<1> DEFINE l == disk.lph
           n == Len(disk.row)
<1>1. /\ pc = "unlink" /\ waiting = NoCall /\ pc' = "absent" /\ file' = FALSE
      /\ UNCHANGED <<service, disk, cmd, session, waiting, inbox, serving>>
  BY DEF Unlink, At, network
<1>2. [Server!Next]_(Server!vars)
      /\ UNCHANGED <<orderOf, ticketOf, history, receipt, handling>>
  BY <1>1, ServiceQuiet DEF service
<1>3. disk.row # <<>> /\ disk.row[n].op = "delete"
  BY <1>1 DEF DeviceInv, Rows, ToldRight, EndsIn
<1>4. /\ n \in 1..Len(history[l]) /\ history[l][n].op = "delete"
      /\ \/ Len(history[l]) = n
         \/ Len(history[l]) = n + 1 /\ history[l][n + 1].op = "commit-delete"
  BY <1>3, BeyondRow
<1>5. Server!SignedInv /\ history[l] \in Seq(Server!Repository!Entry) /\ l \in Lph
  BY RowKnown DEF DeviceInv
<1>6. history[l] # <<>> /\ history[l][Len(history[l])].op \in {"delete", "commit-delete"}
  BY <1>4, <1>5, EmptySeq
<1>7. ServerLive'
  <2>1. Repository!StateAfter(history[l]) \in {4, 5}
    BY <1>6 DEF Repository!StateAfter, Repository!Target, Repository!Op,
       Repository!PendingDelete, Repository!Tombstone
  <2> QED BY <1>2, <1>1, <2>1 DEF ServerLive, Live, Repository!Installed,
          Repository!Enabled, Repository!Disabled
<1>8. ReceiptFile'
  <2> SUFFICES ASSUME NEW s \in Session, receipt[s] # NoReceipt, Server!LphOf(s) = l,
                      Server!Op(s) = "reinstall"
               PROVE  FALSE
    BY <1>1, <1>2, <1>6 DEF ReceiptFile, MayInstall, Server!LphOf, Server!Op
  <2>1. /\ receipt[s] \in Seq(Server!Repository!Entry)
        /\ Server!Begins(receipt[s], history[l])
        /\ Server!AllowedPredecessor("reinstall", Server!Repository!StateAfter(receipt[s]))
        /\ Len(receipt[s]) <= n
    BY <1>5 DEF Server!SignedInv, Server!ReceiptsKnown, Server!Chain, DeviceInv, Rows, NoneAhead
  <2>2. Repository!StateAfter(receipt[s]) = Repository!Tombstone
    <3>1. Service!AllowedPredecessor("reinstall", Repository!StateAfter(receipt[s]))
      BY <2>1, OneRepository
    <3> QED BY <3>1 DEF Service!AllowedPredecessor, Service!Repository!Tombstone,
            Repository!Tombstone
  <2>3. receipt[s] # <<>> /\ Len(receipt[s]) \in 1..Len(receipt[s])
    BY <2>1, <2>2, EmptySeq, LenProperties
       DEF Repository!StateAfter, Repository!Tombstone, Repository!NotInstalled
  <2>4. receipt[s][Len(receipt[s])].op = "commit-delete"
    <3>1. receipt[s][Len(receipt[s])] \in Server!Repository!Entry
      BY <2>1, <2>3
    <3>2. receipt[s][Len(receipt[s])].op \in Repository!Op
      BY <3>1, OneRepository DEF Server!Repository!Entry
    <3> QED BY <2>2, <2>3, <3>2 DEF Repository!StateAfter, Repository!PendingDelete,
            Repository!Target, Repository!Op, Repository!Installed, Repository!Enabled,
            Repository!Disabled, Repository!Tombstone
  <2>5. PICK k \in 1..Len(history[l]) : k <= n /\ history[l][k].op = "commit-delete"
    BY <1>5, <2>1, <2>3, <2>4, LenProperties DEF Server!Begins
  <2>6. Server!ChainShape
    BY <1>5, ServerKnows DEF Server!RetryInv, Server!Backed
  <2>7. PICK j \in 1..Len(history[l]) : j = k - 1 /\ history[l][j].op = "delete"
    <3>1. /\ k - 1 \in 1..Len(history[l])
          /\ history[l][k - 1] = [op |-> "delete", tx |-> history[l][k].tx]
      BY <1>5, <2>5, <2>6 DEF Server!ChainShape
    <3> QED BY <3>1
  <2>8. j = n
    BY <1>4, <1>5, <2>6, <2>7 DEF Server!ChainShape
  <2> QED BY <2>5, <2>7, <2>8
<1>9. DeviceTypes' /\ Control'
  BY <1>1 DEF DeviceInv, DeviceTypes, Step, Control, Deletes
<1>10. SessionAgrees' /\ ToldRight' /\ ServingRight'
  BY <1>1, <1>2, SessionKept, ToldKept, ServingKept
<1>11. SignedOnRow' /\ SignFile'
  BY <1>1 DEF SignedOnRow, SignFile, At
<1> QED BY <1>1, <1>2, <1>7, <1>8, <1>9, <1>10, <1>11, FrameKept DEF DeviceInv, Agreement, Rows

\* The commit of a deletion is the next of the chain after the row.
LEMMA SaveTombstoneKept ==
    ASSUME Persistent = TRUE, DeviceInv, SaveTombstone
    PROVE  DeviceInv'
<1> USE DEF Opening, Asking, Deleting
<1> DEFINE l == disk.lph
           e == [op |-> "commit-delete", tx |-> session]
<1>1. /\ pc = "tombstone" /\ waiting = NoCall
      /\ disk' = [disk EXCEPT !.row = Append(disk.row, e), !.present = FALSE]
      /\ pc' = "forget" /\ UNCHANGED <<service, file, cmd, session, waiting, inbox, serving>>
  BY DEF SaveTombstone, At, Save, network
<1>2. PICK s \in Session : /\ s = session /\ Server!Opened(s) /\ Server!LphOf(s) = l
                           /\ Server!Chain(s) = history[l]
  BY <1>1, SessionKnown
<1>3. EndsIn("delete", s) /\ Server!InHistory(s, "commit-delete")
  BY <1>1, <1>2 DEF DeviceInv, Rows, ToldRight
<1>4. e \in Server!Repository!Entry
  BY <1>2 DEF Server!Repository!Entry, Server!Repository!Op
<1>5. /\ disk'.row = Append(disk.row, e) /\ disk'.ticket = disk.ticket /\ disk'.op = disk.op
      /\ disk'.lph = disk.lph /\ disk'.pending = disk.pending /\ disk' \in Disk
  <2>1. Append(disk.row, e) \in Seq(Repository!Entry)
    BY <1>4, RowKnown, OneRepository, AppendProperties
  <2> HIDE DEF e
  <2> QED BY <1>1, <2>1 DEF DeviceInv, DeviceTypes, Disk
<1>6. UNCHANGED <<orderOf, ticketOf, holds, history>>
  BY <1>1 DEF service
<1>7. Server!Begins(Append(disk.row, e), history[l])
  <2>1. disk.row # <<>> /\ disk.row[Len(disk.row)].op = "delete"
    BY <1>3 DEF EndsIn
  <2>2. Len(disk.row) \in 1..Len(history[l]) /\ history[l][Len(disk.row)].op = "delete"
    BY <2>1, BeyondRow
  <2>3. PICK i \in 1..Len(history[l]) : history[l][i] = [op |-> "commit-delete", tx |-> s]
    BY <1>2, <1>3 DEF Server!InHistory
  <2>4. Server!ChainShape
    BY ServerKnows DEF DeviceInv, Server!RetryInv, Server!Backed
  <2>5. PICK j \in 1..Len(history[l]) : j = i - 1 /\ history[l][j].op = "delete"
    <3>1. history[l][i].op = "commit-delete"
      BY <2>3
    <3>2. /\ i - 1 \in 1..Len(history[l])
          /\ history[l][i - 1] = [op |-> "delete", tx |-> history[l][i].tx]
      BY <2>4, <3>1, RowKnown DEF Server!ChainShape
    <3> QED BY <3>2
  <2>6. j = Len(disk.row)
    BY <2>2, <2>4, <2>5, RowKnown DEF Server!ChainShape
  <2>7. /\ Len(Append(disk.row, e)) = Len(disk.row) + 1 /\ i = Len(disk.row) + 1
        /\ Append(disk.row, e)[i] = e
        /\ \A k \in 1..Len(disk.row) : Append(disk.row, e)[k] = disk.row[k]
    BY <1>4, <2>5, <2>6, RowKnown, AppendProperties
  <2>8. \A k \in 1..Len(disk.row) : disk.row[k] = history[l][k]
    BY DEF DeviceInv, Rows, RowBegins, Server!Begins
  <2>9. history[l][i] = e
    BY <1>2, <2>3
  <2>10. \A k \in 1..i : Append(disk.row, e)[k] = history[l][k]
    BY <2>2, <2>7, <2>8, <2>9
  <2> HIDE DEF e
  <2> QED BY <2>7, <2>10 DEF Server!Begins
<1>8. DeviceTypes'
  BY <1>1, <1>5 DEF DeviceInv, DeviceTypes, Step
<1>9. Control'
  BY <1>1, <1>5 DEF DeviceInv, Control, Deletes
<1>10. SessionAgrees'
  BY <1>1, <1>5, <1>6
     DEF DeviceInv, Agreement, SessionAgrees, Server!Opened, Server!LphOf, Server!Op
<1>11. PendingAgrees' /\ RowBegins'
  BY <1>4, <1>5, <1>6, <1>7, PendingKept DEF RowBegins, Server!Begins
<1>12. SignedOnRow' /\ ToldRight' /\ SignFile'
  BY <1>1 DEF SignedOnRow, ToldRight, SignFile, At
<1> QED BY <1>1, <1>4, <1>5, <1>8, <1>9, <1>10, <1>11, <1>12, SaveKept

LEMMA ForgetPendingKept ==
    ASSUME Persistent = TRUE, DeviceInv, ForgetPending
    PROVE  DeviceInv'
<1>1. /\ disk' = [disk EXCEPT !.pending = NoSession] /\ Stopped
      /\ UNCHANGED <<service, file, inbox, serving>>
  BY DEF ForgetPending, network
<1>2. /\ disk'.row = disk.row /\ disk'.ticket = disk.ticket /\ disk'.op = disk.op
      /\ disk'.lph = disk.lph /\ disk'.pending = NoSession /\ disk' \in Disk
  BY <1>1 DEF DeviceInv, DeviceTypes, Disk
<1>3. DeviceTypes'
  BY <1>1, <1>2 DEF DeviceInv, DeviceTypes, Stopped, Command, Step
<1>4. PendingAgrees'
  BY <1>2 DEF PendingAgrees
<1> QED BY <1>1, <1>2, <1>3, <1>4, StoppedKept, SameRowKept

-----------------------------------------------------------------------------
(* The invariant holds from the start, and through every step.             *)

LEMMA InitDevice == Init => DeviceInv
<1> SUFFICES ASSUME Init PROVE DeviceInv
  OBVIOUS
<1> USE DEF Opening, Asking, Deleting
<1>1. /\ disk = [ticket |-> NoTicket, op |-> "download", lph |-> Fresh(Lph), row |-> <<>>,
                 present |-> FALSE, pending |-> NoSession]
      /\ file = FALSE /\ cmd = "none" /\ pc = "idle" /\ session = NoSession
      /\ waiting = NoCall /\ inbox = {} /\ serving = NoRequest
  BY DEF Init
<1>2. Fresh(Lph) \in Lph
  BY DeviceAssumption DEF Fresh
<1>3. Server!Init
  BY OneServer DEF Init
<1>4. /\ history = [l \in Lph |-> <<>>] /\ handling = Idle
      /\ receipt = [s \in Session |-> NoReceipt]
  BY <1>3 DEF Server!Init, Server!Repository!Init
<1>5. DeviceTypes
  <2>1. <<>> \in Seq(Repository!Entry)
    BY EmptySeq
  <2>2. disk \in Disk
    BY <1>1, <1>2, <2>1 DEF Disk, Service!OrderOp
  <2> QED BY <1>1, <2>2 DEF DeviceTypes, Command, Step
<1>6. Control /\ SignFile
  BY <1>1 DEF Control, SignFile, At
<1>7. Agreement
  BY <1>1 DEF Agreement, TicketAgrees, SessionAgrees, PendingAgrees
<1>8. Rows
  BY <1>1, <1>2, <1>4, EmptySeq
     DEF Rows, RowBegins, Server!Begins, NoneAhead, SignedOnRow, ToldRight
<1>9. ServingRight /\ ReceiptFile
  BY <1>4 DEF ServingRight, ReceiptFile
<1>10. ServerLive
  BY <1>1, <1>2, <1>4 DEF ServerLive, Live, Repository!StateAfter,
     Repository!NotInstalled, Repository!Installed, Repository!Enabled, Repository!Disabled
<1> QED BY <1>3, <1>5, <1>6, <1>7, <1>8, <1>9, <1>10, ServerAssumed, Server!InitSigned
        DEF DeviceInv

LEMMA StepDevice ==
    ASSUME Persistent = TRUE, DeviceInv, [Next]_vars
    PROVE  DeviceInv'
<1>1. CASE UNCHANGED vars
  <2>1. UNCHANGED <<service, disk, file, cmd, pc, session, waiting, inbox, serving>>
    BY <1>1 DEF vars, device, client, network
  <2>2. UNCHANGED <<inbox, device, serving>> /\ [Server!Next]_(Server!vars)
        /\ UNCHANGED <<orderOf, receipt, handling>>
    BY <2>1, ServiceQuiet DEF service, device, client
  <2> QED BY <2>2, ServingKept, ServerKept DEF DeviceInv, DeviceTypes
<1>2. CASE \/ \E op \in Ops : IssueTicket(op) \/ RunOperation(op)
           \/ IssueFreshTicket \/ SaveOrders
  BY <1>2, TicketsKept, SaveOrdersKept
<1>3. CASE Run \/ Stop \/ Initiate \/ InitiateRefused
  BY <1>3, RunAndStopKept, InitiateKept, InitiateRefusedKept
<1>4. CASE PostAuthenticate \/ PostKeys \/ PostCommit \/ PostAgain
  BY <1>4, PostsKept, PostAgainKept
<1>5. CASE Install \/ SignAndPost \/ SaveRow
  BY <1>5, InstallKept, SignAndPostKept, SaveRowKept
<1>6. CASE Mark \/ Record \/ Unlink \/ SaveAbsent
  BY <1>6, MarkKept, RecordAndAbsentKept, UnlinkKept
<1>7. CASE SaveTombstone \/ ForgetPending \/ ResumePendingDelete
  BY <1>7, SaveTombstoneKept, ForgetPendingKept, ResumeKept
<1>8. CASE \E m \in inbox : Serve(m) \/ ServeAgain(m) \/ Lose(m)
  BY <1>8, ServeKept, ServeAgainKept, LoseKept
<1>9. CASE Work \/ Respond
  BY <1>9, WorkKept, RespondKept
<1>10. CASE ServerRestart \/ Read \/ RespondLost \/ \E t \in Ticket : Expire(t)
  BY <1>10, RestartAndReadKept
<1> QED BY <1>1, <1>2, <1>3, <1>4, <1>5, <1>6, <1>7, <1>8, <1>9, <1>10 DEF Next, Commits

LEMMA AlwaysDevice ==
    ASSUME Persistent = TRUE
    PROVE  Spec => []DeviceInv
BY InitDevice, StepDevice, PTL DEF Spec

-----------------------------------------------------------------------------
(* The row of the device and the Profile on it.                            *)

\* The state of a row is the one that its last operation leads to.
LEMMA StateOfLast ==
    ASSUME NEW row \in Seq(Server!Repository!Entry), NEW e \in Server!Repository!Entry
    PROVE  /\ Repository!StateAfter(Append(row, e)) = Repository!Target[e.op]
           /\ e.op \in Repository!Op
<1>1. Append(row, e) # <<>> /\ Append(row, e)[Len(Append(row, e))] = e
  BY AppendProperties, EmptySeq, LenProperties
<1>2. e.op \in Repository!Op
  BY OneRepository DEF Server!Repository!Entry
<1> QED BY <1>1, <1>2 DEF Repository!StateAfter

\* A deletion, or its commit, takes the row out of its live states.
LEMMA DeletedNotLive ==
    Repository!Target["delete"] \notin Live /\ Repository!Target["commit-delete"] \notin Live
BY DEF Live, Repository!Target, Repository!Op, Repository!Installed, Repository!Enabled,
   Repository!Disabled, Repository!PendingDelete, Repository!Tombstone

\* Most steps keep the row and the Profile.
LEMMA RowFileQuiet ==
    ASSUME RowFile, file' = file, disk'.row = disk.row,
           pc' \in {"sign", "save"} =>
             \/ pc \in {"sign", "save"} /\ (FetchesProfile' => FetchesProfile)
             \/ ~FetchesProfile'
    PROVE  RowFile'
<1>1. RowState' = RowState
  BY DEF RowState
<1>2. RowState' \in Live => file'
  BY <1>1 DEF RowFile
<1> QED BY <1>2 DEF RowFile

\* The step that follows an answer is "sign" only for a receipt that follows no Profile.
LEMMA RowFileAnswered ==
    ASSUME DeviceInv, RowFile, NEW m \in Request, Answered(m)
    PROVE  RowFile'
<1>1. /\ pc' = Following /\ UNCHANGED <<disk, file, cmd>> /\ m.call = waiting
  BY DEF Answered
<1>2. waiting # NoCall
  BY <1>1, DeviceAssumption DEF Request
<1>3. pc \in {"authenticate", "keys", "sign", "commit"}
  BY <1>2 DEF DeviceInv, Control
<1>4. FetchesProfile' = FetchesProfile
  BY <1>1 DEF FetchesProfile
<1>5. pc' \in {"sign", "save"} => pc = "sign" \/ ~FetchesProfile'
  BY <1>1, <1>3, <1>4 DEF Following
<1> QED BY <1>1, <1>4, <1>5, RowFileQuiet

\* A command posts the receipt once more from where it has the answer to it.
LEMMA RowFilePosts ==
    ASSUME DeviceInv, RowFile,
           \/ PostAuthenticate \/ PostKeys \/ SignAndPost \/ PostCommit \/ PostAgain
    PROVE  RowFile'
<1>1. UNCHANGED <<disk, file, cmd>>
  BY DEF PostAuthenticate, PostKeys, SignAndPost, PostCommit, PostAgain, Post
<1>2. FetchesProfile' = FetchesProfile
  BY <1>1 DEF FetchesProfile
<1>3. CASE PostAuthenticate \/ PostKeys \/ SignAndPost \/ PostCommit
  <2>1. pc' = pc
    BY <1>3 DEF PostAuthenticate, PostKeys, SignAndPost, PostCommit
  <2> QED BY <1>1, <1>2, <2>1, RowFileQuiet
<1>4. CASE PostAgain
  <2>1. PICK step \in {[from |-> "keys", to |-> "authenticate"], [from |-> "mark", to |-> "sign"],
                       [from |-> "save", to |-> "sign"],
                       [from |-> "tombstone", to |-> "commit"]} :
          pc = step.from /\ pc' = step.to
    BY <1>4 DEF PostAgain, At
  <2>2. pc = "mark" => ~FetchesProfile
    BY DEF DeviceInv, Control, Deletes, FetchesProfile
  <2>3. pc' \in {"sign", "save"} => pc = "save" \/ ~FetchesProfile'
    BY <1>2, <2>1, <2>2
  <2> QED BY <1>1, <1>2, <2>3, RowFileQuiet
<1> QED BY <1>3, <1>4

\* A ticket leaves the row, or drops it.
LEMMA RowFileTickets ==
    ASSUME DeviceInv, RowFile,
           \/ \E op \in Ops : IssueTicket(op) \/ RunOperation(op)
           \/ IssueFreshTicket
    PROVE  RowFile'
<1>1. disk \in Disk
  BY DEF DeviceInv, DeviceTypes
<1>2. CASE \E op \in Ops : IssueTicket(op) \/ RunOperation(op)
  <2>1. PICK op \in Ops : IssueTicket(op) \/ RunOperation(op)
    BY <1>2
  <2>2. /\ disk' = [disk EXCEPT !.ticket = Fresh(UnissuedTicket), !.op = op]
        /\ pc' = "orders" /\ file' = file
    BY <2>1 DEF IssueTicket, RunOperation, SaveTicket
  <2>3. disk'.row = disk.row
    BY <1>1, <2>2 DEF Disk
  <2> QED BY <2>2, <2>3, RowFileQuiet
<1>3. CASE IssueFreshTicket
  <2> DEFINE d == [disk EXCEPT !.lph = Fresh(UndrawnLph), !.row = <<>>, !.present = FALSE]
  <2>1. /\ disk' = [d EXCEPT !.ticket = Fresh(UnissuedTicket), !.op = "download"]
        /\ pc' = "orders"
    BY <1>3 DEF IssueFreshTicket, SaveTicket
  <2>2. disk'.row = <<>>
    BY <1>1, <2>1 DEF Disk
  <2>3. RowState' \notin Live
    BY <2>2 DEF RowState, Repository!StateAfter, Live, Repository!NotInstalled,
       Repository!Installed, Repository!Enabled, Repository!Disabled
  <2> QED BY <2>1, <2>3 DEF RowFile
<1> QED BY <1>2, <1>3

\* The row that a receipt makes is live only with the Profile on the device: it has just
\* been installed, or the receipt was signed on a row that was live.
LEMMA RowFileSaved ==
    ASSUME DeviceInv, RowFile, SaveRow
    PROVE  RowFile'
<1> DEFINE e == [op |-> Wanted, tx |-> session]
<1>1. /\ pc = "save" /\ disk' = Save_local_state(Wanted) /\ pc' = "idle" /\ file' = file
  BY DEF SaveRow, At, Wanted, Stopped
<1>2. /\ session \in Session /\ e \in Server!Repository!Entry
      /\ receipt[session] = disk.row /\ receipt[session] # NoReceipt
  BY <1>1, RowFollows
<1>3. disk.row \in Seq(Server!Repository!Entry) /\ disk \in Disk
  BY RowKnown DEF DeviceInv, DeviceTypes
<1>4. disk'.row = Append(disk.row, e)
  <2> HIDE DEF e
  <2>1. disk' = [disk EXCEPT !.row = Append(disk.row, e),
                             !.present = @ \/ Wanted \in {"install", "reinstall"}]
    BY <1>1, <1>2 DEF Save_local_state, e
  <2> QED BY <1>3, <2>1 DEF Disk
<1>5. RowState' = Repository!Target[Wanted] /\ Wanted \in Repository!Op
  <2>1. e.op = Wanted
    OBVIOUS
  <2>2. RowState' = Repository!StateAfter(Append(disk.row, e))
    BY <1>4 DEF RowState
  <2> HIDE DEF e
  <2> QED BY <1>2, <1>3, <2>1, <2>2, StateOfLast
<1>6. CASE FetchesProfile
  BY <1>1, <1>6 DEF RowFile
<1>7. CASE Wanted = "delete"
  BY <1>1, <1>5, <1>7, DeletedNotLive DEF RowFile
<1>8. CASE ~FetchesProfile /\ Wanted # "delete"
  <2>1. cmd = "operation" /\ disk.op # "download" /\ Server!Op(session) = disk.op
    <3>1. cmd \in {"run", "operation"} /\ session # NoSession
      BY <1>1 DEF DeviceInv, Control, Asking, Opening
    <3> QED BY <1>8, <3>1 DEF DeviceInv, Control, Agreement, SessionAgrees, FetchesProfile
  <2>2. disk.op \in {"enable", "disable"}
    BY <1>3, <1>8, <2>1 DEF Wanted, FetchesProfile, Disk, Service!OrderOp
  <2>3. Server!AllowedPredecessor(disk.op, Server!Repository!StateAfter(disk.row))
    BY <1>2, <2>1 DEF DeviceInv, Server!SignedInv, Server!ReceiptsKnown
  <2>4. Service!AllowedPredecessor(disk.op, RowState)
    BY <2>3, OneRepository DEF RowState
  <2>5. RowState \in Live
    BY <2>2, <2>4 DEF Service!AllowedPredecessor, Live, Service!Repository!Installed,
       Service!Repository!Enabled, Service!Repository!Disabled, Repository!Installed,
       Repository!Enabled, Repository!Disabled
  <2> QED BY <1>1, <2>5 DEF RowFile
<1> QED BY <1>6, <1>7, <1>8

\* With a deletion, or its commit, on the row, no Profile need be on the device.
LEMMA RowFileDeleted ==
    ASSUME DeviceInv, RowFile, Mark \/ Unlink \/ SaveTombstone
    PROVE  RowFile'
<1> DEFINE d == [op |-> "delete", tx |-> session]
           c == [op |-> "commit-delete", tx |-> session]
<1>1. /\ disk \in Disk /\ disk.row \in Seq(Server!Repository!Entry)
      /\ pc \notin Opening /\ pc' \notin {"sign", "save"}
  BY RowKnown DEF DeviceInv, DeviceTypes, Mark, Unlink, SaveTombstone, At, Save, Opening
<1>2. session \in Session
  BY <1>1, SessionKnown
<1>3. d \in Server!Repository!Entry /\ c \in Server!Repository!Entry
  BY <1>2 DEF Server!Repository!Entry, Server!Repository!Op
<1>4. RowState' \notin Live
  <2>1. CASE Mark
    <3>1. disk' = Save_local_state("delete") /\ pc = "mark"
      BY <2>1 DEF Mark, At, Save
    <3>2. receipt[session] = disk.row
      BY <3>1, RowFollows
    <3>3. disk'.row = Append(disk.row, d)
      <4> HIDE DEF d
      <4>1. disk' = [disk EXCEPT !.row = Append(disk.row, d),
                                 !.present = @ \/ "delete" \in {"install", "reinstall"}]
        BY <3>1, <3>2 DEF Save_local_state, d
      <4> QED BY <1>1, <4>1 DEF Disk
    <3>4. d.op = "delete"
      OBVIOUS
    <3> HIDE DEF d
    <3> QED BY <1>1, <1>3, <3>3, <3>4, StateOfLast, DeletedNotLive DEF RowState
  <2>2. CASE Unlink
    <3>1. disk' = disk /\ pc = "unlink"
      BY <2>2 DEF Unlink, At
    <3>2. disk.row # <<>> /\ disk.row[Len(disk.row)].op = "delete"
      BY <3>1 DEF DeviceInv, Rows, ToldRight, Deleting, EndsIn
    <3> QED BY <3>1, <3>2, DeletedNotLive DEF RowState, Repository!StateAfter
  <2>3. CASE SaveTombstone
    <3>1. disk' = [disk EXCEPT !.row = Append(@, c), !.present = FALSE]
      BY <2>3 DEF SaveTombstone, Save
    <3>2. c.op = "commit-delete"
      OBVIOUS
    <3> HIDE DEF c
    <3>3. disk'.row = Append(disk.row, c)
      BY <1>1, <3>1 DEF Disk
    <3> QED BY <1>1, <1>3, <3>2, <3>3, StateOfLast, DeletedNotLive DEF RowState
  <2> QED BY <2>1, <2>2, <2>3
<1> QED BY <1>1, <1>4 DEF RowFile

\* The steps of the server and the network, and those by which a command begins and ends.
LEMMA RowFileElse ==
    ASSUME DeviceInv, RowFile, UNCHANGED <<disk, file>>,
           UNCHANGED <<cmd, pc>> \/ pc' \notin {"sign", "save"}
    PROVE  RowFile'
BY RowFileQuiet DEF FetchesProfile

LEMMA StepRowFile ==
    ASSUME DeviceInv, RowFile, [Next]_vars
    PROVE  RowFile'
<1>1. CASE UNCHANGED vars
  BY <1>1, RowFileElse DEF vars, device, client
<1>2. CASE \/ \E op \in Ops : IssueTicket(op) \/ RunOperation(op)
           \/ IssueFreshTicket
  BY <1>2, RowFileTickets
<1>3. CASE SaveOrders \/ Run \/ Stop \/ Initiate \/ InitiateRefused \/ ResumePendingDelete
  <2>1. UNCHANGED <<disk, file>> /\ pc' \in {"idle", "initiate", "authenticate", "commit"}
    BY <1>3 DEF SaveOrders, Run, Stop, Initiate, InitiateRefused, ResumePendingDelete, Stopped
  <2> QED BY <2>1, RowFileElse
<1>4. CASE PostAuthenticate \/ PostKeys \/ SignAndPost \/ PostCommit \/ PostAgain
  BY <1>4, RowFilePosts
<1>5. CASE Install
  BY <1>5 DEF Install, RowFile
<1>6. CASE SaveRow
  BY <1>6, RowFileSaved
<1>7. CASE Mark \/ Unlink \/ SaveTombstone
  BY <1>7, RowFileDeleted
<1>8. CASE Record \/ SaveAbsent \/ ForgetPending
  <2>1. file' = file /\ pc' \in {"unlink", "commit", "idle"}
    BY <1>8 DEF Record, SaveAbsent, ForgetPending, Save, Stopped
  <2>2. disk'.row = disk.row
    BY <1>8 DEF Record, SaveAbsent, ForgetPending, Save, DeviceInv, DeviceTypes, Disk
  <2> QED BY <2>1, <2>2, RowFileQuiet
<1>9. CASE \E m \in inbox : ServeAgain(m)
  <2>1. PICK m \in Request : Answered(m)
    BY <1>9 DEF ServeAgain, DeviceInv, DeviceTypes
  <2> QED BY <2>1, RowFileAnswered
<1>10. CASE Respond
  <2>1. Answered(serving) /\ Server!ServerStep
    BY <1>10, OneServer DEF Respond
  <2>2. handling # Idle
    BY <2>1 DEF Server!ServerStep, Server!PutNullifier, Server!PutSession,
       Server!PutProfileState, Server!CommitLifecycle, Server!Writing, Server!Advance
  <2>3. serving \in Request
    BY <2>2 DEF DeviceInv, DeviceTypes, ServingRight
  <2> QED BY <2>1, <2>3, RowFileAnswered
<1>11. CASE \/ \E m \in inbox : Serve(m) \/ Lose(m)
            \/ Work \/ RespondLost \/ ServerRestart \/ Read \/ \E t \in Ticket : Expire(t)
  <2>1. UNCHANGED device
    BY <1>11 DEF Serve, Lose, Work, RespondLost, ServerRestart, Read, Expire
  <2> QED BY <2>1, RowFileElse DEF device, client
<1> QED BY <1>1, <1>2, <1>3, <1>4, <1>5, <1>6, <1>7, <1>8, <1>9, <1>10, <1>11
        DEF Next, Commits

LEMMA AlwaysRowFile ==
    ASSUME Persistent = TRUE
    PROVE  Spec => [](DeviceInv /\ RowFile)
<1>1. Init => RowFile
  BY DEF Init, RowFile, RowState, Repository!StateAfter, Live, Repository!NotInstalled,
     Repository!Installed, Repository!Enabled, Repository!Disabled
<1> QED BY <1>1, InitDevice, StepDevice, StepRowFile, PTL DEF Spec

-----------------------------------------------------------------------------
(* What it says of the device and the server together.                     *)

(* Every value of device.json, of a command and of the network is one the code can
   write, and so is every value of the server. *)
THEOREM DeviceTypeCorrect ==
    ASSUME Persistent = TRUE
    PROVE  Spec => []TypeOK
<1>1. DeviceInv => TypeOK
  BY ServerKnows, OneServer DEF DeviceInv, DeviceTypes, TypeOK
<1> QED BY <1>1, AlwaysDevice, PTL

(* The row of the device is a beginning of the chain the server has committed,
   whichever saves, posts, handlers and responses were cut short or came late
   (lifecycle_client.py:453-505, client.py:409-419). *)
THEOREM RowNeverAhead ==
    ASSUME Persistent = TRUE
    PROVE  Spec => []DeviceNeverAhead
<1>1. DeviceInv => DeviceNeverAhead
  BY RowKnown DEF DeviceNeverAhead
<1> QED BY <1>1, AlwaysDevice, PTL

(* A Profile that the server has as installed, enabled or disabled is on the device, and
   so is one that the device's own row has as that: in whatever order late requests are
   handled, wherever commands end, and however far the row is behind
   (docs/aura_protocol_mapping.md:81-82, lifecycle_client.py:453-505). *)
THEOREM LiveAlwaysInstalled ==
    ASSUME Persistent = TRUE
    PROVE  Spec => []LiveProfileIsInstalled
<1>1. DeviceInv /\ RowFile => LiveProfileIsInstalled
  BY DEF DeviceInv, ServerLive, RowFile, LiveProfileIsInstalled
<1> QED BY <1>1, AlwaysRowFile, PTL

(* The commit receipt that device.json keeps is for the row that device.json keeps,
   whichever save was the last and whatever tickets are issued after it
   (lifecycle_client.py:476-505, ticket.py:55-74). *)
THEOREM PendingAlwaysOfRow ==
    ASSUME Persistent = TRUE
    PROVE  Spec => []PendingBelongsToRow
<1>1. DeviceInv => PendingBelongsToRow
  BY DEF DeviceInv, Agreement, PendingAgrees, PendingBelongsToRow, InRow
<1> QED BY <1>1, AlwaysDevice, PTL

(* Whenever device.json has what resume_pending_delete asks for, the server takes its
   receipt: for the first time, or as the one that it has committed
   (lifecycle_client.py:548-587, docs/aura_protocol_mapping.md:110). *)
THEOREM ResumeAlwaysAnswered ==
    ASSUME Persistent = TRUE
    PROVE  Spec => []ResumeAnswered
<1>1. ASSUME DeviceInv, Resumable, handling = Idle PROVE Service!CommitTaken(disk.pending)
  <2>1. PICK s \in Session :
          /\ s = disk.pending /\ Server!Opened(s) /\ Server!LphOf(s) = disk.lph
          /\ "R_prep" \in holds[s]
    BY <1>1 DEF Resumable, DeviceInv, DeviceTypes, Disk, Agreement, PendingAgrees
  <2>2. disk.row # <<>> /\ disk.row[Len(disk.row)] = [op |-> "delete", tx |-> s]
    BY <1>1, <2>1, PendingIsLast DEF EndsIn
  <2>3. /\ Len(disk.row) \in 1..Len(history[disk.lph])
        /\ history[disk.lph][Len(disk.row)] = disk.row[Len(disk.row)]
        /\ \/ Len(history[disk.lph]) = Len(disk.row)
           \/ /\ Len(history[disk.lph]) = Len(disk.row) + 1
              /\ history[disk.lph][Len(disk.row) + 1]
                   = [op |-> "commit-delete", tx |-> disk.row[Len(disk.row)].tx]
    BY <1>1, <2>2, BeyondRow
  <2>4. Server!Chain(s) = history[disk.lph] /\ Server!Chain(s) # <<>>
    BY <1>1, <2>1, <2>3, RowKnown, EmptySeq DEF Server!Chain
  <2>5. Server!IsHead(s, "delete") \/ Server!IsHead(s, "commit-delete")
    BY <2>2, <2>3, <2>4 DEF Server!IsHead
  <2>6. Server!RetryAnswered /\ Server!DeleteResumable
    BY <1>1, ServerKnows, ServerAssumed, Server!HeadRetryAnswered, Server!PreparedResumable
       DEF DeviceInv
  <2>7. Server!CommitTaken(s)
    BY <1>1, <2>1, <2>5, <2>6 DEF Server!RetryAnswered, Server!DeleteResumable
  <2> QED BY <2>1, <2>7, OneServer
<1>2. DeviceInv => ResumeAnswered
  BY <1>1 DEF ResumeAnswered
<1> QED BY <1>2, AlwaysDevice, PTL

(* The composition leaves the server what it is: the device, its posts and the network
   make the server take its own steps, or none, so whatever is proved of AuraService
   holds of the server of a device (client.py, lifecycle_client.py, service.py). *)
THEOREM DeviceRunsServer ==
    ASSUME Persistent = TRUE
    PROVE  Spec => Service!Spec
<1>1. Init => Service!Init
  BY DEF Init
<1>2. ASSUME DeviceInv, [Next]_vars PROVE [Service!Next]_(Service!vars)
  <2>1. [Server!Next]_(Server!vars)
    BY <1>2, StepOfServer
  <2>2. Server!vars' = Server!vars => Service!vars' = Service!vars
    BY DEF Service!vars, Server!vars, Service!tickets, Server!tickets, Service!store,
       Server!store, Service!client, Server!client
  <2> QED BY <2>1, <2>2, OneServer
<1> QED BY <1>1, <1>2, AlwaysDevice, PTL DEF Spec, Service!Spec
=============================================================================
