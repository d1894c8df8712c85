----------------------------- MODULE AuraDevice ------------------------------
(***************************************************************************)
(* The device of pySim/esim/aura: the two clients, AuraLpaClient.run       *)
(* (client.py) and AuraLifecycleClient.run_operation and                   *)
(* resume_pending_delete (lifecycle_client.py), with issue_ticket          *)
(* (ticket.py), composed with the server, AuraService.                     *)
(*                                                                         *)
(* A command of the device is a sequence of posts and of saves of          *)
(* device.json, and it may end between any two: by a crash, by an          *)
(* exception, or because a post was refused or not answered.  What it had  *)
(* in memory, K_mac above all, is then gone; device.json and the installed *)
(* Profile stay.  A request that the client no longer waits for may still  *)
(* be handled.                                                             *)
(*                                                                         *)
(* Abstractions.  The device has one Profile (one matchingId, one pid_h),  *)
(* as the configuration does, and one command runs at a time.  The row of  *)
(* the device is the chain it has seen, which names its state, counter and *)
(* hash.  A save replaces device.json as a whole.  A request that fails    *)
(* the server's checks is lost: either way the command ends.               *)
(***************************************************************************)
EXTENDS Naturals, Sequences, FiniteSets

CONSTANTS
    Ticket, Session, Lph, Persistent, MaxCrashes,       \* of AuraService
    NoOrder, NoTicket, NoSession, NoReceipt, Idle,
    NoCall, NoRequest,
    Ops,        \* the operations the user of the device asks for (bound)
    MaxExpired, \* bound on the number of tickets that expire
    MaxQueue    \* bound on the number of requests under way

VARIABLES
    orderOf, ordersFile, expired, orders, ticketOf, status, nullifier,  \* of AuraService
    profileState, history, handling, holds, receipt, crashes,
    disk,       \* device.json
    file,       \* the Profile is in software-euicc-output
    cmd,        \* the command that runs
    pc,         \* the step it is at
    session,    \* the session it has opened
    waiting,    \* the call it has posted and waits for
    inbox,      \* the requests that may still reach the server
    serving     \* the request of the handler that runs

Service == INSTANCE AuraService
Repository == INSTANCE LifecyclePromise WITH Tx <- Session

service == <<orderOf, ordersFile, expired, orders, ticketOf, status, nullifier, profileState,
             history, handling, holds, receipt, crashes>>
client == <<cmd, pc, session, waiting>>
device == <<disk, file, client>>
network == <<inbox, serving>>
vars == <<service, device, network>>

-----------------------------------------------------------------------------
Call == {"authenticateClient", "getBoundProfilePackage", "prepareLifecycleOperation",
         "handleNotification", "handleReinstallReceipt", "handleLifecycleReceipt",
         "commitDelete"}
Request == [call : Call, session : Session]

Command == {"none", "issue", "run", "operation", "resume"}
Step == {"idle", "orders", "initiate", "authenticate", "keys", "install", "sign", "save",
         "mark", "record", "unlink", "absent", "commit", "tombstone", "forget"}

\* ticket, op: the ticket; lph: what salt_by_pid yields; row: lifecycle_by_lph[lph],
\* empty where there is none; pending: pending_delete
Disk == [ticket : Ticket \cup {NoTicket}, op : Service!OrderOp, lph : Lph,
         row : Seq(Repository!Entry), present : BOOLEAN, pending : Session \cup {NoSession}]

ASSUME DeviceAssumption ==
    /\ Service!ServiceAssumption
    /\ Lph # {}
    /\ NoCall \notin Call
    /\ NoRequest \notin Request
    /\ Ops \subseteq Service!OrderOp
    /\ MaxExpired \in Nat /\ MaxQueue \in Nat

RowState == Repository!StateAfter(disk.row)
Live == {Repository!Installed, Repository!Enabled, Repository!Disabled}

\* Fresh random values; which one they are makes no difference.
UnissuedTicket == {t \in Ticket : orderOf[t] = NoOrder}
UnopenedSession == {s \in Session : ticketOf[s] = NoTicket}
UndrawnLph ==
    {l \in Lph \ {disk.lph} : \A t \in Ticket : orderOf[t] # NoOrder => orderOf[t].lph # l}
Fresh(S) == CHOOSE x \in S : TRUE

At(step) == pc = step /\ waiting = NoCall

\* The command saves device.json and goes on.
Save(d, next) ==
    /\ disk' = d
    /\ pc' = next
    /\ UNCHANGED <<file, cmd, session, waiting, network>>

Stopped == cmd' = "none" /\ pc' = "idle" /\ session' = NoSession /\ waiting' = NoCall

-----------------------------------------------------------------------------
(* Tickets.                                                                *)

\* issue_ticket, called by a command or from the command line, saves device.json.
SaveTicket(d, op, command) ==
    /\ At("idle")
    /\ UnissuedTicket # {}
    /\ disk' = [d EXCEPT !.ticket = Fresh(UnissuedTicket), !.op = op]
    /\ cmd' = command
    /\ pc' = "orders"
    /\ UNCHANGED <<service, file, session, waiting, network>>

IssueTicket(op) == SaveTicket(disk, op, "issue")

\* Mutant: a pending deletion does not keep the row.
IssueFreshTicketAnyway ==
    /\ UndrawnLph # {}
    /\ SaveTicket([disk EXCEPT !.lph = Fresh(UndrawnLph), !.row = <<>>, !.present = FALSE],
                  "download", "issue")

\* fresh_profile_lifecycle: the row and the salt are dropped.
IssueFreshTicket ==
    /\ disk.pending # NoSession => disk.row = <<>>
    /\ UndrawnLph # {}
    /\ SaveTicket([disk EXCEPT !.lph = Fresh(UndrawnLph), !.row = <<>>, !.present = FALSE],
                  "download", "issue")

\* issue_ticket then writes orders.json.
SaveOrders ==
    /\ At("orders")
    /\ Service!Issue(disk.ticket, disk.op, disk.lph)
    /\ IF cmd = "issue" THEN Stopped
       ELSE pc' = "initiate" /\ UNCHANGED <<cmd, session, waiting>>
    /\ UNCHANGED <<disk, file, network>>

-----------------------------------------------------------------------------
(* Commands and their posts.                                               *)

\* AuraLpaClient.run takes the ticket it finds, whatever its operation.
Run ==
    /\ At("idle")
    /\ disk.ticket # NoTicket
    /\ disk.ticket \notin expired
    /\ cmd' = "run"
    /\ pc' = "initiate"
    /\ UNCHANGED <<service, disk, file, session, waiting, network>>

\* run_operation issues its own ticket.
RunOperation(op) == op # "download" /\ SaveTicket(disk, op, "operation")

\* initiateAuthentication is answered, or its response is lost.
Initiate ==
    /\ At("initiate")
    /\ UnopenedSession # {}
    /\ Service!Initiate(Fresh(UnopenedSession), disk.ticket)
    /\ \/ pc' = "authenticate" /\ session' = Fresh(UnopenedSession) /\ UNCHANGED <<cmd, waiting>>
       \/ Stopped
    /\ UNCHANGED <<disk, file, network>>

\* The ticket expires on its way.
InitiateRefused ==
    /\ At("initiate")
    /\ disk.ticket \in expired
    /\ Service!ImportOrder(disk.ticket)
    /\ Stopped
    /\ UNCHANGED <<disk, file, network>>

Post(call) ==
    /\ Cardinality(inbox) < MaxQueue
    /\ waiting' = call
    /\ inbox' = inbox \cup {[call |-> call, session |-> session]}
    /\ UNCHANGED <<disk, cmd, session, serving>>

\* A lifecycle operation needs a row of its own.
PostAuthenticate ==
    /\ At("authenticate")
    /\ cmd = "operation" => disk.row # <<>>
    /\ Post("authenticateClient")
    /\ UNCHANGED <<service, file, pc>>

FetchesProfile == cmd = "run" \/ disk.op = "reinstall"

PostKeys ==
    /\ At("keys")
    /\ Post(IF FetchesProfile THEN "getBoundProfilePackage" ELSE "prepareLifecycleOperation")
    /\ UNCHANGED <<service, file, pc>>

\* install_profile; run_operation calls _target_state before it.
Install ==
    /\ At("install")
    /\ cmd = "operation" => Service!AllowedPredecessor(disk.op, RowState)
    /\ file' = TRUE
    /\ pc' = "sign"
    /\ UNCHANGED <<service, disk, cmd, session, waiting, network>>

ReceiptCall ==
    IF cmd = "run" THEN "handleNotification"
    ELSE IF disk.op = "reinstall" THEN "handleReinstallReceipt"
    ELSE "handleLifecycleReceipt"

\* Mutant: the receipt of a Profile is posted before it is installed.
SignAndPostEarly ==
    /\ pc \in {"install", "sign"} /\ waiting = NoCall
    /\ cmd = "run" => disk.op = "download"
    /\ Service!SignReceipt(session, disk.row)
    /\ Post(ReceiptCall)
    /\ pc' = "sign"
    /\ UNCHANGED file

\* The receipt is signed on the row of the device, and posted.  run signs an
\* InstallReceipt whatever the ticket is for; only a download session takes it.
SignAndPost ==
    /\ At("sign")
    /\ cmd = "run" => disk.op = "download"
    /\ Service!SignReceipt(session, disk.row)
    /\ Post(ReceiptCall)
    /\ UNCHANGED <<file, pc>>

-----------------------------------------------------------------------------
(* Saves after the response.                                               *)

\* The row as the response tells it: one operation on from where the receipt was signed.
Save_local_state(op) ==
    [disk EXCEPT !.row = Append(receipt[session], [op |-> op, tx |-> session]),
                 !.present = @ \/ op \in {"install", "reinstall"}]

\* Mutant: the row is saved before the receipt is answered.
SaveRowEarly ==
    /\ pc \in {"sign", "save"}
    /\ session # NoSession /\ receipt[session] # NoReceipt
    /\ disk' = Save_local_state(IF cmd = "run" THEN "install" ELSE disk.op)
    /\ Stopped
    /\ UNCHANGED <<service, file, network>>

\* Mutant: run takes the operation of the ticket for that of the receipt.
SaveRowByTicket ==
    /\ At("save")
    /\ disk' = Save_local_state(disk.op)
    /\ Stopped
    /\ UNCHANGED <<service, file, network>>

\* run and run_operation end with it, but for delete.
SaveRow ==
    /\ At("save")
    /\ disk' = Save_local_state(IF cmd = "run" THEN "install" ELSE disk.op)
    /\ Stopped
    /\ UNCHANGED <<service, file, network>>

\* delete: the row is pending-delete, ...
Mark ==
    /\ At("mark")
    /\ Save(Save_local_state("delete"), "record")
    /\ UNCHANGED service

\* ... the commit receipt is kept, ...
Record ==
    /\ At("record")
    /\ Save([disk EXCEPT !.pending = session], "unlink")
    /\ UNCHANGED service

\* ... the Profile is removed, ...
Unlink ==
    /\ At("unlink")
    /\ file' = FALSE
    /\ pc' = "absent"
    /\ UNCHANGED <<service, disk, cmd, session, waiting, network>>

\* ... and the row says so.  With stop_after_prepare the command ends here.
SaveAbsent ==
    /\ At("absent")
    /\ Save([disk EXCEPT !.present = FALSE], "commit")
    /\ UNCHANGED service

PostCommit ==
    /\ At("commit")
    /\ Post("commitDelete")
    /\ UNCHANGED <<service, file, pc>>

\* Mutant: the record is removed before the row is saved, which is then lost.
ForgetFirst ==
    /\ At("tombstone")
    /\ Save([disk EXCEPT !.pending = NoSession], "forget")
    /\ UNCHANGED service

SaveTombstone ==
    /\ At("tombstone")
    /\ Save([disk EXCEPT !.row = Append(@, [op |-> "commit-delete", tx |-> session]),
                         !.present = FALSE], "forget")
    /\ UNCHANGED service

ForgetPending ==
    /\ At("forget")
    /\ disk' = [disk EXCEPT !.pending = NoSession]
    /\ Stopped
    /\ UNCHANGED <<service, file, network>>

\* What resume_pending_delete asks of device.json.
Resumable ==
    /\ disk.pending # NoSession
    /\ RowState = Repository!PendingDelete
    /\ ~disk.present

ResumePendingDelete ==
    /\ At("idle")
    /\ Resumable
    /\ cmd' = "resume"
    /\ pc' = "commit"
    /\ session' = disk.pending
    /\ UNCHANGED <<service, disk, file, waiting, network>>

\* replay-auth, replay_receipt, replay_commit: the request is posted once more.
PostAgain ==
    /\ \E step \in {[from |-> "keys", to |-> "authenticate", call |-> "authenticateClient"],
                    [from |-> "mark", to |-> "sign", call |-> "handleLifecycleReceipt"],
                    [from |-> "save", to |-> "sign", call |-> ReceiptCall],
                    [from |-> "tombstone", to |-> "commit", call |-> "commitDelete"]} :
         /\ At(step.from)
         /\ (step.from = "keys") = (cmd = "run")
         /\ pc' = step.to
         /\ Post(step.call)
    /\ UNCHANGED <<service, file>>

\* The command ends: a crash, an exception, or no answer.
Stop ==
    /\ pc # "idle"
    /\ Stopped
    /\ UNCHANGED <<service, disk, file, network>>

-----------------------------------------------------------------------------
(* The server and the network.                                             *)

\* The step that follows the answer to the call of this one.
Following ==
    CASE pc = "authenticate" -> "keys"
      [] pc = "keys" -> IF FetchesProfile THEN "install" ELSE "sign"
      [] pc = "sign" -> IF cmd = "operation" /\ disk.op = "delete" THEN "mark" ELSE "save"
      [] pc = "commit" -> "tombstone"

Answered(m) ==
    /\ waiting = m.call
    /\ session = m.session
    /\ waiting' = NoCall
    /\ pc' = Following
    /\ UNCHANGED <<disk, file, cmd, session>>

\* The handler of a request passes its checks and begins its writes.
Begin(m) ==
    \/ m.call = "authenticateClient" /\ Service!Authenticate(m.session)
    \/ m.call = "getBoundProfilePackage" /\ Service!GetProfile(m.session)
    \/ m.call = "prepareLifecycleOperation" /\ Service!PrepareLifecycle(m.session)
    \/ m.call = "handleNotification" /\ Service!Notification(m.session)
    \/ m.call = "handleReinstallReceipt" /\ Service!ReinstallReceipt(m.session)
    \/ m.call = "handleLifecycleReceipt" /\ Service!LifecycleReceipt(m.session)
    \/ m.call = "commitDelete" /\ Service!CommitDelete(m.session)

Serve(m) ==
    /\ Begin(m)
    /\ inbox' = inbox \ {m}
    /\ serving' = m
    /\ UNCHANGED device

\* A request answered from what is stored, without a write.
ServeAgain(m) ==
    /\ \/ m.call = "authenticateClient" /\ Service!ReplayAuthentication(m.session)
       \/ m.call = "handleNotification" /\ Service!NotificationAgain(m.session)
    /\ inbox' = inbox \ {m}
    /\ Answered(m)
    /\ UNCHANGED serving

\* The request is refused, or does not arrive.
Lose(m) ==
    /\ inbox' = inbox \ {m}
    /\ UNCHANGED <<service, device, serving>>

Work ==
    /\ Service!ServerStep
    /\ handling' # Idle
    /\ UNCHANGED <<device, network>>

\* The last write of a handler, and its response.
Respond ==
    /\ Service!ServerStep
    /\ handling' = Idle
    /\ handling.response \subseteq holds'[handling.session]
    /\ serving' = NoRequest
    /\ Answered(serving)
    /\ UNCHANGED inbox

RespondLost ==
    /\ Service!ServerStep
    /\ handling' = Idle
    /\ holds' = holds
    /\ serving' = NoRequest
    /\ UNCHANGED <<device, inbox>>

\* Requests that the server has not begun to handle end with it.
ServerRestart ==
    /\ Service!Restart
    /\ inbox' = {}
    /\ serving' = NoRequest
    /\ UNCHANGED device

Expire(t) ==
    /\ Cardinality(expired) < MaxExpired
    /\ Service!Expire(t)
    /\ UNCHANGED <<device, network>>

\* getLifecycleState
Read ==
    /\ Service!Read
    /\ UNCHANGED <<device, network>>

-----------------------------------------------------------------------------
\* A device as bootstrap leaves it.
Init ==
    /\ Service!Init
    /\ disk = [ticket |-> NoTicket, op |-> "download", lph |-> Fresh(Lph), row |-> <<>>,
               present |-> FALSE, pending |-> NoSession]
    /\ file = FALSE
    /\ cmd = "none"
    /\ pc = "idle"
    /\ session = NoSession
    /\ waiting = NoCall
    /\ inbox = {}
    /\ serving = NoRequest

Commits == PostCommit \/ SaveTombstone

Next ==
    \/ \E op \in Ops : IssueTicket(op)
    \/ IssueFreshTicket
    \/ SaveOrders
    \/ Run
    \/ \E op \in Ops : RunOperation(op)
    \/ Initiate
    \/ InitiateRefused
    \/ PostAuthenticate
    \/ PostKeys
    \/ Install
    \/ SignAndPost
    \/ SaveRow
    \/ Mark
    \/ Record
    \/ Unlink
    \/ SaveAbsent
    \/ Commits
    \/ ForgetPending
    \/ ResumePendingDelete
    \/ PostAgain
    \/ Stop
    \/ \E m \in inbox : Serve(m)
    \/ \E m \in inbox : ServeAgain(m)
    \/ \E m \in inbox : Lose(m)
    \/ Work
    \/ Respond
    \/ RespondLost
    \/ ServerRestart
    \/ \E t \in Ticket : Expire(t)
    \/ Read

Spec == Init /\ [][Next]_vars

\* The client stops while its request may still be answered.
InFlight == waiting # NoCall /\ [call |-> waiting, session |-> session] \in inbox \cup {serving}
GiveUp == InFlight /\ Stop

Receive == \E m \in inbox : Serve(m) \/ ServeAgain(m) \/ Lose(m)

\* A command ends, a request arrives or does not, and a handler that runs goes on.
\* The user resumes a pending deletion again and again; the network and the device do
\* not fail every time, nor is the timeout of post (30 s) too short for ever.
FairSpec ==
    /\ Spec
    /\ WF_vars(Stop /\ ~InFlight)
    /\ WF_vars(Receive)
    /\ WF_vars(Work \/ Respond \/ RespondLost)
    /\ SF_vars(ResumePendingDelete)
    /\ SF_vars(PostCommit)
    /\ \A s \in Session :
         LET m == [call |-> "commitDelete", session |-> s]
         IN  SF_vars(m \in inbox /\ Serve(m))
    /\ SF_vars(Respond)
    /\ SF_vars(SaveTombstone)
    /\ <>[][~GiveUp]_vars

-----------------------------------------------------------------------------
TypeOK ==
    /\ Service!TypeOK
    /\ disk \in Disk
    /\ file \in BOOLEAN
    /\ cmd \in Command
    /\ pc \in Step
    /\ session \in Session \cup {NoSession}
    /\ waiting \in Call \cup {NoCall}
    /\ inbox \subseteq Request
    /\ serving \in Request \cup {NoRequest}

(* The row of the device is a beginning of the chain the server has committed,
   whichever saves, posts and handlers were cut short: the device never signs on a
   predecessor the server does not know (lifecycle_client.py:453-505, client.py:409-419). *)
DeviceNeverAhead ==
    /\ Len(disk.row) <= Len(history[disk.lph])
    /\ disk.row = SubSeq(history[disk.lph], 1, Len(disk.row))

(* "calls handleReinstallReceipt only after decryption, H(Profile) == pid_h, and
   software installation" (docs/aura_protocol_mapping.md:81-82), and it is removed only
   once the deletion is prepared: a Profile that the server has as installed, enabled or
   disabled is on the device, and so is one that the device's own row still has as that,
   in whatever order late requests are handled and however far the row is behind. *)
LiveProfileIsInstalled ==
    /\ Repository!StateAfter(history[disk.lph]) \in Live => file
    /\ RowState \in Live => file

(* "persistent session and pending state converge to tombstone"
   (docs/aura_protocol_mapping.md:110), from the device's side: whenever device.json
   has what resume_pending_delete asks for, the server will take its receipt. *)
ResumeAnswered ==
    Resumable /\ handling = Idle => Service!CommitTaken(disk.pending)

(* The commit receipt that device.json keeps is for the row that device.json keeps,
   whichever of the saves of a deletion was the last and whatever tickets are issued
   after it (lifecycle_client.py:476-505, ticket.py:55-74). *)
PendingBelongsToRow ==
    disk.pending # NoSession =>
      \E i \in 1..Len(disk.row) : disk.row[i] = [op |-> "delete", tx |-> disk.pending]

(* A deletion the device can resume ends as a tombstone on the device and at the
   server, through crashes of both and lost responses (lifecycle_client.py:548-587). *)
DeleteConverges ==
    Resumable ~> /\ RowState = Repository!Tombstone
                 /\ disk.row = history[disk.lph]
=============================================================================
