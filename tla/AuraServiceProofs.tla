------------------------- MODULE AuraServiceProofs --------------------------
(***************************************************************************)
(* Proofs about AuraService, for any sets of tickets, sessions and         *)
(* Profiles and any number of restarts, with the store in a file.          *)
(*                                                                         *)
(* That a ticket serves one session does not follow from the statuses      *)
(* alone: between put_nullifier and put_session the ticket is spent and    *)
(* the session does not say so, and between two writes of any handler what *)
(* is still to be written is nowhere but in the handler.  The inductive    *)
(* invariant IInv says of a running handler that it is either about to     *)
(* spend an unspent ticket, or writes for the session that spent it.       *)
(*                                                                         *)
(* What a client meets after a restart needs more.  The store and          *)
(* lifecycle.sqlite are written one after the other, so neither says at    *)
(* which point a handler stopped.  Backed ties them, and the running       *)
(* handler, together: an operation in a history was paid for by a session  *)
(* whose status is the one before or the one after it, and a handler       *)
(* writes a status only when the history already backs it.                 *)
(*                                                                         *)
(* SignedInv adds the receipts: each was signed on a beginning of the      *)
(* chain of its Profile, and each operation but a commit is as far into    *)
(* its chain as its receipt is long.  The last section says what any step  *)
(* leaves of a session, for those who compose the server with a client.    *)
(***************************************************************************)
EXTENDS AuraService, SequenceTheorems, TLAPS

Issued(t) == orderOf[t] # NoOrder

\* What the server knows of is issued, and what is not opened has left no trace.
Known ==
    /\ \A t \in orders : Issued(t)
    /\ ordersFile # NoTicket => Issued(ordersFile)
    /\ \A s \in Session : Opened(s) => Issued(ticketOf[s])
    /\ \A s \in Session :
         ~Opened(s) => status[s] = "unknown" /\ holds[s] = {} /\ receipt[s] = NoReceipt

NoNullifier(writes) == \A i \in 1..Len(writes) : writes[i].store # "nullifier"

\* A session that is past initiated, or has moved a Profile, has spent its ticket.
SpentBefore ==
    /\ \A s \in Session : status[s] \notin {"unknown", "initiated"} => Spent(s)
    /\ \A l \in Lph : \A i \in 1..Len(history[l]) : Spent(history[l][i].tx)

\* The handler that runs spends an unspent ticket, or acts for the spender.
HandlerSpends ==
    handling # Idle =>
      /\ Opened(handling.session)
      /\ Len(handling.writes) > 0
      /\ \/ /\ handling.writes = AuthenticateWrites
            /\ nullifier[ticketOf[handling.session]] = NoSession
         \/ /\ Spent(handling.session)
            /\ NoNullifier(handling.writes)

IInv == TypeOK /\ Known /\ SpentBefore /\ HandlerSpends

-----------------------------------------------------------------------------
\* Initially nothing is issued, opened or written.
LEMMA InitIInv == Init => IInv
<1> SUFFICES ASSUME Init PROVE IInv
  OBVIOUS
<1> USE DEF Init, Repository!Init
<1>1. TypeOK
  <2>1. <<>> \in Seq(Repository!Entry)
    OBVIOUS
  <2> QED BY <2>1, ServiceAssumption DEF TypeOK, Status
<1>2. Known
  BY DEF Known, Opened
<1>3. SpentBefore
  <2>1. Len(<<>>) = 0
    BY EmptySeq
  <2> QED BY <2>1 DEF SpentBefore
<1>4. HandlerSpends
  BY DEF HandlerSpends
<1> QED BY <1>1, <1>2, <1>3, <1>4 DEF IInv

\* A session that was opened for an issued ticket has an order, with a Profile.
LEMMA OpenedOrder ==
    ASSUME TypeOK, Known, NEW s \in Session, Opened(s)
    PROVE  /\ ticketOf[s] \in Ticket
           /\ orderOf[ticketOf[s]] \in Order
           /\ Op(s) \in OrderOp
           /\ LphOf(s) \in Lph
           /\ Chain(s) \in Seq(Repository!Entry)
BY DEF TypeOK, Known, Opened, Issued, Order, Op, LphOf, Chain

\* A handler that starts for an opened session keeps IInv, if it acts for the
\* session that spent the ticket or is about to spend it.
LEMMA HandleIInv ==
    ASSUME IInv, NEW s \in Session, NEW writes \in Seq(Write), NEW r \in SUBSET Response,
           Opened(s), Len(writes) > 0, Handle(s, writes, r),
           \/ writes = AuthenticateWrites /\ nullifier[ticketOf[s]] = NoSession
           \/ Spent(s) /\ NoNullifier(writes)
    PROVE  IInv'
<1> USE DEF IInv, Handle, tickets, store, client
<1>1. handling' \in Handling
  BY DEF Handling
<1>2. TypeOK'
  BY <1>1 DEF TypeOK
<1>3. Known'
  BY DEF Known, Opened, Issued
<1>4. SpentBefore'
  BY DEF SpentBefore, Spent, Opened
<1>5. HandlerSpends'
  BY DEF HandlerSpends, Spent, Opened, NoNullifier
<1> QED BY <1>2, <1>3, <1>4, <1>5

\* The writes of a handler that acts for a spender name no nullifier.
ActingWrites == {w \in Seq(Write) : Len(w) > 0 /\ NoNullifier(w)}

LEMMA OneActs ==
    ASSUME NEW e \in Write, e.store # "nullifier"
    PROVE  <<e>> \in ActingWrites
BY DEF ActingWrites, NoNullifier

LEMMA ConcatActs ==
    ASSUME NEW u \in ActingWrites \cup {<<>>}, NEW v \in ActingWrites
    PROVE  u \o v \in ActingWrites
<1>1. u \in Seq(Write) /\ v \in Seq(Write)
  <2>1. <<>> \in Seq(Write)
    BY EmptySeq
  <2> QED BY <2>1 DEF ActingWrites
<1>2. CASE u = <<>>
  <2>1. u \o v = v
    BY <1>1, <1>2, ConcatEmptySeq
  <2> QED BY <2>1
<1>3. CASE u \in ActingWrites
  <2>1. /\ u \o v \in Seq(Write)
        /\ Len(u \o v) = Len(u) + Len(v)
        /\ \A i \in 1..Len(u) + Len(v) :
             (u \o v)[i] = IF i <= Len(u) THEN u[i] ELSE v[i - Len(u)]
    BY <1>1, ConcatProperties
  <2>2. Len(u) \in Nat /\ Len(v) \in Nat
    BY <1>1, LenProperties
  <2>3. Len(u \o v) > 0
    BY <1>3, <2>1, <2>2 DEF ActingWrites
  <2>4. ASSUME NEW i \in 1..Len(u \o v)
        PROVE  (u \o v)[i].store # "nullifier"
    <3>1. CASE i <= Len(u)
      BY <1>3, <2>1, <2>2, <3>1 DEF ActingWrites, NoNullifier
    <3>2. CASE i > Len(u)
      <4>1. i - Len(u) \in 1..Len(v)
        BY <2>1, <2>2, <3>2
      <4> QED BY <2>1, <2>2, <3>2, <4>1 DEF ActingWrites, NoNullifier
    <3> QED BY <2>1, <2>2, <3>1, <3>2
  <2> QED BY <2>1, <2>3, <2>4 DEF ActingWrites, NoNullifier
<1> QED BY <1>2, <1>3

LEMMA SessionWriteActs ==
    ASSUME NEW st \in Status
    PROVE  <<SessionWrite(st)>> \in ActingWrites
<1>1. SessionWrite(st) \in Write /\ SessionWrite(st).store # "nullifier"
  BY DEF SessionWrite, Write
<1> QED BY <1>1, OneActs

LEMMA RepositoryWritesAct ==
    ASSUME NEW s \in Session, NEW op \in Repository!Op
    PROVE  RepositoryWrites(s, op) \in ActingWrites \cup {<<>>}
<1>1. LifecycleWrite(op) \in Write /\ LifecycleWrite(op).store # "nullifier"
  BY DEF LifecycleWrite, Write
<1> QED BY <1>1, OneActs DEF RepositoryWrites

LEMMA InstallWritesAct == InstallWrites \in ActingWrites
<1>1. ProfileStateWrite \in Write /\ ProfileStateWrite.store # "nullifier"
  BY DEF ProfileStateWrite, Write
<1>2. SessionWrite("installed") \in Write /\ SessionWrite("installed").store # "nullifier"
  BY DEF SessionWrite, Write, Status
<1> QED BY <1>1, <1>2 DEF InstallWrites, ActingWrites, NoNullifier

\* A handler that starts for the session that spent its ticket.
LEMMA ActingIInv ==
    ASSUME IInv, NEW s \in Session, NEW writes \in ActingWrites, NEW r \in SUBSET Response,
           Spent(s), Handle(s, writes, r)
    PROVE  IInv'
BY HandleIInv DEF ActingWrites, Spent

LEMMA AuthWrites == AuthenticateWrites \in Seq(Write) /\ Len(AuthenticateWrites) > 0
<1>1. NullifierWrite \in Write
  BY DEF NullifierWrite, Write
<1>2. SessionWrite("authenticated") \in Write
  BY DEF SessionWrite, Write, Status
<1> QED BY <1>1, <1>2 DEF AuthenticateWrites

\* Every handler starts in a way that keeps IInv.
LEMMA HandlersIInv ==
    ASSUME IInv, NEW s \in Session,
           \/ Authenticate(s) \/ GetProfile(s) \/ PrepareLifecycle(s) \/ Notification(s)
           \/ LifecycleReceipt(s) \/ CommitDelete(s) \/ ReinstallReceipt(s)
    PROVE  IInv'
<1> USE DEF IInv
<1>1. status[s] \notin {"unknown", "initiated"} => Opened(s) /\ Spent(s)
  BY DEF SpentBefore, Spent
<1>2. CASE Authenticate(s)
  BY <1>2, AuthWrites, HandleIInv DEF Authenticate, Authentic, Response
<1>3. CASE GetProfile(s)
  <2>1. PICK st \in {"downloaded", "reinstall-downloaded"} :
          Handle(s, <<SessionWrite(st)>>, {"K_mac"})
    BY <1>3 DEF GetProfile
  <2>2. st \in Status
    BY DEF Status
  <2> QED BY <1>1, <1>3, <2>1, <2>2, SessionWriteActs, ActingIInv DEF GetProfile, MayPrepareKeys, Response
<1>4. CASE PrepareLifecycle(s)
  <2>1. "lifecycle-prepared" \in Status
    BY DEF Status
  <2> QED BY <1>1, <1>4, <2>1, SessionWriteActs, ActingIInv
          DEF PrepareLifecycle, MayPrepareKeys, Response
<1>5. CASE Notification(s)
  <2>1. RepositoryWrites(s, "install") \o InstallWrites \in ActingWrites
    BY RepositoryWritesAct, InstallWritesAct, ConcatActs DEF Repository!Op
  <2>2. Handle(s, RepositoryWrites(s, "install") \o InstallWrites, {})
    BY <1>5 DEF Notification
  <2>3. Spent(s)
    BY <1>1, <1>5 DEF Notification, NotificationTaken
  <2> QED BY <2>1, <2>2, <2>3, ActingIInv
<1>6. CASE LifecycleReceipt(s)
  <2>1. status[s] \notin {"unknown", "initiated"}
    BY <1>6 DEF LifecycleReceipt, ReceiptTaken, MayHandReceipt, ReceiptStatus
  <2>2. CASE Op(s) = "delete"
    <3>1. "delete" \in Repository!Op /\ "pending-delete" \in Status
      BY DEF Repository!Op, Status
    <3>2. Handle(s, RepositoryWrites(s, "delete") \o <<SessionWrite("pending-delete")>>,
                 {"R_prep"})
      BY <1>6, <2>2 DEF LifecycleReceipt
    <3>3. {"R_prep"} \in SUBSET Response
      BY DEF Response
    <3>4. RepositoryWrites(s, "delete") \o <<SessionWrite("pending-delete")>> \in ActingWrites
      BY <3>1, RepositoryWritesAct, SessionWriteActs, ConcatActs
    <3> QED BY <1>1, <2>1, <3>2, <3>3, <3>4, ActingIInv
  <2>3. CASE Op(s) # "delete"
    <3>1. Op(s) \in Repository!Op /\ "lifecycle-complete" \in Status
      BY <1>6, <2>3 DEF LifecycleReceipt, ReceiptTaken, MayHandReceipt, Repository!Op, Status
    <3>2. Handle(s, RepositoryWrites(s, Op(s)) \o <<SessionWrite("lifecycle-complete")>>, {})
      BY <1>6, <2>3 DEF LifecycleReceipt
    <3>3. RepositoryWrites(s, Op(s)) \o <<SessionWrite("lifecycle-complete")>> \in ActingWrites
      BY <3>1, RepositoryWritesAct, SessionWriteActs, ConcatActs
    <3> QED BY <1>1, <2>1, <3>2, <3>3, ActingIInv
  <2> QED BY <2>2, <2>3
<1>7. CASE CommitDelete(s)
  <2>1. "commit-delete" \in Repository!Op /\ "tombstone" \in Status
    BY DEF Repository!Op, Status
  <2>2. CommitDeleteWrites(s) \in ActingWrites
    BY <2>1, RepositoryWritesAct, SessionWriteActs, ConcatActs DEF CommitDeleteWrites
  <2>3. Spent(s) /\ Handle(s, CommitDeleteWrites(s), {})
    BY <1>1, <1>7 DEF CommitDelete, CommitTaken, MayCommit
  <2> QED BY <2>2, <2>3, ActingIInv
<1>8. CASE ReinstallReceipt(s)
  <2>1. "reinstall" \in Repository!Op /\ "installed" \in Status
    BY DEF Repository!Op, Status
  <2>2. RepositoryWrites(s, "reinstall") \o <<SessionWrite("installed")>> \in ActingWrites
    BY <2>1, RepositoryWritesAct, SessionWriteActs, ConcatActs
  <2>3. /\ Spent(s)
        /\ Handle(s, RepositoryWrites(s, "reinstall") \o <<SessionWrite("installed")>>, {})
    BY <1>1, <1>8 DEF ReinstallReceipt, ReinstallTaken, MayReinstall
  <2> QED BY <2>2, <2>3, ActingIInv
<1> QED BY <1>2, <1>3, <1>4, <1>5, <1>6, <1>7, <1>8

-----------------------------------------------------------------------------
(* The writes of a handler.                                                *)

\* After a write the handler has the rest of its writes left, none of them to a
\* nullifier, or it is done; a response adds to what an opened session holds.
LEMMA AdvanceLeaves ==
    ASSUME IInv, handling # Idle, Advance
    PROVE  /\ handling' \in Handling \cup {Idle}
           /\ holds' \in [Session -> SUBSET Response]
           /\ \A s \in Session : s # handling.session => holds'[s] = holds[s]
           /\ handling' # Idle =>
                /\ handling'.session = handling.session
                /\ Len(handling'.writes) > 0
                /\ NoNullifier(handling'.writes)
<1>1. handling \in Handling /\ holds \in [Session -> SUBSET Response]
  BY DEF IInv, TypeOK
<1>2. /\ handling.writes \in Seq(Write)
      /\ handling.writes # <<>>
      /\ handling.session \in Session
      /\ handling.response \in SUBSET Response
  <2>1. Len(handling.writes) > 0
    BY DEF IInv, HandlerSpends
  <2>2. Len(<<>>) = 0
    BY EmptySeq
  <2> QED BY <1>1, <2>1, <2>2 DEF Handling
<1>3. CASE Len(handling.writes) > 1
  <2>1. handling' = [handling EXCEPT !.writes = Tail(@)] /\ holds' = holds
    BY <1>3 DEF Advance
  <2>2. /\ Tail(handling.writes) \in Seq(Write)
        /\ Len(Tail(handling.writes)) = Len(handling.writes) - 1
        /\ \A i \in 1..Len(Tail(handling.writes)) :
             Tail(handling.writes)[i] = handling.writes[i + 1]
    BY <1>2, HeadTailProperties
  <2>3. Len(handling.writes) \in Nat
    BY <1>2, LenProperties
  <2>4. /\ handling' \in Handling
        /\ handling'.session = handling.session
        /\ handling'.writes = Tail(handling.writes)
    BY <1>1, <2>1, <2>2 DEF Handling
  <2>5. \A i \in 2..Len(handling.writes) : handling.writes[i].store # "nullifier"
    <3>1. CASE handling.writes = AuthenticateWrites
      BY <3>1 DEF AuthenticateWrites, SessionWrite
    <3>2. CASE NoNullifier(handling.writes)
      BY <2>3, <3>2 DEF NoNullifier
    <3> QED BY <3>1, <3>2 DEF IInv, HandlerSpends
  <2>6. NoNullifier(Tail(handling.writes))
    <3>1. ASSUME NEW i \in 1..Len(Tail(handling.writes))
          PROVE  Tail(handling.writes)[i].store # "nullifier"
      <4>1. i + 1 \in 2..Len(handling.writes)
        BY <2>2, <2>3
      <4> QED BY <2>2, <2>5, <4>1
    <3> QED BY <3>1 DEF NoNullifier
  <2> QED BY <1>1, <1>3, <2>1, <2>2, <2>3, <2>4, <2>6
<1>4. CASE ~(Len(handling.writes) > 1)
  BY <1>1, <1>2, <1>4 DEF Advance
<1> QED BY <1>3, <1>4

\* The first write of a running handler.
LEMMA FirstWrite ==
    ASSUME IInv, handling # Idle
    PROVE  /\ handling.session \in Session
           /\ Opened(handling.session)
           /\ Head(handling.writes) \in Write
           /\ Head(handling.writes).store # "nullifier" => Spent(handling.session)
           /\ Head(handling.writes).store = "nullifier" =>
                nullifier[ticketOf[handling.session]] = NoSession
<1>1. handling \in Handling
  BY DEF IInv, TypeOK
<1>2. Len(handling.writes) > 0 /\ handling.writes \in Seq(Write)
  BY <1>1 DEF IInv, HandlerSpends, Handling
<1>3. Head(handling.writes) = handling.writes[1] /\ 1 \in 1..Len(handling.writes)
  BY <1>2, LenProperties
<1>4. CASE /\ handling.writes = AuthenticateWrites
           /\ nullifier[ticketOf[handling.session]] = NoSession
  <2>1. handling.writes[1].store = "nullifier"
    BY <1>4 DEF AuthenticateWrites, NullifierWrite
  <2> QED BY <1>1, <1>2, <1>3, <1>4, <2>1 DEF IInv, HandlerSpends, Handling
<1>5. CASE Spent(handling.session) /\ NoNullifier(handling.writes)
  BY <1>1, <1>2, <1>3, <1>5 DEF IInv, HandlerSpends, Handling, NoNullifier
<1> QED BY <1>4, <1>5 DEF IInv, HandlerSpends

LEMMA PutNullifierIInv ==
    ASSUME IInv, PutNullifier
    PROVE  IInv'
<1> USE DEF IInv, PutNullifier, Writing, tickets
<1> DEFINE s == handling.session
           t == ticketOf[s]
<1>1. /\ s \in Session /\ t \in Ticket /\ Opened(s)
      /\ nullifier[t] = NoSession
      /\ nullifier' = [nullifier EXCEPT ![t] = s]
  BY FirstWrite, OpenedOrder
<1>2. TypeOK'
  BY <1>1, AdvanceLeaves DEF TypeOK
<1>3. Known'
  BY <1>1, AdvanceLeaves DEF Known, Opened, Issued
<1>4. \A s2 \in Session : Spent(s2) => Spent(s2)'
  BY <1>1, ServiceAssumption DEF TypeOK, Spent, Opened
<1>5. SpentBefore'
  <2>1. \A l \in Lph : \A i \in 1..Len(history[l]) : history[l][i].tx \in Session
    <3>1. \A l \in Lph : \A i \in 1..Len(history[l]) : history[l][i] \in Repository!Entry
      BY DEF TypeOK
    <3> QED BY <3>1 DEF Repository!Entry
  <2> QED BY <1>4, <2>1 DEF SpentBefore
<1>6. HandlerSpends'
  BY <1>1, AdvanceLeaves DEF HandlerSpends, Spent, Opened, TypeOK
<1> QED BY <1>2, <1>3, <1>5, <1>6

LEMMA PutSessionIInv ==
    ASSUME IInv, PutSession
    PROVE  IInv'
<1> USE DEF IInv, PutSession, Writing, tickets
<1> DEFINE s == handling.session
<1>1. /\ s \in Session /\ Opened(s) /\ Spent(s)
      /\ Head(handling.writes).status \in Status
      /\ status' = [status EXCEPT ![s] = Head(handling.writes).status]
  BY FirstWrite DEF Write
<1>2. TypeOK'
  BY <1>1, AdvanceLeaves DEF TypeOK
<1>3. Known'
  BY <1>1, AdvanceLeaves DEF Known, Opened, Issued, TypeOK
<1>4. SpentBefore'
  BY <1>1 DEF SpentBefore, Spent, Opened, TypeOK
<1>5. HandlerSpends'
  BY <1>1, AdvanceLeaves DEF HandlerSpends, Spent, Opened
<1> QED BY <1>2, <1>3, <1>4, <1>5

LEMMA PutProfileStateIInv ==
    ASSUME IInv, PutProfileState
    PROVE  IInv'
<1> USE DEF IInv, PutProfileState, Writing, tickets
<1> DEFINE s == handling.session
<1>1. s \in Session /\ Opened(s) /\ Spent(s) /\ LphOf(s) \in Lph
  BY FirstWrite, OpenedOrder
<1>2. TypeOK'
  BY <1>1, AdvanceLeaves DEF TypeOK
<1>3. Known'
  BY <1>1, AdvanceLeaves DEF Known, Opened, Issued
<1>4. SpentBefore'
  BY DEF SpentBefore, Spent, Opened
<1>5. HandlerSpends'
  BY <1>1, AdvanceLeaves DEF HandlerSpends, Spent, Opened
<1> QED BY <1>2, <1>3, <1>4, <1>5

LEMMA CommitLifecycleIInv ==
    ASSUME IInv, CommitLifecycle
    PROVE  IInv'
<1> USE DEF IInv, CommitLifecycle, Writing, tickets, store
<1> DEFINE s == handling.session
           e == [op |-> Head(handling.writes).op, tx |-> s]
<1>1. /\ s \in Session /\ Opened(s) /\ Spent(s) /\ LphOf(s) \in Lph
      /\ e \in Repository!Entry
      /\ e.tx = s
  BY FirstWrite, OpenedOrder DEF Write, Repository!Entry
<1>2. history' = [history EXCEPT ![LphOf(s)] = Append(@, e)]
  BY DEF Repository!Accept
<1> HIDE DEF e
<1>3. TypeOK'
  <2>1. history' \in [Lph -> Seq(Repository!Entry)]
    BY <1>1, <1>2 DEF TypeOK
  <2> QED BY <2>1, AdvanceLeaves DEF TypeOK
<1>4. Known'
  BY <1>1, AdvanceLeaves DEF Known, Opened, Issued
<1>5. SpentBefore'
  <2>1. ASSUME NEW l \in Lph, NEW i \in 1..Len(history'[l])
        PROVE  Spent(history[l][i].tx)'
    <3>1. history[l] \in Seq(Repository!Entry)
      BY DEF TypeOK
    <3>2. CASE l = LphOf(s) /\ i = Len(history[l]) + 1
      BY <1>1, <1>2, <3>1, <3>2 DEF Spent, Opened, TypeOK
    <3>3. CASE ~(l = LphOf(s) /\ i = Len(history[l]) + 1)
      <4>1. i \in 1..Len(history[l]) /\ history'[l][i] = history[l][i]
        BY <1>1, <1>2, <3>1, <3>3 DEF TypeOK
      <4> QED BY <4>1 DEF SpentBefore, Spent, Opened
    <3> QED BY <3>2, <3>3
  <2> QED BY <2>1 DEF SpentBefore, Spent, Opened
<1>6. HandlerSpends'
  BY <1>1, AdvanceLeaves DEF HandlerSpends, Spent, Opened
<1> QED BY <1>3, <1>4, <1>5, <1>6

-----------------------------------------------------------------------------
(* Tickets, sessions, the client, and restarts.                            *)

LEMMA IssueIInv ==
    ASSUME IInv, NEW t \in Ticket, NEW op \in OrderOp, NEW l \in Lph, Issue(t, op, l)
    PROVE  IInv'
<1> USE DEF IInv, Issue, store, client
<1>1. [op |-> op, lph |-> l] \in Order
  BY DEF Order
<1>2. orderOf' = [orderOf EXCEPT ![t] = [op |-> op, lph |-> l]]
  OBVIOUS
<1>3. TypeOK'
  BY <1>1 DEF TypeOK
<1>4. \A t2 \in Ticket : Issued(t2) => Issued(t2)'
  BY <1>1, <1>2, ServiceAssumption DEF TypeOK, Issued
<1>5. Known'
  <2>1. Issued(t)'
    BY <1>1, <1>2, ServiceAssumption DEF TypeOK, Issued
  <2> QED BY <1>4, <2>1 DEF Known, Opened, TypeOK
<1>6. SpentBefore'
  BY DEF SpentBefore, Spent, Opened
<1>7. HandlerSpends'
  BY DEF HandlerSpends, Spent, Opened
<1> QED BY <1>3, <1>5, <1>6, <1>7

LEMMA ExpireIInv ==
    ASSUME IInv, NEW t \in Ticket, Expire(t)
    PROVE  IInv'
<1> USE DEF IInv, Expire, store, client
<1>1. TypeOK'
  BY DEF TypeOK
<1>2. Known'
  BY DEF Known, Opened, Issued
<1>3. SpentBefore'
  BY DEF SpentBefore, Spent, Opened
<1>4. HandlerSpends'
  BY DEF HandlerSpends, Spent, Opened
<1> QED BY <1>1, <1>2, <1>3, <1>4

LEMMA ImportOrderIInv ==
    ASSUME IInv, NEW t \in Ticket, ImportOrder(t)
    PROVE  IInv'
<1> USE DEF IInv, ImportOrder, tickets, client
<1>1. TypeOK'
  BY DEF TypeOK
<1>2. Known'
  BY ServiceAssumption DEF Known, Opened, Issued, KnowsOrder
<1>3. SpentBefore'
  BY DEF SpentBefore, Spent, Opened
<1>4. HandlerSpends'
  BY DEF HandlerSpends
<1> QED BY <1>1, <1>2, <1>3, <1>4

LEMMA InitiateIInv ==
    ASSUME IInv, NEW s \in Session, NEW t \in Ticket, Initiate(s, t)
    PROVE  IInv'
<1> USE DEF IInv, Initiate, tickets, client
<1>1. TypeOK'
  BY DEF TypeOK, Status
<1>2. Known'
  BY ServiceAssumption DEF Known, Opened, Issued, KnowsOrder, TypeOK
<1>3. \A s2 \in Session : Spent(s2) => Spent(s2)'
  BY DEF Spent, Opened, TypeOK
<1>4. SpentBefore'
  <2>1. \A l \in Lph : \A i \in 1..Len(history[l]) : history[l][i].tx \in Session
    <3>1. \A l \in Lph : \A i \in 1..Len(history[l]) : history[l][i] \in Repository!Entry
      BY DEF TypeOK
    <3> QED BY <3>1 DEF Repository!Entry
  <2> QED BY <1>3, <2>1 DEF SpentBefore, TypeOK
<1>5. HandlerSpends'
  BY DEF HandlerSpends
<1> QED BY <1>1, <1>2, <1>4, <1>5

LEMMA ClientIInv ==
    ASSUME IInv, NEW s \in Session, ReplayAuthentication(s) \/ SignsOnKnown(s)
    PROVE  IInv'
<1> USE DEF IInv, tickets, store
<1>1. Opened(s)
  BY DEF ReplayAuthentication, Authentic, SignsOnKnown, Known
<1>2. Chain(s) \in Seq(Repository!Entry)
  BY <1>1, OpenedOrder
<1>3. <<>> \in Seq(Repository!Entry)
  BY EmptySeq
<1>4. CASE ReplayAuthentication(s)
  <2> USE <1>4 DEF ReplayAuthentication
  <2>1. TypeOK'
    BY DEF TypeOK, Response
  <2>2. Known'
    BY <1>1 DEF Known, Opened, Issued
  <2>3. SpentBefore' /\ HandlerSpends'
    BY DEF SpentBefore, HandlerSpends, Spent, Opened
  <2> QED BY <2>1, <2>2, <2>3
<1>5. ASSUME NEW n \in 0..Len(Chain(s)), SignReceipt(s, SubSeq(Chain(s), 1, n))
      PROVE  IInv'
  <2> USE <1>5 DEF SignReceipt
  <2>0. SubSeq(Chain(s), 1, n) \in Seq(Repository!Entry)
    BY <1>2
  <2>1. TypeOK'
    BY <2>0, <1>3 DEF TypeOK
  <2>2. Known'
    BY <1>1 DEF Known, Opened, Issued
  <2>3. SpentBefore' /\ HandlerSpends'
    BY DEF SpentBefore, HandlerSpends, Spent, Opened
  <2> QED BY <2>1, <2>2, <2>3
<1> QED BY <1>4, <1>5 DEF SignsOnKnown

\* A restart drops what a handler had left to write, and a store that is a file
\* keeps the rest.
LEMMA RestartIInv ==
    ASSUME Persistent = TRUE, IInv, Restart
    PROVE  IInv'
<1> USE DEF IInv, Restart, tickets, client
<1>1. /\ handling' = Idle
      /\ orders' = orders \cup Seeded
      /\ UNCHANGED <<status, nullifier, profileState>>
  OBVIOUS
<1>2. TypeOK'
  BY <1>1, ServiceAssumption DEF TypeOK, Seeded
<1>3. Known'
  BY <1>1 DEF Known, Opened, Issued, Seeded
<1>4. SpentBefore'
  BY <1>1 DEF SpentBefore, Spent, Opened
<1>5. HandlerSpends'
  BY <1>1 DEF HandlerSpends
<1> QED BY <1>2, <1>3, <1>4, <1>5

LEMMA StepIInv ==
    ASSUME Persistent = TRUE, IInv, [Next]_vars
    PROVE  IInv'
<1>1. CASE ServerStep
  BY <1>1, PutNullifierIInv, PutSessionIInv, PutProfileStateIInv, CommitLifecycleIInv
     DEF ServerStep
<1>2. CASE \E t \in Ticket, op \in OrderOp, l \in Lph : Issue(t, op, l)
  BY <1>2, IssueIInv
<1>3. CASE \E t \in Ticket : Expire(t) \/ ImportOrder(t)
  BY <1>3, ExpireIInv, ImportOrderIInv
<1>4. CASE \E s \in Session, t \in Ticket : Initiate(s, t)
  BY <1>4, InitiateIInv
<1>5. CASE \E s \in Session : ReplayAuthentication(s) \/ SignsOnKnown(s)
  BY <1>5, ClientIInv
<1>6. CASE \E s \in Session :
             \/ Authenticate(s) \/ GetProfile(s) \/ PrepareLifecycle(s) \/ Notification(s)
             \/ LifecycleReceipt(s) \/ CommitDelete(s) \/ ReinstallReceipt(s)
  BY <1>6, HandlersIInv
<1>7. CASE Restart
  BY <1>7, RestartIInv
<1>8. CASE UNCHANGED vars
  <2> USE <1>8 DEF vars, tickets, store, client
  <2>1. TypeOK' /\ Known'
    BY DEF IInv, TypeOK, Known, Opened, Issued
  <2>2. SpentBefore' /\ HandlerSpends'
    BY DEF IInv, SpentBefore, HandlerSpends, Spent, Opened
  <2> QED BY <2>1, <2>2 DEF IInv
<1> QED BY <1>1, <1>2, <1>3, <1>4, <1>5, <1>6, <1>7, <1>8 DEF Next, NotificationAgain, Read

-----------------------------------------------------------------------------
(* Every part of the store, of a running handler and of what clients hold has its
   type, whatever restarts between two writes of a handler (service.py, store.py). *)
THEOREM ServiceTypeCorrect ==
    ASSUME Persistent = TRUE
    PROVE  Spec => []TypeOK
<1>1. IInv => TypeOK
  BY DEF IInv
<1> QED BY InitIInv, StepIInv, <1>1, PTL DEF Spec

(* A ticket pays for what one session does: with the store in a file, whatever
   restarts between put_nullifier and put_session (service.py:386-397), a session
   that is authenticated or has moved its Profile is the one that its ticket's
   nullifier names. *)
THEOREM TicketPaysOnce ==
    ASSUME Persistent = TRUE
    PROVE  Spec => []TicketSpentByOneSession
<1>1. IInv => TicketSpentByOneSession
  <2> SUFFICES ASSUME IInv, NEW s \in Session, Opened(s),
                      \/ status[s] \notin {"unknown", "initiated"}
                      \/ \E i \in 1..Len(Chain(s)) : Chain(s)[i].tx = s
               PROVE  Spent(s)
    BY DEF TicketSpentByOneSession
  <2>1. CASE status[s] \notin {"unknown", "initiated"}
    BY <2>1 DEF IInv, SpentBefore
  <2>2. CASE \E i \in 1..Len(Chain(s)) : Chain(s)[i].tx = s
    <3>1. LphOf(s) \in Lph
      BY OpenedOrder DEF IInv
    <3> QED BY <2>2, <3>1 DEF IInv, SpentBefore, Chain
  <2> QED BY <2>1, <2>2
<1> QED BY InitIInv, StepIInv, <1>1, PTL DEF Spec
-----------------------------------------------------------------------------
(* What a client meets after a restart.                                    *)


\* The order that pays for an operation.
PaidBy(op) ==
    CASE op = "install" -> "download"
      [] op = "commit-delete" -> "delete"
      [] OTHER -> op

\* The status in which a session hands in its receipt for op, and the one that follows.
Before(op) ==
    CASE op = "install" -> "downloaded"
      [] op = "reinstall" -> "reinstall-downloaded"
      [] op = "commit-delete" -> "pending-delete"
      [] OTHER -> "lifecycle-prepared"

After(op) ==
    CASE op \in {"install", "reinstall"} -> "installed"
      [] op = "delete" -> "pending-delete"
      [] op = "commit-delete" -> "tombstone"
      [] OTHER -> "lifecycle-complete"

\* Session s has what it takes to hand in its receipt for op.
Acts(s, op) ==
    /\ Opened(s)
    /\ receipt[s] # NoReceipt
    /\ Op(s) = PaidBy(op)
    /\ op = "commit-delete" => "R_prep" \in holds[s]

\* What backs status st of session s.
Earned(s, st) ==
    /\ st = "downloaded" => Op(s) = "download"
    /\ st = "reinstall-downloaded" => Op(s) = "reinstall"
    /\ st = "lifecycle-prepared" => Op(s) \in {"enable", "disable", "delete"}
    /\ st = "installed" =>
         \/ Op(s) = "download" /\ InHistory(s, "install") /\ profileState[LphOf(s)] = s
         \/ Op(s) = "reinstall" /\ InHistory(s, "reinstall")
    /\ st = "lifecycle-complete" => Op(s) \in {"enable", "disable"} /\ InHistory(s, Op(s))
    /\ st = "pending-delete" => Op(s) = "delete" /\ InHistory(s, "delete")
    /\ st = "tombstone" => Op(s) = "delete" /\ InHistory(s, "commit-delete")

HistoryBacked ==
    \A l \in Lph : \A i \in 1..Len(history[l]) :
      LET e == history[l][i]
      IN  /\ Acts(e.tx, e.op)
          /\ LphOf(e.tx) = l
          /\ \/ status[e.tx] \in {Before(e.op), After(e.op)}
             \/ status[e.tx] = "tombstone" /\ e.op = "delete"

\* A chain is installed once, and deleted once, and the deletion is committed next.
ChainShape ==
    \A l \in Lph : \A i \in 1..Len(history[l]) :
      /\ history[l][i].op = "install" <=> i = 1
      /\ history[l][i].op = "commit-delete" =>
           /\ i - 1 \in 1..Len(history[l])
           /\ history[l][i - 1] = [op |-> "delete", tx |-> history[l][i].tx]
      /\ \A j \in 1..Len(history[l]) :
           history[l][i].op = "delete" /\ history[l][j].op = "delete" => i = j

StatusBacked == \A s \in Session : Opened(s) => Earned(s, status[s])

HoldsBacked ==
    \A s \in Session : "R_prep" \in holds[s] => status[s] \in {"pending-delete", "tombstone"}

-----------------------------------------------------------------------------
(* What a running handler has left to do.                                  *)

AuthenticatePlan(s, writes, response) ==
    /\ writes = AuthenticateWrites
    /\ status[s] = "initiated"
    /\ "R_prep" \notin response

SessionPlan(s, writes, response) ==
    \E st \in Status :
      /\ writes = <<SessionWrite(st)>>
      /\ Rank(st) >= Rank(status[s])
      /\ Earned(s, st)
      /\ "R_prep" \in response => st = "pending-delete"

OperationPlan(s, writes, response) ==
    \E op \in Repository!Op \ {"install"} :
      /\ writes = <<LifecycleWrite(op), SessionWrite(After(op))>>
      /\ Acts(s, op)
      /\ Applies(s, op)
      /\ status[s] \in {Before(op), After(op)}
      /\ "R_prep" \in response => op = "delete"

InstallPlan(s, writes, response) ==
    /\ writes = <<LifecycleWrite("install"), ProfileStateWrite, SessionWrite("installed")>>
    /\ Acts(s, "install")
    /\ status[s] = "downloaded"
    /\ "R_prep" \notin response

CopyPlan(s, writes, response) ==
    /\ writes = <<ProfileStateWrite, SessionWrite("installed")>>
    /\ Op(s) = "download"
    /\ InHistory(s, "install")
    /\ status[s] = "downloaded"
    /\ "R_prep" \notin response

Plan(s, writes, response) ==
    \/ AuthenticatePlan(s, writes, response)
    \/ SessionPlan(s, writes, response)
    \/ OperationPlan(s, writes, response)
    \/ InstallPlan(s, writes, response)
    \/ CopyPlan(s, writes, response)

HandlerBacked ==
    handling # Idle => Plan(handling.session, handling.writes, handling.response)

Backed == HistoryBacked /\ ChainShape /\ StatusBacked /\ HoldsBacked /\ HandlerBacked

RetryInv == IInv /\ Backed

-----------------------------------------------------------------------------
(* Facts about one state.                                                  *)

LEMMA InitBacked == Init => Backed
<1> SUFFICES ASSUME Init PROVE Backed
  OBVIOUS
<1>1. \A l \in Lph : history[l] = <<>>
  BY DEF Init, Repository!Init
<1>2. Len(<<>>) = 0
  BY EmptySeq
<1>3. HistoryBacked /\ ChainShape
  BY <1>1, <1>2 DEF HistoryBacked, ChainShape
<1>4. StatusBacked /\ HoldsBacked /\ HandlerBacked
  BY DEF Init, StatusBacked, HoldsBacked, HandlerBacked, Opened
<1> QED BY <1>3, <1>4 DEF Backed

LEMMA HistoryEntry ==
    ASSUME TypeOK, NEW l \in Lph, NEW i \in 1..Len(history[l])
    PROVE  /\ history[l][i] \in Repository!Entry
           /\ history[l][i].op \in Repository!Op
           /\ history[l][i].tx \in Session
<1>1. history[l] \in Seq(Repository!Entry)
  BY DEF TypeOK
<1>2. history[l][i] \in Repository!Entry
  BY <1>1
<1> QED BY <1>2 DEF Repository!Entry

\* An operation of s in the history of its Profile is backed.
LEMMA InHistoryBacked ==
    ASSUME RetryInv, NEW s \in Session, NEW op, Opened(s), InHistory(s, op)
    PROVE  /\ op \in Repository!Op
           /\ Acts(s, op)
           /\ \/ status[s] \in {Before(op), After(op)}
              \/ status[s] = "tombstone" /\ op = "delete"
<1>1. LphOf(s) \in Lph
  BY OpenedOrder DEF RetryInv, IInv
<1>2. PICK i \in 1..Len(Chain(s)) : Chain(s)[i] = [op |-> op, tx |-> s]
  BY DEF InHistory
<1>3. Chain(s)[i] \in Repository!Entry /\ Chain(s)[i].op = op /\ Chain(s)[i].tx = s
  BY <1>1, <1>2, HistoryEntry DEF Chain, RetryInv, IInv
<1> QED BY <1>1, <1>2, <1>3 DEF RetryInv, Backed, HistoryBacked, Chain, Repository!Entry

LEMMA HeadInHistory ==
    ASSUME RetryInv, NEW s \in Session, NEW op, Opened(s), IsHead(s, op)
    PROVE  /\ InHistory(s, op)
           /\ Len(Chain(s)) \in 1..Len(Chain(s))
<1>1. Chain(s) \in Seq(Repository!Entry)
  BY OpenedOrder DEF RetryInv, IInv
<1>2. Len(Chain(s)) \in 1..Len(Chain(s))
  BY <1>1, EmptySeq, LenProperties DEF IsHead
<1> QED BY <1>2 DEF IsHead, InHistory

\* What the repository answers from what is stored was done.
LEMMA ReplayInHistory ==
    ASSUME RetryInv, NEW s \in Session, NEW op \in Repository!Op, Opened(s), Replays(s, op)
    PROVE  InHistory(s, op)
<1>1. CASE op # "install"
  BY <1>1, HeadInHistory DEF Replays
<1>2. CASE op = "install"
  <2>1. LphOf(s) \in Lph /\ Chain(s) \in Seq(Repository!Entry)
    BY OpenedOrder DEF RetryInv, IInv
  <2>2. Chain(s) # <<>> /\ Chain(s)[1].tx = s
    BY <1>2 DEF Replays
  <2>3. 1 \in 1..Len(Chain(s))
    BY <2>1, <2>2, EmptySeq, LenProperties
  <2>4. Chain(s)[1] \in Repository!Entry
    BY <2>1, <2>3
  <2>5. Chain(s)[1].op = "install"
    <3>1. history[LphOf(s)][1].op = "install" <=> 1 = 1
      BY <2>1, <2>3 DEF RetryInv, Backed, ChainShape, Chain
    <3> QED BY <3>1 DEF Chain
  <2>6. Chain(s)[1] = [op |-> "install", tx |-> s]
    BY <2>2, <2>4, <2>5 DEF Repository!Entry
  <2> QED BY <1>2, <2>3, <2>6 DEF InHistory
<1> QED BY <1>1, <1>2

\* Only the session that installed a Profile has an install in its chain.
LEMMA InstallIsFirst ==
    ASSUME RetryInv, NEW s \in Session, Opened(s), InHistory(s, "install")
    PROVE  Chain(s) # <<>> /\ Chain(s)[1] = [op |-> "install", tx |-> s]
<1>1. LphOf(s) \in Lph
  BY OpenedOrder DEF RetryInv, IInv
<1>2. PICK i \in 1..Len(Chain(s)) : Chain(s)[i] = [op |-> "install", tx |-> s]
  BY DEF InHistory
<1>3. i = 1
  <2>1. history[LphOf(s)][i].op = "install" <=> i = 1
    BY <1>1, <1>2 DEF RetryInv, Backed, ChainShape, Chain
  <2>2. history[LphOf(s)][i].op = "install"
    BY <1>2 DEF Chain
  <2> QED BY <2>1, <2>2
<1>4. Chain(s) # <<>>
  BY <1>2, <1>3, EmptySeq
<1> QED BY <1>2, <1>3, <1>4

-----------------------------------------------------------------------------
(* Steps that touch neither a history nor the status of an opened session.  *)

\* What is settled of session s stays.
Settled(s) ==
    Opened(s) =>
      /\ ticketOf'[s] = ticketOf[s]
      /\ orderOf'[ticketOf[s]] = orderOf[ticketOf[s]]
      /\ receipt[s] # NoReceipt => receipt'[s] = receipt[s]
      /\ holds[s] \subseteq holds'[s]

LEMMA SettledKeeps ==
    ASSUME NEW s \in Session, Opened(s), Settled(s)
    PROVE  /\ Opened(s)' /\ Op(s)' = Op(s) /\ LphOf(s)' = LphOf(s)
           /\ \A op : Acts(s, op) => Acts(s, op)'
BY DEF Settled, Opened, Op, LphOf, Acts

\* A step that leaves histories, statuses and profileState leaves what backs them.
LEMMA EarnedKept ==
    ASSUME NEW s \in Session, NEW st, Opened(s), Settled(s), Earned(s, st),
           UNCHANGED <<history, profileState>>
    PROVE  Earned(s, st)'
<1>1. Opened(s)' /\ Op(s)' = Op(s) /\ LphOf(s)' = LphOf(s)
  BY SettledKeeps
<1>2. Chain(s)' = Chain(s) /\ profileState' = profileState
  BY <1>1 DEF Chain
<1>3. \A op : InHistory(s, op)' <=> InHistory(s, op)
  BY <1>2 DEF InHistory
<1> QED BY <1>1, <1>2, <1>3 DEF Earned

\* So it leaves what a handler has to do.
LEMMA PlanKept ==
    ASSUME NEW s \in Session, NEW w, NEW r, Opened(s), Settled(s), Plan(s, w, r),
           UNCHANGED <<history, profileState>>, status'[s] = status[s]
    PROVE  Plan(s, w, r)'
<1>1. /\ Opened(s)' /\ Op(s)' = Op(s) /\ LphOf(s)' = LphOf(s)
      /\ \A op : Acts(s, op) => Acts(s, op)'
  BY SettledKeeps
<1>2. Chain(s)' = Chain(s)
  BY <1>1 DEF Chain
<1>3. CASE AuthenticatePlan(s, w, r)
  BY <1>3 DEF Plan, AuthenticatePlan
<1>4. CASE SessionPlan(s, w, r)
  <2>1. PICK st \in Status :
          /\ w = <<SessionWrite(st)>>
          /\ Rank(st) >= Rank(status[s])
          /\ Earned(s, st)
          /\ "R_prep" \in r => st = "pending-delete"
    BY <1>4 DEF SessionPlan
  <2>2. Earned(s, st)'
    BY <2>1, EarnedKept
  <2>3. SessionPlan(s, w, r)'
    BY <2>1, <2>2 DEF SessionPlan
  <2> QED BY <2>3 DEF Plan
<1>5. CASE OperationPlan(s, w, r)
  <2>1. PICK op \in Repository!Op \ {"install"} :
          /\ w = <<LifecycleWrite(op), SessionWrite(After(op))>>
          /\ Acts(s, op)
          /\ Applies(s, op)
          /\ status[s] \in {Before(op), After(op)}
          /\ "R_prep" \in r => op = "delete"
    BY <1>5 DEF OperationPlan
  <2>2. receipt'[s] = receipt[s]
    BY <2>1 DEF Acts, Settled
  <2>3. Applies(s, op)'
    BY <1>2, <2>1, <2>2 DEF Applies, IsHead, StateOf, NeverDeleted
  <2>4. OperationPlan(s, w, r)'
    BY <1>1, <2>1, <2>3 DEF OperationPlan
  <2> QED BY <2>4 DEF Plan
<1>6. CASE InstallPlan(s, w, r)
  BY <1>1, <1>6 DEF Plan, InstallPlan
<1>7. CASE CopyPlan(s, w, r)
  BY <1>1, <1>2, <1>7 DEF Plan, CopyPlan, InHistory
<1> QED BY <1>3, <1>4, <1>5, <1>6, <1>7 DEF Plan

LEMMA HistoryKept ==
    ASSUME RetryInv, \A s \in Session : Settled(s), UNCHANGED history,
           \A s \in Session : Opened(s) => status'[s] = status[s]
    PROVE  HistoryBacked' /\ ChainShape'
<1>1. ChainShape'
  BY DEF RetryInv, Backed, ChainShape
<1>2. ASSUME NEW l \in Lph, NEW i \in 1..Len(history[l])
      PROVE  LET e == history[l][i]
             IN  /\ Acts(e.tx, e.op)'
                 /\ LphOf(e.tx)' = l
                 /\ \/ status'[e.tx] \in {Before(e.op), After(e.op)}
                    \/ status'[e.tx] = "tombstone" /\ e.op = "delete"
  <2> DEFINE e == history[l][i]
  <2>1. e.tx \in Session
    BY HistoryEntry DEF RetryInv, IInv
  <2>2. /\ Acts(e.tx, e.op) /\ LphOf(e.tx) = l
        /\ \/ status[e.tx] \in {Before(e.op), After(e.op)}
           \/ status[e.tx] = "tombstone" /\ e.op = "delete"
    BY DEF RetryInv, Backed, HistoryBacked
  <2>3. Opened(e.tx)
    BY <2>2 DEF Acts
  <2> QED BY <2>1, <2>2, <2>3, SettledKeeps
<1> QED BY <1>1, <1>2 DEF HistoryBacked

Stored == HistoryBacked /\ ChainShape /\ StatusBacked /\ HoldsBacked

LEMMA StoredKept ==
    ASSUME RetryInv, \A s \in Session : Settled(s), UNCHANGED <<history, profileState>>,
           \A s \in Session : status'[s] = status[s] \/ (~Opened(s) /\ status'[s] = "initiated"),
           \A s \in Session : "R_prep" \in holds'[s] => "R_prep" \in holds[s]
    PROVE  Stored'
<1>1. \A s \in Session : Opened(s) => status'[s] = status[s]
  OBVIOUS
<1>2. HistoryBacked' /\ ChainShape'
  BY <1>1, HistoryKept
<1>3. StatusBacked'
  <2> SUFFICES ASSUME NEW s \in Session, Opened(s)'
               PROVE  Earned(s, status[s])'
    BY DEF StatusBacked
  <2>1. CASE Opened(s)
    <3>1. Earned(s, status[s])
      BY <2>1 DEF RetryInv, Backed, StatusBacked
    <3>2. status'[s] = status[s]
      BY <1>1, <2>1
    <3> QED BY <2>1, <3>1, <3>2, EarnedKept DEF Earned
  <2>2. CASE ~Opened(s)
    <3>1. status'[s] \in {"unknown", "initiated"}
      BY <2>2 DEF RetryInv, IInv, Known
    <3> QED BY <3>1 DEF Earned
  <2> QED BY <2>1, <2>2
<1>4. HoldsBacked'
  <2>1. \A s \in Session : ~Opened(s) => holds[s] = {}
    BY DEF RetryInv, IInv, Known
  <2> QED BY <1>1, <2>1 DEF RetryInv, Backed, HoldsBacked
<1> QED BY <1>2, <1>3, <1>4 DEF Stored

LEMMA QuietBacked ==
    ASSUME RetryInv, \A s \in Session : Settled(s),
           UNCHANGED <<history, profileState>>, handling' \in {handling, Idle},
           \A s \in Session : status'[s] = status[s] \/ (~Opened(s) /\ status'[s] = "initiated"),
           \A s \in Session : "R_prep" \in holds'[s] => "R_prep" \in holds[s]
    PROVE  Backed'
<1>1. Stored'
  BY StoredKept
<1>2. HandlerBacked'
  <2> SUFFICES ASSUME handling # Idle, handling' = handling
               PROVE  Plan(handling.session, handling.writes, handling.response)'
    BY DEF HandlerBacked
  <2> DEFINE s == handling.session
             w == handling.writes
             r == handling.response
  <2>1. s \in Session /\ Opened(s)
    BY FirstWrite DEF RetryInv
  <2>2. Plan(s, w, r) /\ status'[s] = status[s]
    BY <2>1 DEF RetryInv, Backed, HandlerBacked
  <2>3. Plan(s, w, r)'
    BY <2>1, <2>2, PlanKept
  <2> QED BY <2>3
<1> QED BY <1>1, <1>2 DEF Backed, Stored

LEMMA TicketsBacked ==
    ASSUME RetryInv, NEW t \in Ticket,
           \/ \E op \in OrderOp, l \in Lph : Issue(t, op, l)
           \/ Expire(t)
           \/ ImportOrder(t)
           \/ \E s \in Session : Initiate(s, t)
    PROVE  Backed'
<1>1. TypeOK /\ Known
  BY DEF RetryInv, IInv
<1>2. /\ \A s \in Session : Settled(s)
      /\ UNCHANGED <<history, profileState, handling, holds>>
      /\ \A s \in Session : status'[s] = status[s] \/ (~Opened(s) /\ status'[s] = "initiated")
  <2>1. CASE \E op \in OrderOp, l \in Lph : Issue(t, op, l)
    BY <1>1, <2>1 DEF Issue, store, client, Settled, Known, Issued, TypeOK
  <2>2. CASE Expire(t)
    BY <2>2 DEF Expire, store, client, Settled
  <2>3. CASE ImportOrder(t)
    BY <2>3 DEF ImportOrder, tickets, client, Settled
  <2>4. CASE \E s \in Session : Initiate(s, t)
    BY <1>1, <2>4 DEF Initiate, tickets, client, Settled, Opened, TypeOK
  <2> QED BY <2>1, <2>2, <2>3, <2>4
<1> QED BY <1>2, QuietBacked

LEMMA ClientBacked ==
    ASSUME RetryInv, NEW s \in Session, ReplayAuthentication(s) \/ SignsOnKnown(s)
    PROVE  Backed'
<1>1. TypeOK /\ Known
  BY DEF RetryInv, IInv
<1>2. /\ \A s2 \in Session : Settled(s2)
      /\ UNCHANGED <<history, profileState, handling, status>>
      /\ \A s2 \in Session : "R_prep" \in holds'[s2] => "R_prep" \in holds[s2]
  <2>1. CASE ReplayAuthentication(s)
    BY <1>1, <2>1 DEF ReplayAuthentication, tickets, store, Settled, TypeOK
  <2>2. CASE SignsOnKnown(s)
    BY <1>1, <2>2 DEF SignsOnKnown, SignReceipt, tickets, store, Settled, TypeOK
  <2> QED BY <2>1, <2>2
<1> QED BY <1>2, QuietBacked

\* Whatever write a restart comes before, the histories and the store back each other.
LEMMA RestartBacked ==
    ASSUME Persistent = TRUE, RetryInv, Restart
    PROVE  Backed'
<1>1. /\ \A s \in Session : Settled(s)
      /\ UNCHANGED <<history, profileState, status, holds>>
      /\ handling' = Idle
  BY DEF Restart, tickets, client, Settled
<1> QED BY <1>1, QuietBacked

-----------------------------------------------------------------------------
(* Every handler starts with a plan.                                       *)

LEMMA HandleBacked ==
    ASSUME RetryInv, NEW s \in Session, NEW w, NEW r, Opened(s), Plan(s, w, r), Handle(s, w, r)
    PROVE  Backed'
<1>1. /\ Settled(s)
      /\ UNCHANGED <<orderOf, ticketOf, history, profileState, status, holds, receipt>>
      /\ handling' = [session |-> s, writes |-> w, response |-> r]
  BY DEF Handle, tickets, store, client, Settled
<1>2. \A s2 \in Session : Settled(s2)
  BY <1>1 DEF Settled
<1>3. Stored'
  BY <1>1, <1>2, StoredKept
<1>4. HandlerBacked'
  <2>1. Plan(s, w, r)'
    BY <1>1, PlanKept
  <2>2. handling'.session = s /\ handling'.writes = w /\ handling'.response = r
    BY <1>1
  <2> QED BY <2>1, <2>2 DEF HandlerBacked
<1> QED BY <1>3, <1>4 DEF Backed, Stored

LEMMA AuthenticateBacked ==
    ASSUME RetryInv, NEW s \in Session, Authenticate(s)
    PROVE  Backed'
<1>1. Opened(s) /\ status[s] \in {"initiated", "authenticated"}
      /\ nullifier[ticketOf[s]] = NoSession /\ Handle(s, AuthenticateWrites, {"Bind_t"})
  BY DEF Authenticate, Authentic
<1>2. status[s] = "initiated"
  <2>1. ~Spent(s)
    BY <1>1, ServiceAssumption DEF Spent
  <2> QED BY <1>1, <2>1 DEF RetryInv, IInv, SpentBefore
<1>3. Plan(s, AuthenticateWrites, {"Bind_t"})
  BY <1>2 DEF Plan, AuthenticatePlan
<1> QED BY <1>1, <1>3, HandleBacked

LEMMA OpenedByStatus ==
    ASSUME RetryInv, NEW s \in Session, status[s] # "unknown"
    PROVE  Opened(s) /\ Earned(s, status[s])
BY DEF RetryInv, IInv, Known, Backed, StatusBacked

LEMMA KeysBacked ==
    ASSUME RetryInv, NEW s \in Session, GetProfile(s) \/ PrepareLifecycle(s)
    PROVE  Backed'
<1>1. status[s] = "authenticated" /\ Opened(s)
  BY OpenedByStatus DEF GetProfile, PrepareLifecycle, MayPrepareKeys
<1>2. PICK st \in {"downloaded", "reinstall-downloaded", "lifecycle-prepared"} :
        /\ Handle(s, <<SessionWrite(st)>>, {"K_mac"})
        /\ st = "downloaded" => Op(s) = "download"
        /\ st = "reinstall-downloaded" => Op(s) = "reinstall"
        /\ st = "lifecycle-prepared" => Op(s) \in {"enable", "disable", "delete"}
  BY DEF GetProfile, PrepareLifecycle
<1>3. Earned(s, st)
  BY <1>2 DEF Earned
<1>4. st \in Status /\ Rank(st) >= Rank(status[s])
  BY <1>1 DEF Status, Rank
<1>5. Plan(s, <<SessionWrite(st)>>, {"K_mac"})
  BY <1>3, <1>4 DEF Plan, SessionPlan
<1> QED BY <1>1, <1>2, <1>5, HandleBacked

LEMMA FirstOfTwo ==
    ASSUME NEW S, NEW u \in S, NEW v \in S
    PROVE  <<u>> \o <<v>> = <<u, v>>
<1>1. <<u>> \in Seq(S) /\ <<v>> \in Seq(S) /\ <<u, v>> \in Seq(S)
  OBVIOUS
<1>2. Len(<<u>>) = 1 /\ Len(<<v>>) = 1 /\ Len(<<u, v>>) = 2
  OBVIOUS
<1>3. \A i \in 1..2 : (<<u>> \o <<v>>)[i] = <<u, v>>[i]
  BY <1>1, <1>2
<1>4. <<u>> \o <<v>> \in Seq(S) /\ Len(<<u>> \o <<v>>) = 2
  BY <1>1, <1>2
<1> QED BY <1>1, <1>2, <1>3, <1>4, SeqEqual

LEMMA FirstOfThree ==
    ASSUME NEW S, NEW u \in S, NEW v \in S, NEW w \in S
    PROVE  <<u>> \o <<v, w>> = <<u, v, w>>
<1>1. <<u>> \in Seq(S) /\ <<v, w>> \in Seq(S) /\ <<u, v, w>> \in Seq(S)
  OBVIOUS
<1>2. Len(<<u>>) = 1 /\ Len(<<v, w>>) = 2 /\ Len(<<u, v, w>>) = 3
  OBVIOUS
<1>3. \A i \in 1..3 : (<<u>> \o <<v, w>>)[i] = <<u, v, w>>[i]
  BY <1>1, <1>2
<1>4. <<u>> \o <<v, w>> \in Seq(S) /\ Len(<<u>> \o <<v, w>>) = 3
  BY <1>1, <1>2
<1> QED BY <1>1, <1>2, <1>3, <1>4, SeqEqual

LEMMA WriteTypes ==
    /\ \A op \in Repository!Op : LifecycleWrite(op) \in Write
    /\ \A op : SessionWrite(After(op)) \in Write
    /\ ProfileStateWrite \in Write
    /\ SessionWrite("installed") \in Write
BY DEF LifecycleWrite, SessionWrite, ProfileStateWrite, Write, After, Status

\* The receipts other than the one for an installation.
LEMMA OperationBacked ==
    ASSUME RetryInv, NEW s \in Session, NEW op \in Repository!Op, op # "install", NEW r,
           Acts(s, op), Takes(s, op), status[s] \in {Before(op), After(op)},
           "R_prep" \in r => op = "delete",
           Handle(s, RepositoryWrites(s, op) \o <<SessionWrite(After(op))>>, r)
    PROVE  Backed'
<1>1. Opened(s) /\ Op(s) = PaidBy(op)
  BY DEF Acts
<1>2. CASE Replays(s, op)
  <2>1. RepositoryWrites(s, op) \o <<SessionWrite(After(op))>> = <<SessionWrite(After(op))>>
    BY <1>2 DEF RepositoryWrites
  <2>2. InHistory(s, op)
    BY <1>1, <1>2, ReplayInHistory
  <2>3. Earned(s, After(op))
    BY <1>1, <2>2 DEF Earned, After, PaidBy, Repository!Op
  <2>4. After(op) \in Status /\ Rank(After(op)) >= Rank(status[s])
    BY DEF After, Before, Status, Rank, Repository!Op
  <2>5. "R_prep" \in r => After(op) = "pending-delete"
    BY DEF After
  <2>6. Plan(s, <<SessionWrite(After(op))>>, r)
    BY <2>3, <2>4, <2>5 DEF Plan, SessionPlan
  <2> QED BY <1>1, <2>1, <2>6, HandleBacked
<1>3. CASE ~Replays(s, op)
  <2>1. RepositoryWrites(s, op) \o <<SessionWrite(After(op))>>
          = <<LifecycleWrite(op), SessionWrite(After(op))>>
    BY <1>3, WriteTypes, FirstOfTwo DEF RepositoryWrites
  <2>2. Applies(s, op)
    BY <1>3 DEF Takes
  <2>3. Plan(s, <<LifecycleWrite(op), SessionWrite(After(op))>>, r)
    BY <2>2 DEF Plan, OperationPlan
  <2> QED BY <1>1, <2>1, <2>3, HandleBacked
<1> QED BY <1>2, <1>3

LEMMA NotificationBacked ==
    ASSUME RetryInv, NEW s \in Session, Notification(s)
    PROVE  Backed'
<1>1. /\ receipt[s] # NoReceipt /\ Op(s) = "download" /\ status[s] = "downloaded"
      /\ Takes(s, "install")
      /\ Handle(s, RepositoryWrites(s, "install") \o InstallWrites, {})
  BY DEF Notification, NotificationTaken, MayNotify
<1>2. Opened(s)
  BY <1>1, OpenedByStatus
<1>3. CASE Replays(s, "install")
  <2>1. RepositoryWrites(s, "install") \o InstallWrites
          = <<ProfileStateWrite, SessionWrite("installed")>>
    BY <1>3 DEF RepositoryWrites, InstallWrites
  <2>2. InHistory(s, "install")
    BY <1>2, <1>3, ReplayInHistory DEF Repository!Op
  <2>3. Plan(s, <<ProfileStateWrite, SessionWrite("installed")>>, {})
    BY <1>1, <2>2 DEF Plan, CopyPlan
  <2> QED BY <1>1, <1>2, <2>1, <2>3, HandleBacked
<1>4. CASE ~Replays(s, "install")
  <2>1. RepositoryWrites(s, "install") \o InstallWrites
          = <<LifecycleWrite("install"), ProfileStateWrite, SessionWrite("installed")>>
    <3>1. "install" \in Repository!Op
      BY DEF Repository!Op
    <3>2. <<LifecycleWrite("install")>> \o <<ProfileStateWrite, SessionWrite("installed")>>
            = <<LifecycleWrite("install"), ProfileStateWrite, SessionWrite("installed")>>
      BY <3>1, WriteTypes, FirstOfThree
    <3> QED BY <1>4, <3>2 DEF RepositoryWrites, InstallWrites
  <2>2. Acts(s, "install")
    BY <1>1, <1>2 DEF Acts, PaidBy
  <2>3. Plan(s, <<LifecycleWrite("install"), ProfileStateWrite, SessionWrite("installed")>>, {})
    BY <1>1, <2>2 DEF Plan, InstallPlan
  <2> QED BY <1>1, <1>2, <2>1, <2>3, HandleBacked
<1> QED BY <1>3, <1>4

LEMMA ReceiptsBacked ==
    ASSUME RetryInv, NEW s \in Session,
           LifecycleReceipt(s) \/ CommitDelete(s) \/ ReinstallReceipt(s)
    PROVE  Backed'
<1>1. CASE LifecycleReceipt(s)
  <2>1. /\ Op(s) \in {"enable", "disable", "delete"} /\ receipt[s] # NoReceipt
        /\ status[s] \in {"lifecycle-prepared", "lifecycle-complete", "pending-delete"}
        /\ Takes(s, Op(s))
    BY <1>1 DEF LifecycleReceipt, ReceiptTaken, MayHandReceipt, ReceiptStatus
  <2>2. Opened(s) /\ Earned(s, status[s])
    BY <2>1, OpenedByStatus
  <2>3. Acts(s, Op(s)) /\ status[s] \in {Before(Op(s)), After(Op(s))}
    BY <2>1, <2>2 DEF Acts, PaidBy, Before, After, Earned
  <2>4. PICK r : /\ "R_prep" \in r => Op(s) = "delete"
                 /\ Handle(s, RepositoryWrites(s, Op(s)) \o <<SessionWrite(After(Op(s)))>>, r)
    <3>1. CASE Op(s) = "delete"
      BY <1>1, <3>1 DEF LifecycleReceipt, After
    <3>2. CASE Op(s) # "delete"
      <4>1. After(Op(s)) = "lifecycle-complete"
        BY <2>1, <3>2 DEF After
      <4> QED BY <1>1, <3>2, <4>1 DEF LifecycleReceipt
    <3> QED BY <3>1, <3>2
  <2> QED BY <2>1, <2>3, <2>4, OperationBacked DEF Repository!Op
<1>2. CASE CommitDelete(s)
  <2>1. /\ "R_prep" \in holds[s] /\ status[s] \in {"pending-delete", "tombstone"}
        /\ Takes(s, "commit-delete")
        /\ Handle(s, RepositoryWrites(s, "commit-delete") \o <<SessionWrite("tombstone")>>, {})
    BY <1>2 DEF CommitDelete, CommitTaken, MayCommit, CommitDeleteWrites
  <2>2. Opened(s) /\ Earned(s, status[s])
    BY <2>1, OpenedByStatus
  <2>3. Op(s) = "delete" /\ (InHistory(s, "delete") \/ InHistory(s, "commit-delete"))
    BY <2>1, <2>2 DEF Earned
  <2>4. receipt[s] # NoReceipt
    BY <2>2, <2>3, InHistoryBacked DEF Acts
  <2>5. Acts(s, "commit-delete")
    BY <2>1, <2>2, <2>3, <2>4 DEF Acts, PaidBy
  <2>6. /\ After("commit-delete") = "tombstone" /\ Before("commit-delete") = "pending-delete"
        /\ "commit-delete" \in Repository!Op
    BY DEF After, Before, Repository!Op
  <2> QED BY <2>1, <2>5, <2>6, OperationBacked
<1>3. CASE ReinstallReceipt(s)
  <2>1. /\ Op(s) = "reinstall" /\ receipt[s] # NoReceipt
        /\ status[s] \in {"reinstall-downloaded", "installed"}
        /\ Takes(s, "reinstall")
        /\ Handle(s, RepositoryWrites(s, "reinstall") \o <<SessionWrite("installed")>>, {})
    BY <1>3 DEF ReinstallReceipt, ReinstallTaken, MayReinstall
  <2>2. Acts(s, "reinstall")
    BY <2>1, OpenedByStatus DEF Acts, PaidBy
  <2>3. /\ After("reinstall") = "installed" /\ Before("reinstall") = "reinstall-downloaded"
        /\ "reinstall" \in Repository!Op
    BY DEF After, Before, Repository!Op
  <2> QED BY <2>1, <2>2, <2>3, OperationBacked
<1> QED BY <1>1, <1>2, <1>3

-----------------------------------------------------------------------------
(* Every write leaves the rest of a plan.                                  *)

LEMMA RunningPlan ==
    ASSUME RetryInv, handling # Idle
    PROVE  /\ handling \in Handling
           /\ handling.session \in Session
           /\ Opened(handling.session)
           /\ LphOf(handling.session) \in Lph
           /\ Chain(handling.session) \in Seq(Repository!Entry)
           /\ Plan(handling.session, handling.writes, handling.response)
BY FirstWrite, OpenedOrder DEF RetryInv, IInv, TypeOK, Backed, HandlerBacked

\* Which plans begin with a write to which store.
LEMMA PlanHead ==
    ASSUME NEW s, NEW w, NEW r, Plan(s, w, r)
    PROVE  /\ Head(w).store = "nullifier" => AuthenticatePlan(s, w, r)
           /\ Head(w).store = "session" => SessionPlan(s, w, r)
           /\ Head(w).store = "lifecycle" => OperationPlan(s, w, r) \/ InstallPlan(s, w, r)
           /\ Head(w).store = "profile-state" => CopyPlan(s, w, r)
<1>1. AuthenticatePlan(s, w, r) => Head(w).store = "nullifier"
  BY DEF AuthenticatePlan, AuthenticateWrites, NullifierWrite
<1>2. SessionPlan(s, w, r) => Head(w).store = "session"
  BY DEF SessionPlan, SessionWrite
<1>3. OperationPlan(s, w, r) => Head(w).store = "lifecycle"
  BY DEF OperationPlan, LifecycleWrite
<1>4. InstallPlan(s, w, r) => Head(w).store = "lifecycle"
  BY DEF InstallPlan, LifecycleWrite
<1>5. CopyPlan(s, w, r) => Head(w).store = "profile-state"
  BY DEF CopyPlan, ProfileStateWrite
<1> QED BY <1>1, <1>2, <1>3, <1>4, <1>5 DEF Plan

LEMMA MoreToWrite ==
    ASSUME RetryInv, handling # Idle, Advance, Len(handling.writes) > 1
    PROVE  /\ handling'.session = handling.session
           /\ handling'.writes = Tail(handling.writes)
           /\ handling'.response = handling.response
           /\ holds' = holds
BY RunningPlan DEF Advance, Handling

LEMMA PutNullifierBacked ==
    ASSUME RetryInv, PutNullifier
    PROVE  Backed'
<1> DEFINE s == handling.session
<1>1. handling # Idle /\ AuthenticatePlan(s, handling.writes, handling.response) /\ Advance
  BY RunningPlan, PlanHead DEF PutNullifier, Writing
<1>2. handling.writes = <<NullifierWrite, SessionWrite("authenticated")>>
  BY <1>1 DEF AuthenticatePlan, AuthenticateWrites
<1>3. /\ handling'.session = s /\ handling'.response = handling.response
      /\ handling'.writes = <<SessionWrite("authenticated")>> /\ holds' = holds
  BY <1>1, <1>2, MoreToWrite
<1>4. UNCHANGED <<orderOf, ticketOf, status, profileState, history, receipt>>
  BY DEF PutNullifier, tickets
<1>5. Stored'
  BY <1>3, <1>4, StoredKept DEF Settled
<1>6. Plan(s, <<SessionWrite("authenticated")>>, handling.response)'
  <2>1. "authenticated" \in Status /\ Rank("authenticated") >= Rank(status'[s])
    BY <1>1, <1>4 DEF AuthenticatePlan, Status, Rank
  <2>2. Earned(s, "authenticated")'
    BY DEF Earned
  <2>3. "R_prep" \notin handling'.response
    BY <1>1, <1>3 DEF AuthenticatePlan
  <2>4. SessionPlan(s, <<SessionWrite("authenticated")>>, handling.response)'
    BY <1>3, <2>1, <2>2, <2>3 DEF SessionPlan
  <2> QED BY <2>4 DEF Plan
<1>7. HandlerBacked'
  BY <1>3, <1>6 DEF HandlerBacked
<1> QED BY <1>5, <1>7 DEF Backed, Stored

\* The status written is never behind the one before it, and is backed.
LEMMA PutSessionEffect ==
    ASSUME RetryInv, PutSession
    PROVE  \E st \in Status :
             /\ status' = [status EXCEPT ![handling.session] = st]
             /\ Rank(st) >= Rank(status[handling.session])
             /\ Earned(handling.session, st)
             /\ "R_prep" \in handling.response => st = "pending-delete"
             /\ handling' = Idle
             /\ \/ holds' = holds
                \/ holds' = [holds EXCEPT ![handling.session] = @ \cup handling.response]
<1> DEFINE s == handling.session
<1>1. handling # Idle /\ SessionPlan(s, handling.writes, handling.response) /\ Advance
  BY RunningPlan, PlanHead DEF PutSession, Writing
<1>2. PICK st \in Status :
        /\ handling.writes = <<SessionWrite(st)>>
        /\ Rank(st) >= Rank(status[s])
        /\ Earned(s, st)
        /\ "R_prep" \in handling.response => st = "pending-delete"
  BY <1>1 DEF SessionPlan
<1>3. Len(handling.writes) = 1 /\ Head(handling.writes) = SessionWrite(st)
  BY <1>2
<1>4. status' = [status EXCEPT ![s] = st]
  <2>1. Head(handling.writes).status = st
    BY <1>3 DEF SessionWrite
  <2> QED BY <2>1 DEF PutSession
<1>5. /\ handling' = Idle
      /\ holds' = holds \/ holds' = [holds EXCEPT ![s] = @ \cup handling.response]
  BY <1>1, <1>3 DEF Advance
<1> QED BY <1>2, <1>4, <1>5

LEMMA LateStatus ==
    ASSUME NEW st \in Status, NEW n \in {4, 5}, Rank(st) >= n
    PROVE  st \in {"installed", "lifecycle-complete", "pending-delete", "tombstone"}
BY DEF Rank, Status

\* A session that has acted keeps to a status that its act allows.
LEMMA StatusFollowsActs ==
    ASSUME NEW s, NEW old \in Status, NEW st \in Status, NEW op \in Repository!Op,
           Rank(st) >= Rank(old), Earned(s, st), Acts(s, op),
           old \in {Before(op), After(op)} \/ (old = "tombstone" /\ op = "delete")
    PROVE  st \in {Before(op), After(op)} \/ (st = "tombstone" /\ op = "delete")
<1>1. Op(s) = PaidBy(op)
  BY DEF Acts
<1>2. Rank(old) \in {3, 4, 5} /\ (op = "commit-delete" => Rank(old) \in {4, 5})
  BY DEF Before, After, Rank, Repository!Op
<1>3. st \in {"downloaded", "reinstall-downloaded", "lifecycle-prepared", "installed",
              "lifecycle-complete", "pending-delete", "tombstone"}
  BY <1>2 DEF Rank, Status
<1>4. op = "commit-delete" =>
        st \in {"installed", "lifecycle-complete", "pending-delete", "tombstone"}
  BY <1>2, LateStatus
<1>5. CASE op = "install"
  <2>1. Op(s) = "download"
    BY <1>1, <1>5 DEF PaidBy
  <2>2. st \in {"downloaded", "installed"}
    BY <1>3, <2>1 DEF Earned
  <2>3. Before(op) = "downloaded" /\ After(op) = "installed"
    BY <1>5 DEF Before, After
  <2> QED BY <2>2, <2>3
<1>6. CASE op \in {"enable", "disable"}
  BY <1>1, <1>3, <1>6 DEF Earned, PaidBy, Before, After
<1>7. CASE op = "delete"
  BY <1>1, <1>3, <1>7 DEF Earned, PaidBy, Before, After
<1>8. CASE op = "commit-delete"
  BY <1>1, <1>3, <1>4, <1>8 DEF Earned, PaidBy, Before, After
<1>9. CASE op = "reinstall"
  BY <1>1, <1>3, <1>9 DEF Earned, PaidBy, Before, After
<1> QED BY <1>5, <1>6, <1>7, <1>8, <1>9 DEF Repository!Op

LEMMA PutSessionBacked ==
    ASSUME RetryInv, PutSession
    PROVE  Backed'
<1> DEFINE s == handling.session
<1>1. PICK st \in Status :
        /\ status' = [status EXCEPT ![s] = st]
        /\ Rank(st) >= Rank(status[s])
        /\ Earned(s, st)
        /\ "R_prep" \in handling.response => st = "pending-delete"
        /\ handling' = Idle
        /\ holds' = holds \/ holds' = [holds EXCEPT ![s] = @ \cup handling.response]
  BY PutSessionEffect
<1>2. s \in Session /\ Opened(s) /\ TypeOK
  BY RunningPlan DEF PutSession, Writing, RetryInv, IInv
<1>3. UNCHANGED <<orderOf, ticketOf, profileState, history, receipt>>
  BY DEF PutSession, tickets
<1>4. \A s2 \in Session : Settled(s2)
  BY <1>1, <1>2, <1>3 DEF Settled, TypeOK
<1>5. /\ status'[s] = st
      /\ \A s2 \in Session \ {s} : status'[s2] = status[s2]
  BY <1>1, <1>2 DEF TypeOK
<1>6. HistoryBacked'
  <2>1. ASSUME NEW l \in Lph, NEW i \in 1..Len(history[l])
        PROVE  LET e == history[l][i]
               IN  /\ Acts(e.tx, e.op)'
                   /\ LphOf(e.tx)' = l
                   /\ \/ status'[e.tx] \in {Before(e.op), After(e.op)}
                      \/ status'[e.tx] = "tombstone" /\ e.op = "delete"
    <3> DEFINE e == history[l][i]
    <3>1. e.tx \in Session /\ e.op \in Repository!Op
      BY <1>2, HistoryEntry
    <3>2. /\ Acts(e.tx, e.op) /\ LphOf(e.tx) = l
          /\ \/ status[e.tx] \in {Before(e.op), After(e.op)}
             \/ status[e.tx] = "tombstone" /\ e.op = "delete"
      BY DEF RetryInv, Backed, HistoryBacked
    <3>3. Acts(e.tx, e.op)' /\ LphOf(e.tx)' = l
      BY <1>3, <1>4, <3>1, <3>2, SettledKeeps DEF Acts
    <3>4. CASE e.tx = s
      <4>1. status[s] \in Status
        BY <1>2 DEF TypeOK
      <4>2. st \in {Before(e.op), After(e.op)} \/ (st = "tombstone" /\ e.op = "delete")
        BY <1>1, <3>1, <3>2, <3>4, <4>1, StatusFollowsActs
      <4> QED BY <1>5, <3>3, <3>4, <4>2
    <3>5. CASE e.tx # s
      BY <1>5, <3>1, <3>2, <3>3, <3>5
    <3> QED BY <3>4, <3>5
  <2> QED BY <1>3, <2>1 DEF HistoryBacked
<1>7. ChainShape'
  BY <1>3 DEF RetryInv, Backed, ChainShape
<1>8. StatusBacked'
  <2> SUFFICES ASSUME NEW s2 \in Session, Opened(s2)
               PROVE  Earned(s2, status[s2])'
    BY <1>3 DEF StatusBacked, Opened
  <2>1. PICK st2 : st2 = status'[s2]
    OBVIOUS
  <2>2. Earned(s2, st2)
    BY <1>1, <1>5, <2>1 DEF RetryInv, Backed, StatusBacked
  <2>3. Earned(s2, st2)'
    BY <1>3, <1>4, <2>2, EarnedKept
  <2> QED BY <2>1, <2>3 DEF Earned
<1>9. HoldsBacked'
  <2> SUFFICES ASSUME NEW s2 \in Session, "R_prep" \in holds'[s2]
               PROVE  status'[s2] \in {"pending-delete", "tombstone"}
    BY DEF HoldsBacked
  <2>1. CASE "R_prep" \in holds[s2] /\ s2 # s
    BY <1>5, <2>1 DEF RetryInv, Backed, HoldsBacked
  <2>2. CASE "R_prep" \in holds[s2] /\ s2 = s
    <3>1. status[s] \in {"pending-delete", "tombstone"}
      BY <2>2 DEF RetryInv, Backed, HoldsBacked
    <3>2. Op(s) = "delete"
      BY <1>2, <3>1 DEF RetryInv, Backed, StatusBacked, Earned
    <3>3. Rank(status[s]) \in {4, 5}
      BY <3>1 DEF Rank
    <3>4. st \in {"installed", "lifecycle-complete", "pending-delete", "tombstone"}
      BY <1>1, <3>3, LateStatus
    <3> QED BY <1>1, <1>5, <2>2, <3>2, <3>4 DEF Earned
  <2>3. CASE "R_prep" \notin holds[s2]
    <3>1. s2 = s /\ "R_prep" \in handling.response
      BY <1>1, <1>2, <2>3 DEF TypeOK
    <3> QED BY <1>1, <1>5, <3>1
  <2> QED BY <2>1, <2>2, <2>3
<1>10. HandlerBacked'
  BY <1>1 DEF HandlerBacked
<1> QED BY <1>6, <1>7, <1>8, <1>9, <1>10 DEF Backed

LEMMA PutProfileStateBacked ==
    ASSUME RetryInv, PutProfileState
    PROVE  Backed'
<1> DEFINE s == handling.session
           l == LphOf(s)
<1>1. /\ handling # Idle /\ Advance
      /\ CopyPlan(s, handling.writes, handling.response)
  BY RunningPlan, PlanHead DEF PutProfileState, Writing
<1>2. /\ handling.writes = <<ProfileStateWrite, SessionWrite("installed")>>
      /\ Op(s) = "download" /\ InHistory(s, "install") /\ status[s] = "downloaded"
      /\ "R_prep" \notin handling.response
  BY <1>1 DEF CopyPlan
<1>3. /\ handling'.session = s /\ handling'.response = handling.response
      /\ handling'.writes = <<SessionWrite("installed")>> /\ holds' = holds
  BY <1>1, <1>2, MoreToWrite
<1>4. /\ s \in Session /\ l \in Lph /\ Opened(s) /\ TypeOK
  BY <1>1, RunningPlan DEF RetryInv, IInv
<1>5. /\ UNCHANGED <<orderOf, ticketOf, status, history, receipt>>
      /\ profileState' = [profileState EXCEPT ![l] = s]
  BY DEF PutProfileState, tickets
<1>6. \A s2 \in Session : Settled(s2)
  BY <1>3, <1>5 DEF Settled
<1>7. HistoryBacked' /\ ChainShape'
  BY <1>5, <1>6, HistoryKept
<1>8. ASSUME NEW s2 \in Session, NEW st, Opened(s2), Earned(s2, st)
      PROVE  Earned(s2, st)'
  <2>1. /\ Op(s2)' = Op(s2) /\ LphOf(s2)' = LphOf(s2) /\ Chain(s2)' = Chain(s2)
    BY <1>5, <1>6, <1>8, SettledKeeps DEF Chain
  <2>2. \A op : InHistory(s2, op)' <=> InHistory(s2, op)
    BY <2>1 DEF InHistory
  <2>3. ASSUME InHistory(s2, "install"), profileState[LphOf(s2)] = s2
        PROVE  profileState'[LphOf(s2)] = s2
    <3>1. CASE LphOf(s2) = l
      <4>1. /\ Chain(s)[1] = [op |-> "install", tx |-> s]
            /\ Chain(s2)[1] = [op |-> "install", tx |-> s2]
        BY <1>2, <1>4, <1>8, <2>3, InstallIsFirst
      <4>2. Chain(s) = Chain(s2)
        BY <3>1 DEF Chain
      <4>3. s = s2
        BY <4>1, <4>2
      <4> QED BY <1>4, <1>5, <4>3 DEF TypeOK
    <3>2. CASE LphOf(s2) # l
      BY <1>4, <1>5, <2>3, <3>2 DEF TypeOK
    <3> QED BY <3>1, <3>2
  <2> QED BY <1>8, <2>1, <2>2, <2>3 DEF Earned
<1>9. StatusBacked'
  <2> SUFFICES ASSUME NEW s2 \in Session, Opened(s2)
               PROVE  Earned(s2, status[s2])'
    BY <1>5 DEF StatusBacked, Opened
  <2>1. PICK st : st = status[s2]
    OBVIOUS
  <2>2. Earned(s2, st)'
    BY <1>8, <2>1 DEF RetryInv, Backed, StatusBacked
  <2> QED BY <1>5, <2>1, <2>2 DEF Earned
<1>10. HoldsBacked'
  BY <1>3, <1>5 DEF RetryInv, Backed, HoldsBacked
<1>11. HandlerBacked'
  <2>1. PICK s2 \in Session : s2 = s
    BY <1>4
  <2>2. Earned(s2, "installed")'
    <3>1. /\ Op(s2)' = "download" /\ LphOf(s2)' = l /\ Chain(s2)' = Chain(s2)
      BY <1>2, <1>4, <1>5, <1>6, <2>1, SettledKeeps DEF Chain
    <3>2. InHistory(s2, "install")'
      BY <1>2, <2>1, <3>1 DEF InHistory
    <3>3. profileState'[l] = s2
      BY <1>4, <1>5, <2>1 DEF TypeOK
    <3> QED BY <3>1, <3>2, <3>3 DEF Earned
  <2>3. "installed" \in Status /\ Rank("installed") >= Rank(status'[s2])
    BY <1>2, <1>5, <2>1 DEF Status, Rank
  <2>4. SessionPlan(s2, <<SessionWrite("installed")>>, handling.response)'
    BY <1>2, <1>3, <2>2, <2>3 DEF SessionPlan
  <2> QED BY <1>3, <2>1, <2>4 DEF HandlerBacked, Plan
<1> QED BY <1>7, <1>9, <1>10, <1>11 DEF Backed

\* An operation is an installation when its chain is empty, and a commit never is the first.
LEMMA LegalStart ==
    ASSUME TypeOK, NEW s \in Session, Chain(s) \in Seq(Repository!Entry), NEW op \in Repository!Op,
           <<StateOf(s), Repository!Target[op]>> \in Repository!LegalTransitions[op]
    PROVE  op = "install" <=> Chain(s) = <<>>
<1> USE DEF Repository!NotInstalled, Repository!Installed, Repository!Enabled,
        Repository!Disabled, Repository!PendingDelete, Repository!Tombstone
<1>1. CASE Chain(s) = <<>>
  <2>1. StateOf(s) = 0
    BY <1>1 DEF StateOf, Repository!StateAfter
  <2> QED BY <1>1, <2>1 DEF Repository!LegalTransitions, Repository!Op
<1>2. CASE Chain(s) # <<>>
  <2> DEFINE last == Chain(s)[Len(Chain(s))].op
  <2>1. Len(Chain(s)) \in 1..Len(Chain(s))
    BY <1>2, EmptySeq, LenProperties
  <2>2. last \in Repository!Op
    <3>1. Chain(s)[Len(Chain(s))] \in Repository!Entry
      BY <2>1
    <3> QED BY <3>1 DEF Repository!Entry
  <2>3. Repository!Target[last] # 0
    BY <2>2 DEF Repository!Target, Repository!Op
  <2>4. StateOf(s) # 0
    BY <1>2, <2>3 DEF StateOf, Repository!StateAfter
  <2> QED BY <1>2, <2>4 DEF Repository!LegalTransitions, Repository!Op
<1> QED BY <1>1, <1>2

\* What a commit of the repository appends to the history of the handler's Profile.
Committed(s, l, op) ==
    /\ history' = [history EXCEPT ![l] = Append(@, [op |-> op, tx |-> s])]
    /\ <<StateOf(s), Repository!Target[op]>> \in Repository!LegalTransitions[op]
    /\ op = "commit-delete" => Chain(s)[Len(Chain(s))] = [op |-> "delete", tx |-> s]
    /\ op = "delete" => NeverDeleted(s)
    /\ op \notin {"install", "commit-delete"} => receipt[s] = Chain(s)
    /\ Acts(s, op)
    /\ status[s] \in {Before(op), After(op)}

LEMMA CommitEffect ==
    ASSUME RetryInv, CommitLifecycle
    PROVE  LET s == handling.session
           IN  \E op \in Repository!Op :
                 /\ Committed(s, LphOf(s), op)
                 /\ holds' = holds
                 /\ handling'.session = s
                 /\ handling'.response = handling.response
                 /\ \/ /\ op = "install"
                       /\ handling'.writes = <<ProfileStateWrite, SessionWrite("installed")>>
                       /\ status[s] = "downloaded"
                       /\ "R_prep" \notin handling.response
                    \/ /\ op # "install"
                       /\ handling'.writes = <<SessionWrite(After(op))>>
                       /\ "R_prep" \in handling.response => op = "delete"
<1> DEFINE s == handling.session
           w == handling.writes
           r == handling.response
<1>1. /\ handling # Idle /\ Advance
      /\ OperationPlan(s, w, r) \/ InstallPlan(s, w, r)
  BY RunningPlan, PlanHead DEF CommitLifecycle, Writing
<1>2. ASSUME NEW op, Head(w).op = op
      PROVE  /\ history' = [history EXCEPT ![LphOf(s)] = Append(@, [op |-> op, tx |-> s])]
             /\ <<StateOf(s), Repository!Target[op]>> \in Repository!LegalTransitions[op]
             /\ op = "commit-delete" => Chain(s)[Len(Chain(s))] = [op |-> "delete", tx |-> s]
  BY <1>2 DEF CommitLifecycle, Repository!Accept, StateOf, Chain
<1>3. CASE InstallPlan(s, w, r)
  <2>1. /\ w = <<LifecycleWrite("install"), ProfileStateWrite, SessionWrite("installed")>>
        /\ Acts(s, "install") /\ status[s] = "downloaded" /\ "R_prep" \notin r
    BY <1>3 DEF InstallPlan
  <2>2. Head(w).op = "install" /\ Len(w) > 1
    BY <2>1 DEF LifecycleWrite
  <2>3. Committed(s, LphOf(s), "install")
    BY <1>2, <2>1, <2>2 DEF Committed, Before
  <2>4. /\ handling'.session = s /\ handling'.response = r /\ holds' = holds
        /\ handling'.writes = <<ProfileStateWrite, SessionWrite("installed")>>
    BY <1>1, <2>1, <2>2, MoreToWrite
  <2> QED BY <2>1, <2>3, <2>4 DEF Repository!Op
<1>4. CASE OperationPlan(s, w, r)
  <2>1. PICK op \in Repository!Op \ {"install"} :
          /\ w = <<LifecycleWrite(op), SessionWrite(After(op))>>
          /\ Acts(s, op) /\ Applies(s, op) /\ status[s] \in {Before(op), After(op)}
          /\ "R_prep" \in r => op = "delete"
    BY <1>4 DEF OperationPlan
  <2>2. Head(w).op = op /\ Len(w) > 1
    BY <2>1 DEF LifecycleWrite
  <2>3. Committed(s, LphOf(s), op)
    BY <1>2, <2>1, <2>2 DEF Committed, Applies
  <2>4. /\ handling'.session = s /\ handling'.response = r /\ holds' = holds
        /\ handling'.writes = <<SessionWrite(After(op))>>
    BY <1>1, <2>1, <2>2, MoreToWrite
  <2> QED BY <2>1, <2>3, <2>4
<1> QED BY <1>1, <1>3, <1>4

LEMMA CommittedHistory ==
    ASSUME RetryInv, NEW s \in Session, NEW l \in Lph, NEW op \in Repository!Op,
           Committed(s, l, op)
    PROVE  /\ Len(history[l]) \in Nat
           /\ Len(history'[l]) = Len(history[l]) + 1
           /\ \A i \in 1..Len(history[l]) : history'[l][i] = history[l][i]
           /\ history'[l][Len(history[l]) + 1] = [op |-> op, tx |-> s]
           /\ \A l2 \in Lph \ {l} : history'[l2] = history[l2]
<1>1. history \in [Lph -> Seq(Repository!Entry)]
  BY DEF RetryInv, IInv, TypeOK
<1>2. [op |-> op, tx |-> s] \in Repository!Entry
  BY DEF Repository!Entry
<1>3. history' = [history EXCEPT ![l] = Append(history[l], [op |-> op, tx |-> s])]
  BY DEF Committed
<1>4. history'[l] = Append(history[l], [op |-> op, tx |-> s])
  BY <1>1, <1>3
<1>5. \A l2 \in Lph \ {l} : history'[l2] = history[l2]
  BY <1>1, <1>3
<1>6. history[l] \in Seq(Repository!Entry)
  BY <1>1
<1> QED BY <1>2, <1>4, <1>5, <1>6, AppendProperties, LenProperties

LEMMA CommitShape ==
    ASSUME RetryInv, NEW s \in Session, Opened(s), NEW op \in Repository!Op,
           Committed(s, LphOf(s), op)
    PROVE  ChainShape'
<1> DEFINE l == LphOf(s)
           n == Len(history[l])
<1>1. TypeOK /\ l \in Lph /\ Chain(s) = history[l] /\ Chain(s) \in Seq(Repository!Entry)
  BY OpenedOrder DEF RetryInv, IInv, Chain
<1>2. /\ n \in Nat /\ Len(history'[l]) = n + 1
      /\ \A i \in 1..n : history'[l][i] = history[l][i]
      /\ history'[l][n + 1] = [op |-> op, tx |-> s]
      /\ \A l2 \in Lph \ {l} : history'[l2] = history[l2]
  BY <1>1, CommittedHistory
<1>3. op = "install" <=> n = 0
  BY <1>1, LegalStart, EmptySeq, LenProperties DEF Committed
<1> SUFFICES ASSUME NEW l2 \in Lph, NEW i \in 1..Len(history'[l2])
             PROVE  /\ history'[l2][i].op = "install" <=> i = 1
                    /\ history'[l2][i].op = "commit-delete" =>
                         /\ i - 1 \in 1..Len(history'[l2])
                         /\ history'[l2][i - 1] = [op |-> "delete", tx |-> history'[l2][i].tx]
                    /\ \A j \in 1..Len(history'[l2]) :
                         history'[l2][i].op = "delete" /\ history'[l2][j].op = "delete" => i = j
  BY DEF ChainShape
<1>4. CASE l2 # l
  <2>1. history'[l2] = history[l2] /\ i \in 1..Len(history[l2])
    BY <1>2, <1>4
  <2>2. ChainShape
    BY DEF RetryInv, Backed
  <2> QED BY <2>1, <2>2 DEF ChainShape
<1>5. CASE l2 = l
  <2>1. \A k \in 1..n :
          /\ history[l][k].op = "install" <=> k = 1
          /\ history[l][k].op = "commit-delete" =>
               /\ k - 1 \in 1..n
               /\ history[l][k - 1] = [op |-> "delete", tx |-> history[l][k].tx]
          /\ \A j \in 1..n : history[l][k].op = "delete" /\ history[l][j].op = "delete" => k = j
    BY <1>1 DEF RetryInv, Backed, ChainShape
  <2>2. op = "delete" => \A k \in 1..n : history[l][k].op # "delete"
    BY <1>1 DEF Committed, NeverDeleted
  <2>3. op = "commit-delete" => history[l][n] = [op |-> "delete", tx |-> s]
    BY <1>1 DEF Committed
  <2>4. \A k \in 1..n + 1 : k \in 1..n \/ k = n + 1
    BY <1>2
  <2>5. history'[l][n + 1].op = op /\ history'[l][n + 1].tx = s
    BY <1>2
  <2>6. history'[l][i].op = "install" <=> i = 1
    <3>1. CASE i \in 1..n
      <4>1. history'[l][i] = history[l][i]
        BY <1>2, <3>1
      <4> QED BY <2>1, <3>1, <4>1
    <3>2. CASE i = n + 1
      BY <1>2, <1>3, <2>5, <3>2
    <3> QED BY <1>2, <1>5, <2>4, <3>1, <3>2
  <2>7. ASSUME history'[l][i].op = "commit-delete"
        PROVE  /\ i - 1 \in 1..n + 1
               /\ history'[l][i - 1] = [op |-> "delete", tx |-> history'[l][i].tx]
    <3>1. CASE i \in 1..n
      <4>1. history'[l][i] = history[l][i]
        BY <1>2, <3>1
      <4>2. i - 1 \in 1..n /\ history[l][i - 1] = [op |-> "delete", tx |-> history[l][i].tx]
        BY <2>1, <2>7, <3>1, <4>1
      <4> QED BY <1>2, <4>1, <4>2
    <3>2. CASE i = n + 1
      <4>1. op = "commit-delete" /\ n \in 1..n
        BY <1>2, <1>3, <2>5, <2>7, <3>2
      <4> QED BY <1>2, <2>3, <2>5, <3>2, <4>1
    <3> QED BY <1>2, <1>5, <2>4, <3>1, <3>2
  <2>8. ASSUME NEW j \in 1..n + 1, history'[l][i].op = "delete", history'[l][j].op = "delete"
        PROVE  i = j
    <3>1. i \in 1..n + 1
      BY <1>2, <1>5
    <3>2. \A k \in 1..n : history'[l][k].op = history[l][k].op
      BY <1>2
    <3>3. CASE op = "delete"
      <4>1. i = n + 1 /\ j = n + 1
        BY <2>2, <2>4, <2>8, <3>1, <3>2, <3>3
      <4> QED BY <4>1
    <3>4. CASE op # "delete"
      <4>1. i \in 1..n /\ j \in 1..n
        BY <2>4, <2>5, <2>8, <3>1, <3>4
      <4> QED BY <2>1, <2>8, <3>2, <4>1
    <3> QED BY <3>3, <3>4
  <2> QED BY <1>2, <1>5, <2>6, <2>7, <2>8
<1> QED BY <1>4, <1>5

LEMMA CommitHistoryBacked ==
    ASSUME RetryInv, CommitLifecycle, NEW s \in Session, Opened(s), NEW op \in Repository!Op,
           Committed(s, LphOf(s), op), \A s2 \in Session : Settled(s2)
    PROVE  HistoryBacked'
<1> DEFINE l == LphOf(s)
           n == Len(history[l])
           Fine(s2, op2, l2) ==
             /\ Acts(s2, op2)'
             /\ LphOf(s2)' = l2
             /\ \/ status'[s2] \in {Before(op2), After(op2)}
                \/ status'[s2] = "tombstone" /\ op2 = "delete"
<1>1. TypeOK /\ l \in Lph
  BY OpenedOrder DEF RetryInv, IInv
<1>2. /\ n \in Nat /\ Len(history'[l]) = n + 1
      /\ \A i \in 1..n : history'[l][i] = history[l][i]
      /\ history'[l][n + 1] = [op |-> op, tx |-> s]
      /\ \A l2 \in Lph \ {l} : history'[l2] = history[l2]
  BY <1>1, CommittedHistory
<1>3. status' = status
  BY DEF CommitLifecycle, store
<1>4. ASSUME NEW l2 \in Lph, NEW i \in 1..Len(history[l2]), NEW e, e = history[l2][i]
      PROVE  Fine(e.tx, e.op, l2)
  <2>1. e = history[l2][i]
    BY <1>4
  <2>2. e.tx \in Session
    BY <1>1, <2>1, HistoryEntry
  <2>3. /\ Acts(e.tx, e.op) /\ LphOf(e.tx) = l2
        /\ \/ status[e.tx] \in {Before(e.op), After(e.op)}
           \/ status[e.tx] = "tombstone" /\ e.op = "delete"
    BY <2>1 DEF RetryInv, Backed, HistoryBacked
  <2>4. Opened(e.tx)
    BY <2>3 DEF Acts
  <2> QED BY <1>3, <2>1, <2>2, <2>3, <2>4, SettledKeeps
<1>5. Fine(s, op, l)
  BY <1>3, SettledKeeps DEF Committed
<1>6. ASSUME NEW l2 \in Lph, NEW i \in 1..Len(history'[l2]), NEW e, e = history'[l2][i]
      PROVE  Fine(e.tx, e.op, l2)
  <2>1. CASE l2 = l /\ i = n + 1
    <3>1. e.tx = s /\ e.op = op
      BY <1>2, <1>6, <2>1
    <3> QED BY <1>5, <2>1, <3>1
  <2>2. CASE ~(l2 = l /\ i = n + 1)
    <3>1. i \in 1..Len(history[l2]) /\ e = history[l2][i]
      BY <1>2, <1>6, <2>2
    <3> QED BY <1>4, <3>1
  <2> QED BY <2>1, <2>2
<1> QED BY <1>6 DEF HistoryBacked

LEMMA CommitLifecycleBacked ==
    ASSUME RetryInv, CommitLifecycle
    PROVE  Backed'
<1>1. PICK s \in Session : s = handling.session /\ Opened(s) /\ LphOf(s) \in Lph
  BY RunningPlan DEF CommitLifecycle, Writing
<1>2. PICK op \in Repository!Op :
        /\ Committed(s, LphOf(s), op)
        /\ holds' = holds
        /\ handling'.session = s
        /\ handling'.response = handling.response
        /\ \/ /\ op = "install"
              /\ handling'.writes = <<ProfileStateWrite, SessionWrite("installed")>>
              /\ status[s] = "downloaded"
              /\ "R_prep" \notin handling.response
           \/ /\ op # "install"
              /\ handling'.writes = <<SessionWrite(After(op))>>
              /\ "R_prep" \in handling.response => op = "delete"
  BY <1>1, CommitEffect
<1> DEFINE l == LphOf(s)
           n == Len(history[l])
<1>3. UNCHANGED <<orderOf, ticketOf, status, profileState, receipt>>
  BY DEF CommitLifecycle, tickets, store
<1>4. \A s2 \in Session : Settled(s2)
  BY <1>2, <1>3 DEF Settled
<1>5. /\ n \in Nat /\ Len(history'[l]) = n + 1
      /\ \A i \in 1..n : history'[l][i] = history[l][i]
      /\ history'[l][n + 1] = [op |-> op, tx |-> s]
      /\ \A l2 \in Lph \ {l} : history'[l2] = history[l2]
  BY <1>1, <1>2, CommittedHistory
<1>6. HistoryBacked' /\ ChainShape'
  BY <1>1, <1>2, <1>4, CommitShape, CommitHistoryBacked
<1>7. ASSUME NEW s2 \in Session, Opened(s2), NEW op2, InHistory(s2, op2)
      PROVE  InHistory(s2, op2)'
  <2>1. LphOf(s2) \in Lph /\ LphOf(s2)' = LphOf(s2)
    BY <1>4, <1>7, SettledKeeps, OpenedOrder DEF RetryInv, IInv
  <2>2. PICK i \in 1..Len(history[LphOf(s2)]) :
          history[LphOf(s2)][i] = [op |-> op2, tx |-> s2]
    BY <1>7 DEF InHistory, Chain
  <2>3. i \in 1..Len(history'[LphOf(s2)]) /\ history'[LphOf(s2)][i] = [op |-> op2, tx |-> s2]
    BY <1>5, <2>1, <2>2
  <2> QED BY <2>1, <2>3 DEF InHistory, Chain
<1>8. StatusBacked'
  <2> SUFFICES ASSUME NEW s2 \in Session, Opened(s2)
               PROVE  Earned(s2, status[s2])'
    BY <1>3 DEF StatusBacked, Opened
  <2>1. Earned(s2, status[s2])
    BY DEF RetryInv, Backed, StatusBacked
  <2>2. Op(s2)' = Op(s2) /\ LphOf(s2)' = LphOf(s2)
    BY <1>4, SettledKeeps
  <2> QED BY <1>3, <1>7, <2>1, <2>2 DEF Earned
<1>9. HoldsBacked'
  BY <1>2, <1>3 DEF RetryInv, Backed, HoldsBacked
<1>10. InHistory(s, op)' /\ Op(s)' = PaidBy(op)
  <2>1. LphOf(s)' = l /\ Op(s)' = Op(s) /\ Op(s) = PaidBy(op)
    BY <1>1, <1>2, <1>4, SettledKeeps DEF Committed, Acts
  <2>2. n + 1 \in 1..Len(history'[l])
    BY <1>5
  <2> QED BY <1>5, <2>1, <2>2 DEF InHistory, Chain
<1>11. Plan(s, handling.writes, handling.response)'
  <2>1. CASE op = "install"
    <3>1. CopyPlan(s, handling.writes, handling.response)'
      BY <1>2, <1>3, <1>10, <2>1 DEF CopyPlan, PaidBy
    <3> QED BY <3>1 DEF Plan
  <2>2. CASE op # "install"
    <3>1. Earned(s, After(op))'
      BY <1>10, <2>2 DEF Earned, After, PaidBy, Repository!Op
    <3>2. After(op) \in Status /\ Rank(After(op)) >= Rank(status[s])
      BY <1>2, <2>2 DEF Committed, After, Before, Status, Rank, Repository!Op
    <3>3. "R_prep" \in handling'.response => After(op) = "pending-delete"
      BY <1>2, <2>2 DEF After
    <3>4. SessionPlan(s, handling.writes, handling.response)'
      BY <1>2, <1>3, <2>2, <3>1, <3>2, <3>3 DEF SessionPlan
    <3> QED BY <3>4 DEF Plan
  <2> QED BY <2>1, <2>2
<1>12. HandlerBacked'
  BY <1>2, <1>11 DEF HandlerBacked
<1> QED BY <1>6, <1>8, <1>9, <1>12 DEF Backed

-----------------------------------------------------------------------------
LEMMA StepBacked ==
    ASSUME Persistent = TRUE, RetryInv, [Next]_vars
    PROVE  RetryInv'
<1>1. IInv'
  BY StepIInv DEF RetryInv
<1>2. Backed'
  <2>1. CASE ServerStep
    BY <2>1, PutNullifierBacked, PutSessionBacked, PutProfileStateBacked, CommitLifecycleBacked
       DEF ServerStep
  <2>2. CASE \E t \in Ticket :
               \/ \E op \in OrderOp, l \in Lph : Issue(t, op, l)
               \/ Expire(t)
               \/ ImportOrder(t)
               \/ \E s \in Session : Initiate(s, t)
    BY <2>2, TicketsBacked
  <2>3. CASE \E s \in Session : ReplayAuthentication(s) \/ SignsOnKnown(s)
    BY <2>3, ClientBacked
  <2>4. CASE \E s \in Session : Authenticate(s) \/ GetProfile(s) \/ PrepareLifecycle(s)
    BY <2>4, AuthenticateBacked, KeysBacked
  <2>5. CASE \E s \in Session :
               Notification(s) \/ LifecycleReceipt(s) \/ CommitDelete(s) \/ ReinstallReceipt(s)
    BY <2>5, NotificationBacked, ReceiptsBacked
  <2>6. CASE Restart
    BY <2>6, RestartBacked
  <2>7. CASE UNCHANGED vars
    <3>1. /\ \A s \in Session : Settled(s)
          /\ UNCHANGED <<history, profileState, handling, status, holds>>
      BY <2>7 DEF vars, tickets, store, client, Settled
    <3> QED BY <3>1, QuietBacked
  <2> QED BY <2>1, <2>2, <2>3, <2>4, <2>5, <2>6, <2>7 DEF Next, NotificationAgain, Read
<1> QED BY <1>1, <1>2 DEF RetryInv

LEMMA AlwaysBacked ==
    ASSUME Persistent = TRUE
    PROVE  Spec => []RetryInv
<1>1. Init => RetryInv
  BY InitIInv, InitBacked DEF RetryInv
<1> QED BY <1>1, StepBacked, PTL DEF Spec

-----------------------------------------------------------------------------
(* What a client meets.                                                    *)

(* The store and lifecycle.sqlite are two files written one after the other, with
   restarts between any two writes: the status of a session is never ahead of what its
   operation did to the Profile (service.py:601-619, 652-676, 697-707, 738-749). *)
THEOREM StatusAlwaysBacked ==
    ASSUME Persistent = TRUE
    PROVE  Spec => []StatusIsBacked
<1>1. RetryInv => StatusIsBacked
  BY DEF RetryInv, Backed, StatusBacked, StatusIsBacked, Earned
<1> QED BY AlwaysBacked, <1>1, PTL

(* A session that installed its Profile gets its InstallReceipt answered again,
   whichever of the three writes of notification a restart came after
   (service.py:566-619): if the session still is downloaded, the repository replays the
   receipt; if it is installed, the Profile's copy in the store is this session's. *)
THEOREM InstallRetriesAnswered ==
    ASSUME Persistent = TRUE
    PROVE  Spec => []InstallRetryAnswered
<1>1. RetryInv => InstallRetryAnswered
  <2> SUFFICES ASSUME RetryInv, handling = Idle, NEW s \in Session, Opened(s),
                      InHistory(s, "install")
               PROVE  NotificationTaken(s) \/ NotificationKnown(s)
    BY DEF InstallRetryAnswered
  <2>1. Acts(s, "install") /\ status[s] \in {"downloaded", "installed"}
    BY InHistoryBacked DEF Before, After
  <2>2. MayNotify(s)
    BY <2>1 DEF MayNotify, Acts, PaidBy
  <2>3. CASE status[s] = "downloaded"
    <3>1. Replays(s, "install")
      <4>1. Chain(s) # <<>> /\ Chain(s)[1] = [op |-> "install", tx |-> s]
        BY InstallIsFirst
      <4>2. Chain(s)[1].tx = s
        BY <4>1
      <4> QED BY <4>1, <4>2 DEF Replays
    <3> QED BY <2>2, <2>3, <3>1 DEF NotificationTaken, Takes
  <2>4. CASE status[s] = "installed"
    <3>1. Op(s) = "download" /\ Earned(s, "installed")
      BY <2>1, <2>4 DEF RetryInv, Backed, StatusBacked, Acts, PaidBy
    <3> QED BY <2>2, <2>4, <3>1 DEF NotificationKnown, Earned
  <2> QED BY <2>1, <2>3, <2>4
<1> QED BY AlwaysBacked, <1>1, PTL

\* While the deletion of s is the head of its chain, it has not been committed.
LEMMA PreparedIsNotTombstone ==
    ASSUME RetryInv, NEW s \in Session, Opened(s), IsHead(s, "delete")
    PROVE  status[s] # "tombstone"
<1> SUFFICES ASSUME status[s] = "tombstone" PROVE FALSE
  OBVIOUS
<1>1. LphOf(s) \in Lph /\ Chain(s) = history[LphOf(s)]
  BY OpenedOrder DEF RetryInv, IInv, Chain
<1>2. InHistory(s, "commit-delete")
  BY DEF RetryInv, Backed, StatusBacked, Earned
<1>3. PICK j \in 1..Len(Chain(s)) : Chain(s)[j] = [op |-> "commit-delete", tx |-> s]
  BY <1>2 DEF InHistory
<1>4. j - 1 \in 1..Len(Chain(s)) /\ Chain(s)[j - 1].op = "delete"
  <2>1. Chain(s)[j].op = "commit-delete"
    BY <1>3
  <2>2. /\ j - 1 \in 1..Len(Chain(s))
        /\ Chain(s)[j - 1] = [op |-> "delete", tx |-> Chain(s)[j].tx]
    BY <1>1, <2>1 DEF RetryInv, Backed, ChainShape
  <2> QED BY <2>2
<1>5. Len(Chain(s)) \in 1..Len(Chain(s)) /\ Chain(s)[Len(Chain(s))].op = "delete"
  BY HeadInHistory DEF IsHead
<1>6. \A i, k \in 1..Len(Chain(s)) :
        Chain(s)[i].op = "delete" /\ Chain(s)[k].op = "delete" => i = k
  BY <1>1 DEF RetryInv, Backed, ChainShape
<1>7. j - 1 = Len(Chain(s))
  BY <1>4, <1>5, <1>6
<1> QED BY <1>3, <1>5, <1>7

LEMMA HeadRetryAnswered == RetryInv => RetryAnswered
<1> SUFFICES ASSUME RetryInv, handling = Idle, NEW s \in Session, Opened(s)
             PROVE  /\ \A op \in {"enable", "disable", "delete"} :
                         IsHead(s, op) => ReceiptTaken(s)
                    /\ IsHead(s, "reinstall") => ReinstallTaken(s)
                    /\ IsHead(s, "commit-delete") => CommitTaken(s)
  BY DEF RetryAnswered
<1>1. ASSUME NEW op, IsHead(s, op)
      PROVE  /\ Acts(s, op)
             /\ \/ status[s] \in {Before(op), After(op)}
                \/ status[s] = "tombstone" /\ op = "delete"
  BY <1>1, HeadInHistory, InHistoryBacked
<1>2. ASSUME NEW op \in {"enable", "disable", "delete"}, IsHead(s, op)
      PROVE  ReceiptTaken(s)
  <2>1. status[s] \in ReceiptStatus
    BY <1>1, <1>2, PreparedIsNotTombstone DEF Before, After, ReceiptStatus
  <2>2. receipt[s] # NoReceipt /\ Op(s) = op
    BY <1>1, <1>2 DEF Acts, PaidBy
  <2>3. Replays(s, Op(s))
    BY <1>2, <2>2 DEF Replays
  <2> QED BY <2>1, <2>2, <2>3 DEF ReceiptTaken, MayHandReceipt, Takes
<1>3. ASSUME IsHead(s, "reinstall") PROVE ReinstallTaken(s)
  BY <1>1, <1>3 DEF Acts, PaidBy, Before, After, ReinstallTaken, MayReinstall, Takes, Replays
<1>4. ASSUME IsHead(s, "commit-delete") PROVE CommitTaken(s)
  BY <1>1, <1>4 DEF Acts, PaidBy, Before, After, CommitTaken, MayCommit, Takes, Replays
<1> QED BY <1>2, <1>3, <1>4

(* The receipt whose effect is the head of its chain is answered again, in whatever
   status a restart left its session: "lost R_prep", "lost commit acknowledgement"
   (docs/aura_protocol_mapping.md:108-109). *)
THEOREM HeadRetriesAnswered ==
    ASSUME Persistent = TRUE
    PROVE  Spec => []RetryAnswered
BY AlwaysBacked, HeadRetryAnswered, PTL

LEMMA PreparedResumable == RetryInv => DeleteResumable
<1> SUFFICES ASSUME RetryInv, handling = Idle, NEW s \in Session, Opened(s),
                    IsHead(s, "delete"), "R_prep" \in holds[s]
             PROVE  CommitTaken(s)
  BY DEF DeleteResumable
<1>1. status[s] \in {"pending-delete", "tombstone"}
  BY DEF RetryInv, Backed, HoldsBacked
<1>2. Applies(s, "commit-delete")
  BY DEF Applies
<1> QED BY <1>1, <1>2 DEF CommitTaken, MayCommit, Takes

(* A client that holds R_prep can finish its deletion, after any restart and with an
   expired ticket (docs/aura_protocol_mapping.md:111, service.py:692-715). *)
THEOREM DeleteAlwaysResumable ==
    ASSUME Persistent = TRUE
    PROVE  Spec => []DeleteResumable
BY AlwaysBacked, PreparedResumable, PTL

(* No call, retry or restart takes a session of a stored server back to an earlier
   status: what a client signed under its K_mac stays verifiable (service.py:404-411). *)
THEOREM StatusNeverFallsBack ==
    ASSUME Persistent = TRUE
    PROVE  Spec => StatusOnlyAdvances
<1>1. RetryInv /\ [Next]_vars =>
        [\A s \in Session : Rank(status'[s]) >= Rank(status[s])]_status
  <2> SUFFICES ASSUME RetryInv, Next, status' # status, NEW s \in Session
               PROVE  Rank(status'[s]) >= Rank(status[s])
    BY DEF vars, store
  <2>1. TypeOK /\ Known /\ \A st \in Status : Rank(st) \in 0..5
    BY DEF RetryInv, IInv, Rank, Status
  <2>2. PutSession \/ \E s2 \in Session, t \in Ticket : Initiate(s2, t)
    BY DEF Next, ServerStep, PutNullifier, PutProfileState, CommitLifecycle, Issue, Expire,
       ImportOrder, Authenticate, ReplayAuthentication, GetProfile, PrepareLifecycle,
       SignsOnKnown, SignReceipt, Notification, NotificationAgain, LifecycleReceipt,
       CommitDelete, ReinstallReceipt, Handle, Restart, Read, vars, store
  <2>3. CASE PutSession
    <3>1. PICK st \in Status : /\ status' = [status EXCEPT ![handling.session] = st]
                               /\ Rank(st) >= Rank(status[handling.session])
      BY <2>3, PutSessionEffect
    <3>2. status'[s] = status[s] \/ (s = handling.session /\ status'[s] = st)
      BY <2>1, <3>1 DEF TypeOK
    <3>3. Rank(status[s]) \in 0..5
      BY <2>1 DEF TypeOK
    <3>4. CASE status'[s] = status[s]
      BY <3>3, <3>4
    <3>5. CASE s = handling.session /\ status'[s] = st
      BY <3>1, <3>5
    <3> QED BY <3>2, <3>4, <3>5
  <2>4. CASE \E s2 \in Session, t \in Ticket : Initiate(s2, t)
    <3>1. \/ status'[s] = status[s]
          \/ status[s] = "unknown" /\ status'[s] = "initiated"
      BY <2>1, <2>4 DEF Initiate, TypeOK, Known
    <3>2. Rank("initiated") >= Rank("unknown")
      BY DEF Rank
    <3>3. Rank(status[s]) >= Rank(status[s])
      BY <2>1 DEF TypeOK
    <3> QED BY <3>1, <3>2, <3>3
  <2> QED BY <2>2, <2>3, <2>4
<1> QED BY AlwaysBacked, <1>1, PTL DEF Spec, StatusOnlyAdvances

-----------------------------------------------------------------------------
(* What the operations of a Profile were signed on.                        *)

Begins(p, q) == Len(p) <= Len(q) /\ \A i \in 1..Len(p) : p[i] = q[i]

\* A receipt is signed on a beginning of the chain of its Profile that admits it.
ReceiptsKnown ==
    \A s \in Session : receipt[s] # NoReceipt =>
      /\ receipt[s] \in Seq(Repository!Entry)
      /\ Begins(receipt[s], Chain(s))
      /\ AllowedPredecessor(Op(s), Repository!StateAfter(receipt[s]))

\* Only a commit of a deletion is made without a receipt of its own.
HistorySigned ==
    \A l \in Lph : \A i \in 1..Len(history[l]) :
      history[l][i].op # "commit-delete" => Len(receipt[history[l][i].tx]) = i - 1

SignedInv == RetryInv /\ ReceiptsKnown /\ HistorySigned

\* What any step leaves settled, and the only steps that move a history or a receipt.
LEMMA StepSettles ==
    ASSUME RetryInv, [Next]_vars
    PROVE  /\ \A s \in Session : Settled(s)
           /\ UNCHANGED history \/ CommitLifecycle
           /\ UNCHANGED receipt \/ \E s \in Session : SignsOnKnown(s)
<1>1. TypeOK /\ Known /\ IInv
  BY DEF RetryInv, IInv
<1>2. CASE ServerStep
  <2>1. /\ UNCHANGED <<orderOf, ticketOf, receipt>>
        /\ UNCHANGED history \/ CommitLifecycle
        /\ handling # Idle /\ Advance
    BY <1>2 DEF ServerStep, PutNullifier, PutSession, PutProfileState, CommitLifecycle, Writing,
       tickets, store
  <2>2. \/ UNCHANGED holds
        \/ holds' = [holds EXCEPT ![handling.session] = @ \cup handling.response]
    BY <2>1 DEF Advance
  <2>3. \A s \in Session : holds[s] \subseteq holds'[s]
    BY <1>1, <2>2 DEF TypeOK
  <2> QED BY <2>1, <2>3 DEF Settled
<1>3. CASE \E t \in Ticket, op \in OrderOp, l \in Lph : Issue(t, op, l)
  BY <1>1, <1>3 DEF Issue, store, client, Settled, Known, Issued, TypeOK
<1>4. CASE \E t \in Ticket : Expire(t) \/ ImportOrder(t)
  BY <1>4 DEF Expire, ImportOrder, tickets, store, client, Settled
<1>5. CASE \E s \in Session, t \in Ticket : Initiate(s, t)
  BY <1>1, <1>5 DEF Initiate, tickets, client, Settled, Opened, TypeOK
<1>6. CASE \E s \in Session : ReplayAuthentication(s) \/ SignsOnKnown(s)
  BY <1>1, <1>6 DEF ReplayAuthentication, SignsOnKnown, SignReceipt, tickets, store, Settled,
     TypeOK
<1>7. CASE \E s \in Session :
             \/ Authenticate(s) \/ GetProfile(s) \/ PrepareLifecycle(s) \/ Notification(s)
             \/ LifecycleReceipt(s) \/ CommitDelete(s) \/ ReinstallReceipt(s)
  <2>1. PICK s \in Session : \E w, r : Handle(s, w, r)
    BY <1>7 DEF Authenticate, GetProfile, PrepareLifecycle, Notification, LifecycleReceipt,
       CommitDelete, ReinstallReceipt
  <2> QED BY <2>1 DEF Handle, tickets, client, Settled
<1>8. CASE Restart \/ UNCHANGED vars
  BY <1>8 DEF Restart, vars, tickets, client, Settled
<1> QED BY <1>2, <1>3, <1>4, <1>5, <1>6, <1>7, <1>8 DEF Next, NotificationAgain, Read

LEMMA InitSigned == Init => SignedInv
<1> SUFFICES ASSUME Init PROVE SignedInv
  OBVIOUS
<1>1. \A l \in Lph : Len(history[l]) = 0
  BY EmptySeq DEF Init, Repository!Init
<1>2. ReceiptsKnown /\ HistorySigned
  BY <1>1 DEF Init, ReceiptsKnown, HistorySigned
<1> QED BY <1>2, InitIInv, InitBacked DEF SignedInv, RetryInv

\* A session that has signed was opened, and keeps its order and its Profile.
LEMMA SignedKeeps ==
    ASSUME SignedInv, NEW s \in Session, receipt[s] # NoReceipt, Settled(s)
    PROVE  /\ Opened(s) /\ LphOf(s) \in Lph /\ Chain(s) = history[LphOf(s)]
           /\ Opened(s)' /\ Op(s)' = Op(s) /\ LphOf(s)' = LphOf(s)
           /\ receipt'[s] = receipt[s]
<1>1. Opened(s) /\ TypeOK /\ Known
  BY DEF SignedInv, RetryInv, IInv, Known
<1> QED BY <1>1, SettledKeeps, OpenedOrder DEF Settled, Chain

\* An operation of a history comes with its session's receipt.
LEMMA SignedEntry ==
    ASSUME SignedInv, NEW l \in Lph, NEW i \in 1..Len(history[l])
    PROVE  /\ history[l][i].tx \in Session /\ receipt[history[l][i].tx] # NoReceipt
           /\ Opened(history[l][i].tx) /\ LphOf(history[l][i].tx) = l
BY HistoryEntry DEF SignedInv, RetryInv, IInv, Backed, HistoryBacked, Acts

\* A step that leaves receipts and only extends histories by what is signed on them.
LEMMA StepSigned ==
    ASSUME Persistent = TRUE, SignedInv, [Next]_vars
    PROVE  SignedInv'
<1>1. RetryInv /\ RetryInv' /\ TypeOK /\ Known
  BY StepBacked DEF SignedInv, RetryInv, IInv
<1>2. \A s \in Session : Settled(s)
  BY <1>1, StepSettles
<1>3. CASE UNCHANGED <<history, receipt>>
  <2>1. ReceiptsKnown'
    <3> SUFFICES ASSUME NEW s \in Session, receipt'[s] # NoReceipt
                 PROVE  /\ receipt'[s] \in Seq(Repository!Entry)
                        /\ Begins(receipt'[s], Chain(s)')
                        /\ AllowedPredecessor(Op(s)', Repository!StateAfter(receipt'[s]))
      BY DEF ReceiptsKnown
    <3>1. /\ receipt[s] # NoReceipt /\ Op(s)' = Op(s) /\ Chain(s)' = Chain(s)
          /\ receipt'[s] = receipt[s]
      BY <1>2, <1>3, SignedKeeps DEF Chain
    <3> QED BY <3>1 DEF SignedInv, ReceiptsKnown
  <2>2. HistorySigned'
    BY <1>3 DEF SignedInv, HistorySigned
  <2> QED BY <1>1, <2>1, <2>2 DEF SignedInv
<1>4. ASSUME NEW s \in Session, SignsOnKnown(s)
      PROVE  SignedInv'
  <2>1. /\ Opened(s) /\ receipt[s] = NoReceipt
        /\ UNCHANGED <<orderOf, ticketOf, history>>
    BY <1>4 DEF SignsOnKnown, SignReceipt, tickets
  <2>2. Chain(s) \in Seq(Repository!Entry)
    BY <1>1, <2>1, OpenedOrder
  <2>3. PICK n \in 0..Len(Chain(s)) : SignReceipt(s, SubSeq(Chain(s), 1, n))
    BY <1>4 DEF SignsOnKnown
  <2> DEFINE known == SubSeq(Chain(s), 1, n)
             r == IF Op(s) = "download" THEN <<>> ELSE known
  <2>4. /\ receipt' = [receipt EXCEPT ![s] = r]
        /\ AllowedPredecessor(Op(s), Repository!StateAfter(known))
    BY <2>3 DEF SignReceipt
  <2>5. r \in Seq(Repository!Entry) /\ Begins(r, Chain(s))
    <3>1. known \in Seq(Repository!Entry) /\ Begins(known, Chain(s))
      BY <2>2 DEF Begins
    <3>2. <<>> \in Seq(Repository!Entry) /\ Begins(<<>>, Chain(s))
      BY <2>2, EmptySeq, LenProperties DEF Begins
    <3> QED BY <3>1, <3>2
  <2>6. AllowedPredecessor(Op(s), Repository!StateAfter(r))
    BY <2>4 DEF AllowedPredecessor
  <2> HIDE DEF r
  <2>7. /\ receipt'[s] = r
        /\ \A s2 \in Session \ {s} : receipt'[s2] = receipt[s2]
    BY <1>1, <2>4 DEF TypeOK
  <2>8. \A s2 \in Session : Op(s2)' = Op(s2) /\ Chain(s2)' = Chain(s2)
    BY <2>1 DEF Op, LphOf, Chain
  <2>9. ReceiptsKnown'
    <3> SUFFICES ASSUME NEW s2 \in Session, receipt'[s2] # NoReceipt
                 PROVE  /\ receipt'[s2] \in Seq(Repository!Entry)
                        /\ Begins(receipt'[s2], Chain(s2)')
                        /\ AllowedPredecessor(Op(s2)', Repository!StateAfter(receipt'[s2]))
      BY DEF ReceiptsKnown
    <3>1. CASE s2 = s
      BY <2>5, <2>6, <2>7, <2>8, <3>1
    <3>2. CASE s2 # s
      BY <2>7, <2>8, <3>2 DEF SignedInv, ReceiptsKnown
    <3> QED BY <3>1, <3>2
  <2>10. HistorySigned'
    <3> SUFFICES ASSUME NEW l \in Lph, NEW i \in 1..Len(history[l]),
                        history[l][i].op # "commit-delete"
                 PROVE  Len(receipt'[history[l][i].tx]) = i - 1
      BY <2>1 DEF HistorySigned
    <3>1. history[l][i].tx \in Session \ {s}
      BY <2>1, SignedEntry
    <3> QED BY <2>7, <3>1 DEF SignedInv, HistorySigned
  <2> QED BY <1>1, <2>9, <2>10 DEF SignedInv
<1>5. CASE CommitLifecycle
  <2>1. PICK s \in Session : s = handling.session /\ Opened(s) /\ LphOf(s) \in Lph
                             /\ Chain(s) \in Seq(Repository!Entry)
    BY <1>1, <1>5, RunningPlan DEF CommitLifecycle, Writing
  <2>2. PICK op \in Repository!Op : Committed(s, LphOf(s), op)
    BY <1>1, <1>5, <2>1, CommitEffect
  <2> DEFINE l == LphOf(s)
             n == Len(history[l])
  <2>3. /\ n \in Nat /\ Len(history'[l]) = n + 1
        /\ \A i \in 1..n : history'[l][i] = history[l][i]
        /\ history'[l][n + 1] = [op |-> op, tx |-> s]
        /\ \A l2 \in Lph \ {l} : history'[l2] = history[l2]
    BY <1>1, <2>1, <2>2, CommittedHistory
  <2>4. UNCHANGED receipt
    BY <1>5 DEF CommitLifecycle
  <2>5. ReceiptsKnown'
    <3> SUFFICES ASSUME NEW s2 \in Session, receipt[s2] # NoReceipt
                 PROVE  /\ receipt[s2] \in Seq(Repository!Entry)
                        /\ Begins(receipt[s2], Chain(s2)')
                        /\ AllowedPredecessor(Op(s2)', Repository!StateAfter(receipt[s2]))
      BY <2>4 DEF ReceiptsKnown
    <3>1. /\ Op(s2)' = Op(s2) /\ LphOf(s2)' = LphOf(s2) /\ LphOf(s2) \in Lph
          /\ Chain(s2) = history[LphOf(s2)] /\ Chain(s2)' = history'[LphOf(s2)]
      BY <1>2, SignedKeeps DEF Chain
    <3>2. /\ receipt[s2] \in Seq(Repository!Entry) /\ Begins(receipt[s2], history[LphOf(s2)])
          /\ AllowedPredecessor(Op(s2), Repository!StateAfter(receipt[s2]))
      BY <3>1 DEF SignedInv, ReceiptsKnown
    <3>3. Begins(receipt[s2], history'[LphOf(s2)])
      <4>1. Len(receipt[s2]) \in Nat
        BY <3>2, LenProperties
      <4> QED BY <2>3, <3>1, <3>2, <4>1 DEF Begins
    <3> QED BY <3>1, <3>2, <3>3
  <2>6. op # "commit-delete" => Len(receipt[s]) = n
    <3>1. Chain(s) = history[l] /\ receipt[s] # NoReceipt
      BY <2>2 DEF Chain, Committed, Acts
    <3>2. CASE op = "install"
      <4>1. Chain(s) = <<>>
        BY <1>1, <2>1, <2>2, <3>2, LegalStart DEF Committed
      <4>2. n = 0
        BY <3>1, <4>1, EmptySeq
      <4>3. Len(receipt[s]) \in Nat /\ Len(receipt[s]) <= n
        BY <3>1, LenProperties DEF SignedInv, ReceiptsKnown, Begins
      <4> QED BY <4>2, <4>3
    <3>3. CASE op \notin {"install", "commit-delete"}
      BY <2>2, <3>1, <3>3 DEF Committed
    <3> QED BY <3>2, <3>3
  <2>7. HistorySigned'
    <3> SUFFICES ASSUME NEW l2 \in Lph, NEW i \in 1..Len(history'[l2]),
                        history'[l2][i].op # "commit-delete"
                 PROVE  Len(receipt[history'[l2][i].tx]) = i - 1
      BY <2>4 DEF HistorySigned
    <3>1. CASE l2 = l /\ i = n + 1
      BY <2>3, <2>6, <3>1
    <3>2. CASE ~(l2 = l /\ i = n + 1)
      <4>1. i \in 1..Len(history[l2]) /\ history'[l2][i] = history[l2][i]
        BY <2>1, <2>3, <3>2
      <4> QED BY <4>1 DEF SignedInv, HistorySigned
    <3> QED BY <3>1, <3>2
  <2> QED BY <1>1, <2>5, <2>7 DEF SignedInv
<1>6. UNCHANGED history \/ CommitLifecycle
  BY <1>1, StepSettles
<1>7. UNCHANGED receipt \/ \E s \in Session : SignsOnKnown(s)
  BY <1>1, StepSettles
<1> QED BY <1>3, <1>4, <1>5, <1>6, <1>7

(* Every operation a Profile went through was signed on exactly the operations before it,
   whatever receipts were late, repeated or cut short by a restart: none took effect on a
   state its client had not seen (lifecycle.py:452-470, service.py:640-676, 729-749). *)
SignedOnItsPast ==
    \A l \in Lph : \A i \in 1..Len(history[l]) :
      history[l][i].op # "commit-delete" =>
        receipt[history[l][i].tx] = SubSeq(history[l], 1, i - 1)

THEOREM OperationsSignedInOrder ==
    ASSUME Persistent = TRUE
    PROVE  Spec => []SignedOnItsPast
<1>1. SignedInv => SignedOnItsPast
  <2> SUFFICES ASSUME SignedInv, NEW l \in Lph, NEW i \in 1..Len(history[l]),
                      history[l][i].op # "commit-delete"
               PROVE  receipt[history[l][i].tx] = SubSeq(history[l], 1, i - 1)
    BY DEF SignedOnItsPast
  <2> DEFINE s == history[l][i].tx
             past == SubSeq(history[l], 1, i - 1)
  <2>1. s \in Session /\ receipt[s] # NoReceipt /\ Chain(s) = history[l]
    BY SignedEntry DEF Chain
  <2>2. /\ receipt[s] \in Seq(Repository!Entry) /\ Begins(receipt[s], history[l])
        /\ Len(receipt[s]) = i - 1
    BY <2>1 DEF SignedInv, ReceiptsKnown, HistorySigned
  <2>3. history[l] \in Seq(Repository!Entry)
    BY DEF SignedInv, RetryInv, IInv, TypeOK
  <2>4. /\ past \in Seq(Repository!Entry) /\ Len(past) = i - 1
        /\ \A k \in 1..i - 1 : past[k] = history[l][k]
    BY <2>3
  <2> QED BY <2>2, <2>4, SeqEqual DEF Begins
<1>2. Spec => []SignedInv
  BY InitSigned, StepSigned, PTL DEF Spec
<1> QED BY <1>1, <1>2, PTL

-----------------------------------------------------------------------------
(* What the steps of the server leave a client with.                       *)

\* A history gets one operation at a time, by the handler that runs.
LEMMA OneMore ==
    ASSUME RetryInv, [Next]_vars, NEW l \in Lph, history'[l] # history[l]
    PROVE  /\ handling # Idle /\ handling.session \in Session /\ Opened(handling.session)
           /\ LphOf(handling.session) = l
           /\ \E op \in Repository!Op :
                /\ <<Repository!StateAfter(history[l]), Repository!Target[op]>>
                     \in Repository!LegalTransitions[op]
                /\ Acts(handling.session, op)
                /\ Head(handling.writes) = LifecycleWrite(op)
                /\ history'[l] = Append(history[l], [op |-> op, tx |-> handling.session])
                /\ op = "install" => history[l] = <<>>
<1>1. CommitLifecycle
  BY StepSettles
<1>2. PICK s \in Session :
        /\ s = handling.session /\ handling # Idle /\ Opened(s) /\ LphOf(s) \in Lph
        /\ Chain(s) \in Seq(Repository!Entry) /\ Head(handling.writes).store = "lifecycle"
        /\ Plan(s, handling.writes, handling.response)
  BY <1>1, RunningPlan DEF CommitLifecycle, Writing
<1>3. PICK op \in Repository!Op : Committed(s, LphOf(s), op)
  BY <1>1, <1>2, CommitEffect
<1>4. LphOf(s) = l
  <2>1. \A l2 \in Lph \ {LphOf(s)} : history'[l2] = history[l2]
    BY <1>2, <1>3, CommittedHistory
  <2> QED BY <2>1
<1>5. history'[l] = Append(history[l], [op |-> op, tx |-> s])
  BY <1>3, <1>4 DEF Committed, RetryInv, IInv, TypeOK
<1>6. Head(handling.writes) = LifecycleWrite(op)
  <2>1. PICK op2 \in Repository!Op : Head(handling.writes) = LifecycleWrite(op2)
    <3>1. \/ OperationPlan(s, handling.writes, handling.response)
          \/ InstallPlan(s, handling.writes, handling.response)
      BY <1>2, PlanHead
    <3>2. CASE OperationPlan(s, handling.writes, handling.response)
      BY <3>2 DEF OperationPlan
    <3>3. CASE InstallPlan(s, handling.writes, handling.response)
      BY <3>3 DEF InstallPlan, Repository!Op
    <3> QED BY <3>1, <3>2, <3>3
  <2>2. history' = [history EXCEPT ![LphOf(s)] = Append(@, [op |-> op2, tx |-> s])]
    <3>1. Head(handling.writes).op = op2
      BY <2>1 DEF LifecycleWrite
    <3> QED BY <1>1, <1>2, <3>1 DEF CommitLifecycle, Repository!Accept
  <2>3. history'[l] = Append(history[l], [op |-> op2, tx |-> s])
    BY <1>4, <2>2 DEF RetryInv, IInv, TypeOK
  <2>4. history[l] \in Seq(Repository!Entry)
    BY DEF RetryInv, IInv, TypeOK
  <2>5. [op |-> op2, tx |-> s].op = [op |-> op, tx |-> s].op
    <3> DEFINE e == [op |-> op, tx |-> s]
               e2 == [op |-> op2, tx |-> s]
    <3>1. e \in Repository!Entry /\ e2 \in Repository!Entry
      BY <1>2 DEF Repository!Entry
    <3>2. Append(history[l], e) = Append(history[l], e2)
      BY <1>5, <2>3
    <3> HIDE DEF e, e2
    <3>3. e = e2
      BY <2>4, <3>1, <3>2, AppendProperties
    <3> QED BY <3>3 DEF e, e2
  <2> QED BY <2>1, <2>5
<1>7. op = "install" => history[l] = <<>>
  BY <1>2, <1>3, <1>4, LegalStart DEF Committed, RetryInv, IInv, Chain
<1>8. <<Repository!StateAfter(history[l]), Repository!Target[op]>>
        \in Repository!LegalTransitions[op]
  BY <1>3, <1>4 DEF Committed, StateOf, Chain
<1> QED BY <1>2, <1>3, <1>4, <1>5, <1>6, <1>7, <1>8 DEF Committed

LEMMA HistoryGrows ==
    ASSUME RetryInv, [Next]_vars, NEW l \in Lph
    PROVE  Begins(history[l], history'[l])
<1>1. history[l] \in Seq(Repository!Entry)
  BY DEF RetryInv, IInv, TypeOK
<1>2. CASE history'[l] = history[l]
  BY <1>1, <1>2, LenProperties DEF Begins
<1>3. CASE history'[l] # history[l]
  <2>1. PICK e \in Repository!Entry : history'[l] = Append(history[l], e)
    BY <1>3, OneMore DEF Repository!Entry
  <2> QED BY <1>1, <2>1, AppendProperties, LenProperties DEF Begins
<1> QED BY <1>2, <1>3

\* What stays of an opened session, whatever the server does.
Keeps(s) ==
    /\ Opened(s)' /\ Op(s)' = Op(s) /\ LphOf(s)' = LphOf(s)
    /\ \A op : InHistory(s, op) => InHistory(s, op)'
    /\ holds[s] \subseteq holds'[s]
    /\ receipt[s] # NoReceipt => receipt'[s] = receipt[s]

LEMMA StepKeeps ==
    ASSUME RetryInv, [Next]_vars, NEW s \in Session, Opened(s)
    PROVE  Keeps(s)
<1>1. Settled(s)
  BY StepSettles
<1>2. Opened(s)' /\ Op(s)' = Op(s) /\ LphOf(s)' = LphOf(s) /\ LphOf(s) \in Lph
  BY <1>1, SettledKeeps, OpenedOrder DEF RetryInv, IInv
<1>3. ASSUME NEW op, InHistory(s, op) PROVE InHistory(s, op)'
  <2>1. Chain(s) = history[LphOf(s)] /\ Chain(s)' = history'[LphOf(s)]
    BY <1>2 DEF Chain
  <2>2. /\ Begins(history[LphOf(s)], history'[LphOf(s)])
        /\ history[LphOf(s)] \in Seq(Repository!Entry)
        /\ history'[LphOf(s)] \in Seq(Repository!Entry)
    <3>1. history'[LphOf(s)] \in Seq(Repository!Entry)
      <4>1. CASE history'[LphOf(s)] = history[LphOf(s)]
        BY <1>2, <4>1 DEF RetryInv, IInv, TypeOK
      <4>2. CASE history'[LphOf(s)] # history[LphOf(s)]
        <5>1. PICK e \in Repository!Entry : history'[LphOf(s)] = Append(history[LphOf(s)], e)
          BY <1>2, <4>2, OneMore DEF Repository!Entry
        <5>2. history[LphOf(s)] \in Seq(Repository!Entry)
          BY <1>2 DEF RetryInv, IInv, TypeOK
        <5> QED BY <5>1, <5>2, AppendProperties
      <4> QED BY <4>1, <4>2
    <3> QED BY <1>2, <3>1, HistoryGrows DEF RetryInv, IInv, TypeOK
  <2>3. PICK i \in 1..Len(Chain(s)) : Chain(s)[i] = [op |-> op, tx |-> s]
    BY <1>3 DEF InHistory
  <2>4. i \in 1..Len(Chain(s)') /\ Chain(s)'[i] = [op |-> op, tx |-> s]
    BY <2>1, <2>2, <2>3, LenProperties DEF Begins
  <2> QED BY <2>4 DEF InHistory
<1> QED BY <1>1, <1>2, <1>3 DEF Keeps, Settled

\* When nobody has signed on more than a beginning p of a history that ends in a deletion,
\* the commit of that deletion is all the history can have beyond p.
LEMMA BeyondDelete ==
    ASSUME SignedInv, NEW l \in Lph, NEW p \in Seq(Repository!Entry), Begins(p, history[l]),
           p # <<>>, p[Len(p)].op = "delete",
           \A s \in Session : receipt[s] # NoReceipt /\ LphOf(s) = l => Len(receipt[s]) <= Len(p)
    PROVE  \/ Len(history[l]) = Len(p)
           \/ /\ Len(history[l]) = Len(p) + 1
              /\ history[l][Len(p) + 1] = [op |-> "commit-delete", tx |-> p[Len(p)].tx]
<1> DEFINE n == Len(p)
           h == history[l]
<1>1. /\ h \in Seq(Repository!Entry) /\ Len(h) \in Nat
      /\ n \in Nat \ {0} /\ n \in 1..Len(h) /\ h[n] = p[n] /\ h[n].op = "delete"
  <2>1. h \in Seq(Repository!Entry) /\ Len(h) \in Nat
    BY LenProperties DEF SignedInv, RetryInv, IInv, TypeOK
  <2>2. n \in Nat \ {0}
    BY EmptySeq, LenProperties
  <2> QED BY <2>1, <2>2 DEF Begins
<1>2. \A i \in 1..Len(h) :
        /\ h[i].op = "install" <=> i = 1
        /\ h[i].op = "commit-delete" =>
             i - 1 \in 1..Len(h) /\ h[i - 1] = [op |-> "delete", tx |-> h[i].tx]
  BY DEF SignedInv, RetryInv, Backed, ChainShape
<1>3. \A i \in 1..Len(h) :
        h[i] \in Repository!Entry /\ h[i].tx \in Session /\ h[i].op \in Repository!Op
  BY HistoryEntry DEF SignedInv, RetryInv, IInv
<1>4. ASSUME NEW i \in 1..Len(h), h[i].op # "commit-delete"
      PROVE  Len(receipt[h[i].tx]) = i - 1 /\ i - 1 <= n
  BY <1>3, <1>4, SignedEntry DEF SignedInv, HistorySigned
<1>5. ASSUME Len(h) > n
      PROVE  /\ h[n + 1] = [op |-> "commit-delete", tx |-> h[n].tx]
             /\ h[n + 1].op = "commit-delete"
  <2>1. PICK k \in 1..Len(h) : k = n + 1 /\ k - 1 = n /\ k # 1
    BY <1>1, <1>5
  <2> DEFINE s == h[k].tx
  <2>2. h[k].op = "commit-delete"
    <3> SUFFICES ASSUME h[k].op # "commit-delete" PROVE FALSE
      OBVIOUS
    <3>1. s \in Session /\ receipt[s] # NoReceipt /\ Opened(s) /\ LphOf(s) = l
      BY <2>1, SignedEntry
    <3>2. /\ receipt[s] \in Seq(Repository!Entry) /\ Len(receipt[s]) = n
          /\ Begins(receipt[s], h)
          /\ AllowedPredecessor(Op(s), Repository!StateAfter(receipt[s]))
      BY <1>4, <2>1, <3>1 DEF SignedInv, ReceiptsKnown, Chain
    <3>3. receipt[s] # <<>> /\ receipt[s][Len(receipt[s])].op = "delete"
      BY <1>1, <3>2, EmptySeq DEF Begins
    <3>4. Repository!StateAfter(receipt[s]) = Repository!PendingDelete
      BY <3>3 DEF Repository!StateAfter, Repository!Target, Repository!Op
    <3>5. Op(s) = "download"
      BY <3>2, <3>4 DEF AllowedPredecessor, Repository!PendingDelete, Repository!Installed,
         Repository!Enabled, Repository!Disabled, Repository!Tombstone
    <3>6. Op(s) = PaidBy(h[k].op)
      BY <2>1 DEF SignedInv, RetryInv, Backed, HistoryBacked, Acts
    <3>7. h[k].op = "install"
      BY <1>3, <2>1, <3>5, <3>6 DEF PaidBy, Repository!Op
    <3> QED BY <1>2, <2>1, <3>7
  <2>3. h[n] = [op |-> "delete", tx |-> s]
    BY <1>2, <2>1, <2>2
  <2>4. h[n].tx = s
    BY <2>3
  <2>5. h[k] \in Repository!Entry
    BY <1>3, <2>1
  <2>6. h[k] = [op |-> "commit-delete", tx |-> h[n].tx]
    BY <2>2, <2>4, <2>5 DEF Repository!Entry
  <2> QED BY <2>1, <2>2, <2>6
<1>6. ASSUME Len(h) > n + 1 PROVE FALSE
  <2>1. PICK k \in 1..Len(h) : k = n + 2 /\ k - 1 = n + 1 /\ k - 1 \in 1..Len(h)
    BY <1>1, <1>6
  <2>2. h[k - 1].op = "commit-delete"
    BY <1>1, <1>5, <1>6, <2>1
  <2>3. h[k].op # "commit-delete"
    <3> SUFFICES ASSUME h[k].op = "commit-delete" PROVE FALSE
      OBVIOUS
    <3>1. h[k - 1] = [op |-> "delete", tx |-> h[k].tx]
      BY <1>2, <2>1
    <3> QED BY <2>2, <3>1
  <2> QED BY <1>1, <1>4, <2>1, <2>3
<1> QED BY <1>1, <1>5, <1>6

\* The handler of a receipt for op begins: op is done, or is the first of several writes.
Begun(s, op) ==
    /\ handling'.session = s
    /\ \/ InHistory(s, op)
       \/ Len(handling'.writes) > 1 /\ Head(handling'.writes) = LifecycleWrite(op)

LEMMA OperationBegun ==
    ASSUME RetryInv, NEW s \in Session, NEW op \in Repository!Op, Opened(s), NEW r,
           NEW u \in Write, Handle(s, RepositoryWrites(s, op) \o <<u>>, r)
    PROVE  Begun(s, op) /\ handling'.response = r
<1>1. /\ handling'.session = s /\ handling'.response = r
      /\ handling'.writes = RepositoryWrites(s, op) \o <<u>>
  BY DEF Handle
<1>2. CASE Replays(s, op)
  BY <1>1, <1>2, ReplayInHistory DEF Begun
<1>3. CASE ~Replays(s, op)
  <2>1. handling'.writes = <<LifecycleWrite(op), u>>
    BY <1>1, <1>3, WriteTypes, FirstOfTwo DEF RepositoryWrites
  <2>2. Len(<<LifecycleWrite(op), u>>) = 2 /\ Head(<<LifecycleWrite(op), u>>) = LifecycleWrite(op)
    OBVIOUS
  <2> QED BY <1>1, <2>1, <2>2 DEF Begun
<1> QED BY <1>2, <1>3

LEMMA NotificationBegun ==
    ASSUME RetryInv, NEW s \in Session, Notification(s)
    PROVE  Begun(s, "install")
<1>1. /\ status[s] = "downloaded" /\ Handle(s, RepositoryWrites(s, "install") \o InstallWrites, {})
  BY DEF Notification, NotificationTaken
<1>2. /\ handling'.session = s
      /\ handling'.writes = RepositoryWrites(s, "install") \o InstallWrites
  BY <1>1 DEF Handle
<1>3. Opened(s) /\ "install" \in Repository!Op
  BY <1>1, OpenedByStatus DEF Repository!Op
<1>4. CASE Replays(s, "install")
  BY <1>2, <1>3, <1>4, ReplayInHistory DEF Begun
<1>5. CASE ~Replays(s, "install")
  <2>1. handling'.writes
          = <<LifecycleWrite("install"), ProfileStateWrite, SessionWrite("installed")>>
    <3>1. <<LifecycleWrite("install")>> \o <<ProfileStateWrite, SessionWrite("installed")>>
            = <<LifecycleWrite("install"), ProfileStateWrite, SessionWrite("installed")>>
      BY <1>3, WriteTypes, FirstOfThree
    <3> QED BY <1>2, <1>5, <3>1 DEF RepositoryWrites, InstallWrites
  <2>2. Len(handling'.writes) > 1 /\ Head(handling'.writes) = LifecycleWrite("install")
    BY <2>1
  <2> QED BY <1>2, <2>2 DEF Begun
<1> QED BY <1>4, <1>5

LEMMA ReceiptBegun ==
    ASSUME RetryInv, NEW s \in Session
    PROVE  /\ LifecycleReceipt(s) =>
                Begun(s, Op(s)) /\ (Op(s) = "delete" => "R_prep" \in handling'.response)
           /\ CommitDelete(s) => Begun(s, "commit-delete")
           /\ ReinstallReceipt(s) => Begun(s, "reinstall")
<1>1. \A st \in Status : SessionWrite(st) \in Write
  BY DEF SessionWrite, Write
<1>2. ASSUME LifecycleReceipt(s)
      PROVE  Begun(s, Op(s)) /\ (Op(s) = "delete" => "R_prep" \in handling'.response)
  <2>1. Opened(s) /\ Op(s) \in Repository!Op
    BY <1>2, OpenedByStatus
       DEF LifecycleReceipt, ReceiptTaken, MayHandReceipt, ReceiptStatus, Repository!Op
  <2>2. PICK st \in Status, r \in {{}, {"R_prep"}} :
          /\ Handle(s, RepositoryWrites(s, Op(s)) \o <<SessionWrite(st)>>, r)
          /\ Op(s) = "delete" => "R_prep" \in r
    <3>1. CASE Op(s) = "delete"
      BY <1>2, <3>1 DEF LifecycleReceipt, Status
    <3>2. CASE Op(s) # "delete"
      BY <1>2, <3>2 DEF LifecycleReceipt, Status
    <3> QED BY <3>1, <3>2
  <2> QED BY <1>1, <2>1, <2>2, OperationBegun
<1>3. ASSUME CommitDelete(s) PROVE Begun(s, "commit-delete")
  <2>1. Opened(s)
    BY <1>3, OpenedByStatus DEF CommitDelete, CommitTaken, MayCommit
  <2>2. Handle(s, RepositoryWrites(s, "commit-delete") \o <<SessionWrite("tombstone")>>, {})
    BY <1>3 DEF CommitDelete, CommitDeleteWrites
  <2>3. "commit-delete" \in Repository!Op /\ "tombstone" \in Status
    BY DEF Repository!Op, Status
  <2> QED BY <1>1, <2>1, <2>2, <2>3, OperationBegun
<1>4. ASSUME ReinstallReceipt(s) PROVE Begun(s, "reinstall")
  <2>1. Opened(s)
    BY <1>4, OpenedByStatus DEF ReinstallReceipt, ReinstallTaken, MayReinstall
  <2>2. Handle(s, RepositoryWrites(s, "reinstall") \o <<SessionWrite("installed")>>, {})
    BY <1>4 DEF ReinstallReceipt
  <2>3. "reinstall" \in Repository!Op
    BY DEF Repository!Op
  <2> QED BY <2>1, <2>2, <2>3, WriteTypes, OperationBegun
<1> QED BY <1>2, <1>3, <1>4
=============================================================================
