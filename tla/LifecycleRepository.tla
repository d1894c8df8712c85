------------------------ MODULE LifecycleRepository ------------------------
(***************************************************************************)
(* LifecycleRepository of pySim/esim/aura/lifecycle.py: the SQLite tables  *)
(* that hold the state of every AURA Profile, and the calls that move it:  *)
(* initialize_install, apply_state (enable, disable, reinstall),           *)
(* prepare_delete and commit_delete.                                       *)
(*                                                                         *)
(* Callers sign receipts against a snapshot of the row and hand them in,   *)
(* possibly late, twice, or from several threads at once.  Each thread     *)
(* opens its own connection; a call is BEGIN IMMEDIATE, the checks, the    *)
(* UPDATE of the Profile row, the INSERTs, COMMIT, and the answer, and it  *)
(* can fail between any two of these.                                      *)
(*                                                                         *)
(* Abstractions.  A digest is modelled by what it covers: last_hash is the *)
(* sequence of the links hashed so far, receipt_hash is the receipt.  A    *)
(* session (tx) stands for its transactionId, its fresh K_mac, its ctx_t   *)
(* and the rid derived from them, so a receipt that names its session is a *)
(* receipt whose MAC verifies under that session's key.                    *)
(***************************************************************************)
EXTENDS Naturals, Sequences

CONSTANTS
    Lph,            \* Profile pseudonyms
    Profile,        \* values of the pair (pid_h, salt_p)
    Tx,             \* operation sessions
    Worker,         \* threads calling the repository
    Signature,      \* ECDSA is randomised: two signings of R_prep may differ
    NoProfile, NoTx, NoRprep, NoReceipt, NoPending, NoTables

VARIABLES
    profiles,       \* table lifecycle_profiles
    receipts,       \* table lifecycle_receipts: the receipts accepted
    pending,        \* table pending_deletes
    pc,             \* pc[w]: where thread w is in its call
    call,           \* call[w]: the receipt thread w was called with
    draft,          \* draft[w]: the tables as thread w's open transaction sees them
    issued,         \* the receipts callers have signed
    answers         \* the responses callers have received

tables == <<profiles, receipts, pending>>
vars == <<profiles, receipts, pending, pc, call, draft, issued, answers>>

-----------------------------------------------------------------------------
State == 0..5
NotInstalled == 0
Installed == 1
Enabled == 2
Disabled == 3
PendingDelete == 4
Tombstone == 5

StateOp == {"enable", "disable", "reinstall"}       \* what apply_state is called for
Op == StateOp \cup {"install", "delete", "commit-delete"}

\* LEGAL_TRANSITIONS, and the row initialize_install inserts.
Legal(op, old, new) ==
    \/ op = "install" /\ old = NotInstalled /\ new = Installed
    \/ op = "enable" /\ old \in {Installed, Disabled} /\ new = Enabled
    \/ op = "disable" /\ old = Enabled /\ new = Disabled
    \/ op = "delete" /\ old \in {Installed, Enabled, Disabled} /\ new = PendingDelete
    \/ op = "commit-delete" /\ old = PendingDelete /\ new = Tombstone
    \/ op = "reinstall" /\ old = Tombstone /\ new = Installed

Target(op) ==
    IF op = "enable" THEN Enabled
    ELSE IF op = "disable" THEN Disabled
    ELSE IF op = "delete" THEN PendingDelete
    ELSE IF op = "commit-delete" THEN Tombstone
    ELSE Installed

Link == [op : Op, tx : Tx, lph : Lph, st_old : State, st_new : State, ctr_new : Nat]
Hash == Seq(Link)

Row == [prof : Profile \cup {NoProfile}, state : State, ctr : Nat, last_hash : Hash,
        install : Tx \cup {NoTx}]
NoRow == [prof |-> NoProfile, state |-> NotInstalled, ctr |-> 0, last_hash |-> <<>>,
          install |-> NoTx]

Rprep == [tx : Tx, ctr_pending : Nat, last_hash_pending : Hash, signature : Signature]

Receipt == [op : Op, tx : Tx, lph : Lph, prof : Profile, st_old : State, st_new : State,
            ctr_new : Nat, last_hash_old : Hash, R_prep : Rprep \cup {NoRprep}]

PendingRow == [tx : Tx, prepare : Receipt, R_prep : Rprep, committed : BOOLEAN,
               commit : Receipt \cup {NoReceipt}]

Tables == [profiles : [Lph -> Row], receipts : SUBSET Receipt,
           pending : [Lph -> PendingRow \cup {NoPending}]]

Answer == [receipt : Receipt, last_hash : Hash, R_prep : Rprep \cup {NoRprep}]

\* The values that stand for an absent row, receipt or signed preparation are
\* none of those: SQLite's NULL and Python's None are no row and no string.
ASSUME SentinelAssumption ==
    /\ NoPending \notin PendingRow
    /\ NoReceipt \notin Receipt
    /\ NoRprep \notin Rprep
    /\ NoTx \notin Tx
    /\ NoProfile \notin Profile

\* state_last_hash, commit_last_hash
LinkOf(r) == [op |-> r.op, tx |-> r.tx, lph |-> r.lph, st_old |-> r.st_old,
              st_new |-> r.st_new, ctr_new |-> r.ctr_new]
NewHash(r) == Append(r.last_hash_old, LinkOf(r))

-----------------------------------------------------------------------------
(* The callers.                                                            *)

\* create_state_receipt: a session signs one receipt for its operation against
\* the row as it is now; it may reach the repository much later.  The receipt
\* carries the pid_h and salt_p the session was authenticated for.
StateReceipt(op, tx, l, p) ==
    [op |-> op, tx |-> tx, lph |-> l, prof |-> p,
     st_old |-> profiles[l].state, st_new |-> Target(op),
     ctr_new |-> profiles[l].ctr + 1, last_hash_old |-> profiles[l].last_hash,
     R_prep |-> NoRprep]

\* create_install_receipt: not signed against a row.
InstallReceipt(tx, l, p) ==
    [op |-> "install", tx |-> tx, lph |-> l, prof |-> p,
     st_old |-> NotInstalled, st_new |-> Installed, ctr_new |-> 1,
     last_hash_old |-> <<>>, R_prep |-> NoRprep]

CommitReceipt(tx, l, p, rprep) ==
    [op |-> "commit-delete", tx |-> tx, lph |-> l, prof |-> p,
     st_old |-> PendingDelete, st_new |-> Tombstone,
     ctr_new |-> profiles[l].ctr + 1, last_hash_old |-> profiles[l].last_hash,
     R_prep |-> rprep]

Fresh(tx) == \A r \in issued : r.tx # tx

SignInstall(tx, l, p) ==
    /\ Fresh(tx)
    /\ issued' = issued \cup {InstallReceipt(tx, l, p)}
    /\ UNCHANGED <<tables, pc, call, draft, answers>>

SignState(tx, op, l, p) ==
    /\ Fresh(tx)
    /\ profiles[l].state # NotInstalled
    /\ issued' = issued \cup {StateReceipt(op, tx, l, p)}
    /\ UNCHANGED <<tables, pc, call, draft, answers>>

\* A commit is signed by a session that holds an R_prep, for its own Profile.
SignCommit(a) ==
    /\ a.receipt.op = "delete"
    /\ \A r \in issued : ~(r.tx = a.receipt.tx /\ r.op = "commit-delete")
    /\ issued' = issued \cup
         {CommitReceipt(a.receipt.tx, a.receipt.lph, a.receipt.prof, a.R_prep)}
    /\ UNCHANGED <<tables, pc, call, draft, answers>>

-----------------------------------------------------------------------------
(* What a call decides once it holds the write lock, from the committed    *)
(* tables.                                                                 *)

RowOf(r) == profiles[r.lph]

\* Mutant: a receipt that was signed on an older row is taken, too.
IsSuccessorOrOlder(r) == r.ctr_new <= RowOf(r).ctr + 1

\* _validate_predecessor
IsSuccessor(r) ==
    /\ r.st_old = RowOf(r).state
    /\ r.ctr_new = RowOf(r).ctr + 1
    /\ r.last_hash_old = RowOf(r).last_hash

\* The receipt is the one whose effect is still the head of the chain: the call
\* answers from what is stored and writes nothing.  For the install receipt the
\* chain may have moved on.
InstallReplays(r) ==
    /\ r.op = "install"
    /\ RowOf(r).state # NotInstalled
    /\ RowOf(r).prof = r.prof
    /\ RowOf(r).install = r.tx

\* _cached
StateReplays(r) ==
    /\ r.op \in StateOp
    /\ RowOf(r).state # NotInstalled
    /\ r \in receipts
    /\ RowOf(r).last_hash = NewHash(r)

\* Mutant: prepare_delete does not look for its own pending row first.
PrepareNeverReplays(r) == FALSE

PrepareReplays(r) ==
    /\ r.op = "delete"
    /\ pending[r.lph] # NoPending
    /\ ~pending[r.lph].committed
    /\ pending[r.lph].tx = r.tx
    /\ pending[r.lph].prepare = r
    /\ RowOf(r).state = PendingDelete
    /\ RowOf(r).last_hash = NewHash(r)

CommitReplays(r) ==
    /\ r.op = "commit-delete"
    /\ pending[r.lph] # NoPending
    /\ pending[r.lph].committed
    /\ pending[r.lph].commit = r
    /\ RowOf(r).state = Tombstone
    /\ RowOf(r).last_hash = NewHash(r)

IsReplay(r) ==
    InstallReplays(r) \/ StateReplays(r) \/ PrepareReplays(r) \/ CommitReplays(r)

\* The call raises STALE_RECEIPT_REPLAY.
IsStaleReplay(r) ==
    \/ /\ r.op \in StateOp
       /\ r \in receipts
       /\ RowOf(r).last_hash # NewHash(r)
    \/ /\ r.op = "delete"
       /\ pending[r.lph] # NoPending
       /\ pending[r.lph].prepare = r
       /\ \/ pending[r.lph].committed
          \/ RowOf(r).state # PendingDelete
          \/ RowOf(r).last_hash # NewHash(r)

InstallAdmits(r) == r.op = "install" /\ RowOf(r).state = NotInstalled

\* Mutant: pid_h and salt_p of the session are not compared with the row's.
ApplyStateAdmitsAnyProfile(r) ==
    /\ r.op \in StateOp
    /\ RowOf(r).state # NotInstalled
    /\ r \notin receipts
    /\ Legal(r.op, r.st_old, r.st_new)
    /\ IsSuccessor(r)

ApplyStateAdmits(r) ==
    /\ r.op \in StateOp
    /\ RowOf(r).state # NotInstalled
    /\ r \notin receipts
    /\ RowOf(r).prof = r.prof
    /\ Legal(r.op, r.st_old, r.st_new)
    /\ IsSuccessor(r)

\* pending_deletes is keyed by lph, and no call ever deletes a row from it.
PrepareDeleteAdmits(r) ==
    /\ r.op = "delete"
    /\ RowOf(r).state # NotInstalled
    /\ pending[r.lph] = NoPending
    /\ RowOf(r).prof = r.prof
    /\ Legal(r.op, r.st_old, r.st_new)
    /\ IsSuccessor(r)

CommitDeleteAdmits(r) ==
    /\ r.op = "commit-delete"
    /\ RowOf(r).state # NotInstalled
    /\ pending[r.lph] # NoPending
    /\ pending[r.lph].tx = r.tx
    /\ pending[r.lph].R_prep = r.R_prep
    /\ r.R_prep.tx = r.tx
    /\ Legal(r.op, r.st_old, r.st_new)
    /\ IsSuccessor(r)

\* The receipt passes every check: the call goes on to write.
Admits(r) ==
    \/ InstallAdmits(r)
    \/ ApplyStateAdmits(r)
    \/ PrepareDeleteAdmits(r)
    \/ CommitDeleteAdmits(r)

-----------------------------------------------------------------------------
(* The steps of a call.                                                    *)

InTransaction(w) == pc[w] \in {"open", "updated", "recorded"}

\* Mutant: BEGIN instead of BEGIN IMMEDIATE, so that two calls may read the same row.
WriteLockUnused == \A w \in Worker : TRUE

\* BEGIN IMMEDIATE takes SQLite's only write lock; COMMIT and ROLLBACK give it back.
WriteLockFree == \A w \in Worker : ~InTransaction(w)

Finish(w) ==
    /\ pc' = [pc EXCEPT ![w] = "idle"]
    /\ call' = [call EXCEPT ![w] = NoReceipt]
    /\ draft' = [draft EXCEPT ![w] = NoTables]

\* A call arrives, with a receipt of any age, for the first time or again.
Start(w, r) ==
    /\ pc[w] = "idle"
    /\ pc' = [pc EXCEPT ![w] = "begin"]
    /\ call' = [call EXCEPT ![w] = r]
    /\ UNCHANGED <<tables, draft, issued, answers>>

\* The response stored for a receipt, or for install the row as it is now.
AnswerFrom(r, profs, pend) ==
    [receipt |-> r,
     last_hash |-> IF r.op = "install" THEN profs[r.lph].last_hash ELSE NewHash(r),
     R_prep |-> IF r.op = "delete" THEN pend[r.lph].R_prep ELSE NoRprep]

\* create_rprep
SignedRprep(r, sig) ==
    [tx |-> r.tx, ctr_pending |-> r.ctr_new, last_hash_pending |-> NewHash(r),
     signature |-> sig]

\* Mutant: the R_prep of a repeated prepare is signed anew.
ReplaySigningAgain(w) ==
    /\ pc[w] = "begin"
    /\ WriteLockFree
    /\ IsReplay(call[w])
    /\ \E sig \in Signature :
         answers' = answers \cup {[AnswerFrom(call[w], profiles, pending) EXCEPT
           !.R_prep = IF call[w].op = "delete" THEN SignedRprep(call[w], sig) ELSE @]}
    /\ Finish(w)
    /\ UNCHANGED <<tables, issued>>

\* BEGIN IMMEDIATE, the checks, and an answer from what is stored.
Replay(w) ==
    /\ pc[w] = "begin"
    /\ WriteLockFree
    /\ IsReplay(call[w])
    /\ answers' = answers \cup {AnswerFrom(call[w], profiles, pending)}
    /\ Finish(w)
    /\ UNCHANGED <<tables, issued>>

\* BEGIN IMMEDIATE, and a check that raises LifecycleError.
Reject(w) ==
    /\ pc[w] = "begin"
    /\ WriteLockFree
    /\ ~IsReplay(call[w])
    /\ ~Admits(call[w])
    /\ Finish(w)
    /\ UNCHANGED <<tables, issued, answers>>

\* BEGIN IMMEDIATE, and every check passes.
Begin(w) ==
    /\ pc[w] = "begin"
    /\ WriteLockFree
    /\ ~IsReplay(call[w])
    /\ Admits(call[w])
    /\ pc' = [pc EXCEPT ![w] = "open"]
    /\ draft' = [draft EXCEPT ![w] =
         [profiles |-> profiles, receipts |-> receipts, pending |-> pending]]
    /\ UNCHANGED <<tables, call, issued, answers>>

\* INSERT INTO lifecycle_profiles
InsertedRow(r) ==
    [prof |-> r.prof, state |-> Installed, ctr |-> 1, last_hash |-> NewHash(r),
     install |-> r.tx]

\* Mutant: the counter is not advanced.
UpdatedRowSameCtr(r, row) == [row EXCEPT !.state = r.st_new, !.last_hash = NewHash(r)]

\* UPDATE lifecycle_profiles: its WHERE clause names the values read in this same
\* transaction, so it always finds its row.
UpdatedRow(r, row) ==
    [row EXCEPT !.state = r.st_new, !.ctr = r.ctr_new, !.last_hash = NewHash(r)]

RowAfter(r, row) == IF r.op = "install" THEN InsertedRow(r) ELSE UpdatedRow(r, row)

WithProfile(t, r) ==
    [profiles |-> [t.profiles EXCEPT ![r.lph] = RowAfter(r, t.profiles[r.lph])],
     receipts |-> t.receipts,
     pending |-> t.pending]

UpdateProfile(w) ==
    /\ pc[w] = "open"
    /\ draft' = [draft EXCEPT ![w] = WithProfile(draft[w], call[w])]
    /\ pc' = [pc EXCEPT ![w] = "updated"]
    /\ UNCHANGED <<tables, call, issued, answers>>

\* INSERT INTO pending_deletes
PreparedRow(r, sig) ==
    [tx |-> r.tx, prepare |-> r, R_prep |-> SignedRprep(r, sig),
     committed |-> FALSE, commit |-> NoReceipt]

\* UPDATE pending_deletes: the row is marked, and stays.
CommittedRow(r, row) == [row EXCEPT !.committed = TRUE, !.commit = r]

PendingAfter(r, sig, row) ==
    IF r.op = "delete" THEN PreparedRow(r, sig)
    ELSE IF r.op = "commit-delete" THEN CommittedRow(r, row)
    ELSE row

\* _insert_receipt, and the pending_deletes row of a deletion.
WithOutcome(t, r, sig) ==
    [profiles |-> t.profiles,
     receipts |-> t.receipts \cup {r},
     pending |-> [t.pending EXCEPT ![r.lph] = PendingAfter(r, sig, t.pending[r.lph])]]

RecordOutcome(w) ==
    /\ pc[w] = "updated"
    /\ call[w].op # "install"
    /\ \E sig \in Signature :
         draft' = [draft EXCEPT ![w] = WithOutcome(draft[w], call[w], sig)]
    /\ pc' = [pc EXCEPT ![w] = "recorded"]
    /\ UNCHANGED <<tables, call, issued, answers>>

Commit(w) ==
    /\ \/ pc[w] = "recorded"
       \/ pc[w] = "updated" /\ call[w].op = "install"
    /\ profiles' = draft[w].profiles
    /\ receipts' = draft[w].receipts
    /\ pending' = draft[w].pending
    /\ pc' = [pc EXCEPT ![w] = "committed"]
    /\ UNCHANGED <<call, draft, issued, answers>>

\* initialize_install reads its result back after its COMMIT, through snapshot;
\* the other calls return the response they prepared.
Respond(w) ==
    /\ pc[w] = "committed"
    /\ answers' = answers \cup {AnswerFrom(call[w], profiles, draft[w].pending)}
    /\ Finish(w)
    /\ UNCHANGED <<tables, issued>>

\* An exception before COMMIT (the hooks before_update and
\* after_update_before_commit), or the end of the process: nothing is kept.
Rollback(w) ==
    /\ InTransaction(w)
    /\ Finish(w)
    /\ UNCHANGED <<tables, issued, answers>>

\* An exception after COMMIT (the hook after_commit), a crash, or a response
\* that never arrives: everything is kept and nobody is told.
LoseAnswer(w) ==
    /\ pc[w] = "committed"
    /\ Finish(w)
    /\ UNCHANGED <<tables, issued, answers>>

\* busy_timeout: BEGIN IMMEDIATE gives up while another connection writes.
BusyTimeout(w) ==
    /\ pc[w] = "begin"
    /\ ~WriteLockFree
    /\ Finish(w)
    /\ UNCHANGED <<tables, issued, answers>>

-----------------------------------------------------------------------------
Init ==
    /\ profiles = [l \in Lph |-> NoRow]
    /\ receipts = {}
    /\ pending = [l \in Lph |-> NoPending]
    /\ pc = [w \in Worker |-> "idle"]
    /\ call = [w \in Worker |-> NoReceipt]
    /\ draft = [w \in Worker |-> NoTables]
    /\ issued = {}
    /\ answers = {}

Sign ==
    \/ \E tx \in Tx, l \in Lph, p \in Profile : SignInstall(tx, l, p)
    \/ \E tx \in Tx, op \in StateOp \cup {"delete"}, l \in Lph, p \in Profile :
         SignState(tx, op, l, p)
    \/ \E a \in answers : SignCommit(a)

\* A thread's own progress through a call.
Proceed(w) ==
    \/ Replay(w)
    \/ Reject(w)
    \/ Begin(w)
    \/ UpdateProfile(w)
    \/ RecordOutcome(w)
    \/ Commit(w)
    \/ Respond(w)
    \/ BusyTimeout(w)

Fail(w) == Rollback(w) \/ LoseAnswer(w)

Next ==
    \/ Sign
    \/ \E w \in Worker, r \in issued : Start(w, r)
    \/ \E w \in Worker : Proceed(w) \/ Fail(w)

Spec == Init /\ [][Next]_vars

-----------------------------------------------------------------------------
(* Properties.                                                             *)

IsPrefixOf(s, t) ==
    /\ Len(s) <= Len(t)
    /\ \A i \in 1..Len(s) : s[i] = t[i]

TypeOK ==
    /\ profiles \in [Lph -> Row]
    /\ receipts \subseteq Receipt
    /\ pending \in [Lph -> PendingRow \cup {NoPending}]
    /\ pc \in [Worker -> {"idle", "begin", "open", "updated", "recorded", "committed"}]
    /\ call \in [Worker -> Receipt \cup {NoReceipt}]
    /\ draft \in [Worker -> Tables \cup {NoTables}]
    /\ issued \subseteq Receipt
    /\ answers \subseteq Answer

\* The columns of a Profile row agree with the chain its last_hash commits to:
\* ctr counts the links, each link is a legal transition from where the one
\* before it led, and state is where the last one led (UPDATE lifecycle_profiles
\* in apply_state, prepare_delete and commit_delete).
ChainExplainsRow ==
    \A l \in Lph :
      LET row == profiles[l]
          h == row.last_hash
      IN  /\ Len(h) = row.ctr
          /\ row.state = IF h = <<>> THEN NotInstalled ELSE h[Len(h)].st_new
          /\ \A i \in 1..Len(h) :
               /\ h[i].lph = l
               /\ h[i].ctr_new = i
               /\ Legal(h[i].op, h[i].st_old, h[i].st_new)
               /\ h[i].st_old = IF i = 1 THEN NotInstalled ELSE h[i-1].st_new

\* Two receipts signed on the same predecessor, or one receipt handed in twice
\* by two threads, never both take effect: every receipt the table holds as
\* accepted lies on the one chain its Profile has.
NoFork == \A r \in receipts : IsPrefixOf(NewHash(r), profiles[r.lph].last_hash)

\* What a caller was told happened is never undone by a later call, a rollback
\* or a concurrent transaction.
AcknowledgedIsDurable ==
    \A a \in answers : IsPrefixOf(a.last_hash, profiles[a.receipt.lph].last_hash)

\* Every answer to the same receipt is the same, the signed R_prep included: a
\* caller that lost the response and asks again learns what it would have learnt.
\* Only install reports the row as it is when asked.
RetryAnswersAlike ==
    \A a, b \in answers :
      a.receipt = b.receipt /\ a.receipt.op # "install" => a = b

\* The receipt at the head of a chain can be handed in again and is answered,
\* whatever failed after its COMMIT.
HeadReceiptReplays ==
    \A r \in issued : RowOf(r).last_hash = NewHash(r) => IsReplay(r)

\* pending_deletes and lifecycle_profiles agree: a Profile is pending-delete
\* exactly while its deletion is prepared and not committed, and then the stored
\* R_prep speaks of the row as it is.
PendingTracksRow ==
    \A l \in Lph :
      LET row == profiles[l]
          p == pending[l]
      IN  /\ row.state = PendingDelete <=> p # NoPending /\ ~p.committed
          /\ row.state = Tombstone => p # NoPending
          /\ row.state = PendingDelete =>
               /\ p.R_prep.tx = p.tx
               /\ p.R_prep.ctr_pending = row.ctr
               /\ p.R_prep.last_hash_pending = row.last_hash

\* A deletion interrupted after prepare can always be finished: the prepare
\* receipt still fetches the R_prep, and the commit receipt made from it and the
\* row passes every check of commit_delete.
PreparedDeleteRecovers ==
    \A l \in Lph :
      profiles[l].state = PendingDelete =>
        LET p == pending[l]
        IN  /\ IsReplay(p.prepare)
            /\ CommitDeleteAdmits(CommitReceipt(p.tx, l, p.prepare.prof, p.R_prep))

\* One chain serves one Profile: no receipt of a session authenticated for
\* another (pid_h, salt_p) ever entered it.
OneProfilePerChain == \A r \in receipts : r.prof = profiles[r.lph].prof

\* The history of a Profile: the operations and sessions its last_hash covers.
Told(h) == [i \in 1..Len(h) |-> [op |-> h[i].op, tx |-> h[i].tx]]
Histories == [l \in Lph |-> Told(profiles[l].last_hash)]

\* The repository keeps the promise of LifecyclePromise: under this mapping every
\* COMMIT is one accepted operation, and nothing else touches a history.
Promise == INSTANCE LifecyclePromise WITH history <- Histories
KeepsPromise == Promise!Spec

\* README_AURA_INTEGRATION.md:66: a Profile that is installed, enabled or
\* disabled can be deleted; a delete receipt signed on its row as it is, by a
\* session of its own Profile, is admitted.
LiveProfileDeletable ==
    \A l \in Lph, tx \in Tx :
      profiles[l].state \in {Installed, Enabled, Disabled} =>
        PrepareDeleteAdmits(StateReceipt("delete", tx, l, profiles[l].prof))
=============================================================================
