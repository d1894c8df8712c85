--------------------- MODULE LifecycleRepositoryProofs ----------------------
(***************************************************************************)
(* Proofs about LifecycleRepository, for every set of Profiles, sessions,  *)
(* threads and signature values.                                           *)
(*                                                                         *)
(* TxInv says what an open transaction has done so far; it makes Commit    *)
(* the only step that matters to the tables, and CommitEffect says what    *)
(* that step does.  The later invariants use nothing else about calls.     *)
(*                                                                         *)
(* RetryInv, of what a caller meets that asks again, says where the        *)
(* receipt at the head of a chain is on file, and whose it is.  A receipt  *)
(* with the same hash is that receipt, since a session signs one.          *)
(***************************************************************************)
EXTENDS LifecycleRepository, SequenceTheorems, TLAPS

-----------------------------------------------------------------------------
(* Receipts and their links.                                               *)

LEMMA LinkType ==
  ASSUME NEW r \in Receipt
  PROVE  /\ LinkOf(r) \in Link
         /\ NewHash(r) \in Hash
         /\ Len(NewHash(r)) = Len(r.last_hash_old) + 1
         /\ NewHash(r)[Len(NewHash(r))] = LinkOf(r)
         /\ \A i \in 1..Len(r.last_hash_old) : NewHash(r)[i] = r.last_hash_old[i]
<1>1. LinkOf(r) \in Link
  BY DEF LinkOf, Link, Receipt
<1>2. r.last_hash_old \in Seq(Link)
  BY DEF Receipt, Hash
<1> QED
  BY <1>1, <1>2 DEF NewHash, Hash

LEMMA PrefixReflexive == ASSUME NEW s \in Hash PROVE IsPrefixOf(s, s)
  BY DEF IsPrefixOf, Hash

LEMMA PrefixTransitive ==
  ASSUME NEW s \in Hash, NEW t \in Hash, NEW u \in Hash,
         IsPrefixOf(s, t), IsPrefixOf(t, u)
  PROVE  IsPrefixOf(s, u)
  BY DEF IsPrefixOf, Hash

LEMMA PrefixNewHash ==
  ASSUME NEW r \in Receipt PROVE IsPrefixOf(r.last_hash_old, NewHash(r))
<1>1. r.last_hash_old \in Seq(Link)
  BY DEF Receipt, Hash
<1> QED
  BY <1>1, LinkType DEF IsPrefixOf

-----------------------------------------------------------------------------
(* What an open transaction has done.                                      *)

Written(w) ==
  [profiles EXCEPT ![call[w].lph] = RowAfter(call[w], profiles[call[w].lph])]
Noted(w, sig) ==
  [pending EXCEPT ![call[w].lph] = PendingAfter(call[w], sig, pending[call[w].lph])]

OneWriter ==
  \A v, w \in Worker : InTransaction(v) /\ InTransaction(w) => v = w

TransactionOK(w) ==
  /\ pc[w] # "idle" => call[w] \in issued
  /\ InTransaction(w) => Admits(call[w])
  /\ pc[w] = "open" =>
       draft[w] = [profiles |-> profiles, receipts |-> receipts, pending |-> pending]
  /\ pc[w] = "updated" =>
       draft[w] = [profiles |-> Written(w), receipts |-> receipts, pending |-> pending]
  /\ pc[w] = "recorded" =>
       /\ call[w].op # "install"
       /\ \E sig \in Signature :
            draft[w] = [profiles |-> Written(w), receipts |-> receipts \cup {call[w]},
                        pending |-> Noted(w, sig)]
  /\ pc[w] = "committed" =>
       /\ draft[w] \in Tables
       /\ call[w].op = "delete" => draft[w].pending[call[w].lph] \in PendingRow

InstallsWellSigned ==
  \A r \in issued :
    r.op = "install" =>
      /\ r.st_old = NotInstalled
      /\ r.st_new = Installed
      /\ r.ctr_new = 1
      /\ r.last_hash_old = <<>>

TxInv ==
  /\ TypeOK
  /\ OneWriter
  /\ InstallsWellSigned
  /\ \A w \in Worker : TransactionOK(w)

\* The rows a transaction writes are rows.
LEMMA RowAfterType ==
  ASSUME NEW r \in Receipt, NEW row \in Row
  PROVE  RowAfter(r, row) \in Row
<1>1. NewHash(r) \in Hash
  BY LinkType
<1>2. /\ r.st_new \in State /\ r.ctr_new \in Nat
      /\ r.prof \in Profile /\ r.tx \in Tx
  BY DEF Receipt
<1>3. InsertedRow(r) \in Row
  BY <1>1, <1>2 DEF InsertedRow, Row, Installed, State
<1>4. UpdatedRow(r, row) \in Row
  BY <1>1, <1>2 DEF UpdatedRow, Row
<1> QED
  BY <1>3, <1>4 DEF RowAfter

LEMMA PendingAfterType ==
  ASSUME NEW r \in Receipt, NEW sig \in Signature, NEW row \in PendingRow \cup {NoPending},
         r.op = "commit-delete" => row \in PendingRow
  PROVE  /\ PendingAfter(r, sig, row) \in PendingRow \cup {NoPending}
         /\ r.op = "delete" => PendingAfter(r, sig, row) \in PendingRow
<1>1. NewHash(r) \in Hash /\ r.ctr_new \in Nat /\ r.tx \in Tx
  BY LinkType DEF Receipt
<1>2. SignedRprep(r, sig) \in Rprep
  BY <1>1 DEF SignedRprep, Rprep
<1>3. PreparedRow(r, sig) \in PendingRow
  BY <1>1, <1>2 DEF PreparedRow, PendingRow
<1>4. r.op = "commit-delete" => CommittedRow(r, row) \in PendingRow
  BY DEF CommittedRow, PendingRow
<1> QED
  BY <1>3, <1>4 DEF PendingAfter

\* The tables as an admitted call leaves them are tables.
LEMMA EffectType ==
  ASSUME NEW r \in Receipt, NEW sig \in Signature, Admits(r), TypeOK
  PROVE  /\ [profiles EXCEPT ![r.lph] = RowAfter(r, profiles[r.lph])] \in [Lph -> Row]
         /\ [pending EXCEPT ![r.lph] = PendingAfter(r, sig, pending[r.lph])]
              \in [Lph -> PendingRow \cup {NoPending}]
         /\ r.op = "delete" => PendingAfter(r, sig, pending[r.lph]) \in PendingRow
<1>1. r.lph \in Lph
  BY DEF Receipt
<1>2. profiles \in [Lph -> Row] /\ pending \in [Lph -> PendingRow \cup {NoPending}]
  BY DEF TypeOK
<1>3. RowAfter(r, profiles[r.lph]) \in Row
  BY <1>1, <1>2, RowAfterType
<1>4. r.op = "commit-delete" => pending[r.lph] \in PendingRow
  BY <1>1, <1>2 DEF Admits, InstallAdmits, ApplyStateAdmits, PrepareDeleteAdmits,
     CommitDeleteAdmits, StateOp
<1>5. /\ PendingAfter(r, sig, pending[r.lph]) \in PendingRow \cup {NoPending}
      /\ r.op = "delete" => PendingAfter(r, sig, pending[r.lph]) \in PendingRow
  BY <1>1, <1>2, <1>4, PendingAfterType
<1> QED
  BY <1>1, <1>2, <1>3, <1>5

\* A step that leaves the tables alone and moves at most thread w leaves the other
\* threads' transactions in order.
LEMMA OthersUndisturbed ==
  ASSUME TxInv, NEW w \in Worker, UNCHANGED tables, issued \subseteq issued',
         \A v \in Worker \ {w} : pc'[v] = pc[v] /\ call'[v] = call[v] /\ draft'[v] = draft[v]
  PROVE  \A v \in Worker \ {w} : TransactionOK(v)'
<1> SUFFICES ASSUME NEW v \in Worker \ {w}
             PROVE  TransactionOK(v)'
  OBVIOUS
<1>1. TransactionOK(v)
  BY DEF TxInv
<1>2. profiles' = profiles /\ receipts' = receipts /\ pending' = pending
  BY DEF tables
<1>3. Admits(call[v]) => Admits(call[v])'
  BY <1>2 DEF Admits, InstallAdmits, ApplyStateAdmits, PrepareDeleteAdmits,
     CommitDeleteAdmits, IsSuccessor, RowOf
<1>4. Written(v)' = Written(v) /\ \A sig : Noted(v, sig)' = Noted(v, sig)
  BY <1>2 DEF Written, Noted
<1> QED
  BY <1>1, <1>2, <1>3, <1>4 DEF TransactionOK, InTransaction

LEMMA TxInvInit == Init => TxInv
<1> SUFFICES ASSUME Init PROVE TxInv
  OBVIOUS
<1>1. NoRow \in Row
  BY EmptySeq DEF NoRow, Row, State, NotInstalled, Hash
<1>2. TypeOK
  BY <1>1 DEF Init, TypeOK
<1>3. OneWriter /\ InstallsWellSigned /\ \A w \in Worker : TransactionOK(w)
  BY DEF Init, OneWriter, InTransaction, InstallsWellSigned, TransactionOK
<1> QED
  BY <1>2, <1>3 DEF TxInv

\* Whatever ends a call without writing: only the thread and what callers know change.
LEMMA FinishKeeps ==
  ASSUME TxInv, NEW w \in Worker, Finish(w), UNCHANGED <<tables, issued>>,
         answers' \subseteq Answer
  PROVE  TxInv'
<1>1. profiles' = profiles /\ receipts' = receipts /\ pending' = pending /\ issued' = issued
  BY DEF tables
<1>2. TypeOK'
  BY <1>1 DEF TxInv, TypeOK, Finish
<1>3. /\ pc'[w] = "idle"
      /\ \A v \in Worker \ {w} :
           pc'[v] = pc[v] /\ call'[v] = call[v] /\ draft'[v] = draft[v]
  BY DEF TxInv, TypeOK, Finish
<1>4. OneWriter'
  BY <1>3 DEF TxInv, OneWriter, InTransaction
<1>5. InstallsWellSigned'
  BY <1>1 DEF TxInv, InstallsWellSigned
<1>6. TransactionOK(w)'
  BY <1>3 DEF TransactionOK, InTransaction
<1>7. \A v \in Worker \ {w} : TransactionOK(v)'
  BY <1>1, <1>3, OthersUndisturbed
<1> QED
  BY <1>2, <1>4, <1>5, <1>6, <1>7 DEF TxInv

\* Signing a receipt changes nothing the repository knows.
LEMMA SignKeeps ==
  ASSUME TxInv, NEW r \in Receipt, issued' = issued \cup {r},
         UNCHANGED <<tables, pc, call, draft, answers>>,
         r.op = "install" =>
           r.st_old = NotInstalled /\ r.st_new = Installed /\ r.ctr_new = 1 /\ r.last_hash_old = <<>>
  PROVE  TxInv'
<1>1. TypeOK'
  BY DEF TxInv, TypeOK, tables
<1>2. OneWriter'
  BY DEF TxInv, OneWriter, InTransaction
<1>3. InstallsWellSigned'
  BY DEF TxInv, InstallsWellSigned
<1>4. ASSUME NEW v \in Worker PROVE TransactionOK(v)'
  <2>1. TransactionOK(v)
    BY DEF TxInv
  <2>2. profiles' = profiles /\ receipts' = receipts /\ pending' = pending
    BY DEF tables
  <2>3. Admits(call[v]) => Admits(call[v])'
    BY <2>2 DEF Admits, InstallAdmits, ApplyStateAdmits, PrepareDeleteAdmits,
       CommitDeleteAdmits, IsSuccessor, RowOf
  <2>4. Written(v)' = Written(v) /\ \A sig : Noted(v, sig)' = Noted(v, sig)
    BY <2>2 DEF Written, Noted
  <2> QED
    BY <2>1, <2>2, <2>3, <2>4 DEF TransactionOK, InTransaction
<1> QED
  BY <1>1, <1>2, <1>3, <1>4 DEF TxInv

LEMMA SignInstallKeeps ==
  ASSUME TxInv, NEW tx \in Tx, NEW l \in Lph, NEW p \in Profile, SignInstall(tx, l, p)
  PROVE  TxInv'
<1>1. InstallReceipt(tx, l, p) \in Receipt
  BY EmptySeq DEF InstallReceipt, Receipt, Op, State, NotInstalled, Installed, Hash
<1> QED
  BY <1>1, SignKeeps DEF SignInstall, InstallReceipt

LEMMA SignStateKeeps ==
  ASSUME TxInv, NEW tx \in Tx, NEW op \in StateOp \cup {"delete"}, NEW l \in Lph,
         NEW p \in Profile, SignState(tx, op, l, p)
  PROVE  TxInv'
<1>1. profiles[l] \in Row
  BY DEF TxInv, TypeOK
<1>2. StateReceipt(op, tx, l, p) \in Receipt
  BY <1>1 DEF StateReceipt, Receipt, Row, Op, State, Target, Enabled, Disabled,
     PendingDelete, Tombstone, Installed
<1> QED
  BY <1>2, SignKeeps DEF SignState, StateReceipt, StateOp

LEMMA SignCommitKeeps ==
  ASSUME TxInv, NEW a \in answers, SignCommit(a)
  PROVE  TxInv'
<1>1. a \in Answer
  BY DEF TxInv, TypeOK
<1>2. a.receipt \in Receipt /\ a.R_prep \in Rprep \cup {NoRprep}
  BY <1>1 DEF Answer
<1>3. a.receipt.lph \in Lph /\ a.receipt.tx \in Tx /\ a.receipt.prof \in Profile
  BY <1>2 DEF Receipt
<1>4. profiles[a.receipt.lph] \in Row
  BY <1>3 DEF TxInv, TypeOK
<1> DEFINE r == CommitReceipt(a.receipt.tx, a.receipt.lph, a.receipt.prof, a.R_prep)
<1>5. r \in Receipt /\ r.op = "commit-delete"
  BY <1>2, <1>3, <1>4 DEF CommitReceipt, Receipt, Row, Op, State, PendingDelete, Tombstone
<1> QED
  BY <1>5, SignKeeps DEF SignCommit

LEMMA StartKeeps ==
  ASSUME TxInv, NEW w \in Worker, NEW r \in issued, Start(w, r)
  PROVE  TxInv'
<1>1. /\ profiles' = profiles /\ receipts' = receipts /\ pending' = pending
      /\ issued' = issued /\ answers' = answers /\ draft' = draft
      /\ pc' = [pc EXCEPT ![w] = "begin"] /\ call' = [call EXCEPT ![w] = r]
  BY DEF Start, tables
<1>2. r \in Receipt
  BY DEF TxInv, TypeOK
<1>3. TypeOK'
  BY <1>1, <1>2 DEF TxInv, TypeOK
<1>4. /\ pc'[w] = "begin" /\ call'[w] = r
      /\ \A v \in Worker \ {w} : pc'[v] = pc[v] /\ call'[v] = call[v] /\ draft'[v] = draft[v]
  BY <1>1 DEF TxInv, TypeOK
<1>5. OneWriter'
  BY <1>4 DEF TxInv, OneWriter, InTransaction
<1>6. InstallsWellSigned'
  BY <1>1 DEF TxInv, InstallsWellSigned
<1>7. TransactionOK(w)'
  BY <1>1, <1>4 DEF TransactionOK, InTransaction
<1>8. \A v \in Worker \ {w} : TransactionOK(v)'
  BY <1>1, <1>4, OthersUndisturbed DEF tables
<1> QED
  BY <1>3, <1>5, <1>6, <1>7, <1>8 DEF TxInv

\* An answer is an answer, from the tables or from a transaction's image of them.
LEMMA AnswerType ==
  ASSUME NEW r \in Receipt, NEW profs \in [Lph -> Row], NEW pend,
         r.op = "delete" => pend[r.lph] \in PendingRow
  PROVE  AnswerFrom(r, profs, pend) \in Answer
<1>1. NewHash(r) \in Hash /\ r.lph \in Lph
  BY LinkType DEF Receipt
<1>2. profs[r.lph].last_hash \in Hash
  BY <1>1 DEF Row
<1>3. r.op = "delete" => pend[r.lph].R_prep \in Rprep
  BY DEF PendingRow
<1> QED
  BY <1>1, <1>2, <1>3 DEF AnswerFrom, Answer

LEMMA ReplayKeeps ==
  ASSUME TxInv, NEW w \in Worker, Replay(w)
  PROVE  TxInv'
<1>1. call[w] \in Receipt
  BY DEF TxInv, TypeOK, TransactionOK, Replay
<1>2. call[w].op = "delete" => pending[call[w].lph] \in PendingRow
  <2>1. call[w].lph \in Lph
    BY <1>1 DEF Receipt
  <2> QED
    BY <2>1 DEF Replay, IsReplay, InstallReplays, StateReplays, PrepareReplays,
       CommitReplays, StateOp, TxInv, TypeOK
<1>3. AnswerFrom(call[w], profiles, pending) \in Answer
  BY <1>1, <1>2, AnswerType DEF TxInv, TypeOK
<1>4. answers' \subseteq Answer
  BY <1>3 DEF Replay, TxInv, TypeOK
<1> QED
  BY <1>4, FinishKeeps DEF Replay

LEMMA RespondKeeps ==
  ASSUME TxInv, NEW w \in Worker, Respond(w)
  PROVE  TxInv'
<1>1. call[w] \in Receipt
  BY DEF TxInv, TypeOK, TransactionOK, Respond
<1>2. call[w].op = "delete" => draft[w].pending[call[w].lph] \in PendingRow
  BY DEF TxInv, TransactionOK, Respond
<1>3. AnswerFrom(call[w], profiles, draft[w].pending) \in Answer
  BY <1>1, <1>2, AnswerType DEF TxInv, TypeOK
<1>4. answers' \subseteq Answer
  BY <1>3 DEF Respond, TxInv, TypeOK
<1> QED
  BY <1>4, FinishKeeps DEF Respond

\* A call that ends without an answer.
LEMMA SilentEndKeeps ==
  ASSUME TxInv, NEW w \in Worker,
         Reject(w) \/ Rollback(w) \/ LoseAnswer(w) \/ BusyTimeout(w)
  PROVE  TxInv'
<1>1. Finish(w) /\ UNCHANGED <<tables, issued, answers>>
  BY DEF Reject, Rollback, LoseAnswer, BusyTimeout
<1>2. answers' \subseteq Answer
  BY <1>1 DEF TxInv, TypeOK
<1> QED
  BY <1>1, <1>2, FinishKeeps

LEMMA BeginKeeps ==
  ASSUME TxInv, NEW w \in Worker, Begin(w)
  PROVE  TxInv'
<1>1. /\ profiles' = profiles /\ receipts' = receipts /\ pending' = pending
      /\ issued' = issued /\ answers' = answers /\ call' = call
      /\ pc' = [pc EXCEPT ![w] = "open"]
      /\ draft' = [draft EXCEPT ![w] =
           [profiles |-> profiles, receipts |-> receipts, pending |-> pending]]
  BY DEF Begin, tables
<1>2. [profiles |-> profiles, receipts |-> receipts, pending |-> pending] \in Tables
  BY DEF TxInv, TypeOK, Tables
<1>3. TypeOK'
  BY <1>1, <1>2 DEF TxInv, TypeOK
<1>4. /\ pc'[w] = "open"
      /\ draft'[w] = [profiles |-> profiles, receipts |-> receipts, pending |-> pending]
      /\ \A v \in Worker \ {w} : pc'[v] = pc[v] /\ call'[v] = call[v] /\ draft'[v] = draft[v]
  BY <1>1 DEF TxInv, TypeOK
<1>5. OneWriter'
  BY <1>4 DEF Begin, WriteLockFree, OneWriter, InTransaction
<1>6. InstallsWellSigned'
  BY <1>1 DEF TxInv, InstallsWellSigned
<1>7. TransactionOK(w)'
  <2>1. Admits(call[w])'
    BY <1>1 DEF Begin, Admits, InstallAdmits, ApplyStateAdmits, PrepareDeleteAdmits,
       CommitDeleteAdmits, IsSuccessor, RowOf
  <2>2. call[w] \in issued
    BY DEF TxInv, TransactionOK, Begin
  <2> QED
    BY <1>1, <1>4, <2>1, <2>2 DEF TransactionOK
<1>8. \A v \in Worker \ {w} : TransactionOK(v)'
  BY <1>1, <1>4, OthersUndisturbed DEF tables
<1> QED
  BY <1>3, <1>5, <1>6, <1>7, <1>8 DEF TxInv

LEMMA UpdateProfileKeeps ==
  ASSUME TxInv, NEW w \in Worker, UpdateProfile(w)
  PROVE  TxInv'
<1>1. /\ profiles' = profiles /\ receipts' = receipts /\ pending' = pending
      /\ issued' = issued /\ answers' = answers /\ call' = call
      /\ pc' = [pc EXCEPT ![w] = "updated"] /\ pc[w] = "open"
  BY DEF UpdateProfile, tables
<1>2. /\ call[w] \in Receipt /\ call[w] \in issued /\ Admits(call[w])
      /\ draft[w] = [profiles |-> profiles, receipts |-> receipts, pending |-> pending]
  BY <1>1 DEF TxInv, TypeOK, TransactionOK, InTransaction
<1>3. call[w].lph \in Lph
  BY <1>2 DEF Receipt
<1>4. draft' = [draft EXCEPT ![w] =
                  [profiles |-> Written(w), receipts |-> receipts, pending |-> pending]]
  BY <1>2 DEF UpdateProfile, WithProfile, Written
<1>5. Written(w) \in [Lph -> Row]
  <2>1. profiles[call[w].lph] \in Row /\ profiles \in [Lph -> Row]
    BY <1>3 DEF TxInv, TypeOK
  <2>2. RowAfter(call[w], profiles[call[w].lph]) \in Row
    BY <1>2, <2>1, RowAfterType
  <2> QED
    BY <2>1, <2>2 DEF Written
<1>6. [profiles |-> Written(w), receipts |-> receipts, pending |-> pending] \in Tables
  BY <1>5 DEF TxInv, TypeOK, Tables
<1>7. TypeOK'
  BY <1>1, <1>4, <1>6 DEF TxInv, TypeOK
<1>8. /\ pc'[w] = "updated"
      /\ draft'[w] = [profiles |-> Written(w), receipts |-> receipts, pending |-> pending]
      /\ \A v \in Worker \ {w} : pc'[v] = pc[v] /\ call'[v] = call[v] /\ draft'[v] = draft[v]
  BY <1>1, <1>4 DEF TxInv, TypeOK
<1>9. OneWriter'
  BY <1>1, <1>8 DEF TxInv, OneWriter, InTransaction
<1>10. InstallsWellSigned'
  BY <1>1 DEF TxInv, InstallsWellSigned
<1>11. TransactionOK(w)'
  <2>1. Admits(call[w])'
    BY <1>1, <1>2 DEF Admits, InstallAdmits, ApplyStateAdmits, PrepareDeleteAdmits,
       CommitDeleteAdmits, IsSuccessor, RowOf
  <2>2. Written(w)' = Written(w)
    BY <1>1 DEF Written
  <2> QED
    BY <1>1, <1>2, <1>8, <2>1, <2>2 DEF TransactionOK
<1>12. \A v \in Worker \ {w} : TransactionOK(v)'
  BY <1>1, <1>8, OthersUndisturbed DEF tables
<1> QED
  BY <1>7, <1>9, <1>10, <1>11, <1>12 DEF TxInv

LEMMA RecordOutcomeKeeps ==
  ASSUME TxInv, NEW w \in Worker, RecordOutcome(w)
  PROVE  TxInv'
<1>1. /\ profiles' = profiles /\ receipts' = receipts /\ pending' = pending
      /\ issued' = issued /\ answers' = answers /\ call' = call
      /\ pc' = [pc EXCEPT ![w] = "recorded"] /\ pc[w] = "updated"
      /\ call[w].op # "install"
  BY DEF RecordOutcome, tables
<1>2. /\ call[w] \in Receipt /\ call[w] \in issued /\ Admits(call[w])
      /\ draft[w] = [profiles |-> Written(w), receipts |-> receipts, pending |-> pending]
  BY <1>1 DEF TxInv, TypeOK, TransactionOK, InTransaction
<1>3. PICK sig \in Signature :
        draft' = [draft EXCEPT ![w] = WithOutcome(draft[w], call[w], sig)]
  BY DEF RecordOutcome
<1> DEFINE image == [profiles |-> Written(w), receipts |-> receipts \cup {call[w]},
                     pending |-> Noted(w, sig)]
<1>4. draft' = [draft EXCEPT ![w] = image]
  BY <1>2, <1>3 DEF WithOutcome, Noted
<1>5. image \in Tables
  BY <1>2, EffectType DEF TxInv, TypeOK, Tables, Written, Noted
<1>6. TypeOK'
  BY <1>1, <1>4, <1>5 DEF TxInv, TypeOK
<1>7. /\ pc'[w] = "recorded" /\ draft'[w] = image
      /\ \A v \in Worker \ {w} : pc'[v] = pc[v] /\ call'[v] = call[v] /\ draft'[v] = draft[v]
  BY <1>1, <1>4 DEF TxInv, TypeOK
<1>8. OneWriter'
  BY <1>1, <1>7 DEF TxInv, OneWriter, InTransaction
<1>9. InstallsWellSigned'
  BY <1>1 DEF TxInv, InstallsWellSigned
<1>10. TransactionOK(w)'
  <2>1. Admits(call[w])'
    BY <1>1, <1>2 DEF Admits, InstallAdmits, ApplyStateAdmits, PrepareDeleteAdmits,
       CommitDeleteAdmits, IsSuccessor, RowOf
  <2>2. Written(w)' = Written(w) /\ Noted(w, sig)' = Noted(w, sig)
    BY <1>1 DEF Written, Noted
  <2> QED
    BY <1>1, <1>2, <1>7, <2>1, <2>2 DEF TransactionOK
<1>11. \A v \in Worker \ {w} : TransactionOK(v)'
  BY <1>1, <1>7, OthersUndisturbed DEF tables
<1> QED
  BY <1>6, <1>8, <1>9, <1>10, <1>11 DEF TxInv

\* What COMMIT makes of the tables, in terms of the tables before the call: the
\* Profile's row is rewritten by an admitted receipt and nothing else moves.
LEMMA CommitEffect ==
  ASSUME TxInv, NEW w \in Worker, Commit(w)
  PROVE  /\ call[w] \in Receipt /\ call[w] \in issued /\ Admits(call[w])
         /\ profiles' = Written(w)
         /\ receipts' = IF call[w].op = "install" THEN receipts
                        ELSE receipts \cup {call[w]}
         /\ IF call[w].op = "install" THEN pending' = pending
            ELSE \E sig \in Signature : pending' = Noted(w, sig)
<1>1. /\ profiles' = draft[w].profiles /\ receipts' = draft[w].receipts
      /\ pending' = draft[w].pending
      /\ pc[w] \in {"updated", "recorded"}
      /\ pc[w] = "updated" => call[w].op = "install"
  BY DEF Commit
<1>2. TransactionOK(w)
  BY DEF TxInv
<1>3. call[w] \in Receipt /\ call[w] \in issued /\ Admits(call[w])
  BY <1>1, <1>2 DEF TxInv, TypeOK, TransactionOK, InTransaction
<1>4. CASE pc[w] = "updated"
  BY <1>1, <1>2, <1>3, <1>4 DEF TransactionOK
<1>5. CASE pc[w] = "recorded"
  <2>1. PICK sig \in Signature :
          draft[w] = [profiles |-> Written(w), receipts |-> receipts \cup {call[w]},
                      pending |-> Noted(w, sig)]
    BY <1>2, <1>5 DEF TransactionOK
  <2>2. call[w].op # "install"
    BY <1>2, <1>5 DEF TransactionOK
  <2>3. /\ profiles' = Written(w) /\ receipts' = receipts \cup {call[w]}
        /\ pending' = Noted(w, sig)
    BY <1>1, <2>1
  <2> QED
    BY <1>3, <2>2, <2>3
<1> QED
  BY <1>1, <1>4, <1>5

LEMMA CommitKeeps ==
  ASSUME TxInv, NEW w \in Worker, Commit(w)
  PROVE  TxInv'
<1>1. /\ call[w] \in Receipt /\ Admits(call[w])
      /\ profiles' = Written(w)
      /\ receipts' = IF call[w].op = "install" THEN receipts
                     ELSE receipts \cup {call[w]}
      /\ IF call[w].op = "install" THEN pending' = pending
         ELSE \E sig \in Signature : pending' = Noted(w, sig)
  BY CommitEffect
<1>2. /\ issued' = issued /\ answers' = answers /\ call' = call /\ draft' = draft
      /\ pc' = [pc EXCEPT ![w] = "committed"]
      /\ InTransaction(w)
      /\ pending' = draft[w].pending
  BY DEF Commit, InTransaction
<1>3. profiles' \in [Lph -> Row]
  <2>1. call[w].lph \in Lph
    BY <1>1 DEF Receipt
  <2>2. RowAfter(call[w], profiles[call[w].lph]) \in Row
    BY <1>1, <2>1, RowAfterType DEF TxInv, TypeOK
  <2> QED
    BY <1>1, <2>1, <2>2 DEF Written, TxInv, TypeOK
<1>4. /\ pending' \in [Lph -> PendingRow \cup {NoPending}]
      /\ call[w].op = "delete" => pending'[call[w].lph] \in PendingRow
  <2>1. CASE call[w].op = "install"
    BY <1>1, <2>1 DEF TxInv, TypeOK
  <2>2. CASE call[w].op # "install"
    <3>1. PICK sig \in Signature : pending' = Noted(w, sig)
      BY <1>1, <2>2
    <3>2. call[w].lph \in Lph
      BY <1>1 DEF Receipt
    <3> QED
      BY <1>1, <3>1, <3>2, EffectType DEF Noted, TxInv, TypeOK
  <2> QED
    BY <2>1, <2>2
<1>5. receipts' \subseteq Receipt
  BY <1>1 DEF TxInv, TypeOK
<1>6. TypeOK'
  BY <1>2, <1>3, <1>4, <1>5 DEF TxInv, TypeOK
<1>7. /\ pc'[w] = "committed"
      /\ \A v \in Worker \ {w} : pc'[v] = pc[v]
  BY <1>2 DEF TxInv, TypeOK
<1>8. OneWriter'
  BY <1>7 DEF TxInv, OneWriter, InTransaction
<1>9. InstallsWellSigned'
  BY <1>2 DEF TxInv, InstallsWellSigned
<1>10. TransactionOK(w)'
  <2>1. draft[w] \in Tables
    <3>1. TransactionOK(w)
      BY DEF TxInv
    <3>2. CASE pc[w] = "updated"
      <4>1. call[w].op = "install" /\ Written(w) \in [Lph -> Row]
        BY <1>1, <1>3, <3>2 DEF Commit
      <4> QED
        BY <3>1, <3>2, <4>1 DEF TransactionOK, Tables, TxInv, TypeOK
    <3>3. CASE pc[w] = "recorded"
      <4>1. PICK sig \in Signature :
              draft[w] = [profiles |-> Written(w), receipts |-> receipts \cup {call[w]},
                          pending |-> Noted(w, sig)]
        BY <3>1, <3>3 DEF TransactionOK
      <4> QED
        BY <1>1, <1>2, <1>3, <1>4, <4>1 DEF Tables, TxInv, TypeOK
    <3> QED
      BY <3>2, <3>3 DEF Commit
  <2>2. call[w] \in issued
    BY CommitEffect
  <2> QED
    BY <1>2, <1>4, <1>7, <2>1, <2>2 DEF TransactionOK, InTransaction
<1>11. ASSUME NEW v \in Worker \ {w} PROVE TransactionOK(v)'
  <2>1. TransactionOK(v) /\ ~InTransaction(v)
    BY <1>2 DEF TxInv, OneWriter
  <2>2. pc'[v] = pc[v] /\ call'[v] = call[v] /\ draft'[v] = draft[v]
    BY <1>2, <1>7
  <2> QED
    BY <1>2, <2>1, <2>2 DEF TransactionOK, InTransaction
<1> QED
  BY <1>6, <1>8, <1>9, <1>10, <1>11 DEF TxInv

LEMMA TxInvStep == TxInv /\ [Next]_vars => TxInv'
<1> SUFFICES ASSUME TxInv, [Next]_vars PROVE TxInv'
  OBVIOUS
<1>1. CASE Sign
  BY <1>1, SignInstallKeeps, SignStateKeeps, SignCommitKeeps DEF Sign
<1>2. CASE \E w \in Worker, r \in issued : Start(w, r)
  BY <1>2, StartKeeps
<1>3. ASSUME NEW w \in Worker, Proceed(w) PROVE TxInv'
  BY <1>3, ReplayKeeps, SilentEndKeeps, BeginKeeps, UpdateProfileKeeps,
     RecordOutcomeKeeps, CommitKeeps, RespondKeeps DEF Proceed
<1>4. ASSUME NEW w \in Worker, Fail(w) PROVE TxInv'
  BY <1>4, SilentEndKeeps DEF Fail
<1>5. CASE UNCHANGED vars
  <2>1. UNCHANGED <<tables, pc, call, draft, issued, answers>>
    BY <1>5 DEF vars, tables
  <2> QED
    BY <2>1 DEF TxInv, TypeOK, OneWriter, InstallsWellSigned, TransactionOK, InTransaction,
       Written, Noted, Admits, InstallAdmits, ApplyStateAdmits, PrepareDeleteAdmits,
       CommitDeleteAdmits, IsSuccessor, RowOf, tables
<1> QED
  BY <1>1, <1>2, <1>3, <1>4, <1>5 DEF Next

THEOREM TransactionsWellFormed == Spec => []TxInv
<1> QED
  BY TxInvInit, TxInvStep, PTL DEF Spec

\* Every table, transaction image, receipt and answer has its type in every
\* reachable state, for any number of Profiles, sessions and threads.
THEOREM TypeCorrect == Spec => []TypeOK
<1>1. TxInv => TypeOK
  BY DEF TxInv
<1> QED
  BY <1>1, TransactionsWellFormed, PTL

-----------------------------------------------------------------------------
(* The chain.                                                              *)

LEMMA OnlyCommitWrites ==
  ASSUME [Next]_vars
  PROVE  UNCHANGED tables \/ \E w \in Worker : Commit(w)
BY DEF Next, vars, tables, Sign, SignInstall, SignState, SignCommit, Start, Proceed, Fail,
   Replay, Reject, Begin, UpdateProfile, RecordOutcome, Respond, BusyTimeout, Rollback,
   LoseAnswer

LEMMA LegalTarget ==
  ASSUME NEW op, NEW old, NEW new, Legal(op, old, new) PROVE new # NotInstalled
BY DEF Legal, NotInstalled, Installed, Enabled, Disabled, PendingDelete, Tombstone

\* The receipt a call commits is the successor of its Profile's row, and becomes
\* the head of its chain; no other Profile is touched.
LEMMA CommitExtends ==
  ASSUME TxInv, ChainExplainsRow, NEW w \in Worker, Commit(w)
  PROVE  LET r == call[w]
             old == profiles[r.lph]
             new == profiles'[r.lph]
         IN  /\ r \in Receipt /\ r.lph \in Lph
             /\ Legal(r.op, r.st_old, r.st_new)
             /\ r.st_old = old.state
             /\ r.ctr_new = old.ctr + 1
             /\ r.last_hash_old = old.last_hash
             /\ new.state = r.st_new
             /\ new.ctr = old.ctr + 1
             /\ new.last_hash = NewHash(r)
             /\ new.prof = IF r.op = "install" THEN r.prof ELSE old.prof
             /\ \A l \in Lph \ {r.lph} : profiles'[l] = profiles[l]
<1> DEFINE r == call[w]
<1> DEFINE old == profiles[r.lph]
<1>1. /\ r \in Receipt /\ r \in issued /\ Admits(r)
      /\ profiles' = [profiles EXCEPT ![r.lph] = RowAfter(r, old)]
  BY CommitEffect DEF Written
<1>2. r.lph \in Lph
  BY <1>1 DEF Receipt
<1>3. profiles \in [Lph -> Row] /\ old \in Row
  BY <1>2 DEF TxInv, TypeOK
<1>4. /\ profiles'[r.lph] = RowAfter(r, old)
      /\ \A l \in Lph \ {r.lph} : profiles'[l] = profiles[l]
  BY <1>1, <1>2, <1>3
<1>5. CASE r.op = "install"
  <2>1. /\ r.st_old = NotInstalled /\ r.st_new = Installed /\ r.ctr_new = 1
        /\ r.last_hash_old = <<>>
    BY <1>1, <1>5 DEF TxInv, InstallsWellSigned
  <2>2. old.state = NotInstalled
    BY <1>1, <1>5 DEF Admits, InstallAdmits, ApplyStateAdmits, PrepareDeleteAdmits,
       CommitDeleteAdmits, StateOp, RowOf
  <2>3. old.last_hash = <<>> /\ old.ctr = 0
    <3>1. old.last_hash \in Seq(Link)
      BY <1>3 DEF Row, Hash
    <3>2. /\ Len(old.last_hash) = old.ctr
          /\ old.state = IF old.last_hash = <<>> THEN NotInstalled
                         ELSE old.last_hash[Len(old.last_hash)].st_new
          /\ \A i \in 1..Len(old.last_hash) :
               Legal(old.last_hash[i].op, old.last_hash[i].st_old, old.last_hash[i].st_new)
      BY <1>2 DEF ChainExplainsRow
    <3>3. ASSUME old.last_hash # <<>> PROVE FALSE
      <4>1. Len(old.last_hash) \in 1..Len(old.last_hash)
        BY <3>1, <3>3, EmptySeq, LenProperties
      <4> QED
        BY <2>2, <3>2, <3>3, <4>1, LegalTarget
    <3> QED
      BY <3>1, <3>2, <3>3
  <2>4. Legal(r.op, r.st_old, r.st_new)
    BY <1>5, <2>1 DEF Legal
  <2>5. RowAfter(r, old) = InsertedRow(r)
    BY <1>5 DEF RowAfter
  <2> QED
    BY <1>1, <1>2, <1>4, <1>5, <2>1, <2>2, <2>3, <2>4, <2>5 DEF InsertedRow
<1>6. CASE r.op # "install"
  <2>1. Legal(r.op, r.st_old, r.st_new) /\ IsSuccessor(r)
    BY <1>1, <1>6 DEF Admits, InstallAdmits, ApplyStateAdmits, PrepareDeleteAdmits,
       CommitDeleteAdmits
  <2>2. RowAfter(r, old) = UpdatedRow(r, old)
    BY <1>6 DEF RowAfter
  <2>3. /\ UpdatedRow(r, old).state = r.st_new
        /\ UpdatedRow(r, old).ctr = r.ctr_new
        /\ UpdatedRow(r, old).last_hash = NewHash(r)
        /\ UpdatedRow(r, old).prof = old.prof
    BY <1>3 DEF UpdatedRow, Row
  <2> QED
    BY <1>1, <1>2, <1>4, <1>6, <2>1, <2>2, <2>3 DEF IsSuccessor, RowOf
<1> QED
  BY <1>5, <1>6

LEMMA ChainInit == Init => ChainExplainsRow
<1>1. Len(<<>>) = 0
  BY EmptySeq
<1>2. ASSUME Init, NEW l \in Lph
      PROVE  /\ profiles[l].last_hash = <<>> /\ profiles[l].ctr = 0
             /\ profiles[l].state = NotInstalled
  BY <1>2 DEF Init, NoRow
<1>3. ASSUME Init, NEW l \in Lph
      PROVE  /\ Len(profiles[l].last_hash) = 0
             /\ 1..Len(profiles[l].last_hash) = {}
  BY <1>1, <1>2, <1>3
<1> QED
  BY <1>2, <1>3 DEF ChainExplainsRow

LEMMA ChainStep == TxInv /\ ChainExplainsRow /\ [Next]_vars => ChainExplainsRow'
<1> SUFFICES ASSUME TxInv, ChainExplainsRow, [Next]_vars PROVE ChainExplainsRow'
  OBVIOUS
<1>1. CASE UNCHANGED tables
  BY <1>1 DEF ChainExplainsRow, tables
<1>2. ASSUME NEW w \in Worker, Commit(w) PROVE ChainExplainsRow'
  <2> DEFINE r == call[w]
  <2> DEFINE h == profiles[r.lph].last_hash
  <2>1. /\ r \in Receipt /\ r.lph \in Lph
        /\ Legal(r.op, r.st_old, r.st_new)
        /\ r.st_old = profiles[r.lph].state
        /\ r.ctr_new = profiles[r.lph].ctr + 1
        /\ r.last_hash_old = h
        /\ profiles'[r.lph].state = r.st_new
        /\ profiles'[r.lph].ctr = profiles[r.lph].ctr + 1
        /\ profiles'[r.lph].last_hash = NewHash(r)
        /\ \A l \in Lph \ {r.lph} : profiles'[l] = profiles[l]
    BY <1>2, CommitExtends
  <2>2. /\ Len(NewHash(r)) = Len(h) + 1
        /\ NewHash(r)[Len(NewHash(r))] = LinkOf(r)
        /\ \A i \in 1..Len(h) : NewHash(r)[i] = h[i]
        /\ NewHash(r) \in Seq(Link)
    BY <2>1, LinkType DEF Hash
  <2>3. h \in Seq(Link) /\ profiles[r.lph].ctr \in Nat
    BY <2>1 DEF TxInv, TypeOK, Row, Hash
  <2>4. /\ Len(h) = profiles[r.lph].ctr
        /\ profiles[r.lph].state = IF h = <<>> THEN NotInstalled ELSE h[Len(h)].st_new
        /\ \A i \in 1..Len(h) :
             /\ h[i].lph = r.lph
             /\ h[i].ctr_new = i
             /\ Legal(h[i].op, h[i].st_old, h[i].st_new)
             /\ h[i].st_old = IF i = 1 THEN NotInstalled ELSE h[i-1].st_new
    BY <2>1 DEF ChainExplainsRow
  <2> DEFINE n == Len(h) + 1
  <2> DEFINE g == NewHash(r)
  <2>5. /\ Len(h) \in Nat /\ n \in Nat /\ Len(g) = n /\ g # <<>> /\ g[n] = LinkOf(r)
    BY <2>2, <2>3, EmptySeq, LenProperties
  <2>6. /\ g[n].lph = r.lph /\ g[n].ctr_new = n /\ g[n].st_new = r.st_new
        /\ Legal(g[n].op, g[n].st_old, g[n].st_new)
        /\ g[n].st_old = IF n = 1 THEN NotInstalled ELSE h[n-1].st_new
    <3>1. g[n].op = r.op /\ g[n].lph = r.lph /\ g[n].ctr_new = r.ctr_new
          /\ g[n].st_new = r.st_new /\ g[n].st_old = r.st_old
      BY <2>5 DEF LinkOf
    <3>2. h = <<>> <=> n = 1
      BY <2>3, <2>5, EmptySeq, LenProperties
    <3>3. g[n].st_old = IF n = 1 THEN NotInstalled ELSE h[n-1].st_new
      <4>1. n # 1 => n - 1 = Len(h)
        BY <2>5
      <4> QED
        BY <2>1, <2>4, <3>1, <3>2, <4>1
    <3>4. g[n].ctr_new = n
      BY <2>1, <2>3, <2>4, <3>1
    <3> QED
      BY <2>1, <3>1, <3>3, <3>4
  <2>7. ASSUME NEW i \in 1..n
        PROVE  /\ g[i].lph = r.lph
               /\ g[i].ctr_new = i
               /\ Legal(g[i].op, g[i].st_old, g[i].st_new)
               /\ g[i].st_old = IF i = 1 THEN NotInstalled ELSE g[i-1].st_new
    <3>1. i \in 1..Len(h) \/ i = n
      BY <2>5
    <3>2. i # 1 => g[i-1] = h[i-1]
      BY <2>2, <2>5
    <3>3. CASE i \in 1..Len(h)
      BY <2>2, <2>4, <3>2, <3>3
    <3>4. CASE i = n
      BY <2>6, <3>2, <3>4
    <3> QED
      BY <3>1, <3>3, <3>4
  <2>8. ASSUME NEW l \in Lph, l # r.lph PROVE profiles'[l] = profiles[l]
    BY <2>1, <2>8
  <2>9. /\ Len(g) = profiles'[r.lph].ctr
        /\ profiles'[r.lph].state = g[Len(g)].st_new
    BY <2>1, <2>4, <2>5, <2>6
  <2>10. ASSUME NEW l \in Lph
         PROVE  LET row == profiles'[l]
                    c == row.last_hash
                IN  /\ Len(c) = row.ctr
                    /\ row.state = IF c = <<>> THEN NotInstalled ELSE c[Len(c)].st_new
                    /\ \A i \in 1..Len(c) :
                         /\ c[i].lph = l
                         /\ c[i].ctr_new = i
                         /\ Legal(c[i].op, c[i].st_old, c[i].st_new)
                         /\ c[i].st_old = IF i = 1 THEN NotInstalled ELSE c[i-1].st_new
    <3>1. CASE l = r.lph
      <4>1. profiles'[l].last_hash = g
        BY <2>1, <3>1
      <4> HIDE DEF g, n, r
      <4> QED
        BY <2>5, <2>7, <2>9, <3>1, <4>1
    <3>2. CASE l # r.lph
      BY <2>8, <3>2 DEF ChainExplainsRow
    <3> QED
      BY <3>1, <3>2
  <2> QED
    BY <2>10 DEF ChainExplainsRow
<1> QED
  BY <1>1, <1>2, OnlyCommitWrites

\* The columns of a Profile row are what its hash chain says, in every reachable
\* state.
THEOREM ChainAlwaysExplainsRow == Spec => []ChainExplainsRow
<1> QED
  BY ChainInit, ChainStep, TransactionsWellFormed, PTL DEF Spec

LEMMA ChainGrows ==
  ASSUME TxInv, ChainExplainsRow, [Next]_vars, NEW l \in Lph
  PROVE  IsPrefixOf(profiles[l].last_hash, profiles'[l].last_hash)
<1>1. profiles[l].last_hash \in Hash
  BY DEF TxInv, TypeOK, Row
<1>2. CASE UNCHANGED tables
  BY <1>1, <1>2, PrefixReflexive DEF tables
<1>3. ASSUME NEW w \in Worker, Commit(w)
      PROVE  IsPrefixOf(profiles[l].last_hash, profiles'[l].last_hash)
  <2>1. CASE l = call[w].lph
    <3>1. /\ call[w] \in Receipt /\ call[w].last_hash_old = profiles[l].last_hash
          /\ profiles'[l].last_hash = NewHash(call[w])
      BY <1>3, <2>1, CommitExtends
    <3> QED
      BY <3>1, PrefixNewHash
  <2>2. CASE l # call[w].lph
    <3>1. profiles'[l] = profiles[l]
      BY <1>3, <2>2, CommitExtends
    <3> QED
      BY <1>1, <3>1, PrefixReflexive
  <2> QED
    BY <2>1, <2>2
<1> QED
  BY <1>2, <1>3, OnlyCommitWrites

-----------------------------------------------------------------------------
(* No fork.                                                                *)

LEMMA NoForkStep ==
  TxInv /\ TxInv' /\ ChainExplainsRow /\ NoFork /\ [Next]_vars => NoFork'
<1> SUFFICES ASSUME TxInv, TxInv', ChainExplainsRow, NoFork, [Next]_vars,
                    NEW r \in receipts'
             PROVE  IsPrefixOf(NewHash(r), profiles'[r.lph].last_hash)
  BY DEF NoFork
<1>1. r \in Receipt /\ r.lph \in Lph /\ NewHash(r) \in Hash
  BY LinkType DEF TxInv, TypeOK, Receipt
<1>2. /\ profiles[r.lph].last_hash \in Hash /\ profiles'[r.lph].last_hash \in Hash
  BY <1>1 DEF TxInv, TypeOK, Row
<1>3. CASE r \in receipts
  <2>1. IsPrefixOf(NewHash(r), profiles[r.lph].last_hash)
    BY <1>3 DEF NoFork
  <2>2. IsPrefixOf(profiles[r.lph].last_hash, profiles'[r.lph].last_hash)
    BY <1>1, ChainGrows
  <2> QED
    BY <1>1, <1>2, <2>1, <2>2, PrefixTransitive
<1>4. CASE r \notin receipts
  <2>1. PICK w \in Worker : Commit(w)
    BY <1>4, OnlyCommitWrites DEF tables
  <2>2. r = call[w]
    BY <1>4, <2>1, CommitEffect
  <2>3. profiles'[r.lph].last_hash = NewHash(r)
    BY <2>1, <2>2, CommitExtends
  <2> QED
    BY <1>1, <2>3, PrefixReflexive
<1> QED
  BY <1>3, <1>4

\* However many callers sign on the same predecessor, and however often they hand
\* their receipts in, the accepted receipts of a Profile lie on one chain.
THEOREM NeverForks == Spec => []NoFork
<1>1. Init => NoFork
  BY DEF Init, NoFork
<1> QED
  BY <1>1, NoForkStep, TransactionsWellFormed, ChainAlwaysExplainsRow, PTL DEF Spec

-----------------------------------------------------------------------------
(* What callers are told stays true.                                       *)

CommittedInChain ==
  \A w \in Worker :
    pc[w] = "committed" => IsPrefixOf(NewHash(call[w]), profiles[call[w].lph].last_hash)

LEMMA CommittedInChainStep ==
  TxInv /\ TxInv' /\ ChainExplainsRow /\ CommittedInChain /\ [Next]_vars => CommittedInChain'
<1> SUFFICES ASSUME TxInv, TxInv', ChainExplainsRow, CommittedInChain, [Next]_vars,
                    NEW v \in Worker, pc'[v] = "committed"
             PROVE  IsPrefixOf(NewHash(call'[v]), profiles'[call'[v].lph].last_hash)
  BY DEF CommittedInChain
<1>1. call'[v] = call[v] /\ (pc[v] = "committed" \/ Commit(v))
  BY DEF Next, vars, Sign, SignInstall, SignState, SignCommit, Start, Proceed, Fail,
     Replay, Reject, Begin, UpdateProfile, RecordOutcome, Commit, Respond, BusyTimeout,
     Rollback, LoseAnswer, Finish, TxInv, TypeOK
<1>2. call[v] \in Receipt
  BY <1>1 DEF TxInv, TypeOK, TransactionOK, Commit
<1>3. call[v].lph \in Lph /\ NewHash(call[v]) \in Hash
  BY <1>2, LinkType DEF Receipt
<1>4. /\ profiles[call[v].lph].last_hash \in Hash
      /\ profiles'[call[v].lph].last_hash \in Hash
  BY <1>3 DEF TxInv, TypeOK, Row
<1>5. CASE pc[v] = "committed"
  <2>1. IsPrefixOf(NewHash(call[v]), profiles[call[v].lph].last_hash)
    BY <1>5 DEF CommittedInChain
  <2>2. IsPrefixOf(profiles[call[v].lph].last_hash, profiles'[call[v].lph].last_hash)
    BY <1>3, ChainGrows
  <2> QED
    BY <1>1, <1>3, <1>4, <2>1, <2>2, PrefixTransitive
<1>6. CASE Commit(v)
  <2>1. profiles'[call[v].lph].last_hash = NewHash(call[v])
    BY <1>6, CommitExtends
  <2> QED
    BY <1>1, <1>3, <2>1, PrefixReflexive
<1> QED
  BY <1>1, <1>5, <1>6

\* A new answer comes from a thread that found its receipt at the head of the
\* chain, or has just put it there.
LEMMA NewAnswer ==
  ASSUME [Next]_vars, NEW a \in answers', a \notin answers
  PROVE  /\ UNCHANGED tables
         /\ \E w \in Worker :
              \/ IsReplay(call[w]) /\ Replay(w) /\ a = AnswerFrom(call[w], profiles, pending)
              \/ pc[w] = "committed" /\ a = AnswerFrom(call[w], profiles, draft[w].pending)
BY DEF Next, vars, Sign, SignInstall, SignState, SignCommit, Start, Proceed, Fail,
   Replay, Reject, Begin, UpdateProfile, RecordOutcome, Commit, Respond, BusyTimeout,
   Rollback, LoseAnswer, tables

LEMMA NewAnswerInChain ==
  ASSUME TxInv, CommittedInChain, [Next]_vars, NEW a \in answers', a \notin answers
  PROVE  /\ a.receipt \in Receipt
         /\ IsPrefixOf(a.last_hash, profiles[a.receipt.lph].last_hash)
<1>1. PICK w \in Worker :
        \/ IsReplay(call[w]) /\ Replay(w) /\ a = AnswerFrom(call[w], profiles, pending)
        \/ pc[w] = "committed" /\ a = AnswerFrom(call[w], profiles, draft[w].pending)
  BY NewAnswer
<1> DEFINE r == call[w]
<1>2. r \in Receipt
  BY <1>1 DEF TxInv, TypeOK, TransactionOK, Replay
<1>3. r.lph \in Lph /\ profiles[r.lph].last_hash \in Hash
  BY <1>2 DEF Receipt, TxInv, TypeOK, Row
<1>4. /\ a.receipt = r
      /\ a.last_hash = IF r.op = "install" THEN profiles[r.lph].last_hash ELSE NewHash(r)
  BY <1>1 DEF AnswerFrom
<1>5. CASE r.op = "install"
  BY <1>2, <1>3, <1>4, <1>5, PrefixReflexive
<1>6. CASE r.op # "install" /\ IsReplay(r)
  <2>1. profiles[r.lph].last_hash = NewHash(r)
    BY <1>6 DEF IsReplay, InstallReplays, StateReplays, PrepareReplays, CommitReplays, RowOf
  <2> QED
    BY <1>2, <1>3, <1>4, <1>6, <2>1, PrefixReflexive
<1>7. CASE r.op # "install" /\ pc[w] = "committed"
  BY <1>2, <1>4, <1>7 DEF CommittedInChain
<1> QED
  BY <1>1, <1>5, <1>6, <1>7

LEMMA AcknowledgedStep ==
  TxInv /\ TxInv' /\ ChainExplainsRow /\ CommittedInChain /\ AcknowledgedIsDurable
    /\ [Next]_vars => AcknowledgedIsDurable'
<1> SUFFICES ASSUME TxInv, TxInv', ChainExplainsRow, CommittedInChain,
                    AcknowledgedIsDurable, [Next]_vars, NEW a \in answers'
             PROVE  IsPrefixOf(a.last_hash, profiles'[a.receipt.lph].last_hash)
  BY DEF AcknowledgedIsDurable
<1>1. a \in Answer
  BY DEF TxInv, TypeOK
<1>2. a.receipt \in Receipt /\ a.receipt.lph \in Lph /\ a.last_hash \in Hash
  BY <1>1 DEF Answer, Receipt
<1>3. IsPrefixOf(a.last_hash, profiles[a.receipt.lph].last_hash)
  BY NewAnswerInChain DEF AcknowledgedIsDurable
<1>4. IsPrefixOf(profiles[a.receipt.lph].last_hash, profiles'[a.receipt.lph].last_hash)
  BY <1>2, ChainGrows
<1>5. /\ profiles[a.receipt.lph].last_hash \in Hash
      /\ profiles'[a.receipt.lph].last_hash \in Hash
  BY <1>2 DEF TxInv, TypeOK, Row
<1> QED
  BY <1>2, <1>3, <1>4, <1>5, PrefixTransitive

\* What any caller was told, from a commit or from a replay, stays on the chain of
\* its Profile for good.
THEOREM AcknowledgedStaysTrue == Spec => []AcknowledgedIsDurable
<1>1. Init => CommittedInChain /\ AcknowledgedIsDurable
  BY DEF Init, CommittedInChain, AcknowledgedIsDurable
<1> QED
  BY <1>1, CommittedInChainStep, AcknowledgedStep, TransactionsWellFormed,
     ChainAlwaysExplainsRow, PTL DEF Spec

-----------------------------------------------------------------------------
(* Deletions.                                                              *)

\* What PendingTracksRow says of one Profile.
Agree(row, p) ==
  /\ row.state = PendingDelete <=> p # NoPending /\ ~p.committed
  /\ row.state = Tombstone => p # NoPending
  /\ row.state = PendingDelete =>
       /\ p.R_prep.tx = p.tx
       /\ p.R_prep.ctr_pending = row.ctr
       /\ p.R_prep.last_hash_pending = row.last_hash

LEMMA PendingStep ==
  TxInv /\ ChainExplainsRow /\ PendingTracksRow /\ [Next]_vars => PendingTracksRow'
<1> SUFFICES ASSUME TxInv, ChainExplainsRow, PendingTracksRow, [Next]_vars, NEW l \in Lph
             PROVE  Agree(profiles'[l], pending'[l])
  BY DEF PendingTracksRow, Agree
<1>1. Agree(profiles[l], pending[l])
  BY DEF PendingTracksRow, Agree
<1>2. CASE UNCHANGED tables
  BY <1>1, <1>2 DEF tables
<1>3. ASSUME NEW w \in Worker, Commit(w) PROVE Agree(profiles'[l], pending'[l])
  <2> DEFINE r == call[w]
  <2>1. /\ r \in Receipt /\ r.lph \in Lph /\ Admits(r)
        /\ Legal(r.op, r.st_old, r.st_new)
        /\ r.st_old = profiles[r.lph].state
        /\ r.ctr_new = profiles[r.lph].ctr + 1
        /\ profiles'[r.lph].state = r.st_new
        /\ profiles'[r.lph].ctr = profiles[r.lph].ctr + 1
        /\ profiles'[r.lph].last_hash = NewHash(r)
        /\ \A k \in Lph \ {r.lph} : profiles'[k] = profiles[k]
    BY <1>3, CommitExtends, CommitEffect
  <2>2. pending \in [Lph -> PendingRow \cup {NoPending}]
    BY DEF TxInv, TypeOK
  <2>3. r.op \in {"install", "delete", "commit-delete"} \cup StateOp
    BY <2>1 DEF Receipt, Op
  <2>4. CASE l # r.lph
    <3>1. pending'[l] = pending[l]
      BY <1>3, <2>2, <2>4, CommitEffect DEF Noted
    <3> QED
      BY <1>1, <2>1, <2>4, <3>1
  <2>5. CASE l = r.lph /\ r.op \in {"install"} \cup StateOp
    <3>1. pending'[l] = pending[l]
      BY <1>3, <2>2, <2>5, CommitEffect DEF Noted, PendingAfter, StateOp
    <3>2. /\ profiles[l].state # PendingDelete
          /\ profiles'[l].state # PendingDelete /\ profiles'[l].state # Tombstone
      BY <2>1, <2>5 DEF Legal, StateOp, NotInstalled, Installed, Enabled, Disabled,
         PendingDelete, Tombstone
    <3> QED
      BY <1>1, <3>1, <3>2 DEF Agree
  <2>6. CASE l = r.lph /\ r.op = "delete"
    <3>1. PICK sig \in Signature : pending'[l] = PreparedRow(r, sig)
      BY <1>3, <2>1, <2>2, <2>6, CommitEffect DEF Noted, PendingAfter
    <3>2. PreparedRow(r, sig) # NoPending
      <4>1. PendingAfter(r, sig, NoPending) \in PendingRow
        BY <2>1, <2>6, PendingAfterType
      <4> QED
        BY <2>6, <4>1, SentinelAssumption DEF PendingAfter
    <3>3. profiles'[l].state = PendingDelete /\ PendingDelete # Tombstone
      BY <2>1, <2>6 DEF Legal, PendingDelete, Tombstone
    <3> QED
      BY <2>1, <2>6, <3>1, <3>2, <3>3 DEF Agree, PreparedRow, SignedRprep
  <2>7. CASE l = r.lph /\ r.op = "commit-delete"
    <3>1. pending[l] \in PendingRow
      BY <2>1, <2>2, <2>7 DEF Admits, InstallAdmits, ApplyStateAdmits, PrepareDeleteAdmits,
         CommitDeleteAdmits, StateOp
    <3>2. pending'[l] = CommittedRow(r, pending[l])
      BY <1>3, <2>1, <2>2, <2>7, CommitEffect DEF Noted, PendingAfter
    <3>3. CommittedRow(r, pending[l]) \in PendingRow /\ CommittedRow(r, pending[l]).committed
      BY <2>1, <3>1 DEF CommittedRow, PendingRow
    <3>4. profiles'[l].state = Tombstone /\ PendingDelete # Tombstone
      BY <2>1, <2>7 DEF Legal, PendingDelete, Tombstone
    <3> QED
      BY <3>2, <3>3, <3>4, SentinelAssumption DEF Agree
  <2> QED
    BY <2>3, <2>4, <2>5, <2>6, <2>7
<1> QED
  BY <1>2, <1>3, OnlyCommitWrites

\* pending_deletes and lifecycle_profiles agree in every reachable state, whatever
\* fails between the statements that write them.
THEOREM PendingAlwaysTracksRow == Spec => []PendingTracksRow
<1>1. ASSUME Init, NEW l \in Lph
      PROVE  /\ pending[l] = NoPending
             /\ profiles[l].state # PendingDelete /\ profiles[l].state # Tombstone
  BY <1>1 DEF Init, NoRow, NotInstalled, PendingDelete, Tombstone
<1>2. ASSUME Init PROVE PendingTracksRow
  BY <1>1, <1>2 DEF PendingTracksRow
<1> QED
  BY <1>2, PendingStep, TransactionsWellFormed, ChainAlwaysExplainsRow, PTL DEF Spec

-----------------------------------------------------------------------------
(* The repository implements LifecyclePromise.                             *)

\* A pending-delete Profile was brought there by the session that pending_deletes
\* names.
DeleteOwner ==
  \A l \in Lph :
    profiles[l].state = PendingDelete =>
      /\ profiles[l].last_hash # <<>>
      /\ profiles[l].last_hash[Len(profiles[l].last_hash)].op = "delete"
      /\ profiles[l].last_hash[Len(profiles[l].last_hash)].tx = pending[l].tx

LEMMA DeleteOwnerStep ==
  TxInv /\ ChainExplainsRow /\ DeleteOwner /\ [Next]_vars => DeleteOwner'
<1> SUFFICES ASSUME TxInv, ChainExplainsRow, DeleteOwner, [Next]_vars, NEW l \in Lph,
                    profiles'[l].state = PendingDelete
             PROVE  /\ profiles'[l].last_hash # <<>>
                    /\ profiles'[l].last_hash[Len(profiles'[l].last_hash)].op = "delete"
                    /\ profiles'[l].last_hash[Len(profiles'[l].last_hash)].tx = pending'[l].tx
  BY DEF DeleteOwner
<1>1. CASE UNCHANGED tables
  BY <1>1 DEF tables, DeleteOwner
<1>2. ASSUME NEW w \in Worker, Commit(w)
      PROVE  /\ profiles'[l].last_hash # <<>>
             /\ profiles'[l].last_hash[Len(profiles'[l].last_hash)].op = "delete"
             /\ profiles'[l].last_hash[Len(profiles'[l].last_hash)].tx = pending'[l].tx
  <2> DEFINE r == call[w]
  <2>1. /\ r \in Receipt /\ r.lph \in Lph
        /\ Legal(r.op, r.st_old, r.st_new)
        /\ profiles'[r.lph].state = r.st_new
        /\ profiles'[r.lph].last_hash = NewHash(r)
        /\ \A k \in Lph \ {r.lph} : profiles'[k] = profiles[k]
    BY <1>2, CommitExtends
  <2>2. pending \in [Lph -> PendingRow \cup {NoPending}]
    BY DEF TxInv, TypeOK
  <2>3. CASE l # r.lph
    <3>1. pending'[l] = pending[l]
      BY <1>2, <2>2, <2>3, CommitEffect DEF Noted
    <3> QED
      BY <2>1, <2>3, <3>1 DEF DeleteOwner
  <2>4. CASE l = r.lph
    <3>1. r.op = "delete"
      BY <2>1, <2>4 DEF Legal, Installed, Enabled, Disabled, PendingDelete, Tombstone
    <3>2. PICK sig \in Signature : pending'[l] = PreparedRow(r, sig)
      BY <1>2, <2>1, <2>2, <2>4, <3>1, CommitEffect DEF Noted, PendingAfter
    <3>3. pending'[l].tx = r.tx
      BY <3>2 DEF PreparedRow
    <3>4. /\ NewHash(r) \in Seq(Link) /\ Len(NewHash(r)) = Len(r.last_hash_old) + 1
          /\ NewHash(r)[Len(NewHash(r))] = LinkOf(r)
      BY <2>1, LinkType DEF Hash
    <3>5. NewHash(r) # <<>>
      <4>1. r.last_hash_old \in Seq(Link)
        BY <2>1 DEF Receipt, Hash
      <4> QED
        BY <3>4, <4>1, EmptySeq, LenProperties
    <3> QED
      BY <2>1, <2>4, <3>1, <3>3, <3>4, <3>5 DEF LinkOf
  <2> QED
    BY <2>3, <2>4
<1> QED
  BY <1>1, <1>2, OnlyCommitWrites

LEMMA ToldLength ==
  ASSUME NEW h \in Seq(Link)
  PROVE  Told(h) \in Seq([op : Op, tx : Tx]) /\ Len(Told(h)) = Len(h)
<1>1. Len(h) \in Nat
  BY LenProperties
<1>2. ASSUME NEW i \in 1..Len(h) PROVE [op |-> h[i].op, tx |-> h[i].tx] \in [op : Op, tx : Tx]
  <2>1. h[i] \in Link
    BY <1>1, ElementOfSeq
  <2> QED
    BY <2>1 DEF Link
<1>3. Told(h) \in Seq([op : Op, tx : Tx])
  BY <1>1, <1>2, IsASeq DEF Told
<1> QED
  BY <1>1, <1>3, LenProperties DEF Told

LEMMA ToldAppends ==
  ASSUME NEW r \in Receipt
  PROVE  Told(NewHash(r)) = Append(Told(r.last_hash_old), [op |-> r.op, tx |-> r.tx])
<1> DEFINE h == r.last_hash_old
<1> DEFINE g == NewHash(r)
<1>1. h \in Seq(Link) /\ Len(h) \in Nat
  BY LenProperties DEF Receipt, Hash
<1>2. /\ Len(g) = Len(h) + 1 /\ g[Len(h) + 1] = LinkOf(r)
      /\ \A i \in 1..Len(h) : g[i] = h[i]
  BY LinkType
<1>3. Told(h) \in Seq([op : Op, tx : Tx]) /\ Len(Told(h)) = Len(h)
  BY <1>1, ToldLength
<1> QED
  BY <1>1, <1>2, <1>3 DEF Told, LinkOf


LEMMA PromiseInit == Init => Promise!Init
<1> SUFFICES ASSUME Init PROVE \A l \in Lph : Histories[l] = <<>>
  BY DEF Promise!Init, Histories
<1>1. ASSUME NEW l \in Lph PROVE Told(profiles[l].last_hash) = <<>>
  <2>1. profiles[l].last_hash = <<>>
    BY DEF Init, NoRow
  <2>2. Len(<<>>) = 0
    BY EmptySeq
  <2>3. Told(<<>>) = <<>>
    BY <2>2 DEF Told
  <2> QED
    BY <2>1, <2>3
<1> QED
  BY <1>1 DEF Histories

\* The state a history leads to is the state of the row it is read from.
LEMMA ToldState ==
  ASSUME TxInv, ChainExplainsRow, NEW l \in Lph
  PROVE  Promise!StateAfter(Histories[l]) = profiles[l].state
<1> DEFINE h == profiles[l].last_hash
<1>1. h \in Seq(Link) /\ Len(h) \in Nat
  BY LenProperties DEF TxInv, TypeOK, Row, Hash
<1>2. /\ profiles[l].state = IF h = <<>> THEN NotInstalled ELSE h[Len(h)].st_new
      /\ \A i \in 1..Len(h) : Legal(h[i].op, h[i].st_old, h[i].st_new)
  BY DEF ChainExplainsRow
<1>3. Histories[l] = Told(h)
  BY DEF Histories
<1>4. CASE h = <<>>
  <2>1. Told(h) = <<>>
    <3>1. Len(<<>>) = 0
      BY EmptySeq
    <3> QED
      BY <1>4, <3>1 DEF Told
  <2> QED
    BY <1>2, <1>3, <1>4, <2>1 DEF Promise!StateAfter, Promise!NotInstalled, NotInstalled
<1>5. CASE h # <<>>
  <2>1. Len(h) \in 1..Len(h)
    BY <1>1, <1>5, EmptySeq, LenProperties
  <2>2. Told(h) # <<>> /\ Len(Told(h)) = Len(h) /\ Told(h)[Len(h)].op = h[Len(h)].op
    <3>1. DOMAIN Told(h) = 1..Len(h) /\ Told(h)[Len(h)] = [op |-> h[Len(h)].op, tx |-> h[Len(h)].tx]
      BY <2>1 DEF Told
    <3>4. Told(h) \in Seq([op : Op, tx : Tx]) /\ Len(Told(h)) = Len(h)
      BY <1>1, ToldLength
    <3> QED
      BY <2>1, <3>1, <3>4, EmptySeq
  <2>3. h[Len(h)] \in Link
    BY <1>1, <2>1, ElementOfSeq
  <2>4. h[Len(h)].op \in Op /\ Legal(h[Len(h)].op, h[Len(h)].st_old, h[Len(h)].st_new)
    BY <1>2, <2>1, <2>3 DEF Link
  <2>5. Promise!Target[h[Len(h)].op] = h[Len(h)].st_new
    BY <2>4 DEF Legal, Promise!Target, Promise!Op, Op, StateOp, Installed, Enabled, Disabled,
       PendingDelete, Tombstone, Promise!Installed, Promise!Enabled, Promise!Disabled,
       Promise!PendingDelete, Promise!Tombstone
  <2> QED
    BY <1>2, <1>3, <1>5, <2>2, <2>5 DEF Promise!StateAfter
<1> QED
  BY <1>4, <1>5

LEMMA PromiseStep ==
  TxInv /\ ChainExplainsRow /\ DeleteOwner /\ [Next]_vars => [Promise!Next]_Histories
<1> SUFFICES ASSUME TxInv, ChainExplainsRow, DeleteOwner, [Next]_vars
             PROVE  Promise!Next \/ UNCHANGED Histories
  OBVIOUS
<1>1. CASE UNCHANGED tables
  BY <1>1 DEF tables, Histories
<1>2. ASSUME NEW w \in Worker, Commit(w) PROVE Promise!Next
  <2> DEFINE r == call[w]
  <2> DEFINE e == [op |-> r.op, tx |-> r.tx]
  <2>1. /\ r \in Receipt /\ r.lph \in Lph /\ Admits(r)
        /\ Legal(r.op, r.st_old, r.st_new)
        /\ r.st_old = profiles[r.lph].state
        /\ r.last_hash_old = profiles[r.lph].last_hash
        /\ profiles'[r.lph].last_hash = NewHash(r)
        /\ \A k \in Lph \ {r.lph} : profiles'[k] = profiles[k]
    BY <1>2, CommitExtends, CommitEffect
  <2>2. r.op \in Op /\ r.tx \in Tx /\ e \in Promise!Entry
    BY <2>1 DEF Receipt, Promise!Entry, Promise!Op, Op, StateOp
  <2>3. <<Promise!StateAfter(Histories[r.lph]), Promise!Target[e.op]>>
          \in Promise!LegalTransitions[e.op]
    <3>1. Promise!StateAfter(Histories[r.lph]) = r.st_old
      BY <2>1, ToldState
    <3>2. Promise!Target[r.op] = r.st_new
      BY <2>1, <2>2 DEF Legal, Promise!Target, Promise!Op, Op, StateOp, Installed, Enabled,
         Disabled, PendingDelete, Tombstone, Promise!Installed, Promise!Enabled,
         Promise!Disabled, Promise!PendingDelete, Promise!Tombstone
    <3>3. <<r.st_old, r.st_new>> \in Promise!LegalTransitions[r.op]
      BY <2>1, <2>2 DEF Legal, Promise!LegalTransitions, Promise!Op, Op, StateOp, NotInstalled,
         Installed, Enabled, Disabled, PendingDelete, Tombstone, Promise!NotInstalled,
         Promise!Installed, Promise!Enabled, Promise!Disabled, Promise!PendingDelete,
         Promise!Tombstone
    <3> QED
      BY <3>1, <3>2, <3>3
  <2>4. e.op = "commit-delete" =>
          Histories[r.lph][Len(Histories[r.lph])] = [op |-> "delete", tx |-> e.tx]
    <3> SUFFICES ASSUME r.op = "commit-delete"
                 PROVE  Histories[r.lph][Len(Histories[r.lph])] = [op |-> "delete", tx |-> r.tx]
      OBVIOUS
    <3> DEFINE h == profiles[r.lph].last_hash
    <3>1. profiles[r.lph].state = PendingDelete
      BY <2>1 DEF Legal
    <3>2. pending[r.lph].tx = r.tx
      BY <2>1 DEF Admits, InstallAdmits, ApplyStateAdmits, PrepareDeleteAdmits,
         CommitDeleteAdmits, StateOp
    <3>3. h # <<>> /\ h[Len(h)].op = "delete" /\ h[Len(h)].tx = r.tx
      BY <2>1, <3>1, <3>2 DEF DeleteOwner
    <3>4. h \in Seq(Link) /\ Len(h) \in Nat
      BY <2>1, LenProperties DEF TxInv, TypeOK, Row, Hash
    <3>5. Len(h) \in 1..Len(h)
      BY <3>3, <3>4, EmptySeq, LenProperties
    <3>6. Histories[r.lph] = Told(h) /\ Len(Told(h)) = Len(h)
      BY <2>1, <3>4, ToldLength DEF Histories
    <3> QED
      BY <3>3, <3>5, <3>6 DEF Told
  <2>5. Histories' = [Histories EXCEPT ![r.lph] = Append(@, e)]
    <3>1. Told(NewHash(r)) = Append(Told(r.last_hash_old), e)
      BY <2>1, ToldAppends
    <3>2. \A k \in Lph : Histories'[k] = IF k = r.lph THEN Append(Histories[k], e) ELSE Histories[k]
      BY <2>1, <3>1 DEF Histories
    <3> QED
      BY <2>1, <3>2 DEF Histories
  <2>6. Promise!Accept(r.lph, e)
    BY <2>3, <2>4, <2>5 DEF Promise!Accept
  <2> QED
    BY <2>1, <2>2, <2>6 DEF Promise!Next
<1> QED
  BY <1>1, <1>2, OnlyCommitWrites

\* The repository, with its transactions, failures and retries, implements
\* LifecyclePromise.
THEOREM PromiseKept == Spec => KeepsPromise
<1>1. Init => DeleteOwner
  BY DEF Init, DeleteOwner, NoRow, NotInstalled, PendingDelete
<1> QED
  BY <1>1, PromiseInit, PromiseStep, DeleteOwnerStep, TransactionsWellFormed,
     ChainAlwaysExplainsRow, PTL DEF Spec, KeepsPromise, Promise!Spec
-----------------------------------------------------------------------------
(* What a caller meets that asks again.                                    *)


\* A session signs one receipt, and one more for the commit.
SignedOnce ==
  \A r, s \in issued :
    r.tx = s.tx /\ (r.op = "commit-delete" <=> s.op = "commit-delete") => r = s

CommitsFollow ==
  \A r \in issued :
    r.op = "commit-delete" =>
      \E s \in issued : s.op = "delete" /\ s.tx = r.tx /\ s.lph = r.lph /\ s.prof = r.prof

\* The row of pending_deletes holds this prepare and its R_prep, committed or not.
Prepared(rows, r, rprep) ==
  /\ rows[r.lph] # NoPending
  /\ rows[r.lph].prepare = r
  /\ rows[r.lph].R_prep = rprep

\* What callers were told, and what a thread past its COMMIT will tell.
AnswersKept ==
  \A a \in answers :
    /\ a.receipt \in issued
    /\ a.receipt.op # "install" => a.last_hash = NewHash(a.receipt)
    /\ a.receipt.op = "delete" => Prepared(pending, a.receipt, a.R_prep)
    /\ a.receipt.op # "delete" => a.R_prep = NoRprep

DraftsKept ==
  \A w \in Worker :
    pc[w] = "committed" /\ call[w].op = "delete" =>
      Prepared(pending, call[w], draft[w].pending[call[w].lph].R_prep)

PreparesOnFile ==
  \A l \in Lph :
    pending[l] # NoPending =>
      /\ pending[l].prepare \in receipts
      /\ pending[l].prepare.op = "delete"
      /\ pending[l].prepare.lph = l
      /\ pending[l].prepare.tx = pending[l].tx

\* The receipt r is the last one that took effect on its Profile.
OnFile(r) ==
  LET row == profiles[r.lph]
      p == pending[r.lph]
  IN  /\ row.last_hash = NewHash(r)
      /\ row.state = r.st_new
      /\ r.op = "install" => row.prof = r.prof /\ row.install = r.tx
      /\ r.op # "install" => r \in receipts
      /\ r.op = "delete" =>
           p # NoPending /\ p.prepare = r /\ ~p.committed /\ p.tx = r.tx
      /\ r.op = "commit-delete" => p # NoPending /\ p.commit = r /\ p.committed

HeadOnFile ==
  \A l \in Lph :
    profiles[l].state # NotInstalled =>
      \E r \in issued : r.lph = l /\ Legal(r.op, r.st_old, r.st_new) /\ OnFile(r)

RetryInv ==
  /\ SignedOnce
  /\ CommitsFollow
  /\ receipts \subseteq issued
  /\ AnswersKept
  /\ DraftsKept
  /\ PreparesOnFile
  /\ HeadOnFile
  /\ OneProfilePerChain

IInv == TxInv /\ ChainExplainsRow /\ NoFork /\ RetryInv

-----------------------------------------------------------------------------
(* The tables before and after a commit.                                   *)

LEMMA ChainStarted ==
  ASSUME TxInv, ChainExplainsRow, NEW l \in Lph, profiles[l].last_hash # <<>>
  PROVE  profiles[l].state # NotInstalled
<1> DEFINE h == profiles[l].last_hash
<1>1. h \in Seq(Link)
  BY DEF TxInv, TypeOK, Row, Hash
<1>2. Len(h) \in 1..Len(h)
  BY <1>1, EmptySeq, LenProperties
<1>3. /\ profiles[l].state = h[Len(h)].st_new
      /\ Legal(h[Len(h)].op, h[Len(h)].st_old, h[Len(h)].st_new)
  BY <1>2 DEF ChainExplainsRow
<1> QED
  BY <1>3, LegalTarget

LEMMA HashStarted == ASSUME NEW r \in Receipt PROVE NewHash(r) # <<>>
<1>1. r.last_hash_old \in Seq(Link)
  BY DEF Receipt, Hash
<1> QED
  BY <1>1, LinkType, EmptySeq, LenProperties

\* A Profile with an accepted receipt is installed.
LEMMA AcceptedLive ==
  ASSUME TxInv, ChainExplainsRow, NoFork, NEW r \in receipts
  PROVE  profiles[r.lph].state # NotInstalled
<1>1. r \in Receipt /\ r.lph \in Lph
  BY DEF TxInv, TypeOK, Receipt
<1>2. IsPrefixOf(NewHash(r), profiles[r.lph].last_hash)
  BY DEF NoFork
<1>3. r.last_hash_old \in Seq(Link) /\ Len(NewHash(r)) = Len(r.last_hash_old) + 1
  BY <1>1, LinkType DEF Receipt, Hash
<1>4. Len(profiles[r.lph].last_hash) # 0
  <2>1. profiles[r.lph].last_hash \in Seq(Link)
    BY <1>1 DEF TxInv, TypeOK, Row, Hash
  <2> QED
    BY <1>2, <1>3, <2>1, LenProperties DEF IsPrefixOf
<1>5. profiles[r.lph].last_hash # <<>>
  BY <1>4, EmptySeq
<1> QED
  BY <1>1, <1>5, ChainStarted

\* What a commit does to pending_deletes.
LEMMA CommitPending ==
  ASSUME TxInv, NEW w \in Worker, Commit(w)
  PROVE  LET r == call[w]
             old == pending[r.lph]
             new == pending'[r.lph]
         IN  /\ \A l \in Lph \ {r.lph} : pending'[l] = pending[l]
             /\ r.op \notin {"delete", "commit-delete"} => new = old
             /\ r.op = "delete" =>
                  /\ old = NoPending /\ new # NoPending
                  /\ new.prepare = r /\ ~new.committed /\ new.tx = r.tx
             /\ r.op = "commit-delete" =>
                  /\ old # NoPending /\ new # NoPending /\ old.tx = r.tx
                  /\ new.prepare = old.prepare /\ new.R_prep = old.R_prep /\ new.tx = old.tx
                  /\ new.committed /\ new.commit = r
<1> DEFINE r == call[w]
<1>1. /\ r \in Receipt /\ r.lph \in Lph /\ Admits(r)
      /\ pending \in [Lph -> PendingRow \cup {NoPending}]
  BY CommitEffect DEF Receipt, TxInv, TypeOK
<1>2. CASE r.op = "install"
  BY <1>2, CommitEffect
<1>3. CASE r.op # "install"
  <2>1. PICK sig \in Signature : pending' = Noted(w, sig)
    BY <1>3, CommitEffect
  <2>2. /\ \A l \in Lph \ {r.lph} : pending'[l] = pending[l]
        /\ pending'[r.lph] = PendingAfter(r, sig, pending[r.lph])
    BY <1>1, <2>1 DEF Noted
  <2>3. CASE r.op = "delete"
    <3>1. pending[r.lph] = NoPending
      BY <1>1, <2>3 DEF Admits, InstallAdmits, ApplyStateAdmits, PrepareDeleteAdmits,
         CommitDeleteAdmits, StateOp
    <3>2. pending'[r.lph] = PreparedRow(r, sig)
      BY <2>2, <2>3 DEF PendingAfter
    <3>3. pending'[r.lph] # NoPending
      BY <1>1, <2>2, <2>3, <3>1, PendingAfterType, SentinelAssumption
    <3> QED
      BY <2>2, <2>3, <3>1, <3>2, <3>3 DEF PreparedRow
  <2>4. CASE r.op = "commit-delete"
    <3>1. pending[r.lph] \in PendingRow /\ pending[r.lph].tx = r.tx
      BY <1>1, <2>4 DEF Admits, InstallAdmits, ApplyStateAdmits, PrepareDeleteAdmits,
         CommitDeleteAdmits, StateOp
    <3>2. pending'[r.lph] = CommittedRow(r, pending[r.lph])
      BY <2>2, <2>4 DEF PendingAfter
    <3>3. /\ pending'[r.lph] \in PendingRow
          /\ pending'[r.lph].prepare = pending[r.lph].prepare
          /\ pending'[r.lph].R_prep = pending[r.lph].R_prep
          /\ pending'[r.lph].tx = pending[r.lph].tx
          /\ pending'[r.lph].committed
          /\ pending'[r.lph].commit = r
      BY <1>1, <3>1, <3>2 DEF CommittedRow, PendingRow
    <3> QED
      BY <2>2, <2>4, <3>1, <3>3, SentinelAssumption
  <2>5. CASE r.op \notin {"delete", "commit-delete"}
    BY <2>2, <2>5 DEF PendingAfter
  <2> QED
    BY <2>3, <2>4, <2>5
<1> QED
  BY <1>2, <1>3

\* A prepared deletion keeps its R_prep, also when it has been committed.
LEMMA PreparedKept ==
  ASSUME TxInv, [Next]_vars, NEW r, r.lph \in Lph, NEW rprep, Prepared(pending, r, rprep)
  PROVE  Prepared(pending', r, rprep)
<1>1. CASE UNCHANGED tables
  BY <1>1 DEF Prepared, tables
<1>2. ASSUME NEW w \in Worker, Commit(w) PROVE Prepared(pending', r, rprep)
  <2>1. CASE call[w].lph # r.lph
    BY <1>2, <2>1, CommitPending DEF Prepared
  <2>2. CASE call[w].lph = r.lph
    BY <1>2, <2>2, CommitPending DEF Prepared
  <2> QED
    BY <2>1, <2>2
<1> QED
  BY <1>1, <1>2, OnlyCommitWrites

-----------------------------------------------------------------------------
(* The invariant.                                                          *)

LEMMA OnlySignIssues ==
  ASSUME [Next]_vars
  PROVE  issued' = issued \/ Sign
BY DEF Next, vars, Start, Proceed, Fail, Replay, Reject, Begin, UpdateProfile, RecordOutcome,
   Commit, Respond, BusyTimeout, Rollback, LoseAnswer

LEMMA IssuedGrows == ASSUME [Next]_vars PROVE issued \subseteq issued'
BY OnlySignIssues DEF Sign, SignInstall, SignState, SignCommit

LEMMA SignedOnceStep ==
  TxInv /\ AnswersKept /\ SignedOnce /\ CommitsFollow /\ [Next]_vars
    => SignedOnce' /\ CommitsFollow'
<1> SUFFICES ASSUME TxInv, AnswersKept, SignedOnce, CommitsFollow, [Next]_vars
             PROVE  SignedOnce' /\ CommitsFollow'
  OBVIOUS
<1>1. CASE issued' = issued
  BY <1>1 DEF SignedOnce, CommitsFollow
\* A session that has signed nothing signs a receipt of its own operation.
<1>2. ASSUME NEW r, issued' = issued \cup {r}, r.op # "commit-delete", Fresh(r.tx)
      PROVE  SignedOnce' /\ CommitsFollow'
  BY <1>2 DEF SignedOnce, CommitsFollow, Fresh
<1>3. ASSUME NEW tx \in Tx, NEW l \in Lph, NEW p \in Profile, SignInstall(tx, l, p)
      PROVE  SignedOnce' /\ CommitsFollow'
  <2>1. InstallReceipt(tx, l, p).op # "commit-delete" /\ InstallReceipt(tx, l, p).tx = tx
    BY DEF InstallReceipt
  <2> QED
    BY <1>2, <1>3, <2>1 DEF SignInstall
<1>4. ASSUME NEW tx \in Tx, NEW op \in StateOp \cup {"delete"}, NEW l \in Lph,
             NEW p \in Profile, SignState(tx, op, l, p)
      PROVE  SignedOnce' /\ CommitsFollow'
  <2>1. StateReceipt(op, tx, l, p).op # "commit-delete" /\ StateReceipt(op, tx, l, p).tx = tx
    BY DEF StateReceipt, StateOp
  <2> QED
    BY <1>2, <1>4, <2>1 DEF SignState
<1>5. ASSUME NEW a \in answers, SignCommit(a) PROVE SignedOnce' /\ CommitsFollow'
  <2> DEFINE r == CommitReceipt(a.receipt.tx, a.receipt.lph, a.receipt.prof, a.R_prep)
  <2>1. /\ r.op = "commit-delete" /\ r.tx = a.receipt.tx
        /\ r.lph = a.receipt.lph /\ r.prof = a.receipt.prof
    BY DEF CommitReceipt
  <2>2. /\ issued' = issued \cup {r}
        /\ a.receipt.op = "delete"
        /\ \A s \in issued : ~(s.tx = r.tx /\ s.op = "commit-delete")
    BY <1>5, <2>1 DEF SignCommit
  <2>3. a.receipt \in issued
    BY DEF AnswersKept
  <2> HIDE DEF r
  <2>4. SignedOnce'
    BY <2>1, <2>2 DEF SignedOnce
  <2>5. CommitsFollow'
    BY <2>1, <2>2, <2>3 DEF CommitsFollow
  <2> QED
    BY <2>4, <2>5
<1> QED
  BY <1>1, <1>3, <1>4, <1>5, OnlySignIssues DEF Sign

LEMMA AnswersKeptStep ==
  TxInv /\ AnswersKept /\ DraftsKept /\ [Next]_vars => AnswersKept'
<1> SUFFICES ASSUME TxInv, AnswersKept, DraftsKept, [Next]_vars, NEW a \in answers'
             PROVE  /\ a.receipt \in issued'
                    /\ a.receipt.op # "install" => a.last_hash = NewHash(a.receipt)
                    /\ a.receipt.op = "delete" => Prepared(pending', a.receipt, a.R_prep)
                    /\ a.receipt.op # "delete" => a.R_prep = NoRprep
  BY DEF AnswersKept
<1>1. CASE a \in answers
  <2>1. a.receipt \in Receipt /\ a.receipt.lph \in Lph
    BY <1>1 DEF TxInv, TypeOK, Answer, Receipt
  <2> QED
    BY <1>1, <2>1, IssuedGrows, PreparedKept DEF AnswersKept
<1>2. CASE a \notin answers
  <2>1. UNCHANGED tables
    BY <1>2, NewAnswer
  <2>2. PICK w \in Worker :
          \/ IsReplay(call[w]) /\ Replay(w) /\ a = AnswerFrom(call[w], profiles, pending)
          \/ pc[w] = "committed" /\ a = AnswerFrom(call[w], profiles, draft[w].pending)
    BY <1>2, NewAnswer
  <2> DEFINE r == call[w]
  <2>3. r \in issued
    BY <2>2 DEF TxInv, TransactionOK, Replay
  <2>4. /\ a.receipt = r
        /\ r.op # "install" => a.last_hash = NewHash(r)
        /\ r.op # "delete" => a.R_prep = NoRprep
    BY <2>2 DEF AnswerFrom
  <2>5. r.op = "delete" => Prepared(pending, r, a.R_prep)
    <3>1. CASE IsReplay(r) /\ a = AnswerFrom(r, profiles, pending)
      BY <3>1 DEF IsReplay, InstallReplays, StateReplays, PrepareReplays, CommitReplays,
         StateOp, AnswerFrom, Prepared
    <3>2. CASE pc[w] = "committed" /\ a = AnswerFrom(r, profiles, draft[w].pending)
      BY <3>2 DEF DraftsKept, AnswerFrom
    <3> QED
      BY <2>2, <3>1, <3>2
  <2>6. ASSUME r.op = "delete" PROVE Prepared(pending', r, a.R_prep)
    BY <2>1, <2>5, <2>6 DEF Prepared, tables
  <2> QED
    BY <2>3, <2>4, <2>6, IssuedGrows
<1> QED
  BY <1>1, <1>2

LEMMA DraftsKeptStep == TxInv /\ DraftsKept /\ [Next]_vars => DraftsKept'
<1> SUFFICES ASSUME TxInv, DraftsKept, [Next]_vars, NEW w \in Worker,
                    pc'[w] = "committed", call'[w].op = "delete"
             PROVE  Prepared(pending', call'[w], draft'[w].pending[call'[w].lph].R_prep)
  BY DEF DraftsKept, Prepared
<1>1. call'[w] = call[w] /\ draft'[w] = draft[w] /\ (pc[w] = "committed" \/ Commit(w))
  BY DEF Next, vars, Sign, SignInstall, SignState, SignCommit, Start, Proceed, Fail,
     Replay, Reject, Begin, UpdateProfile, RecordOutcome, Commit, Respond, BusyTimeout,
     Rollback, LoseAnswer, Finish, TxInv, TypeOK
<1>2. call[w] \in Receipt /\ call[w].lph \in Lph
  BY <1>1 DEF TxInv, TypeOK, TransactionOK, Commit, Receipt
<1> DEFINE r == call[w]
<1> DEFINE rprep == draft[w].pending[r.lph].R_prep
<1>3. CASE pc[w] = "committed"
  <2>1. Prepared(pending, r, rprep)
    BY <1>1, <1>3 DEF DraftsKept
  <2>2. Prepared(pending', r, rprep)
    BY <1>2, <2>1, PreparedKept
  <2> QED
    BY <1>1, <2>2
<1>4. CASE Commit(w)
  <2>1. pending' = draft[w].pending
    BY <1>4 DEF Commit
  <2> QED
    BY <1>1, <1>4, <2>1, CommitPending DEF Prepared
<1> QED
  BY <1>1, <1>3, <1>4

LEMMA OnFileStep ==
  TxInv /\ RetryInv /\ [Next]_vars => receipts' \subseteq issued' /\ PreparesOnFile'
<1> SUFFICES ASSUME TxInv, RetryInv, [Next]_vars
             PROVE  receipts' \subseteq issued' /\ PreparesOnFile'
  OBVIOUS
<1>1. receipts \subseteq issued /\ issued \subseteq issued' /\ PreparesOnFile
  BY IssuedGrows DEF RetryInv
<1>2. CASE UNCHANGED tables
  BY <1>1, <1>2 DEF PreparesOnFile, tables
<1>3. ASSUME NEW w \in Worker, Commit(w) PROVE receipts' \subseteq issued' /\ PreparesOnFile'
  <2> DEFINE r == call[w]
  <2>1. /\ r \in Receipt /\ r \in issued
        /\ receipts' = IF r.op = "install" THEN receipts ELSE receipts \cup {r}
    BY <1>3, CommitEffect
  <2>2. receipts' \subseteq issued' /\ receipts \subseteq receipts'
    BY <1>1, <2>1
  <2>3. ASSUME NEW l \in Lph, pending'[l] # NoPending
        PROVE  /\ pending'[l].prepare \in receipts'
               /\ pending'[l].prepare.op = "delete"
               /\ pending'[l].prepare.lph = l
               /\ pending'[l].prepare.tx = pending'[l].tx
    <3>1. CASE l = r.lph /\ r.op = "delete"
      BY <1>3, <2>1, <3>1, CommitPending
    <3>2. CASE l # r.lph \/ r.op # "delete"
      <4>1. /\ pending[l] # NoPending
            /\ pending'[l].prepare = pending[l].prepare /\ pending'[l].tx = pending[l].tx
        BY <1>3, <2>3, <3>2, CommitPending
      <4> QED
        BY <1>1, <2>2, <4>1 DEF PreparesOnFile
    <3> QED
      BY <3>1, <3>2
  <2> QED
    BY <2>2, <2>3 DEF PreparesOnFile
<1> QED
  BY <1>2, <1>3, OnlyCommitWrites

\* What is on file of a Profile after a commit is the receipt just committed.
LEMMA CommitOnFile ==
  ASSUME TxInv, ChainExplainsRow, NEW w \in Worker, Commit(w)
  PROVE  Legal(call[w].op, call[w].st_old, call[w].st_new)
         /\ \A r : r = call[w] => OnFile(r)'
<1> SUFFICES ASSUME NEW r, r = call[w]
             PROVE  Legal(r.op, r.st_old, r.st_new) /\ OnFile(r)'
  OBVIOUS
<1>1. /\ r \in Receipt /\ r.lph \in Lph
      /\ Legal(r.op, r.st_old, r.st_new)
      /\ profiles'[r.lph].last_hash = NewHash(r)
      /\ profiles'[r.lph].state = r.st_new
  BY CommitExtends
<1>2. ASSUME r.op = "install"
      PROVE  profiles'[r.lph].prof = r.prof /\ profiles'[r.lph].install = r.tx
  <2>1. profiles' = Written(w) /\ DOMAIN profiles = Lph
    BY CommitEffect DEF TxInv, TypeOK
  <2>2. profiles'[r.lph] = RowAfter(r, profiles[r.lph])
    BY <1>1, <2>1 DEF Written
  <2>3. profiles'[r.lph] = InsertedRow(r)
    BY <1>2, <2>2 DEF RowAfter
  <2> QED
    BY <2>3 DEF InsertedRow
<1>3. r.op # "install" => r \in receipts'
  BY CommitEffect
<1>4. /\ r.op = "delete" =>
           /\ pending'[r.lph] # NoPending /\ pending'[r.lph].prepare = r
           /\ ~pending'[r.lph].committed /\ pending'[r.lph].tx = r.tx
      /\ r.op = "commit-delete" =>
           pending'[r.lph] # NoPending /\ pending'[r.lph].commit = r /\ pending'[r.lph].committed
  BY CommitPending
<1> QED
  BY <1>1, <1>2, <1>3, <1>4 DEF OnFile

LEMMA HeadStep ==
  TxInv /\ ChainExplainsRow /\ HeadOnFile /\ [Next]_vars => HeadOnFile'
<1> SUFFICES ASSUME TxInv, ChainExplainsRow, HeadOnFile, [Next]_vars,
                    NEW l \in Lph, profiles'[l].state # NotInstalled
             PROVE  \E r \in issued' :
                      r.lph = l /\ Legal(r.op, r.st_old, r.st_new) /\ OnFile(r)'
  BY DEF HeadOnFile
<1>1. CASE UNCHANGED tables
  <2>1. PICK r \in issued : r.lph = l /\ Legal(r.op, r.st_old, r.st_new) /\ OnFile(r)
    BY <1>1 DEF HeadOnFile, tables
  <2>2. OnFile(r)'
    BY <1>1, <2>1 DEF OnFile, tables
  <2> QED
    BY <2>1, <2>2, IssuedGrows
<1>2. ASSUME NEW w \in Worker, Commit(w)
      PROVE  \E r \in issued' :
               r.lph = l /\ Legal(r.op, r.st_old, r.st_new) /\ OnFile(r)'
  <2>1. CASE call[w].lph = l
    <3>1. PICK r \in issued : r = call[w]
      BY <1>2, CommitEffect
    <3>2. Legal(r.op, r.st_old, r.st_new) /\ OnFile(r)'
      BY <1>2, <3>1, CommitOnFile
    <3> QED
      BY <2>1, <3>1, <3>2, IssuedGrows
  <2>2. CASE call[w].lph # l
    <3>1. profiles'[l] = profiles[l] /\ pending'[l] = pending[l] /\ receipts \subseteq receipts'
      BY <1>2, <2>2, CommitExtends, CommitPending, CommitEffect
    <3>2. PICK r \in issued : r.lph = l /\ Legal(r.op, r.st_old, r.st_new) /\ OnFile(r)
      BY <3>1 DEF HeadOnFile
    <3>3. OnFile(r)'
      BY <3>1, <3>2 DEF OnFile
    <3> QED
      BY <3>2, <3>3, IssuedGrows
  <2> QED
    BY <2>1, <2>2
<1> QED
  BY <1>1, <1>2, OnlyCommitWrites

LEMMA OneProfileStep ==
  IInv /\ [Next]_vars => OneProfilePerChain'
<1> SUFFICES ASSUME IInv, [Next]_vars PROVE OneProfilePerChain'
  OBVIOUS
<1>1. TxInv /\ ChainExplainsRow /\ NoFork /\ RetryInv
  BY DEF IInv
<1>2. CASE UNCHANGED tables
  BY <1>1, <1>2 DEF RetryInv, OneProfilePerChain, tables
<1>3. ASSUME NEW w \in Worker, Commit(w), NEW s \in receipts'
      PROVE  s.prof = profiles'[s.lph].prof
  <2> DEFINE r == call[w]
  <2>1. /\ r \in Receipt /\ r \in issued /\ r.lph \in Lph /\ Admits(r)
        /\ receipts' = IF r.op = "install" THEN receipts ELSE receipts \cup {r}
        /\ profiles'[r.lph].prof = IF r.op = "install" THEN r.prof ELSE profiles[r.lph].prof
        /\ \A l \in Lph \ {r.lph} : profiles'[l] = profiles[l]
    BY <1>1, <1>3, CommitEffect, CommitExtends
  <2>2. CASE s \in receipts
    <3>1. s.lph \in Lph /\ s.prof = profiles[s.lph].prof
      BY <1>1, <2>2 DEF RetryInv, OneProfilePerChain, TxInv, TypeOK, Receipt
    <3>2. s.lph = r.lph => r.op # "install"
      BY <1>1, <2>1, <2>2, AcceptedLive DEF Admits, InstallAdmits, ApplyStateAdmits,
         PrepareDeleteAdmits, CommitDeleteAdmits, StateOp, RowOf
    <3> QED
      BY <2>1, <3>1, <3>2
  <2>3. CASE s = r /\ r.op # "install"
    <3>1. CASE r.op # "commit-delete"
      BY <2>1, <2>3, <3>1 DEF Admits, InstallAdmits, ApplyStateAdmits, PrepareDeleteAdmits,
         CommitDeleteAdmits, RowOf
    \* The session of the commit has prepared the deletion, for the Profile of the row.
    <3>2. CASE r.op = "commit-delete"
      <4>1. pending[r.lph] # NoPending /\ pending[r.lph].tx = r.tx
        BY <1>3, <3>2, CommitPending, <1>1
      <4> DEFINE p == pending[r.lph].prepare
      <4>2. p \in receipts /\ p \in issued /\ p.op = "delete" /\ p.lph = r.lph /\ p.tx = r.tx
        BY <1>1, <2>1, <4>1 DEF RetryInv, PreparesOnFile
      <4>3. PICK q \in issued : q.op = "delete" /\ q.tx = r.tx /\ q.prof = r.prof
        BY <1>1, <2>1, <3>2 DEF RetryInv, CommitsFollow
      <4>4. q = p
        BY <1>1, <4>2, <4>3 DEF RetryInv, SignedOnce
      <4>5. p.prof = profiles[r.lph].prof
        BY <1>1, <4>2 DEF RetryInv, OneProfilePerChain
      <4> QED
        BY <2>1, <2>3, <4>3, <4>4, <4>5
    <3> QED
      BY <3>1, <3>2
  <2> QED
    BY <2>1, <2>2, <2>3
<1>4. ASSUME NEW w \in Worker, Commit(w) PROVE OneProfilePerChain'
  BY <1>3, <1>4 DEF OneProfilePerChain
<1> QED
  BY <1>2, <1>4, OnlyCommitWrites

LEMMA RetryInit == Init => RetryInv
BY DEF Init, RetryInv, SignedOnce, CommitsFollow, AnswersKept, DraftsKept, PreparesOnFile,
   HeadOnFile, OneProfilePerChain, NoRow

LEMMA RetryStep == IInv /\ [Next]_vars => RetryInv'
<1> SUFFICES ASSUME IInv, [Next]_vars PROVE RetryInv'
  OBVIOUS
<1>1. /\ TxInv /\ ChainExplainsRow /\ RetryInv
      /\ SignedOnce /\ CommitsFollow /\ AnswersKept /\ DraftsKept /\ HeadOnFile
  BY DEF IInv, RetryInv
<1>2. SignedOnce' /\ CommitsFollow' /\ AnswersKept' /\ DraftsKept'
  BY <1>1, SignedOnceStep, AnswersKeptStep, DraftsKeptStep
<1>3. receipts' \subseteq issued' /\ PreparesOnFile' /\ HeadOnFile' /\ OneProfilePerChain'
  BY <1>1, OnFileStep, HeadStep, OneProfileStep
<1> QED
  BY <1>2, <1>3 DEF RetryInv

LEMMA AlwaysIInv == Spec => []IInv
<1>1. TxInv /\ ChainExplainsRow /\ NoFork /\ RetryInv => IInv
  BY DEF IInv
<1> QED
  BY <1>1, RetryInit, RetryStep, TransactionsWellFormed, ChainAlwaysExplainsRow, NeverForks,
     PTL DEF Spec

-----------------------------------------------------------------------------
(* What a caller meets.                                                    *)

\* A session is authenticated for one Profile (LifecycleRepository.apply_state,
\* prepare_delete and commit_delete compare pid_h and salt_p, or pending_deletes): the
\* receipts of a chain are all of the Profile it was begun for.
THEOREM ChainsOfOneProfile == Spec => []OneProfilePerChain
<1>1. IInv => OneProfilePerChain
  BY DEF IInv, RetryInv
<1> QED
  BY <1>1, AlwaysIInv, PTL

\* A receipt handed in again, by any number of threads and before or after any commit, is
\* answered as the first time, with the R_prep of the first time (_cached, the pending row).
THEOREM RetriesAnsweredAlike == Spec => []RetryAnswersAlike
<1>1. IInv => RetryAnswersAlike
  <2> SUFFICES ASSUME IInv, NEW a \in answers, NEW b \in answers,
                      a.receipt = b.receipt, a.receipt.op # "install"
               PROVE  a = b
    BY DEF RetryAnswersAlike
  <2>1. a \in Answer /\ b \in Answer
    BY DEF IInv, TxInv, TypeOK
  <2>2. a.last_hash = b.last_hash /\ a.R_prep = b.R_prep
    BY DEF IInv, RetryInv, AnswersKept, Prepared
  <2> QED
    BY <2>1, <2>2 DEF Answer
<1> QED
  BY <1>1, AlwaysIInv, PTL

\* A receipt whose hash is the head of a chain is the one that was committed last.
LEMMA HeadIsCommitted ==
  ASSUME IInv, NEW r \in issued, RowOf(r).last_hash = NewHash(r)
  PROVE  /\ profiles[r.lph].state # NotInstalled
         /\ Legal(r.op, r.st_old, r.st_new)
         /\ OnFile(r)
<1>1. TxInv /\ ChainExplainsRow /\ SignedOnce /\ HeadOnFile /\ issued \subseteq Receipt
  BY DEF IInv, RetryInv, TxInv, TypeOK
<1>2. r \in Receipt /\ r.lph \in Lph
  BY <1>1 DEF Receipt
<1>3. profiles[r.lph].state # NotInstalled
  BY <1>1, <1>2, HashStarted, ChainStarted DEF RowOf
<1>4. PICK s \in issued : s.lph = r.lph /\ Legal(s.op, s.st_old, s.st_new) /\ OnFile(s)
  BY <1>1, <1>2, <1>3 DEF HeadOnFile
<1>5. NewHash(s) = NewHash(r)
  BY <1>4 DEF OnFile, RowOf
<1>6. LinkOf(s) = LinkOf(r)
  BY <1>1, <1>2, <1>5, LinkType
<1>7. s.tx = r.tx /\ s.op = r.op
  BY <1>6 DEF LinkOf
<1>8. s = r
  BY <1>1, <1>7 DEF SignedOnce
<1> QED
  BY <1>3, <1>4, <1>8

LEMMA OnFileReplays ==
  ASSUME NEW r \in Receipt, Legal(r.op, r.st_old, r.st_new), OnFile(r),
         profiles[r.lph].state # NotInstalled
  PROVE  IsReplay(r)
<1>1. r.op \in {"install", "delete", "commit-delete"} \cup StateOp
  BY DEF Receipt, Op
<1>2. CASE r.op = "install"
  BY <1>2 DEF OnFile, IsReplay, InstallReplays, RowOf
<1>3. CASE r.op \in StateOp
  BY <1>3 DEF OnFile, IsReplay, StateReplays, RowOf, StateOp
<1>4. CASE r.op = "delete"
  BY <1>4 DEF OnFile, IsReplay, PrepareReplays, RowOf, Legal, StateOp
<1>5. CASE r.op = "commit-delete"
  BY <1>5 DEF OnFile, IsReplay, CommitReplays, RowOf, Legal, StateOp
<1> QED
  BY <1>1, <1>2, <1>3, <1>4, <1>5

\* Whatever failed after the COMMIT of a receipt, it is answered again for as long as it
\* is the last one of its Profile.
THEOREM HeadAlwaysReplays == Spec => []HeadReceiptReplays
<1>1. IInv => HeadReceiptReplays
  <2> SUFFICES ASSUME IInv, NEW r \in issued, RowOf(r).last_hash = NewHash(r)
               PROVE  IsReplay(r)
    BY DEF HeadReceiptReplays
  <2>1. r \in Receipt
    BY DEF IInv, TxInv, TypeOK
  <2> QED
    BY <2>1, HeadIsCommitted, OnFileReplays
<1> QED
  BY <1>1, AlwaysIInv, PTL

\* A prepared deletion can be finished from any state of the repository: the prepare is
\* answered with its R_prep, and the commit made from that passes every check.
THEOREM PreparedAlwaysRecovers == Spec => []PreparedDeleteRecovers
<1>1. ASSUME IInv, PendingTracksRow PROVE PreparedDeleteRecovers
  <2> SUFFICES ASSUME NEW l \in Lph, profiles[l].state = PendingDelete
               PROVE  /\ IsReplay(pending[l].prepare)
                      /\ CommitDeleteAdmits(CommitReceipt(pending[l].tx, l,
                            pending[l].prepare.prof, pending[l].R_prep))
    BY DEF PreparedDeleteRecovers
  <2>1. TypeOK /\ HeadOnFile
    BY <1>1 DEF IInv, RetryInv, TxInv
  <2>2. PICK r \in issued : r.lph = l /\ Legal(r.op, r.st_old, r.st_new) /\ OnFile(r)
    BY <2>1 DEF HeadOnFile, PendingDelete, NotInstalled
  <2>3. r \in Receipt /\ r.st_new = PendingDelete
    BY <2>1, <2>2 DEF TypeOK, OnFile
  <2>4. r.op = "delete" /\ pending[l].prepare = r
    BY <2>2, <2>3 DEF OnFile, Legal, Installed, Enabled, Disabled, PendingDelete, Tombstone
  <2>5. IsReplay(pending[l].prepare)
    BY <2>2, <2>3, <2>4, OnFileReplays DEF PendingDelete, NotInstalled
  <2>6. pending[l] # NoPending /\ pending[l].R_prep.tx = pending[l].tx
    BY <1>1 DEF PendingTracksRow
  <2>7. CommitDeleteAdmits(CommitReceipt(pending[l].tx, l, pending[l].prepare.prof,
                                         pending[l].R_prep))
    BY <2>6 DEF CommitDeleteAdmits, CommitReceipt, RowOf, IsSuccessor, Legal, PendingDelete,
       NotInstalled
  <2> QED
    BY <2>5, <2>7
<1> QED
  BY <1>1, AlwaysIInv, PendingAlwaysTracksRow, PTL
=============================================================================
