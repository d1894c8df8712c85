-------------------------- MODULE LifecyclePromise --------------------------
(***************************************************************************)
(* What the AURA lifecycle repository promises, without its tables, its    *)
(* receipts or its transactions: every Profile pseudonym (lph) has one     *)
(* linear history of operations, which only grows; an operation is         *)
(* appended only when the state its predecessors lead to admits it; and a  *)
(* deletion is committed only by the session that prepared it.             *)
(***************************************************************************)
EXTENDS Naturals, Sequences

CONSTANTS
    Lph,    \* Profile pseudonyms
    Tx      \* operation sessions (transactionId)

VARIABLE history    \* history[l]: the operations l went through, oldest first

State == 0..5
NotInstalled == 0
Installed == 1
Enabled == 2
Disabled == 3
PendingDelete == 4
Tombstone == 5

Op == {"install", "enable", "disable", "delete", "commit-delete", "reinstall"}

\* The pairs <<old state, new state>> of every operation: LEGAL_TRANSITIONS and
\* the first row of initialize_install.
LegalTransitions == [
    op \in Op |->
      CASE op = "install" -> {<<NotInstalled, Installed>>}
        [] op = "enable" -> {<<Installed, Enabled>>, <<Disabled, Enabled>>}
        [] op = "disable" -> {<<Enabled, Disabled>>}
        [] op = "delete" -> {<<s, PendingDelete>> : s \in {Installed, Enabled, Disabled}}
        [] op = "commit-delete" -> {<<PendingDelete, Tombstone>>}
        [] op = "reinstall" -> {<<Tombstone, Installed>>}]

\* The state an operation leads to.
Target == [
    op \in Op |->
      CASE op \in {"install", "reinstall"} -> Installed
        [] op = "enable" -> Enabled
        [] op = "disable" -> Disabled
        [] op = "delete" -> PendingDelete
        [] op = "commit-delete" -> Tombstone]

Entry == [op : Op, tx : Tx]

\* The state a history leads to: histories name no state of their own.
StateAfter(h) == IF h = <<>> THEN NotInstalled ELSE Target[h[Len(h)].op]

Init == history = [l \in Lph |-> <<>>]

Accept(l, e) ==
    /\ <<StateAfter(history[l]), Target[e.op]>> \in LegalTransitions[e.op]
    /\ e.op = "commit-delete" =>
         history[l][Len(history[l])] = [op |-> "delete", tx |-> e.tx]
    /\ history' = [history EXCEPT ![l] = Append(@, e)]

Next == \E l \in Lph, e \in Entry : Accept(l, e)

Spec == Init /\ [][Next]_history
=============================================================================
