\* A reinstalled Profile should be deletable like any other.
SPECIFICATION Spec
CONSTANTS
  Lph = {l1}
  Profile = {p1}
  Tx = {t1, t2, t3}
  Worker = {w1, w2}
  Signature = {s1}
  NoProfile = NoProfile
  NoTx = NoTx
  NoRprep = NoRprep
  NoReceipt = NoReceipt
  NoPending = NoPending
  NoTables = NoTables
SYMMETRY Symmetry
INVARIANTS
  LiveProfileDeletable
