\* Three sessions, two Profiles, two lphs, two threads, two signature values.
SPECIFICATION Spec
CONSTANTS
  Lph = {l1, l2}
  Profile = {p1, p2}
  Tx = {t1, t2, t3}
  Worker = {w1, w2}
  Signature = {s1, s2}
  NoProfile = NoProfile
  NoTx = NoTx
  NoRprep = NoRprep
  NoReceipt = NoReceipt
  NoPending = NoPending
  NoTables = NoTables
SYMMETRY Symmetry

INVARIANT AcknowledgedIsDurable
INVARIANT RetryAnswersAlike
INVARIANT PreparedDeleteRecovers
INVARIANT OneProfilePerChain
INVARIANT ChainExplainsRow
PROPERTY KeepsPromise
