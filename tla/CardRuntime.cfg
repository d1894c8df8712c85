\* Five cards; B and N are not in the card profile, N is not on a card at first.
SPECIFICATION Spec
CONSTANTS
  MF = MF
  A = A
  e = e
  B = B
  N = N
  U = U
  g = g
  S = S
  V = V
  File <- MCFile
  Path <- MCPath
  Fid <- MCFid
  Ef = {e, g}
  Adf = {U, S, V}
  Fs = {U}
  Sd = {S}
  Known = {MF, A, e, U, g, S, V}
  Cards <- MCCards
  Creatable = {e, N}
  Kinds <- MCKinds
  NoAdf = NoAdf
  NoScp = NoScp
  Channel = {0, 1, 2}
  MaxProbed = 2
  MaxDeleted = 1
  MaxMacs = 2

INVARIANT TypeOK
INVARIANT Coherent
INVARIANT ApplicationKnown
INVARIANT EveryFileSelectable
INVARIANT InStep
