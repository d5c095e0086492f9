\* Two pay requests and two lookups on two mints, a note to swap, branch keys that
\* a comment or a swap output may also name, and a payment hash named as a note.
SPECIFICATION Spec
CONSTANTS
  k0 = k0  k1 = k1  a = a  b = b
  p1 = p1  p2 = p2  l1 = l1  l2 = l2  n1 = n1  h1 = h1  h2 = h2
  NoNote = NoNote  NoHash = NoHash  NoMint = NoMint  NoBranch = NoBranch
  x = x  y = y
  Mints = {a, b}
  Home = a
  NoteIds = {k0, k1, n1, h1}
  IssuedNotes = {n1}
  Hashes = {h1, h2}
  Payers = {p1, p2}
  Lookups = {l1, l2}
  Registering = {b}
  Branches = {x, y}
  branchKey <- CrossedKeys
  MaxIndex = 1
  MaxCrashes = 1
SYMMETRY Symmetric
INVARIANTS TypeOK OutputsExclusive LookupUnambiguous MintedIsCredited MadeOnce RetryAnswered
PROPERTIES NotesKept
CHECK_DEADLOCK FALSE
