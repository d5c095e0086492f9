\* As MCIssuance_outputs, and a crash may fall inside a database block.
SPECIFICATION SpecMidBlock
CONSTANTS
  k0 = k0  k1 = k1  a = a  b = b
  p1 = p1  p2 = p2  l1 = l1  l2 = l2  n1 = n1  h1 = h1  h2 = h2
  NoNote = NoNote  NoHash = NoHash  NoMint = NoMint  NoBranch = NoBranch
  x = x  y = y
  Mints = {a, b}
  Home = a
  NoteIds = {k0, k1, n1, h1}
  IssuedNotes = {n1}
  Hashes = {h1, h2}
  Payers = {p1, p2}
  Lookups = {l1, l2}
  Registering = {b}
  Branches = {x, y}
  branchKey <- CrossedKeys
  MaxIndex = 1
  MaxCrashes = 1
SYMMETRY Symmetric
INVARIANT MintedIsCredited
CHECK_DEADLOCK FALSE
