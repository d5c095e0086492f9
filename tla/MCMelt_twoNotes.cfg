SPECIFICATION Spec
CONSTANTS
  n1 = n1  n2 = n2
  h1 = h1  h2 = h2
  m1 = m1  m2 = m2  m3 = m3
  NoHash = NoHash  NoNote = NoNote
  noteOf <- DistinctNotes
  hashOf <- SameInvoice
  Melts = {m1, m2}
  NoteIds = {n1, n2}
  IssuedNotes = {n1,n2}
  Hashes = {h1}
  OwnInvoices = {}
  Recs = {"periodic"}
  UnregisteredIsFailed = FALSE
  MaxCrashes = 0
INVARIANTS FundedBurn
