\* One note is melted up to three times, twice into the same invoice, against
\* a node that takes a payment it has not registered for a failed one; it may
\* be rotated into n2, and the periodic reconcile task runs throughout.
SPECIFICATION FairUndisturbedSpec
CONSTANTS
  n1 = n1  n2 = n2
  h1 = h1  h2 = h2
  m1 = m1  m2 = m2  m3 = m3
  NoHash = NoHash  NoNote = NoNote
  noteOf <- SameNote
  hashOf <- SharedInvoice
  Melts = {m1, m2, m3}
  NoteIds = {n1, n2}
  IssuedNotes = {n1}
  Hashes = {h1, h2}
  OwnInvoices = {}
  Recs = {"periodic"}
  UnregisteredIsFailed = TRUE
  MaxCrashes = 2
INVARIANTS TypeOK NoDoublePayout HeldWhileUnresolved RegistryExact SettledHonest FundedBurn
PROPERTIES ReleaseOnlyAfterFailure ImplementsLedger SpentIsForever ResolvedIsBooked
