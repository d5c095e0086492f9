\* The operator may drop the fees.  An amount is asked for
\* that is no whole number of sats.
SPECIFICATION SpecNotRaised
CONSTANTS
  i1 = i1  i2 = i2
  o1 = o1  o2 = o2  o3 = o3
  q1 = q1  q2 = q2
  Invoices = {i1, i2}
  Outputs = {o1, o2, o3}
  Requests = {q1, q2}
  Settings <- DroppedFees
  PayAmounts = {1000, 5999}
  SplitAmounts = {2999}
  MaxInputs = 2
  WalkLimit = 10
INVARIANTS TypeOK BaseFeePerNote AdvertisedMinimumAccepted NotesAreWorthSomething
SYMMETRY Interchangeable
