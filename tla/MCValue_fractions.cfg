\* One setting for good; a payer asks for an amount that is no whole number of
\* sats.
SPECIFICATION Spec
CONSTANTS
  i1 = i1  i2 = i2
  o1 = o1  o2 = o2  o3 = o3
  q1 = q1  q2 = q2
  Invoices = {i1, i2}
  Outputs = {o1, o2, o3}
  Requests = {q1, q2}
  Settings <- SteadyBaseFee
  PayAmounts = {5999}
  SplitAmounts = {2000}
  MaxInputs = 2
  WalkLimit = 10
INVARIANT Solvent
SYMMETRY Interchangeable
