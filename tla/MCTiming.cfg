\* Two zaps of a mint: one names no relay and depends on the mint's zap_relays,
\* one has a receipt that cannot be built; both are in the poll's window at
\* once and exceed its limit.
SPECIFICATION Spec
CONSTANTS
  m1 = m1
  z1 = z1  z2 = z2
  o1 = o1
  home = home  away = away
  Mints = {m1}
  Invoices = {z1, z2}
  mintOf <- MintOf
  Unbuildable = {z2}
  Relayless = {z1}
  PollWindow = 1
  PollLimit = 1
  MaxClock = 2
  MaxCrashes = 1
  NoMint = NoMint
  NoInvoice = NoInvoice
  LocktimeThreshold = 2
  Unit = 2
  Domains = {home, away}
  Hosts = {home}
  Outputs = {o1}
  Spends <- SomeSpends
  Kernel = TRUE
  MaxOpen = 2
INVARIANTS TypeOK StillOpens ReceiptMeansPaid NoSecondReceipt
PROPERTIES LocksHonoured ZapsReceipted
