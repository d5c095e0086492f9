\* One zap, paid after its window.
SPECIFICATION Spec
CONSTANTS
  m1 = m1
  z1 = z1  z2 = z2
  o1 = o1
  home = home  away = away
  Mints = {m1}
  Invoices = {z1}
  mintOf <- MintOf
  Unbuildable = {}
  Relayless = {}
  PollWindow = 0
  PollLimit = 1
  MaxClock = 2
  MaxCrashes = 1
  NoMint = NoMint
  NoInvoice = NoInvoice
  LocktimeThreshold = 2
  Unit = 2
  Domains = {home, away}
  Hosts = {home}
  Outputs = {}
  Spends = {}
  Kernel = TRUE
  MaxOpen = 2
PROPERTIES LateZapsUnreceipted
