\* Two wallets want one name.
SPECIFICATION Spec
CONSTANTS
  Names = {alice, mint}
  Reserved = {mint}
  Branches = {b1, b2}
  Requests = {r1, r2}
  NoBranch = NoBranch
  NoAsk = NoAsk
PROPERTY OverwriteProved
