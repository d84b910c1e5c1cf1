SPECIFICATION Spec
CONSTANTS
  PerPlayer = 2
  U16Max = 6
  RefIds = {0, 1}
  Invoices = {i1}
  Oversized = {}
  Damages = {2, 5}
  MaxDamage = 7
  Amount = 3
  Bucket = 2
  MatchId = m1
  OtherMatch = m2
  Refs <- MCRefs
  NoInvoice = none
INVARIANTS
  ReleasedIsHandedOver
