SPECIFICATION ServerSpec
CONSTANTS
  PerPlayer = 1
  Amount = 1
  Bucket = 2
  U16Max = 9
  MatchId = m1
  Invoices = {i1}
  Oversized = {}
  NoInvoice = none
  Damages = {1, 3}
  MaxDamage = 0
  Health = 2
  ExitTimers = {}
  Nobody = nobody
  Refs <- MCRefs
INVARIANTS
  UnusedAreCancelled
