SPECIFICATION FairServerSpec
CONSTANTS
  PerPlayer = 1
  Amount = 1
  Bucket = 2
  U16Max = 9
  MatchId = m1
  Invoices = {i1}
  Oversized = {}
  NoInvoice = none
  Damages = {1, 3}
  MaxDamage = 0
  Health = 3
  ExitTimers = {"startup", "empty", "grace"}
  Nobody = nobody
  Refs <- MCRefs
INVARIANTS
  OneVerdict
  PlayIsEscrowed
  NothingHeldAfterEnd
  PauseMeansExhausted
  PaidUnlessExhausted
  FallenLoses
  CancelledUnlessFailed
PROPERTIES
  LeaverNeverWins
  EndedServerExits
  EmptyServerExits
CHECK_DEADLOCK FALSE
