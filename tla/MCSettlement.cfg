SPECIFICATION Spec
CONSTANTS
  PerPlayer = 2
  U16Max = 5
  RefIds = {0, 1}
  Invoices = {i1, big}
  Oversized = {big}
  Damages = {1, 3}
  MaxDamage = 6
  Amount = 3
  Bucket = 2
  MatchId = m1
  OtherMatch = m2
  NoInvoice = none
  Refs <- MCRefs
INVARIANTS
  TypeOK
  CapRespected
  LedgerAgrees
  NoUnfundedRelease
  ReleaseExcludesCancel
  DamageAccounted
PROPERTIES
  ReleasedOnce
  ImplementsEscrow
