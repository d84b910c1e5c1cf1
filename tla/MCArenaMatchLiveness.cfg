SPECIFICATION FairMatchSpec
CONSTANTS
  PerPlayer = 1
  Amount = 1
  Bucket = 2
  U16Max = 9
  MatchId = m1
  Refs <- MCRefs
  Invoices = {i1}
  Oversized = {}
  NoInvoice = none
  Damages = {2}
  MaxDamage = 0
  Health = 4
  ExitTimers = {}
  Nobody = nobody
  FaultKinds = {"rpc", "late"}
  MaxFaults = 1
  Desktop = {"B"}
  Holds <- MCHolds
  ChannelLists <- MCPayingLists
PROPERTIES
  ClientExits
  OrdersAreCarriedOut
CHECK_DEADLOCK FALSE
