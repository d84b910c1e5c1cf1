SPECIFICATION FairRoomsSpec
CONSTANTS
  Codes = {c1, c2}
  Followed = {c1}
  NumEndpoints = 1
  MaxWaiting = 1
  NoRetention = FALSE
INVARIANTS
  TypeOK
  TokensExclusive
  OneOwner
  ReadyIsServed
  WaitingBounded
  ShutdownStopsAll
PROPERTIES
  EndpointReleased
  ProcessStopped
  WaitEnds
  GhostRoomExpires
CHECK_DEADLOCK FALSE
