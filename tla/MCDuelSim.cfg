SPECIFICATION SimSpec
CONSTANTS
  Health = 4
  Blows = {1, 3}
  Cooldown = 3
  Harness = TRUE
  SeqMax = 2
PROPERTIES
  ImplementsDuel
CHECK_DEADLOCK FALSE
