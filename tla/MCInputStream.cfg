SPECIFICATION StreamSpec
CONSTANTS
  Far = 2
  SeqMax = 3
  WireMax = 2
  MailMax = 2
  PendingMax = 2
INVARIANTS
  NewestInputWins
  PredictionReplays
CHECK_DEADLOCK FALSE
