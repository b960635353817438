\* A read may return several messages.
SPECIFICATION FairSpec
CONSTANTS
  u1 = u1
  u2 = u2
  NoUser = NoUser
  NoAnswer = NoAnswer
  Accounts = {u1, u2}
  MayGlue = TRUE
  MayReject = FALSE
  MayFall = FALSE
  MaxLogins = 2
  MaxCommands = 1
  MaxForwards = 1
  MaxSendFaults = 0
PROPERTIES
  WaitEnds
\* The user quits.
CHECK_DEADLOCK FALSE
